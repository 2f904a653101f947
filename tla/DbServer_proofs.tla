--------------------------- MODULE DbServer_proofs ---------------------------
(***************************************************************************)
(* The invariants of DbServer that hold for every set of tables, clients   *)
(* and requests and for every queue length; and the subscriptions: what    *)
(* the search for them finds, the counter that limits them, and that a     *)
(* subscriber is never left with a stale value.  At the end the refinement *)
(* of DbAtomic: to its callers the database is an atomic store.            *)
(***************************************************************************)
EXTENDS DbAtomic, TLAPS, SequenceTheorems, FiniteSetTheorems, FunctionTheorems,
        WellFoundedInduction

-----------------------------------------------------------------------------
(* Operators on payload lists *)

\* A nonempty set of positions has a last one.
LEMMA LastIsGreatest ==
    ASSUME NEW n \in Nat, NEW S \in SUBSET (1 .. n), S # {}
    PROVE  Last(S) \in S /\ \A j \in S : j <= Last(S)
<1> DEFINE T == {n - i : i \in S}
<1>1. T \subseteq Nat /\ T # {}
  <2>1. \A i \in S : n - i \in Nat
    OBVIOUS
  <2>2. PICK i \in S : TRUE
    OBVIOUS
  <2>3. n - i \in T
    OBVIOUS
  <2> QED BY <2>1, <2>3
<1>2. PICK x \in T : \A y \in T : ~(<<y, x>> \in OpToRel(<, Nat))
  <2> HIDE DEF T
  <2> QED BY <1>1, NatLessThanWellFounded, WFMin
<1>3. PICK i \in S : x = n - i
  BY DEF T
<1>4. ASSUME NEW j \in S PROVE j <= i
  <2>1. ~(n - j < n - i)
    <3>1. n - j \in T /\ n - j \in Nat /\ n - i \in Nat
      BY DEF T
    <3>2. ~(<<n - j, n - i>> \in OpToRel(<, Nat))
      BY <1>2, <1>3, <3>1
    <3> QED BY <3>1, <3>2 DEF OpToRel
  <2> QED BY <2>1
<1> QED BY <1>4 DEF Last

LEMMA LastIsMember ==
    ASSUME NEW n \in Nat, NEW S \in SUBSET (1 .. n), S # {}
    PROVE  Last(S) \in S
BY LastIsGreatest

\* The number of positions in a set of them.
LEMMA CardinalityOfPositions ==
    ASSUME NEW n \in Nat, NEW S \in SUBSET (1 .. n)
    PROVE  IsFiniteSet(S) /\ Cardinality(S) \in Nat
BY FS_Interval, FS_Subset, FS_CardinalityType, 1 \in Int, n \in Int

\* The data of a payload is a value for each cell in its domain.
LEMMA DataValue ==
    ASSUME NEW p \in Payload, NEW x \in DOMAIN p.data
    PROVE  p.data[x] \in Values
<1>1. PICK S \in SUBSET Cell : p.data \in [S -> Values]
  BY DEF Payload, Data
<1> QED BY <1>1

\* Writing payloads that have a value for every cell they cover leaves a
\* value in every cell (db_data.c:2589-2681).
LEMMA WriteType ==
    ASSUME NEW d \in [Cell -> Values], NEW pay \in Seq(Payload),
           NEW S \in SUBSET (DOMAIN pay),
           \A i \in S : DOMAIN pay[i].data = CellsOf(pay[i].key)
    PROVE  Write(d, pay, S) \in [Cell -> Values]
<1> SUFFICES ASSUME NEW x \in Cell
             PROVE  (IF Covering(pay, S, x) = {} THEN d[x]
                     ELSE pay[Last(Covering(pay, S, x))].data[x]) \in Values
  BY DEF Write
<1>1. CASE Covering(pay, S, x) = {}
  BY <1>1
<1>2. CASE Covering(pay, S, x) # {}
  <2> DEFINE i == Last(Covering(pay, S, x))
  <2>1. i \in Covering(pay, S, x)
    <3>1. Len(pay) \in Nat /\ Covering(pay, S, x) \in SUBSET (1 .. Len(pay))
      BY LenProperties DEF Covering
    <3> QED BY <1>2, <3>1, LastIsMember
  <2>2. i \in S /\ Covers(pay[i].key, x)
    BY <2>1 DEF Covering
  <2>3. x \in DOMAIN pay[i].data
    BY <2>2 DEF CellsOf
  <2>4. pay[i] \in Payload
    BY <2>2, ElementOfSeq, LenProperties
  <2> QED BY <1>2, <2>3, <2>4, DataValue
<1> QED BY <1>1, <1>2

\* A snapshot is a payload list with the same keys and a value for every cell.
LEMMA SnapshotType ==
    ASSUME NEW d \in [Cell -> Values], NEW pay \in Seq(Payload)
    PROVE  /\ Snapshot(d, pay) \in Seq(Payload)
           /\ DOMAIN Snapshot(d, pay) = DOMAIN pay
           /\ \A i \in DOMAIN pay :
                 /\ Snapshot(d, pay)[i].key = pay[i].key
                 /\ DOMAIN Snapshot(d, pay)[i].data = CellsOf(pay[i].key)
<1> DEFINE p(i) == [key |-> pay[i].key, data |-> [x \in CellsOf(pay[i].key) |-> d[x]]]
<1>1. Snapshot(d, pay) = [i \in DOMAIN pay |-> p(i)]
  BY DEF Snapshot
<1>2. ASSUME NEW i \in DOMAIN pay PROVE p(i) \in Payload
  <2>1. pay[i] \in Payload
    BY ElementOfSeq, LenProperties
  <2>2. [x \in CellsOf(pay[i].key) |-> d[x]] \in [CellsOf(pay[i].key) -> Values]
    BY DEF CellsOf
  <2>3. CellsOf(pay[i].key) \in SUBSET Cell
    BY DEF CellsOf
  <2>4. [x \in CellsOf(pay[i].key) |-> d[x]] \in Data
    BY <2>2, <2>3 DEF Data
  <2> QED BY <2>1, <2>4 DEF Payload
<1>3. DOMAIN pay = 1 .. Len(pay) /\ Len(pay) \in Nat
  BY LenProperties
<1>4. Snapshot(d, pay) \in [1 .. Len(pay) -> Payload]
  BY <1>1, <1>2, <1>3
<1>5. Snapshot(d, pay) \in Seq(Payload)
  BY <1>3, <1>4, SeqDef
<1> QED BY <1>1, <1>5
-----------------------------------------------------------------------------
(* The messages the database task makes *)

\* A request carries a queue name and a nonempty payload list.
LEMMA RequestType ==
    ASSUME NEW m \in Requests
    PROVE  /\ m.cq \in Queues \cup {NoName}
           /\ m.method \in Methods
           /\ m.pay \in Seq(Payload) /\ m.pay # <<>>
           /\ DOMAIN m.pay = 1 .. Len(m.pay) /\ Len(m.pay) \in Nat
           /\ 1 \in DOMAIN m.pay
<1>1. m.pay \in Seq(Payload) /\ m.pay # <<>>
  BY ServerAssumption
<1>2. DOMAIN m.pay = 1 .. Len(m.pay) /\ Len(m.pay) \in Nat /\ Len(m.pay) # 0
  BY <1>1, LenProperties, EmptySeq
<1> QED BY <1>1, <1>2, ServerAssumption

\* The queues of the callers are not client queues and belong to one caller.
LEMMA QueueNames ==
    /\ NoName \notin Queues /\ Clients \subseteq Queues
    /\ \A c \in Callers : Blk[c] \in Queues /\ Blk[c] \notin Clients
    /\ \A c, d \in Callers : Blk[c] = Blk[d] => c = d
    /\ Callers \subseteq Clients
BY ServerAssumption DEF Queues

LEMMA ReplyType ==
    ASSUME NEW method \in SentMethods, NEW result \in Nat, NEW pay \in Seq(Payload)
    PROVE  Reply(method, result, pay) \in Message
BY DEF Reply, Message, Carries

LEMMA NoteType ==
    ASSUME NEW method \in SentMethods, NEW pay \in Seq(Payload),
           NEW sel \in SUBSET (DOMAIN pay),
           \A i \in sel : DOMAIN pay[i].data = CellsOf(pay[i].key)
    PROVE  Note(method, pay, sel) \in Message
<1>1. DOMAIN pay \subseteq Nat
  BY LenProperties
<1> QED BY <1>1 DEF Note, Message, Carries

\* The notifications of an update or deletion are well-formed, and there is
\* none for the second queue of a caller.
LEMMA NotesType ==
    ASSUME NEW m \in Requests, m.method \in SentMethods,
           NEW pay \in Seq(Payload), NEW changed \in SUBSET (DOMAIN pay),
           \A i \in changed : DOMAIN pay[i].data = CellsOf(pay[i].key)
    PROVE  /\ Notes(m, pay, changed) \in [Queues -> Seq(Message)]
           /\ \A q \in Queues \ Clients : Notes(m, pay, changed)[q] = <<>>
           /\ \A q \in Queues : /\ Len(Notes(m, pay, changed)[q]) <= 1
                                /\ q = m.cq => Notes(m, pay, changed)[q] = <<>>
<1>1. ASSUME NEW q \in Queues
      PROVE  <<Note(m.method, pay, Selected(q, pay, changed))>> \in Seq(Message)
  <2>1. Selected(q, pay, changed) \subseteq changed
    BY DEF Selected
  <2>2. Note(m.method, pay, Selected(q, pay, changed)) \in Message
    BY <2>1, NoteType
  <2> QED BY <2>2
<1>2. <<>> \in Seq(Message) /\ Len(<<>>) = 0
  BY EmptySeq
<1>3. \A x : Len(<<x>>) = 1
  OBVIOUS
<1>4. \A q \in Queues : Len(Notes(m, pay, changed)[q]) <= 1
  BY <1>2, <1>3 DEF Notes
<1> QED BY <1>1, <1>2, <1>4 DEF Notes

LEMMA NoNotesType ==
    /\ NoNotes \in [Queues -> Seq(Message)]
    /\ \A q \in Queues : NoNotes[q] = <<>> /\ Len(NoNotes[q]) = 0
BY EmptySeq DEF NoNotes

\* What Dispatch makes of a reply and its notifications.
LEMMA DispatchType ==
    ASSUME NEW m \in Requests, NEW reply \in Message,
           NEW notes \in [Queues -> Seq(Message)], Dispatch(m, reply, notes)
    PROVE  /\ pend' \in [Queues -> Seq(Message)]
           /\ cur' \in Queues \cup {NoName}
           /\ Sending'
           /\ \A q \in Queues : Len(pend'[q]) = (IF q = m.cq THEN 1 ELSE 0) + Len(notes[q])
<1>1. <<reply>> \in Seq(Message)
  OBVIOUS
<1>2. ASSUME NEW q \in Queues
      PROVE  /\ pend'[q] \in Seq(Message)
             /\ Len(pend'[q]) = (IF q = m.cq THEN 1 ELSE 0) + Len(notes[q])
             /\ q = m.cq => pend'[q] # <<>>
             /\ q # m.cq => pend'[q] = notes[q]
  <2>1. pend'[q] = IF q = m.cq THEN <<reply>> \o notes[q] ELSE notes[q]
    BY DEF Dispatch
  <2>2. CASE q = m.cq
    <3>1. <<reply>> \o notes[q] \in Seq(Message)
          /\ Len(<<reply>> \o notes[q]) = 1 + Len(notes[q])
      BY <1>1, ConcatProperties
    <3>2. Len(notes[q]) \in Nat
      BY LenProperties
    <3> QED BY <2>1, <2>2, <3>1, <3>2, EmptySeq
  <2>3. CASE q # m.cq
    <3>1. Len(notes[q]) \in Nat
      BY LenProperties
    <3> QED BY <2>1, <2>3, <3>1
  <2> QED BY <2>2, <2>3
<1>3. pend' \in [Queues -> Seq(Message)]
  <2>1. pend' = [q \in Queues |-> IF q = m.cq THEN <<reply>> \o notes[q] ELSE notes[q]]
    BY DEF Dispatch
  <2>2. \A q \in Queues : pend'[q] \in Seq(Message)
    BY <1>2
  <2> QED BY <2>1, <2>2
<1>4. CASE m.cq # NoName
  <2>1. cur' = m.cq /\ m.cq \in Queues
    BY <1>4, RequestType DEF Dispatch
  <2> QED BY <1>2, <1>3, <1>4, <2>1 DEF Sending
<1>5. CASE m.cq = NoName /\ \E q \in Queues : notes[q] # <<>>
  <2>1. PICK q \in Queues : notes[q] # <<>> /\ cur' = q
    BY <1>5 DEF Dispatch
  <2>2. q # m.cq
    BY <1>5, QueueNames
  <2>3. cur' # NoName
    BY <2>1, QueueNames
  <2> QED BY <1>2, <1>3, <2>1, <2>2, <2>3 DEF Sending
<1>6. CASE m.cq = NoName /\ ~\E q \in Queues : notes[q] # <<>>
  <2>1. cur' = NoName
    BY <1>6 DEF Dispatch
  <2>2. pend' = NoNotes
    BY <1>6, QueueNames DEF Dispatch, NoNotes
  <2> QED BY <1>2, <1>3, <2>1, <2>2 DEF Sending
<1> QED BY <1>4, <1>5, <1>6
-----------------------------------------------------------------------------
(* Type correctness: the steps of the database task *)

TellKey == [t : Tables, f : Nat, e : Nat]

FewNotes(m, notes) ==
    \A q \in Queues : /\ Len(notes[q]) <= 1
                      /\ q = m.cq /\ m.method # "SUBSCRIBE" => notes[q] = <<>>

\* What every handler does: it takes a request, sends a well-formed reply and
\* at most one notification per client, none of these to a second queue and,
\* but for a subscription, none to the sender, and stores well-formed data.
Serving ==
    /\ \E method \in Methods : Take(method)
    /\ \E reply \in Message, notes \in [Queues -> Seq(Message)] :
         /\ Dispatch(Head(dbq), reply, notes)
         /\ \A q \in Queues \ Clients : notes[q] = <<>>
         /\ FewNotes(Head(dbq), notes)
    /\ db' \in [Cell -> Values]
    /\ subs' \subseteq Clients \X TellKey /\ subCount' \in Int
    /\ writer' \in [Cell -> Clients \cup {NoName}]
    /\ refused' \subseteq Clients

LEMMA ServingTyped == Typed /\ Serving => Typed'
<1> SUFFICES ASSUME Typed, Serving PROVE Typed'
  OBVIOUS
<1>0. PICK method \in Methods : Take(method)
  BY DEF Serving
<1>1. Head(dbq) \in Requests /\ dbq' \in Seq(Requests) /\ Len(dbq') <= DbqLen
  <2>1. dbq \in Seq(Requests) /\ dbq # <<>> /\ dbq' = Tail(dbq) /\ Len(dbq) <= DbqLen
    BY <1>0 DEF Typed, TypeOK, Take
  <2>2. Len(dbq) \in Nat /\ DbqLen \in Nat
    BY <2>1, LenProperties, ServerAssumption
  <2> QED BY <2>1, <2>2, HeadTailProperties
<1>2. pend' \in [Queues -> Seq(Message)] /\ cur' \in Queues \cup {NoName} /\ Sending'
  BY <1>1, DispatchType DEF Serving
<1>3. UNCHANGED <<cq, pc, out, left, view, safe>>
  BY <1>0 DEF Take, cliVars
<1>4. TypeOK'
  BY <1>1, <1>2, <1>3 DEF Typed, TypeOK, TellKey, Serving
<1>5. Holding'
  BY <1>3 DEF Typed, Holding, IsCall
<1> QED BY <1>2, <1>4, <1>5 DEF Typed

LEMMA TakenRequest ==
    ASSUME Typed, NEW method, Take(method)
    PROVE  Head(dbq) \in Requests /\ Head(dbq).method = method
<1>1. dbq \in Seq(Requests) /\ dbq # <<>>
  BY DEF Typed, TypeOK, Take
<1> QED BY <1>1, HeadTailProperties DEF Take

\* The positions in front of a failing payload, and the answer they give.
LEMMA PrefixSized ==
    ASSUME NEW m \in Requests
    PROVE  /\ Prefix(Sized(m.pay)) \in SUBSET (DOMAIN m.pay)
           /\ \A i \in Prefix(Sized(m.pay)) : DOMAIN m.pay[i].data = CellsOf(m.pay[i].key)
           /\ FailedIndex(m.pay, Prefix(Sized(m.pay))) \in Nat
<1>1. Prefix(Sized(m.pay)) \in SUBSET (DOMAIN m.pay)
  BY DEF Prefix, Sized
<1>2. \A i \in Prefix(Sized(m.pay)) : DOMAIN m.pay[i].data = CellsOf(m.pay[i].key)
  BY DEF Prefix, Sized
<1>3. Cardinality(Prefix(Sized(m.pay))) \in Nat
  BY <1>1, RequestType, CardinalityOfPositions
<1> QED BY <1>1, <1>2, <1>3 DEF FailedIndex, MW_E_OK

LEMMA PrefixEmpty ==
    ASSUME NEW m \in Requests
    PROVE  Prefix(Empty(m.pay)) \in SUBSET (DOMAIN m.pay)
BY DEF Prefix, Empty

LEMMA GetServing == Typed /\ Get => Serving
<1> SUFFICES ASSUME Typed, Get PROVE Serving
  OBVIOUS
<1> DEFINE m == Head(dbq)
           done == Prefix(Sized(m.pay))
           data == [i \in DOMAIN m.pay |->
                      IF i \in done THEN Snapshot(db, m.pay)[i] ELSE m.pay[i]]
           reply == Reply("RESPONSE", FailedIndex(m.pay, done), data)
<1>1. Take("GET") /\ Dispatch(m, reply, NoNotes) /\ UNCHANGED <<db, subs, subCount, writer, refused>>
  BY DEF Get
<1>2. m \in Requests
  BY <1>1, TakenRequest
<1>3. data \in Seq(Payload)
  <2>1. db \in [Cell -> Values]
    BY DEF Typed, TypeOK
  <2>2. m.pay \in Seq(Payload) /\ DOMAIN m.pay = 1 .. Len(m.pay) /\ Len(m.pay) \in Nat
    BY <1>2, RequestType
  <2>3. Snapshot(db, m.pay) \in Seq(Payload) /\ DOMAIN Snapshot(db, m.pay) = DOMAIN m.pay
    BY <2>1, <2>2, SnapshotType
  <2>4. \A i \in DOMAIN m.pay : m.pay[i] \in Payload /\ Snapshot(db, m.pay)[i] \in Payload
    BY <2>2, <2>3, ElementOfSeq, LenProperties
  <2>5. data \in [1 .. Len(m.pay) -> Payload]
    BY <2>2, <2>4
  <2> HIDE DEF data
  <2> QED BY <2>2, <2>5, SeqDef
<1>4. FailedIndex(m.pay, done) \in Nat
  BY <1>2, PrefixSized
<1>5. reply \in Message
  <2> HIDE DEF data, done
  <2> QED BY <1>3, <1>4, ReplyType DEF SentMethods
<1>6. /\ db' \in [Cell -> Values] /\ subs' \subseteq Clients \X TellKey
      /\ subCount' \in Int /\ writer' \in [Cell -> Clients \cup {NoName}]
      /\ refused' \subseteq Clients
  BY <1>1 DEF Typed, TypeOK, TellKey
<1> HIDE DEF reply, m
<1>7. FewNotes(m, NoNotes)
  BY NoNotesType DEF FewNotes
<1> QED BY <1>1, <1>5, <1>6, <1>7, NoNotesType, QueueNames, TakenRequest DEF Serving, Methods, m

\* What Store leaves in the tables and in the history.
LEMMA StoreType ==
    ASSUME Typed, NEW m \in Requests, NEW pay \in Seq(Payload),
           NEW S \in SUBSET (DOMAIN pay),
           \A i \in S : DOMAIN pay[i].data = CellsOf(pay[i].key),
           Store(m, pay, S)
    PROVE  db' \in [Cell -> Values] /\ writer' \in [Cell -> Clients \cup {NoName}]
<1>1. db \in [Cell -> Values] /\ writer \in [Cell -> Clients \cup {NoName}]
  BY DEF Typed, TypeOK
<1>2. db' \in [Cell -> Values]
  BY <1>1, WriteType DEF Store
<1>3. writer' = [x \in Cell |-> IF db'[x] = db[x] THEN writer[x]
                               ELSE IF m.cq \in Clients THEN m.cq ELSE NoName]
  BY DEF Store
<1> QED BY <1>1, <1>2, <1>3

LEMMA UpdateServing == Typed /\ Update => Serving
<1> SUFFICES ASSUME Typed, Update PROVE Serving
  OBVIOUS
<1> DEFINE m == Head(dbq)
           done == Prefix(Sized(m.pay))
           result == IF FailedIndex(m.pay, done) = 1 THEN 1 ELSE MW_E_OK
           reply == Reply("RESPONSE", result, m.pay)
           changed == Updated(db, m.pay, done)
           notes == Notes(m, m.pay, changed)
<1>1. /\ Take("UPDATE") /\ Store(m, m.pay, done) /\ Dispatch(m, reply, notes)
      /\ UNCHANGED <<subs, subCount, refused>>
  BY DEF Update
<1>2. m \in Requests /\ m.method = "UPDATE"
  BY <1>1, TakenRequest
<1>3. m.pay \in Seq(Payload)
  BY <1>2, RequestType
<1>4. /\ done \in SUBSET (DOMAIN m.pay)
      /\ \A i \in done : DOMAIN m.pay[i].data = CellsOf(m.pay[i].key)
  BY <1>2, PrefixSized
<1>5. reply \in Message
  BY <1>3, ReplyType DEF SentMethods, MW_E_OK
<1>6. changed \in SUBSET done
  BY DEF Updated
<1>7. /\ notes \in [Queues -> Seq(Message)] /\ \A q \in Queues \ Clients : notes[q] = <<>>
      /\ FewNotes(m, notes)
  <2> HIDE DEF done, changed, m
  <2> QED BY <1>2, <1>3, <1>4, <1>6, NotesType DEF SentMethods, FewNotes
<1>8. db' \in [Cell -> Values] /\ writer' \in [Cell -> Clients \cup {NoName}]
  <2> HIDE DEF done, m
  <2> QED BY <1>1, <1>2, <1>3, <1>4, StoreType
<1>9. subs' \subseteq Clients \X TellKey /\ subCount' \in Int /\ refused' \subseteq Clients
  BY <1>1 DEF Typed, TypeOK, TellKey
<1> HIDE DEF reply, notes, m
<1> QED BY <1>1, <1>5, <1>7, <1>8, <1>9, QueueNames, TakenRequest DEF Serving, Methods, m

\* What a deletion writes, and what its notification carries.
Overwritten(d, pay) ==
    [i \in DOMAIN pay |->
        Snapshot(Before(d, Zeroed(pay), Prefix(Empty(pay)), i), pay)[i]]

LEMMA OverwrittenType ==
    ASSUME NEW d \in [Cell -> Values], NEW m \in Requests
    PROVE  /\ Zeroed(m.pay) \in Seq(Payload) /\ DOMAIN Zeroed(m.pay) = DOMAIN m.pay
           /\ Overwritten(d, m.pay) \in Seq(Payload)
           /\ DOMAIN Overwritten(d, m.pay) = DOMAIN m.pay
           /\ \A i \in DOMAIN m.pay :
                 /\ Zeroed(m.pay)[i].key = m.pay[i].key
                 /\ DOMAIN Zeroed(m.pay)[i].data = CellsOf(m.pay[i].key)
                 /\ Overwritten(d, m.pay)[i].key = m.pay[i].key
                 /\ DOMAIN Overwritten(d, m.pay)[i].data = CellsOf(m.pay[i].key)
<1> DEFINE done == Prefix(Empty(m.pay))
           zero == Zeroed(m.pay)
           old == [i \in DOMAIN m.pay |->
                      Snapshot(Before(d, zero, done, i), m.pay)[i]]
<1>1. /\ m.pay \in Seq(Payload) /\ DOMAIN m.pay = 1 .. Len(m.pay) /\ Len(m.pay) \in Nat
      /\ done \in SUBSET (DOMAIN m.pay)
  BY RequestType, PrefixEmpty
<1>2. /\ zero \in Seq(Payload) /\ DOMAIN zero = DOMAIN m.pay
      /\ \A i \in DOMAIN m.pay :
            zero[i].key = m.pay[i].key /\ DOMAIN zero[i].data = CellsOf(zero[i].key)
  <2>1. [x \in Cell |-> Zero] \in [Cell -> Values]
    BY ServerAssumption
  <2> QED BY <1>1, <2>1, SnapshotType DEF Zeroed
<1>3. ASSUME NEW i \in DOMAIN m.pay
      PROVE  LET p == Snapshot(Before(d, zero, done, i), m.pay)[i]
             IN  p \in Payload /\ p.key = m.pay[i].key /\ DOMAIN p.data = CellsOf(p.key)
  <2> DEFINE S == {j \in done : j < i}
             b == Before(d, zero, done, i)
  <2>1. S \in SUBSET (DOMAIN zero)
    BY <1>1, <1>2
  <2>2. b \in [Cell -> Values]
    <3> HIDE DEF zero, S
    <3>1. Write(d, zero, S) \in [Cell -> Values]
      BY <1>2, <2>1, WriteType
    <3> QED BY <3>1 DEF Before, S
  <2> HIDE DEF b
  <2>3. /\ Snapshot(b, m.pay) \in Seq(Payload)
        /\ DOMAIN Snapshot(b, m.pay) = DOMAIN m.pay
        /\ Snapshot(b, m.pay)[i].key = m.pay[i].key
        /\ DOMAIN Snapshot(b, m.pay)[i].data = CellsOf(m.pay[i].key)
    BY <1>1, <2>2, SnapshotType
  <2>4. Snapshot(b, m.pay)[i] \in Payload
    BY <2>3, ElementOfSeq, LenProperties
  <2> QED BY <2>3, <2>4 DEF b
<1>4. old \in Seq(Payload) /\ DOMAIN old = DOMAIN m.pay
  <2>1. old \in [1 .. Len(m.pay) -> Payload]
    BY <1>1, <1>3
  <2> HIDE DEF old
  <2> QED BY <1>1, <2>1, SeqDef
<1>5. old = Overwritten(d, m.pay)
  BY DEF Overwritten
<1> QED BY <1>2, <1>3, <1>4, <1>5

LEMMA DeleteServing == Typed /\ Delete => Serving
<1> SUFFICES ASSUME Typed, Delete PROVE Serving
  OBVIOUS
<1> DEFINE m == Head(dbq)
           done == Prefix(Empty(m.pay))
           zero == Zeroed(m.pay)
           result == IF done = {} THEN MW_E_OP_STOPPED ELSE MW_E_OK
           reply == Reply("RESPONSE", result, m.pay)
           changed == Updated(db, zero, done)
           old == [i \in DOMAIN m.pay |->
                      Snapshot(Before(db, zero, done, i), m.pay)[i]]
           notes == Notes(m, old, changed)
<1>1. /\ Take("DELETE") /\ Store(m, zero, done) /\ Dispatch(m, reply, notes)
      /\ UNCHANGED <<subs, subCount, refused>>
  BY DEF Delete
<1>2. m \in Requests /\ m.method = "DELETE"
  BY <1>1, TakenRequest
<1>3. m.pay \in Seq(Payload)
  BY <1>2, RequestType
<1>4. done \in SUBSET (DOMAIN m.pay)
  BY <1>2, PrefixEmpty
<1>5. reply \in Message
  BY <1>3, ReplyType DEF SentMethods, MW_E_OK, MW_E_OP_STOPPED
<1>6. changed \in SUBSET done
  BY DEF Updated
<1>7. db \in [Cell -> Values]
  BY DEF Typed, TypeOK
<1>8. /\ zero \in Seq(Payload) /\ DOMAIN zero = DOMAIN m.pay
      /\ old \in Seq(Payload) /\ DOMAIN old = DOMAIN m.pay
      /\ \A i \in DOMAIN zero : DOMAIN zero[i].data = CellsOf(zero[i].key)
      /\ \A i \in DOMAIN old : DOMAIN old[i].data = CellsOf(old[i].key)
  <2>1. old = Overwritten(db, m.pay)
    BY DEF Overwritten
  <2> HIDE DEF old, zero, m
  <2> QED BY <1>2, <1>7, <2>1, OverwrittenType DEF zero
<1>10. /\ notes \in [Queues -> Seq(Message)] /\ \A q \in Queues \ Clients : notes[q] = <<>>
       /\ FewNotes(m, notes)
  <2> HIDE DEF done, changed, m, old
  <2> QED BY <1>2, <1>4, <1>6, <1>8, NotesType DEF SentMethods, FewNotes
<1>11. db' \in [Cell -> Values] /\ writer' \in [Cell -> Clients \cup {NoName}]
  <2> HIDE DEF done, m, zero
  <2> QED BY <1>1, <1>2, <1>4, <1>8, StoreType
<1>12. subs' \subseteq Clients \X TellKey /\ subCount' \in Int /\ refused' \subseteq Clients
  BY <1>1 DEF Typed, TypeOK, TellKey
<1> HIDE DEF reply, notes, m
<1> QED BY <1>1, <1>5, <1>10, <1>11, <1>12, QueueNames, TakenRequest DEF Serving, Methods, m

\* The keys of a request under its queue name.
LEMMA SubscriptionsType ==
    ASSUME NEW m \in Requests, m.cq \in Clients, NEW S \in SUBSET (DOMAIN m.pay)
    PROVE  /\ {<<m.cq, m.pay[i].key>> : i \in S} \subseteq Clients \X TellKey
           /\ Cardinality(S) \in Nat
<1>1. \A i \in S : m.pay[i] \in Payload
  BY RequestType, ElementOfSeq
<1>2. Cardinality(S) \in Nat
  BY RequestType, CardinalityOfPositions
<1> QED BY <1>1, <1>2 DEF Payload, TellKey

LEMMA SubscribeServing == Typed /\ Subscribe => Serving
<1> SUFFICES ASSUME Typed, Subscribe PROVE Serving
  OBVIOUS
<1> DEFINE m == Head(dbq)
           added == IF m.cq \in Special THEN {} ELSE Added(m)
           stored == SubscribeResult(m)
           sized == \A i \in DOMAIN m.pay : m.pay[i].key \in Key
           result == IF stored = MW_E_OK /\ ~sized THEN MW_E_BAD_PARAMETER
                     ELSE stored
           first == Note("GET", Snapshot(db, m.pay), DOMAIN m.pay)
           reply == Reply("ACK", result, m.pay)
           notes == [NoNotes EXCEPT ![m.cq] =
                        IF result = MW_E_OK THEN <<first>> ELSE <<>>]
<1>1. /\ Take("SUBSCRIBE") /\ Dispatch(m, reply, notes)
      /\ subs' = subs \cup {<<m.cq, m.pay[i].key>> : i \in added}
      /\ subCount' = subCount + Cardinality(added)
      /\ refused' = IF result = MW_E_OK THEN refused ELSE refused \cup {m.cq}
      /\ UNCHANGED <<db, writer>>
  BY DEF Subscribe
<1>2. m \in Requests /\ m.method = "SUBSCRIBE"
  BY <1>1, TakenRequest
<1>3. m.pay \in Seq(Payload) /\ m.cq \in Clients
  BY <1>2, RequestType, ServerAssumption
<1>4. added \in SUBSET (DOMAIN m.pay)
  BY DEF Added
<1>5. stored \in Nat
  <2>1. Room \in Int
    BY ServerAssumption DEF Typed, TypeOK, Room
  <2>2. Room <= 0 \/ Room > 0
    BY <2>1
  <2> HIDE DEF m
  <2> QED BY <2>2 DEF SubscribeResult, MW_E_OK, MW_E_NO_MEMORY
<1>6. reply \in Message
  <2>1. result \in Nat
    BY <1>5 DEF MW_E_OK, MW_E_BAD_PARAMETER
  <2> HIDE DEF result, m
  <2> QED BY <1>3, <2>1, ReplyType DEF SentMethods
<1>7. db \in [Cell -> Values] /\ subs \subseteq Clients \X TellKey /\ subCount \in Int
      /\ writer \in [Cell -> Clients \cup {NoName}] /\ refused \subseteq Clients
  BY DEF Typed, TypeOK, TellKey
<1>8. first \in Message
  <2>1. LET pay == Snapshot(db, m.pay)
        IN  /\ pay \in Seq(Payload) /\ DOMAIN pay = DOMAIN m.pay
            /\ \A i \in DOMAIN pay : DOMAIN pay[i].data = CellsOf(pay[i].key)
    BY <1>3, <1>7, SnapshotType
  <2> HIDE DEF m
  <2> QED BY <2>1, NoteType DEF SentMethods
<1>9. /\ notes \in [Queues -> Seq(Message)] /\ \A q \in Queues \ Clients : notes[q] = <<>>
      /\ FewNotes(m, notes)
  <2> DEFINE own == IF result = MW_E_OK THEN <<first>> ELSE <<>>
  <2>1. own \in Seq(Message) /\ Len(own) <= 1
    <3> HIDE DEF first, result
    <3>1. Len(<<first>>) = 1 /\ Len(<<>>) = 0
      BY EmptySeq
    <3> QED BY <1>8, <3>1, EmptySeq
  <2>2. PICK o \in Seq(Message) : o = own /\ Len(o) <= 1
    BY <2>1
  <2>3. PICK N : N = [NoNotes EXCEPT ![m.cq] = o]
    OBVIOUS
  <2>4. N = notes
    BY <2>2, <2>3
  <2> HIDE DEF notes, m
  <2>5. \A q \in Queues : N[q] = IF q = m.cq THEN o ELSE <<>>
    BY <2>3, NoNotesType
  <2>6. N \in [Queues -> Seq(Message)] /\ \A q \in Queues \ Clients : N[q] = <<>>
    BY <1>3, <2>3, <2>5, NoNotesType
  <2>7. \A q \in Queues : Len(N[q]) <= 1
    <3>1. Len(<<>>) = 0 /\ Len(o) <= 1
      BY <2>2, EmptySeq
    <3> QED BY <2>5, <3>1
  <2> QED BY <1>2, <2>4, <2>6, <2>7 DEF FewNotes
<1>10. subs' \subseteq Clients \X TellKey /\ subCount' \in Int /\ refused' \subseteq Clients
  <2> HIDE DEF added, result, m
  <2>1. {<<m.cq, m.pay[i].key>> : i \in added} \subseteq Clients \X TellKey
        /\ Cardinality(added) \in Nat
    BY <1>2, <1>3, <1>4, SubscriptionsType
  <2> QED BY <1>1, <1>3, <1>7, <2>1
<1>11. db' \in [Cell -> Values] /\ writer' \in [Cell -> Clients \cup {NoName}]
  BY <1>1, <1>7
<1> HIDE DEF reply, notes, m
<1> QED BY <1>1, <1>6, <1>9, <1>10, <1>11, QueueNames, TakenRequest DEF Serving, Methods, m

LEMMA UnsubscribeServing == Typed /\ Unsubscribe => Serving
<1> SUFFICES ASSUME Typed, Unsubscribe PROVE Serving
  OBVIOUS
<1> DEFINE m == Head(dbq)
           gone == IF m.cq \in Special THEN {} ELSE Removed(m)
           result == IF m.cq \in Special \/ gone = DOMAIN m.pay
                     THEN MW_E_OK ELSE MW_E_ENTRY_NOT_FOUND
           reply == Reply("ACK", result, m.pay)
<1>1. /\ Take("UNSUBSCRIBE") /\ Dispatch(m, reply, NoNotes)
      /\ subs' = subs \ {<<m.cq, m.pay[i].key>> : i \in gone}
      /\ subCount' = subCount - Cardinality(gone)
      /\ UNCHANGED <<db, writer, refused>>
  BY DEF Unsubscribe
<1>2. m \in Requests /\ m.method = "UNSUBSCRIBE"
  BY <1>1, TakenRequest
<1>3. m.pay \in Seq(Payload) /\ m.cq \in Clients
  BY <1>2, RequestType, ServerAssumption
<1>4. gone \in SUBSET (DOMAIN m.pay)
  BY DEF Removed
<1>5. reply \in Message
  BY <1>3, ReplyType DEF SentMethods, MW_E_OK, MW_E_ENTRY_NOT_FOUND
<1>6. /\ subs' \subseteq Clients \X TellKey /\ subCount' \in Int
      /\ db' \in [Cell -> Values] /\ writer' \in [Cell -> Clients \cup {NoName}]
      /\ refused' \subseteq Clients
  <2> HIDE DEF gone, m
  <2>1. Cardinality(gone) \in Nat
    BY <1>2, <1>3, <1>4, SubscriptionsType
  <2> QED BY <1>1, <2>1 DEF Typed, TypeOK, TellKey
<1> HIDE DEF reply, m
<1>7. FewNotes(m, NoNotes)
  BY NoNotesType DEF FewNotes
<1> QED BY <1>1, <1>5, <1>6, <1>7, NoNotesType, QueueNames, TakenRequest DEF Serving, Methods, m

LEMMA ServeServing == Typed /\ Serve => Serving
BY GetServing, UpdateServing, DeleteServing, SubscribeServing, UnsubscribeServing
   DEF Serve

\* A delivery moves the head of what is pending into a queue with room.
LEMMA DeliverTyped == ASSUME NEW q \in Queues PROVE Typed /\ Deliver(q) => Typed'
<1> SUFFICES ASSUME Typed, Deliver(q) PROVE Typed'
  OBVIOUS
<1>1. /\ cq \in [Queues -> Seq(Message)] /\ pend \in [Queues -> Seq(Message)]
      /\ cur = q /\ q # NoName /\ pend[q] # <<>>
      /\ Cap[q] \in Nat /\ Len(cq[q]) < Cap[q]
      /\ \A r \in Queues : Len(cq[r]) <= Cap[r]
  BY QueueNames, ServerAssumption DEF Typed, TypeOK, Sending, Deliver
<1>2. Head(pend[q]) \in Message /\ Tail(pend[q]) \in Seq(Message)
  BY <1>1, HeadTailProperties
<1>3. /\ Append(cq[q], Head(pend[q])) \in Seq(Message)
      /\ Len(Append(cq[q], Head(pend[q]))) <= Cap[q]
  <2>1. Len(Append(cq[q], Head(pend[q]))) = Len(cq[q]) + 1 /\ Len(cq[q]) \in Nat
    BY <1>1, <1>2, AppendProperties, LenProperties
  <2> QED BY <1>1, <1>2, <2>1, AppendProperties
<1>4. cq' \in [Queues -> Seq(Message)] /\ \A r \in Queues : Len(cq'[r]) <= Cap[r]
  BY <1>1, <1>3 DEF Deliver
<1>5. pend' \in [Queues -> Seq(Message)] /\ pend'[q] = Tail(pend[q])
  BY <1>1, <1>2 DEF Deliver
<1>6. cur' \in Queues \cup {NoName} /\ Sending'
  <2>1. CASE pend'[q] # <<>>
    BY <1>1, <2>1 DEF Deliver, Sending
  <2>2. CASE pend'[q] = <<>> /\ \E r \in Queues : pend'[r] # <<>>
    <3>1. PICK r \in Queues : pend'[r] # <<>> /\ cur' = r
      BY <2>2 DEF Deliver
    <3> QED BY <3>1, QueueNames DEF Sending
  <2>3. CASE ~\E r \in Queues : pend'[r] # <<>>
    <3>1. cur' = NoName
      BY <2>3 DEF Deliver
    <3>2. pend' = NoNotes
      BY <1>5, <2>3 DEF NoNotes
    <3> QED BY <3>1, <3>2 DEF Sending
  <2> QED BY <2>1, <2>2, <2>3
<1>7. UNCHANGED <<db, subs, subCount, dbq, writer, refused, pc, out, left, view, safe>>
  BY DEF Deliver, cliVars
<1>8. TypeOK'
  BY <1>4, <1>5, <1>6, <1>7 DEF Typed, TypeOK
<1>9. Holding'
  BY <1>7 DEF Typed, Holding, IsCall
<1> QED BY <1>6, <1>8, <1>9 DEF Typed
-----------------------------------------------------------------------------
(* Type correctness: the steps of the clients *)

\* A request enters dbq while there is room for it.
LEMMA EnqueueType ==
    ASSUME Typed, NEW c \in Clients, NEW m \in Requests,
           Len(dbq) < DbqLen, Enqueue(c, m)
    PROVE  /\ dbq' \in Seq(Requests) /\ Len(dbq') <= DbqLen
           /\ pc' \in [Clients -> {"loop", "send", "wait"}]
           /\ safe' \in [Clients -> BOOLEAN]
           /\ pc' = [pc EXCEPT ![c] = IF IsCall(c, m) THEN "wait" ELSE "loop"]
<1>1. /\ dbq \in Seq(Requests) /\ Len(dbq) \in Nat /\ DbqLen \in Nat
      /\ pc \in [Clients -> {"loop", "send", "wait"}]
      /\ safe \in [Clients -> BOOLEAN]
  BY LenProperties, ServerAssumption DEF Typed, TypeOK
<1>2. dbq' \in Seq(Requests) /\ Len(dbq') = Len(dbq) + 1
  BY <1>1, AppendProperties DEF Enqueue
<1>3. pc' \in [Clients -> {"loop", "send", "wait"}]
  BY <1>1 DEF Enqueue
<1>4. safe' \in [Clients -> BOOLEAN]
  <2> DEFINE b == Len(cq[c]) + Len(pend[c]) + Ahead(c, Len(dbq)) <= Cap[c]
  <2>1. safe' = [safe EXCEPT ![c] = b]
    BY DEF Enqueue
  <2>2. b \in BOOLEAN
    OBVIOUS
  <2> HIDE DEF b
  <2> QED BY <1>1, <2>1, <2>2
<1> QED BY <1>1, <1>2, <1>3, <1>4 DEF Enqueue

LEMMA SendTyped ==
    ASSUME NEW c \in Clients, NEW m \in Requests PROVE Typed /\ Send(c, m) => Typed'
<1> SUFFICES ASSUME Typed, Send(c, m) PROVE Typed'
  OBVIOUS
<1>1. /\ pc[c] = "loop" /\ left[c] > 0 /\ left' = [left EXCEPT ![c] = @ - 1]
      /\ m.cq \in {c, NoName} \/ IsCall(c, m)
      /\ UNCHANGED <<srvVars, cq, view>>
  BY DEF Send
<1>2. /\ pc \in [Clients -> {"loop", "send", "wait"}]
      /\ out \in [Clients -> {<<>>} \cup {<<n>> : n \in Requests}]
  BY DEF Typed, TypeOK
<1>3. left' \in [Clients -> 0 .. MaxSends]
  <2>1. left \in [Clients -> 0 .. MaxSends] /\ MaxSends \in Nat
    BY ServerAssumption DEF Typed, TypeOK
  <2>2. left[c] - 1 \in 0 .. MaxSends
    BY <1>1, <2>1
  <2> QED BY <1>1, <2>1, <2>2
<1>4. CASE Len(dbq) < DbqLen /\ Enqueue(c, m) /\ UNCHANGED out
  <2>1. /\ dbq' \in Seq(Requests) /\ Len(dbq') <= DbqLen
        /\ pc' \in [Clients -> {"loop", "send", "wait"}]
        /\ safe' \in [Clients -> BOOLEAN]
        /\ pc' = [pc EXCEPT ![c] = IF IsCall(c, m) THEN "wait" ELSE "loop"]
    BY <1>4, EnqueueType
  <2>2. TypeOK'
    BY <1>1, <1>3, <1>4, <2>1 DEF Typed, TypeOK, srvVars
  <2>3. Sending'
    BY <1>1 DEF Typed, Sending, srvVars
  <2>4. Holding'
    BY <1>2, <1>4, <2>1 DEF Typed, Holding, IsCall
  <2> QED BY <2>2, <2>3, <2>4 DEF Typed
<1>5. CASE /\ pc' = [pc EXCEPT ![c] = "send"]
           /\ out' = [out EXCEPT ![c] = <<m>>]
           /\ UNCHANGED <<dbq, safe>>
  <2>1. /\ pc' \in [Clients -> {"loop", "send", "wait"}]
        /\ out' \in [Clients -> {<<>>} \cup {<<n>> : n \in Requests}]
    BY <1>2, <1>5
  <2>2. TypeOK'
    BY <1>1, <1>3, <1>5, <2>1 DEF Typed, TypeOK, srvVars
  <2>3. Sending'
    BY <1>1 DEF Typed, Sending, srvVars
  <2>4. Holding'
    <3> SUFFICES ASSUME NEW d \in Clients, pc'[d] = "send"
                 PROVE  \E n \in Requests : /\ out'[d] = <<n>>
                                            /\ n.cq \in {d, NoName} \/ IsCall(d, n)
      BY DEF Holding, IsCall
    <3>1. CASE d = c
      BY <1>1, <1>2, <1>5, <3>1
    <3>2. CASE d # c
      BY <1>2, <1>5, <3>2 DEF Typed, Holding
    <3> QED BY <3>1, <3>2
  <2> QED BY <2>2, <2>3, <2>4 DEF Typed
<1>6. CASE UNCHANGED <<dbq, pc, out, safe>>
  <2>1. TypeOK'
    BY <1>1, <1>3, <1>6 DEF Typed, TypeOK, srvVars
  <2>2. Sending'
    BY <1>1 DEF Typed, Sending, srvVars
  <2>3. Holding'
    BY <1>6 DEF Typed, Holding, IsCall
  <2> QED BY <2>1, <2>2, <2>3 DEF Typed
<1> QED BY <1>4, <1>5, <1>6 DEF Send

LEMMA ResumeTyped == ASSUME NEW c \in Clients PROVE Typed /\ Resume(c) => Typed'
<1> SUFFICES ASSUME Typed, Resume(c) PROVE Typed'
  OBVIOUS
<1>1. PICK m \in Requests : out[c] = <<m>> /\ (m.cq \in {c, NoName} \/ IsCall(c, m))
  BY DEF Typed, Holding, Resume
<1>2. Head(out[c]) = m
  BY <1>1
<1>3. /\ Len(dbq) < DbqLen /\ Enqueue(c, m) /\ out' = [out EXCEPT ![c] = <<>>]
      /\ UNCHANGED <<srvVars, cq, left, view>>
  BY <1>2 DEF Resume
<1>4. /\ dbq' \in Seq(Requests) /\ Len(dbq') <= DbqLen
      /\ pc' \in [Clients -> {"loop", "send", "wait"}]
      /\ safe' \in [Clients -> BOOLEAN]
      /\ pc' = [pc EXCEPT ![c] = IF IsCall(c, m) THEN "wait" ELSE "loop"]
  BY <1>3, EnqueueType
<1>5. out' \in [Clients -> {<<>>} \cup {<<n>> : n \in Requests}]
  BY <1>3 DEF Typed, TypeOK
<1>6. TypeOK'
  BY <1>3, <1>4, <1>5 DEF Typed, TypeOK, srvVars
<1>7. Sending'
  BY <1>3 DEF Typed, Sending, srvVars
<1>8. Holding'
  <2> SUFFICES ASSUME NEW d \in Clients, pc'[d] = "send"
               PROVE  \E n \in Requests : /\ out'[d] = <<n>>
                                          /\ n.cq \in {d, NoName} \/ IsCall(d, n)
    BY DEF Holding, IsCall
  <2>1. pc \in [Clients -> {"loop", "send", "wait"}]
        /\ out \in [Clients -> {<<>>} \cup {<<n>> : n \in Requests}]
    BY DEF Typed, TypeOK
  <2>2. d # c /\ pc[d] = "send" /\ out'[d] = out[d]
    BY <1>3, <1>4, <2>1
  <2> QED BY <2>2 DEF Typed, Holding
<1> QED BY <1>6, <1>7, <1>8 DEF Typed

\* A message that says something of a cell has a value for it.
LEMMA SaysType ==
    ASSUME NEW m \in Message, NEW x \in Cell, Mentions(m, x)
    PROVE  Says(m, x) \in Values
<1>1. CASE m.method = "DELETE"
  BY <1>1, ServerAssumption DEF Says
<1>2. CASE m.method # "DELETE"
  <2> DEFINE i == Last(Covering(m.pay, m.sel, x))
  <2>1. /\ m.pay \in Seq(Payload) /\ m.sel \subseteq DOMAIN m.pay
        /\ \A j \in m.sel : DOMAIN m.pay[j].data = CellsOf(m.pay[j].key)
    BY DEF Message, Carries
  <2>2. i \in Covering(m.pay, m.sel, x)
    <3>1. Len(m.pay) \in Nat /\ Covering(m.pay, m.sel, x) \in SUBSET (1 .. Len(m.pay))
      BY <2>1, LenProperties DEF Covering
    <3> QED BY <3>1, LastIsMember DEF Mentions
  <2>3. i \in m.sel /\ Covers(m.pay[i].key, x)
    BY <2>2 DEF Covering
  <2>4. x \in DOMAIN m.pay[i].data
    BY <2>1, <2>3 DEF CellsOf
  <2>5. m.pay[i] \in Payload
    BY <2>1, <2>3, ElementOfSeq, LenProperties
  <2>6. m.pay[i].data[x] \in Values
    BY <2>4, <2>5, DataValue
  <2> QED BY <1>2, <2>6 DEF Says
<1> QED BY <1>1, <1>2

\* A queue from which a client takes a message keeps its type and length.
LEMMA TailOfQueue ==
    ASSUME Typed, NEW q \in Queues, cq[q] # <<>>,
           cq' = [cq EXCEPT ![q] = Tail(@)]
    PROVE  /\ cq' \in [Queues -> Seq(Message)]
           /\ \A r \in Queues : Len(cq'[r]) <= Cap[r]
           /\ Head(cq[q]) \in Message
           /\ Len(cq'[q]) = Len(cq[q]) - 1
           /\ Len(cq[q]) \in Nat
<1>1. /\ cq \in [Queues -> Seq(Message)] /\ \A r \in Queues : Len(cq[r]) <= Cap[r]
      /\ Len(cq[q]) \in Nat /\ Cap[q] \in Nat
  BY LenProperties, ServerAssumption DEF Typed, TypeOK
<1>2. /\ Head(cq[q]) \in Message /\ Tail(cq[q]) \in Seq(Message)
      /\ Len(Tail(cq[q])) = Len(cq[q]) - 1
  BY <1>1, HeadTailProperties
<1> QED BY <1>1, <1>2

LEMMA ReceiveTyped == ASSUME NEW c \in Clients PROVE Typed /\ Receive(c) => Typed'
<1> SUFFICES ASSUME Typed, Receive(c) PROVE Typed'
  OBVIOUS
<1> DEFINE m == Head(cq[c])
           seen == [x \in Cell |-> IF Mentions(m, x) THEN Says(m, x) ELSE view[c][x]]
<1>1. /\ cq[c] # <<>> /\ cq' = [cq EXCEPT ![c] = Tail(@)]
      /\ view' = [view EXCEPT ![c] =
                    [x \in Cell |-> IF Mentions(m, x) THEN Says(m, x) ELSE @[x]]]
      /\ UNCHANGED <<srvVars, dbq, pc, out, left, safe>>
  BY DEF Receive
<1>2. /\ cq' \in [Queues -> Seq(Message)] /\ \A r \in Queues : Len(cq'[r]) <= Cap[r]
      /\ m \in Message
  <2>1. c \in Queues
    BY QueueNames
  <2> QED BY <1>1, <2>1, TailOfQueue
<1>3. view \in [Clients -> [Cell -> Values \cup {Unknown}]]
  BY DEF Typed, TypeOK
<1>4. seen \in [Cell -> Values \cup {Unknown}]
  <2> HIDE DEF m
  <2> QED BY <1>2, <1>3, SaysType
<1>5. view' = [view EXCEPT ![c] = seen]
  BY <1>1
<1>6. view' \in [Clients -> [Cell -> Values \cup {Unknown}]]
  <2> HIDE DEF seen
  <2> QED BY <1>3, <1>4, <1>5
<1>7. TypeOK'
  BY <1>1, <1>2, <1>6 DEF Typed, TypeOK, srvVars
<1>8. Sending' /\ Holding'
  BY <1>1 DEF Typed, Sending, Holding, IsCall, srvVars
<1> QED BY <1>7, <1>8 DEF Typed

LEMMA ReturnTyped == ASSUME NEW c \in Clients PROVE Typed /\ Return(c) => Typed'
<1> SUFFICES ASSUME Typed, Return(c) PROVE Typed'
  OBVIOUS
<1>1. /\ c \in Callers /\ cq[Blk[c]] # <<>> /\ cq' = [cq EXCEPT ![Blk[c]] = Tail(@)]
      /\ pc' = [pc EXCEPT ![c] = "loop"]
      /\ UNCHANGED <<srvVars, dbq, out, left, view, safe>>
  BY DEF Return
<1>2. cq' \in [Queues -> Seq(Message)] /\ \A r \in Queues : Len(cq'[r]) <= Cap[r]
  <2>1. Blk[c] \in Queues
    BY <1>1, QueueNames
  <2> QED BY <1>1, <2>1, TailOfQueue
<1>3. pc \in [Clients -> {"loop", "send", "wait"}]
  BY DEF Typed, TypeOK
<1>4. TypeOK'
  BY <1>1, <1>2, <1>3 DEF Typed, TypeOK, srvVars
<1>5. Sending' /\ Holding'
  BY <1>1, <1>3 DEF Typed, Sending, Holding, IsCall, srvVars
<1> QED BY <1>4, <1>5 DEF Typed

-----------------------------------------------------------------------------
LEMMA InitTyped == Init => Typed
<1> SUFFICES ASSUME Init PROVE Typed
  OBVIOUS
<1>1. /\ \A S : <<>> \in Seq(S) /\ Len(<<>>) = 0
      /\ DbqLen \in Nat /\ MaxSends \in Nat /\ Zero \in Values
      /\ \A q \in Queues : Cap[q] \in Nat
  BY EmptySeq, ServerAssumption
<1>2. TypeOK
  BY <1>1, NoNotesType DEF Init, TypeOK, NoNotes
<1>3. Sending /\ Holding
  BY DEF Init, Sending, Holding
<1> QED BY <1>2, <1>3 DEF Typed

LEMMA StepTyped == Typed /\ [Next]_vars => Typed'
<1> SUFFICES ASSUME Typed, [Next]_vars PROVE Typed'
  OBVIOUS
<1>1. CASE Server
  <2>1. CASE Serve
    BY <2>1, ServeServing, ServingTyped
  <2>2. CASE \E q \in Queues : Deliver(q)
    BY <2>2, DeliverTyped
  <2> QED BY <1>1, <2>1, <2>2 DEF Server
<1>2. CASE \E c \in Clients : Client(c)
  BY <1>2, SendTyped, ResumeTyped, ReceiveTyped, ReturnTyped DEF Client
<1>3. CASE UNCHANGED vars
  <2>1. TypeOK'
    BY <1>3 DEF Typed, TypeOK, vars
  <2>2. Sending' /\ Holding'
    BY <1>3 DEF Typed, Sending, Holding, IsCall, vars
  <2> QED BY <2>1, <2>2 DEF Typed
<1> QED BY <1>1, <1>2, <1>3 DEF Next

\* Every queue, table and copy keeps its type and its length: no send goes
\* beyond the length of a queue, and no notification lacks the value of a
\* cell it covers, for every configuration.
THEOREM TypeCorrect == Spec => []TypeOK
<1>1. Init => Typed
  BY InitTyped
<1>2. Typed /\ [Next]_vars => Typed'
  BY StepTyped
<1>3. Typed => TypeOK
  BY DEF Typed
<1> QED BY <1>1, <1>2, <1>3, PTL DEF Spec
-----------------------------------------------------------------------------
(* The second queues: one message during a call, none outside *)

Clean(c) == Cardinality(InDbq(Blk[c])) + Len(pend[Blk[c]]) + Len(cq[Blk[c]])
              = IF pc[c] = "wait" THEN 1 ELSE 0

LEMMA InDbqType ==
    ASSUME Typed, NEW q
    PROVE  /\ IsFiniteSet(InDbq(q)) /\ Cardinality(InDbq(q)) \in Nat
           /\ Cardinality(InDbq(q)) = 0 <=> InDbq(q) = {}
           /\ InDbq(q) \subseteq 1 .. Len(dbq) /\ Len(dbq) \in Nat
<1>1. dbq \in Seq(Requests)
  BY DEF Typed, TypeOK
<1>2. InDbq(q) \subseteq 1 .. Len(dbq) /\ Len(dbq) \in Nat
  BY <1>1, LenProperties DEF InDbq
<1> QED BY <1>2, CardinalityOfPositions, FS_EmptySet

\* Taking the oldest request removes it from the count of its queue.
LEMMA TakeCount ==
    ASSUME Typed, Typed', NEW q, dbq # <<>>, dbq' = Tail(dbq),
           Cardinality(InDbq(q)) <= 1
    PROVE  /\ Head(dbq).cq = q => Cardinality(InDbq(q)) = 1 /\ Cardinality(InDbq(q)') = 0
           /\ Head(dbq).cq # q => Cardinality(InDbq(q)') = Cardinality(InDbq(q))
<1>1. /\ dbq \in Seq(Requests) /\ DOMAIN dbq = 1 .. Len(dbq) /\ Len(dbq) \in Nat \ {0}
      /\ DOMAIN dbq' = 1 .. Len(dbq) - 1
      /\ \A i \in 1 .. Len(dbq) - 1 : dbq'[i] = dbq[i + 1]
      /\ Head(dbq) = dbq[1]
  <2>1. dbq \in Seq(Requests)
    BY DEF Typed, TypeOK
  <2>2. Tail(dbq) \in Seq(Requests) /\ Len(Tail(dbq)) = Len(dbq) - 1
        /\ \A i \in 1 .. Len(Tail(dbq)) : Tail(dbq)[i] = dbq[i + 1]
    BY <2>1, HeadTailProperties
  <2>3. DOMAIN Tail(dbq) = 1 .. Len(Tail(dbq))
    BY <2>2, LenProperties
  <2> QED BY <2>1, <2>2, <2>3, LenProperties, EmptySeq
<1>2. \A i \in 1 .. Len(dbq) - 1 : i \in InDbq(q)' <=> i + 1 \in InDbq(q)
  BY <1>1 DEF InDbq
<1>3. InDbq(q)' \subseteq 1 .. Len(dbq) - 1 /\ InDbq(q) \subseteq 1 .. Len(dbq)
  BY <1>1 DEF InDbq
<1>4. IsFiniteSet(InDbq(q)) /\ Cardinality(InDbq(q)) \in {0, 1}
  BY InDbqType
<1>5. ASSUME Head(dbq).cq = q
      PROVE  Cardinality(InDbq(q)) = 1 /\ Cardinality(InDbq(q)') = 0
  <2>1. 1 \in InDbq(q)
    BY <1>1, <1>5 DEF InDbq
  <2>2. Cardinality(InDbq(q)) = 1
    BY <1>4, <2>1, InDbqType
  <2>3. PICK x : InDbq(q) = {x}
    BY <1>4, <2>2, FS_Singleton
  <2>4. InDbq(q) = {1}
    BY <2>1, <2>3
  <2>5. InDbq(q)' = {}
    <3>1. ASSUME NEW i \in InDbq(q)' PROVE FALSE
      <4>1. i \in 1 .. Len(dbq) - 1 /\ i + 1 = 1
        BY <1>2, <1>3, <2>4
      <4> QED BY <4>1
    <3> QED BY <3>1
  <2> QED BY <2>2, <2>5, FS_EmptySet
<1>6. ASSUME Head(dbq).cq # q
      PROVE  Cardinality(InDbq(q)') = Cardinality(InDbq(q))
  <2>1. 1 \notin InDbq(q)
    BY <1>1, <1>6 DEF InDbq
  <2>2. CASE Cardinality(InDbq(q)) = 0
    <3>1. InDbq(q) = {}
      BY <2>2, InDbqType
    <3>2. InDbq(q)' = {}
      BY <1>2, <1>3, <3>1
    <3> QED BY <2>2, <3>2, FS_EmptySet
  <2>3. CASE Cardinality(InDbq(q)) = 1
    <3>1. PICK x : InDbq(q) = {x}
      BY <1>4, <2>3, FS_Singleton
    <3>2. x \in 2 .. Len(dbq)
      BY <1>3, <2>1, <3>1
    <3>3. x - 1 \in InDbq(q)'
      <4>1. x - 1 \in 1 .. Len(dbq) - 1 /\ (x - 1) + 1 = x
        BY <1>1, <3>2
      <4> QED BY <1>2, <3>1, <4>1
    <3>4. \A i \in InDbq(q)' : i = x - 1
      <4> SUFFICES ASSUME NEW i \in InDbq(q)' PROVE i = x - 1
        OBVIOUS
      <4>1. i \in 1 .. Len(dbq) - 1 /\ i + 1 = x
        BY <1>2, <1>3, <3>1
      <4> QED BY <4>1
    <3>5. InDbq(q)' = {x - 1}
      BY <3>3, <3>4
    <3> QED BY <2>3, <3>5, FS_Singleton
  <2> QED BY <1>4, <2>2, <2>3
<1> QED BY <1>5, <1>6

\* A request that enters dbq is counted for its queue.
LEMMA EnqueueCount ==
    ASSUME Typed, NEW q, NEW m \in Requests, dbq' = Append(dbq, m)
    PROVE  Cardinality(InDbq(q)') = Cardinality(InDbq(q)) + (IF m.cq = q THEN 1 ELSE 0)
<1>1. /\ dbq \in Seq(Requests) /\ DOMAIN dbq = 1 .. Len(dbq) /\ Len(dbq) \in Nat
      /\ DOMAIN dbq' = 1 .. Len(dbq) + 1
      /\ \A i \in 1 .. Len(dbq) : dbq'[i] = dbq[i]
      /\ dbq'[Len(dbq) + 1] = m
  <2>1. dbq \in Seq(Requests)
    BY DEF Typed, TypeOK
  <2>2. dbq' \in Seq(Requests) /\ Len(dbq') = Len(dbq) + 1
    BY <2>1, AppendProperties
  <2> QED BY <2>1, <2>2, LenProperties, AppendProperties
<1>2. InDbq(q)' = InDbq(q) \cup (IF m.cq = q THEN {Len(dbq) + 1} ELSE {})
  BY <1>1 DEF InDbq
<1>3. Len(dbq) + 1 \notin InDbq(q) /\ IsFiniteSet(InDbq(q)) /\ Cardinality(InDbq(q)) \in Nat
  <2>1. Len(dbq) + 1 \notin 1 .. Len(dbq)
    BY <1>1
  <2> QED BY <2>1, InDbqType
<1>4. CASE m.cq = q
  <2>1. InDbq(q)' = InDbq(q) \cup {Len(dbq) + 1}
    BY <1>2, <1>4
  <2> QED BY <1>3, <1>4, <2>1, FS_AddElement
<1>5. CASE m.cq # q
  BY <1>2, <1>3, <1>5
<1> QED BY <1>4, <1>5

\* A handler answers the request it takes on the queue it came with.
LEMMA ServingClean == Typed /\ Typed' /\ BlkQueueClean /\ Serving => BlkQueueClean'
<1> SUFFICES ASSUME Typed, Typed', BlkQueueClean, Serving, NEW c \in Callers
             PROVE  Clean(c)'
  BY DEF BlkQueueClean, Clean
<1> PICK method \in Methods : Take(method)
  BY DEF Serving
<1> PICK reply \in Message, notes \in [Queues -> Seq(Message)] :
      /\ Dispatch(Head(dbq), reply, notes)
      /\ \A q \in Queues \ Clients : notes[q] = <<>>
  BY DEF Serving
<1> DEFINE q == Blk[c]
<1>1. q \in Queues /\ q \notin Clients /\ q # NoName
  BY QueueNames
<1>2. pend[q] = <<>> /\ Len(pend[q]) = 0
  BY <1>1, EmptySeq DEF Take, Typed, Sending, NoNotes
<1>3. Len(pend'[q]) = IF q = Head(dbq).cq THEN 1 ELSE 0
  <2>1. notes[q] = <<>> /\ Len(notes[q]) = 0
    BY <1>1, EmptySeq
  <2>2. Head(dbq) \in Requests
    BY TakenRequest
  <2>3. Len(pend'[q]) = (IF q = Head(dbq).cq THEN 1 ELSE 0) + Len(notes[q])
    <3> HIDE DEF q
    <3> QED BY <1>1, <2>2, DispatchType
  <2> QED BY <2>1, <2>3
<1>4. Clean(c)
  BY DEF BlkQueueClean, Clean
<1>5. dbq # <<>> /\ dbq' = Tail(dbq) /\ cq' = cq /\ pc' = pc
  BY DEF Take, cliVars
<1>6. Len(cq[q]) \in Nat /\ Cardinality(InDbq(q)) \in Nat
  BY <1>1, LenProperties, InDbqType DEF Typed, TypeOK
<1>7. Cardinality(InDbq(q)) <= 1
  BY <1>2, <1>4, <1>6 DEF Clean
<1>8. /\ Head(dbq).cq = q => Cardinality(InDbq(q)) = 1 /\ Cardinality(InDbq(q)') = 0
      /\ Head(dbq).cq # q => Cardinality(InDbq(q)') = Cardinality(InDbq(q))
  <2> HIDE DEF q
  <2> QED BY <1>5, <1>7, TakeCount
<1> QED BY <1>2, <1>3, <1>4, <1>5, <1>6, <1>8 DEF Clean
\* A delivery moves one message from what is pending to the queue.
LEMMA DeliverClean ==
    ASSUME NEW r \in Queues
    PROVE  Typed /\ BlkQueueClean /\ Deliver(r) => BlkQueueClean'
<1> SUFFICES ASSUME Typed, BlkQueueClean, Deliver(r), NEW c \in Callers
             PROVE  Clean(c)'
  BY DEF BlkQueueClean, Clean
<1> DEFINE q == Blk[c]
<1>1. q \in Queues /\ Clean(c) /\ dbq' = dbq /\ pc' = pc
  BY QueueNames DEF BlkQueueClean, Clean, Deliver, cliVars
<1>2. /\ cq \in [Queues -> Seq(Message)] /\ pend \in [Queues -> Seq(Message)]
      /\ pend[r] # <<>>
      /\ cq' = [cq EXCEPT ![r] = Append(@, Head(pend[r]))]
      /\ pend' = [pend EXCEPT ![r] = Tail(@)]
  BY QueueNames DEF Typed, TypeOK, Sending, Deliver
<1>3. InDbq(q)' = InDbq(q) /\ Cardinality(InDbq(q)) \in Nat
  BY <1>1, InDbqType DEF InDbq
<1>4. CASE q = r
  <2>1. /\ Head(pend[r]) \in Message /\ Len(Tail(pend[r])) = Len(pend[r]) - 1
    BY <1>2, HeadTailProperties
  <2>2. Len(Append(cq[r], Head(pend[r]))) = Len(cq[r]) + 1
    BY <1>2, <2>1, AppendProperties
  <2>3. Len(cq[r]) \in Nat /\ Len(pend[r]) \in Nat
    BY <1>2, LenProperties
  <2> QED BY <1>1, <1>2, <1>3, <1>4, <2>1, <2>2, <2>3 DEF Clean
<1>5. CASE q # r
  <2>1. pend'[q] = pend[q] /\ cq'[q] = cq[q]
    BY <1>1, <1>2, <1>5
  <2> QED BY <1>1, <1>3, <2>1 DEF Clean
<1> QED BY <1>4, <1>5

\* A client outside a call that sends a call starts to wait; no other client
\* names its second queue.
LEMMA EnqueueClean ==
    ASSUME Typed, BlkQueueClean, NEW c \in Clients, NEW m \in Requests,
           m.cq \in {c, NoName} \/ IsCall(c, m),
           pc[c] # "wait", Enqueue(c, m), UNCHANGED <<cq, pend>>
    PROVE  BlkQueueClean'
<1> SUFFICES ASSUME NEW d \in Callers PROVE Clean(d)'
  BY DEF BlkQueueClean, Clean
<1> DEFINE q == Blk[d]
<1>1. q \in Queues /\ q \notin Clients /\ q # NoName /\ d \in Clients /\ Clean(d)
  BY QueueNames DEF BlkQueueClean, Clean
<1>2. Cardinality(InDbq(q)') = Cardinality(InDbq(q)) + (IF m.cq = q THEN 1 ELSE 0)
  <2> HIDE DEF q
  <2> QED BY EnqueueCount DEF Enqueue
<1>3. /\ pc \in [Clients -> {"loop", "send", "wait"}]
      /\ pc' = [pc EXCEPT ![c] = IF IsCall(c, m) THEN "wait" ELSE "loop"]
  BY DEF Typed, TypeOK, Enqueue
<1>4. /\ Cardinality(InDbq(q)) \in Nat /\ Len(pend[q]) \in Nat /\ Len(cq[q]) \in Nat
  BY <1>1, InDbqType, LenProperties DEF Typed, TypeOK
<1>5. CASE d = c
  <2>1. m.cq = q <=> IsCall(c, m)
    BY <1>1, <1>5 DEF IsCall
  <2>2. pc'[d] = IF m.cq = q THEN "wait" ELSE "loop"
    BY <1>1, <1>3, <1>5, <2>1
  <2> QED BY <1>1, <1>2, <1>4, <1>5, <2>2 DEF Clean
<1>6. CASE d # c
  <2>1. m.cq # q
    BY <1>1, <1>6, QueueNames DEF IsCall
  <2>2. pc'[d] = pc[d]
    BY <1>1, <1>3, <1>6
  <2> QED BY <1>1, <1>2, <1>4, <2>1, <2>2 DEF Clean
<1> QED BY <1>5, <1>6

LEMMA SendClean ==
    ASSUME NEW c \in Clients, NEW m \in Requests
    PROVE  Typed /\ BlkQueueClean /\ Send(c, m) => BlkQueueClean'
<1> SUFFICES ASSUME Typed, BlkQueueClean, Send(c, m) PROVE BlkQueueClean'
  OBVIOUS
<1>1. CASE Enqueue(c, m)
  BY <1>1, EnqueueClean DEF Send, srvVars
<1>2. CASE UNCHANGED dbq /\ (pc' = [pc EXCEPT ![c] = "send"] \/ UNCHANGED pc)
  <2>1. UNCHANGED <<cq, pend, dbq>> /\ pc[c] = "loop"
        /\ pc \in [Clients -> {"loop", "send", "wait"}]
    BY <1>2 DEF Send, srvVars, Typed, TypeOK
  <2>2. \A d \in Callers : pc'[d] = "wait" <=> pc[d] = "wait"
    BY <1>2, <2>1, QueueNames
  <2>3. \A q : InDbq(q)' = InDbq(q)
    BY <2>1 DEF InDbq
  <2> QED BY <2>1, <2>2, <2>3 DEF BlkQueueClean
<1> QED BY <1>1, <1>2 DEF Send

LEMMA ResumeClean ==
    ASSUME NEW c \in Clients
    PROVE  Typed /\ BlkQueueClean /\ Resume(c) => BlkQueueClean'
<1> SUFFICES ASSUME Typed, BlkQueueClean, Resume(c) PROVE BlkQueueClean'
  OBVIOUS
<1>1. PICK m \in Requests : out[c] = <<m>> /\ (m.cq \in {c, NoName} \/ IsCall(c, m))
  BY DEF Typed, Holding, Resume
<1>2. Head(out[c]) = m
  BY <1>1
<1>3. Enqueue(c, m) /\ pc[c] # "wait" /\ UNCHANGED <<cq, pend>>
  BY <1>2 DEF Resume, srvVars
<1> QED BY <1>1, <1>3, EnqueueClean

LEMMA ReceiveClean ==
    ASSUME NEW c \in Clients
    PROVE  Typed /\ BlkQueueClean /\ Receive(c) => BlkQueueClean'
<1> SUFFICES ASSUME Typed, BlkQueueClean, Receive(c), NEW d \in Callers
             PROVE  Clean(d)'
  BY DEF BlkQueueClean, Clean
<1>1. Blk[d] \in Queues /\ Blk[d] # c /\ Clean(d)
  BY QueueNames DEF BlkQueueClean, Clean
<1>2. UNCHANGED <<pend, dbq, pc>> /\ cq'[Blk[d]] = cq[Blk[d]]
  BY <1>1 DEF Receive, srvVars, Typed, TypeOK
<1> QED BY <1>1, <1>2 DEF Clean, InDbq

LEMMA ReturnClean ==
    ASSUME NEW c \in Clients
    PROVE  Typed /\ BlkQueueClean /\ Return(c) => BlkQueueClean'
<1> SUFFICES ASSUME Typed, BlkQueueClean, Return(c), NEW d \in Callers
             PROVE  Clean(d)'
  BY DEF BlkQueueClean, Clean
<1>1. /\ c \in Callers /\ pc[c] = "wait" /\ cq[Blk[c]] # <<>>
      /\ cq' = [cq EXCEPT ![Blk[c]] = Tail(@)]
      /\ pc' = [pc EXCEPT ![c] = "loop"] /\ UNCHANGED <<pend, dbq>>
  BY DEF Return, srvVars
<1>2. /\ Blk[d] \in Queues /\ Blk[c] \in Queues /\ d \in Clients /\ Clean(d)
      /\ cq \in [Queues -> Seq(Message)] /\ pc \in [Clients -> {"loop", "send", "wait"}]
  BY <1>1, QueueNames DEF BlkQueueClean, Clean, Typed, TypeOK
<1>3. InDbq(Blk[d])' = InDbq(Blk[d])
  BY <1>1 DEF InDbq
<1>4. CASE d = c
  <2>1. Len(cq'[Blk[c]]) = Len(cq[Blk[c]]) - 1 /\ Len(cq[Blk[c]]) \in Nat
    BY <1>1, <1>2, TailOfQueue
  <2>2. Cardinality(InDbq(Blk[d])) \in Nat /\ Len(pend[Blk[d]]) \in Nat
    BY <1>2, InDbqType, LenProperties DEF Typed, TypeOK
  <2>3. pc'[c] = "loop"
    BY <1>1, <1>2
  <2> QED BY <1>1, <1>2, <1>3, <1>4, <2>1, <2>2, <2>3 DEF Clean
<1>5. CASE d # c
  <2>1. Blk[d] # Blk[c]
    BY <1>1, <1>5, QueueNames
  <2>2. cq'[Blk[d]] = cq[Blk[d]] /\ pc'[d] = pc[d]
    BY <1>1, <1>2, <1>5, <2>1
  <2> QED BY <1>1, <1>2, <1>3, <2>2 DEF Clean
<1> QED BY <1>4, <1>5

LEMMA InitClean == Init => BlkQueueClean
<1> SUFFICES ASSUME Init, NEW c \in Callers PROVE Clean(c)
  BY DEF BlkQueueClean, Clean
<1>1. /\ pend[Blk[c]] = <<>> /\ cq[Blk[c]] = <<>> /\ pc[c] = "loop"
  BY QueueNames DEF Init, NoNotes
<1>2. InDbq(Blk[c]) = {}
  BY DEF Init, InDbq
<1> QED BY <1>1, <1>2, EmptySeq, FS_EmptySet DEF Clean

LEMMA StepClean == Typed /\ BlkQueueClean /\ [Next]_vars => BlkQueueClean'
<1> SUFFICES ASSUME Typed, BlkQueueClean, [Next]_vars PROVE BlkQueueClean'
  OBVIOUS
<1>1. Typed'
  BY StepTyped
<1>2. CASE Serve
  BY <1>1, <1>2, ServeServing, ServingClean
<1>3. CASE \E q \in Queues : Deliver(q)
  BY <1>3, DeliverClean
<1>4. CASE \E c \in Clients : Client(c)
  BY <1>4, SendClean, ResumeClean, ReceiveClean, ReturnClean DEF Client
<1>5. CASE UNCHANGED vars
  BY <1>5 DEF BlkQueueClean, InDbq, vars
<1> QED BY <1>2, <1>3, <1>4, <1>5 DEF Next, Server

\* The second queue of a caller never needs clearing: during a call exactly
\* one message for it is under way, the answer, and outside a call none is,
\* for any number of clients, callers and requests and any queue lengths
\* (sys_mgmt.c:941-943).
THEOREM AnswersAreOwn == Spec => []BlkQueueClean
<1>1. Init => Typed /\ BlkQueueClean
  BY InitTyped, InitClean
<1>2. (Typed /\ BlkQueueClean) /\ [Next]_vars => (Typed /\ BlkQueueClean)'
  BY StepTyped, StepClean
<1> QED BY <1>1, <1>2, PTL DEF Spec

-----------------------------------------------------------------------------
(* The circular wait that a call with room for what is ahead of it avoids *)

\* The request of the call is in dbq and what is ahead of it still fits, or
\* the answer is what the database task sends next, or it has come.
AnswerComes(c) ==
    \/ \E p \in InDbq(Blk[c]) : Len(cq[c]) + Len(pend[c]) + Ahead(c, p - 1) <= Cap[c]
    \/ cur = Blk[c]
    \/ cq[Blk[c]] # <<>>

SafeIInv == Typed /\ \A c \in Callers : pc[c] = "wait" /\ safe[c] => AnswerComes(c)

\* The subscriptions of c among the first k requests.
Own(c, k) == {i \in 1 .. k : dbq[i].cq = c /\ dbq[i].method = "SUBSCRIBE"}

LEMMA AheadType ==
    ASSUME NEW c, NEW k \in Nat
    PROVE  /\ Ahead(c, k) = k + Cardinality(Own(c, k))
           /\ IsFiniteSet(Own(c, k)) /\ Cardinality(Own(c, k)) \in Nat
           /\ Ahead(c, k) \in Nat
<1>1. Own(c, k) \in SUBSET (1 .. k)
  BY DEF Own
<1>2. IsFiniteSet(Own(c, k)) /\ Cardinality(Own(c, k)) \in Nat
  BY <1>1, CardinalityOfPositions
<1>3. Ahead(c, k) = k + Cardinality(Own(c, k))
  BY DEF Ahead, Own
<1> QED BY <1>2, <1>3

\* The request that is taken is no longer ahead, nor is its notification.
LEMMA AheadTake ==
    ASSUME NEW c, NEW n \in Nat, dbq \in Seq(Requests), Len(dbq) = n, dbq # <<>>,
           dbq' = Tail(dbq), NEW k \in 1 .. n - 1
    PROVE  Ahead(c, k - 1)' = Ahead(c, k) - 1
              - (IF Head(dbq).cq = c /\ Head(dbq).method = "SUBSCRIBE" THEN 1 ELSE 0)
<1>1. \A i \in 1 .. k - 1 : dbq'[i] = dbq[i + 1] /\ dbq[1] = Head(dbq)
  BY HeadTailProperties
<1> DEFINE own == Head(dbq).cq = c /\ Head(dbq).method = "SUBSCRIBE"
<1>2. PICK S : S = Own(c, k - 1)'
  OBVIOUS
<1>3. PICK T : T = Own(c, k) \ {1}
  OBVIOUS
<1>4. dbq[1] = Head(dbq)
  BY HeadTailProperties
<1>5. /\ \A i \in S : i \in 1 .. k - 1 /\ i + 1 \in T
      /\ \A j \in T : j - 1 \in S /\ (j - 1) + 1 = j
  <2>1. \A i : i \in S <=> /\ i \in 1 .. k - 1
                           /\ dbq[i + 1].cq = c /\ dbq[i + 1].method = "SUBSCRIBE"
    BY <1>1, <1>2 DEF Own
  <2>2. \A j : j \in T <=> /\ j \in 2 .. k
                           /\ dbq[j].cq = c /\ dbq[j].method = "SUBSCRIBE"
    <3>1. \A j : j \in 2 .. k <=> j \in 1 .. k /\ j # 1
      OBVIOUS
    <3> QED BY <1>3, <3>1 DEF Own
  <2>3. \A i \in 1 .. k - 1 : i + 1 \in 2 .. k
    OBVIOUS
  <2>4. \A j \in 2 .. k : j - 1 \in 1 .. k - 1 /\ (j - 1) + 1 = j
    OBVIOUS
  <2> QED BY <2>1, <2>2, <2>3, <2>4
<1>6. Cardinality(S) = Cardinality(T) /\ Cardinality(S) \in Nat
  <2>1. PICK f : f = [i \in S |-> i + 1]
    OBVIOUS
  <2>2. f \in [S -> T] /\ \A i \in S : f[i] = i + 1
    BY <1>5, <2>1
  <2>3. \A i, j \in S : f[i] = f[j] => i = j
    BY <1>5, <2>2
  <2>4. \A j \in T : \E i \in S : f[i] = j
    BY <1>5, <2>2
  <2>5. ExistsBijection(S, T)
    BY <2>2, <2>3, <2>4 DEF ExistsBijection, Bijection, Injection, Surjection, IsInjective
  <2>6. S \in SUBSET (1 .. k - 1) /\ k - 1 \in Nat
    BY <1>5
  <2> QED BY <2>5, <2>6, FS_Bijection, CardinalityOfPositions
<1>7. Cardinality(Own(c, k)) = Cardinality(T) + IF own THEN 1 ELSE 0
  <2>1. IsFiniteSet(Own(c, k)) /\ Cardinality(Own(c, k)) \in Nat
    BY AheadType
  <2>2. 1 \in Own(c, k) <=> own
    BY <1>4 DEF Own
  <2> HIDE DEF own
  <2>3. /\ own => Cardinality(Own(c, k) \ {1}) = Cardinality(Own(c, k)) - 1
        /\ ~own => Own(c, k) \ {1} = Own(c, k)
    <3>1. PICK O : O = Own(c, k)
      OBVIOUS
    <3>2. own => Cardinality(O \ {1}) = Cardinality(O) - 1
      BY <2>1, <2>2, <3>1, FS_RemoveElement, Zenon
    <3>3. ~own => O \ {1} = O
      BY <2>2, <3>1
    <3> QED BY <3>1, <3>2, <3>3, Zenon
  <2>4. CASE own
    BY <1>3, <2>1, <2>3, <2>4
  <2>5. CASE ~own
    <3>1. T = Own(c, k)
      BY <1>3, <2>3, <2>5
    <3> QED BY <2>1, <2>5, <3>1
  <2> QED BY <2>4, <2>5
<1>8. Ahead(c, k) = k + Cardinality(Own(c, k)) /\ Cardinality(Own(c, k)) \in Nat
  BY AheadType
<1>9. Ahead(c, k - 1)' = k - 1 + Cardinality(S)
  BY <1>2 DEF Ahead, Own
<1> QED BY <1>6, <1>7, <1>8, <1>9

\* A handler sends the answer of a call first, and to any client no more than
\* what was counted as ahead.
LEMMA ServingSends ==
    ASSUME Typed, Serving, NEW c \in Clients
    PROVE  /\ Head(dbq).cq \in Queues => cur' = Head(dbq).cq
           /\ pend[c] = <<>> /\ Len(pend'[c]) \in Nat
           /\ Len(pend'[c]) <= 1 + (IF Head(dbq).cq = c /\ Head(dbq).method = "SUBSCRIBE"
                                    THEN 1 ELSE 0)
<1> PICK method \in Methods : Take(method)
  BY DEF Serving
<1> PICK reply \in Message, notes \in [Queues -> Seq(Message)] :
      Dispatch(Head(dbq), reply, notes) /\ FewNotes(Head(dbq), notes)
  BY DEF Serving
<1>1. c \in Queues /\ NoName \notin Queues /\ Head(dbq) \in Requests
  BY QueueNames, TakenRequest
<1>2. Head(dbq).cq \in Queues => cur' = Head(dbq).cq
  BY <1>1 DEF Dispatch
<1>3. pend[c] = <<>>
  BY <1>1 DEF Take, Typed, Sending, NoNotes
<1>4. /\ pend' \in [Queues -> Seq(Message)]
      /\ Len(pend'[c]) = (IF c = Head(dbq).cq THEN 1 ELSE 0) + Len(notes[c])
  BY <1>1, DispatchType
<1>5. /\ Len(notes[c]) \in Nat /\ Len(notes[c]) <= 1
      /\ c = Head(dbq).cq /\ Head(dbq).method # "SUBSCRIBE" => Len(notes[c]) = 0
  BY <1>1, LenProperties, EmptySeq DEF FewNotes
<1> QED BY <1>1, <1>2, <1>3, <1>4, <1>5

LEMMA ServingSafe == SafeIInv /\ Serving => SafeIInv'
<1> SUFFICES ASSUME SafeIInv, Serving, NEW c \in Callers, pc'[c] = "wait", safe'[c]
             PROVE  AnswerComes(c)'
  BY ServingTyped DEF SafeIInv
<1> PICK method \in Methods : Take(method)
  BY DEF Serving
<1>1. /\ cur = NoName /\ dbq # <<>> /\ dbq' = Tail(dbq)
      /\ UNCHANGED <<cq, pc, safe>> /\ dbq \in Seq(Requests) /\ Typed
  BY DEF Take, cliVars, SafeIInv, Typed, TypeOK
<1>2. /\ Blk[c] \in Queues /\ NoName # Blk[c] /\ c \in Clients /\ c \in Queues
  BY QueueNames
<1>3. CASE cq[Blk[c]] # <<>>
  BY <1>1, <1>3 DEF AnswerComes
<1>4. CASE \E p \in InDbq(Blk[c]) : Len(cq[c]) + Len(pend[c]) + Ahead(c, p - 1) <= Cap[c]
  <2>1. PICK p \in InDbq(Blk[c]) : Len(cq[c]) + Len(pend[c]) + Ahead(c, p - 1) <= Cap[c]
    BY <1>4
  <2>2. PICK n \in Nat : n = Len(dbq) /\ DOMAIN dbq = 1 .. n
    BY <1>1, LenProperties
  <2>3. p \in 1 .. n /\ dbq[p].cq = Blk[c]
    BY <2>1, <2>2 DEF InDbq
  <2>4. CASE p = 1
    <3>1. Head(dbq).cq = Blk[c]
      BY <1>1, <2>3, <2>4, HeadTailProperties
    <3> QED BY <1>1, <1>2, <3>1, ServingSends DEF AnswerComes
  <2>5. CASE p # 1
    <3>1. p - 1 \in 1 .. n - 1 /\ p - 1 \in Nat
      BY <2>3, <2>5
    <3>2. p - 1 \in InDbq(Blk[c])'
      <4>1. Tail(dbq) \in Seq(Requests) /\ Len(Tail(dbq)) = n - 1 /\ Tail(dbq)[p - 1] = dbq[p]
        <5>1. Tail(dbq) \in Seq(Requests) /\ Len(Tail(dbq)) = n - 1
              /\ \A i \in 1 .. Len(Tail(dbq)) : Tail(dbq)[i] = dbq[i + 1]
          BY <1>1, <2>2, HeadTailProperties
        <5>2. Tail(dbq)[p - 1] = dbq[(p - 1) + 1] /\ (p - 1) + 1 = p
          BY <2>3, <3>1, <5>1
        <5> QED BY <5>1, <5>2
      <4>2. DOMAIN dbq' = 1 .. n - 1
        BY <1>1, <4>1, LenProperties
      <4> QED BY <1>1, <2>3, <3>1, <4>1, <4>2 DEF InDbq
    <3>3. Ahead(c, p - 1 - 1)' = Ahead(c, p - 1) - 1
            - (IF Head(dbq).cq = c /\ Head(dbq).method = "SUBSCRIBE" THEN 1 ELSE 0)
      BY <1>1, <2>2, <3>1, AheadTake
    <3>4. /\ pend[c] = <<>> /\ Len(pend'[c]) \in Nat
          /\ Len(pend'[c]) <= 1 + (IF Head(dbq).cq = c /\ Head(dbq).method = "SUBSCRIBE"
                                    THEN 1 ELSE 0)
      BY <1>1, <1>2, ServingSends
    <3>5. /\ Len(cq[c]) \in Nat /\ Len(pend[c]) = 0 /\ Ahead(c, p - 1) \in Nat
          /\ Cap[c] \in Nat
      BY <1>1, <1>2, <3>1, <3>4, AheadType, LenProperties, EmptySeq, ServerAssumption
         DEF Typed, TypeOK
    <3> DEFINE own == IF Head(dbq).cq = c /\ Head(dbq).method = "SUBSCRIBE" THEN 1 ELSE 0
    <3>6. /\ own \in Nat /\ cq'[c] = cq[c]
          /\ Ahead(c, p - 1 - 1)' = Ahead(c, p - 1) - 1 - own
          /\ Len(pend'[c]) <= 1 + own
      BY <1>1, <3>3, <3>4
    <3> HIDE DEF own
    <3>8. Len(cq'[c]) + Len(pend'[c]) + Ahead(c, p - 1 - 1)' <= Cap[c]
      <4>1. PICK a \in Nat : a = Ahead(c, p - 1)
        BY <3>5
      <4>2. PICK b : b = Ahead(c, p - 1 - 1)'
        OBVIOUS
      <4>3. PICK l \in Nat : l = Len(cq[c])
        BY <3>5
      <4>4. PICK r \in Nat : r = Len(pend'[c])
        BY <3>4
      <4>5. l + a <= Cap[c] /\ b = a - 1 - own /\ r <= 1 + own /\ Cap[c] \in Nat
        BY <2>1, <3>5, <3>6, <4>1, <4>2, <4>3, <4>4
      <4>6. l + r + b <= Cap[c]
        BY <3>6, <4>5
      <4> QED BY <3>6, <4>2, <4>3, <4>4, <4>6
    <3> QED BY <3>2, <3>8 DEF AnswerComes
  <2> QED BY <2>4, <2>5
<1> QED BY <1>1, <1>2, <1>3, <1>4 DEF SafeIInv, AnswerComes

\* What a client that is not concerned by a step keeps.
LEMMA StillComes ==
    ASSUME NEW c, AnswerComes(c), dbq' = dbq,
           Len(cq'[c]) + Len(pend'[c]) = Len(cq[c]) + Len(pend[c]),
           cur' = cur \/ cq'[Blk[c]] # <<>> \/ cur # Blk[c],
           cq'[Blk[c]] # <<>> \/ cq[Blk[c]] = <<>>
    PROVE  AnswerComes(c)'
<1>1. InDbq(Blk[c])' = InDbq(Blk[c]) /\ \A p : Ahead(c, p - 1)' = Ahead(c, p - 1)
  BY DEF InDbq, Ahead
<1> QED BY <1>1 DEF AnswerComes

LEMMA DeliverSafe ==
    ASSUME SafeIInv, NEW q \in Queues, Deliver(q) PROVE SafeIInv'
<1>1. /\ cq \in [Queues -> Seq(Message)] /\ pend \in [Queues -> Seq(Message)]
      /\ pend[q] # <<>> /\ cur = q
      /\ cq' = [cq EXCEPT ![q] = Append(@, Head(pend[q]))]
      /\ pend' = [pend EXCEPT ![q] = Tail(@)]
      /\ UNCHANGED <<dbq, pc, safe>>
  BY QueueNames DEF SafeIInv, Typed, TypeOK, Sending, Deliver, cliVars
<1> SUFFICES ASSUME NEW c \in Callers, pc[c] = "wait", safe[c] PROVE AnswerComes(c)'
  BY <1>1, DeliverTyped DEF SafeIInv
<1>2. AnswerComes(c) /\ c \in Queues /\ Blk[c] \in Queues /\ c # Blk[c]
  BY QueueNames DEF SafeIInv
<1>3. PICK a \in Seq(Message) : a = cq[q]
  BY <1>1
<1>4. PICK b \in Seq(Message) : b = pend[q]
  BY <1>1
<1>5. /\ cq'[q] = Append(a, Head(b)) /\ pend'[q] = Tail(b) /\ b # <<>>
      /\ Append(a, Head(b)) # <<>> /\ Len(Append(a, Head(b))) = Len(a) + 1
      /\ Len(Tail(b)) = Len(b) - 1 /\ Len(a) \in Nat /\ Len(b) \in Nat
  <2>1. cq'[q] = Append(a, Head(b)) /\ pend'[q] = Tail(b) /\ b # <<>>
    BY <1>1, <1>3, <1>4
  <2>2. PICK h \in Message : h = Head(b)
    BY <2>1, HeadTailProperties
  <2>3. Append(a, h) # <<>> /\ Len(Append(a, h)) = Len(a) + 1
    BY AppendProperties
  <2> QED BY <2>1, <2>2, <2>3, HeadTailProperties, LenProperties
<1>6. Len(cq'[c]) + Len(pend'[c]) = Len(cq[c]) + Len(pend[c])
  <2>1. CASE c = q
    <3>1. Len(cq'[q]) = Len(a) + 1 /\ Len(pend'[q]) = Len(b) - 1
      BY <1>5
    <3>2. Len(cq[q]) = Len(a) /\ Len(pend[q]) = Len(b) /\ Len(a) \in Nat /\ Len(b) \in Nat
      BY <1>3, <1>4, <1>5
    <3>3. Len(cq'[q]) + Len(pend'[q]) = Len(cq[q]) + Len(pend[q])
      BY <3>1, <3>2
    <3> QED BY <2>1, <3>3
  <2>2. CASE c # q
    BY <1>1, <1>2, <2>2
  <2> QED BY <2>1, <2>2
<1>7. /\ cur = Blk[c] => cq'[Blk[c]] # <<>>
      /\ cq[Blk[c]] # <<>> => cq'[Blk[c]] # <<>>
  <2>1. CASE Blk[c] = q
    BY <1>5, <2>1
  <2>2. CASE Blk[c] # q
    BY <1>1, <1>2, <2>2
  <2> QED BY <2>1, <2>2
<1> QED BY <1>1, <1>2, <1>6, <1>7, StillComes

\* A request that enters dbq is behind all that was there.
LEMMA EnqueueSafe ==
    ASSUME SafeIInv, NEW c \in Clients, NEW m \in Requests,
           m.cq \in {c, NoName} \/ IsCall(c, m), Enqueue(c, m), UNCHANGED <<cq, pend, cur>>,
           NEW d \in Callers, pc'[d] = "wait", safe'[d]
    PROVE  AnswerComes(d)'
<1>1. /\ dbq \in Seq(Requests) /\ dbq' = Append(dbq, m)
      /\ pc' = [pc EXCEPT ![c] = IF IsCall(c, m) THEN "wait" ELSE "loop"]
      /\ safe' = [safe EXCEPT ![c] =
                     Len(cq[c]) + Len(pend[c]) + Ahead(c, Len(dbq)) <= Cap[c]]
      /\ pc \in [Clients -> {"loop", "send", "wait"}] /\ safe \in [Clients -> BOOLEAN]
  BY DEF SafeIInv, Typed, TypeOK, Enqueue
<1>2. PICK n \in Nat : /\ n = Len(dbq) /\ DOMAIN dbq = 1 .. n /\ DOMAIN dbq' = 1 .. n + 1
                       /\ dbq'[n + 1] = m /\ \A i \in 1 .. n : dbq'[i] = dbq[i]
  BY <1>1, AppendProperties, LenProperties
<1>3. \A k \in 0 .. n : Ahead(d, k)' = Ahead(d, k)
  <2> SUFFICES ASSUME NEW k \in 0 .. n PROVE Ahead(d, k)' = Ahead(d, k)
    OBVIOUS
  <2>1. Own(d, k)' = Own(d, k)
    <3>1. \A i \in 1 .. k : i \in 1 .. n
      BY <1>2
    <3> QED BY <1>2, <3>1 DEF Own
  <2>2. Ahead(d, k) = k + Cardinality(Own(d, k)) /\ Ahead(d, k)' = k + Cardinality(Own(d, k)')
    BY DEF Ahead, Own
  <2> QED BY <2>1, <2>2
<1>4. CASE d = c
  <2>1. IsCall(c, m) /\ Len(cq[c]) + Len(pend[c]) + Ahead(c, n) <= Cap[c]
    BY <1>1, <1>2, <1>4
  <2>2. n + 1 \in InDbq(Blk[d])'
    BY <1>2, <1>4, <2>1 DEF InDbq, IsCall
  <2>3. (n + 1) - 1 = n /\ n \in 0 .. n
    BY <1>2
  <2> QED BY <1>3, <1>4, <2>1, <2>2, <2>3 DEF AnswerComes
<1>5. CASE d # c
  <2>1. pc[d] = "wait" /\ safe[d]
    BY <1>1, <1>5, QueueNames
  <2>2. AnswerComes(d)
    BY <2>1 DEF SafeIInv
  <2>3. ASSUME NEW p \in InDbq(Blk[d])
        PROVE  p \in InDbq(Blk[d])' /\ Ahead(d, p - 1)' = Ahead(d, p - 1)
    <3>1. p \in 1 .. n /\ dbq[p].cq = Blk[d]
      BY <1>2 DEF InDbq
    <3>2. p \in 1 .. n + 1 /\ p - 1 \in 0 .. n
      BY <1>2, <3>1
    <3> QED BY <1>2, <1>3, <3>1, <3>2 DEF InDbq
  <2> QED BY <2>2, <2>3 DEF AnswerComes
<1> QED BY <1>4, <1>5

LEMMA SendSafe ==
    ASSUME SafeIInv, NEW c \in Clients, NEW m \in Requests, Send(c, m) PROVE SafeIInv'
<1> SUFFICES ASSUME NEW d \in Callers, pc'[d] = "wait", safe'[d] PROVE AnswerComes(d)'
  BY SendTyped DEF SafeIInv
<1>1. /\ UNCHANGED <<cq, pend, cur>> /\ pc \in [Clients -> {"loop", "send", "wait"}]
      /\ m.cq \in {c, NoName} \/ IsCall(c, m)
  BY DEF Send, srvVars, SafeIInv, Typed, TypeOK
<1>2. CASE Enqueue(c, m)
  BY <1>1, <1>2, EnqueueSafe
<1>3. CASE UNCHANGED <<dbq, safe>> /\ (pc' = [pc EXCEPT ![c] = "send"] \/ UNCHANGED pc)
  <2>1. pc[d] = "wait" /\ safe[d]
    BY <1>1, <1>3, QueueNames
  <2>2. AnswerComes(d)
    BY <2>1 DEF SafeIInv
  <2> QED BY <1>1, <1>3, <2>2, StillComes
<1> QED BY <1>2, <1>3 DEF Send

LEMMA ResumeSafe ==
    ASSUME SafeIInv, NEW c \in Clients, Resume(c) PROVE SafeIInv'
<1> SUFFICES ASSUME NEW d \in Callers, pc'[d] = "wait", safe'[d] PROVE AnswerComes(d)'
  BY ResumeTyped DEF SafeIInv
<1>1. PICK m \in Requests : out[c] = <<m>> /\ (m.cq \in {c, NoName} \/ IsCall(c, m))
  BY DEF SafeIInv, Typed, Holding, Resume
<1>2. Head(out[c]) = m
  BY <1>1
<1>3. Enqueue(c, m) /\ UNCHANGED <<cq, pend, cur>>
  BY <1>2 DEF Resume, srvVars
<1> QED BY <1>1, <1>3, EnqueueSafe

LEMMA ReceiveSafe ==
    ASSUME SafeIInv, NEW c \in Clients, Receive(c) PROVE SafeIInv'
<1> SUFFICES ASSUME NEW d \in Callers, pc'[d] = "wait", safe'[d] PROVE AnswerComes(d)'
  BY ReceiveTyped DEF SafeIInv
<1>1. /\ UNCHANGED <<dbq, pend, cur, pc, safe>> /\ pc[c] = "loop"
      /\ cq' = [cq EXCEPT ![c] = Tail(@)] /\ cq \in [Queues -> Seq(Message)]
  BY DEF Receive, srvVars, SafeIInv, Typed, TypeOK
<1>2. d \in Queues /\ Blk[d] \in Queues /\ c # d /\ c # Blk[d]
  BY <1>1, QueueNames
<1>3. AnswerComes(d) /\ cq'[d] = cq[d] /\ cq'[Blk[d]] = cq[Blk[d]]
  BY <1>1, <1>2 DEF SafeIInv
<1> QED BY <1>1, <1>3, StillComes

LEMMA ReturnSafe ==
    ASSUME SafeIInv, NEW c \in Clients, Return(c) PROVE SafeIInv'
<1> SUFFICES ASSUME NEW d \in Callers, pc'[d] = "wait", safe'[d] PROVE AnswerComes(d)'
  BY ReturnTyped DEF SafeIInv
<1>1. /\ UNCHANGED <<dbq, pend, cur, safe>> /\ pc' = [pc EXCEPT ![c] = "loop"]
      /\ c \in Callers /\ cq' = [cq EXCEPT ![Blk[c]] = Tail(@)]
      /\ cq \in [Queues -> Seq(Message)] /\ pc \in [Clients -> {"loop", "send", "wait"}]
  BY DEF Return, srvVars, SafeIInv, Typed, TypeOK
<1>2. /\ d \in Clients /\ d \in Queues /\ Blk[d] \in Queues /\ c # d
      /\ Blk[c] # d /\ Blk[c] # Blk[d]
  BY <1>1, QueueNames
<1>3. AnswerComes(d) /\ cq'[d] = cq[d] /\ cq'[Blk[d]] = cq[Blk[d]]
  BY <1>1, <1>2 DEF SafeIInv
<1> QED BY <1>1, <1>3, StillComes

LEMMA StepSafe == SafeIInv /\ [Next]_vars => SafeIInv'
<1> SUFFICES ASSUME SafeIInv, [Next]_vars PROVE SafeIInv'
  OBVIOUS
<1>1. CASE Serve
  BY <1>1, ServeServing, ServingSafe DEF SafeIInv
<1>2. CASE \E q \in Queues : Deliver(q)
  BY <1>2, DeliverSafe
<1>3. CASE \E c \in Clients : Client(c)
  BY <1>3, SendSafe, ResumeSafe, ReceiveSafe, ReturnSafe DEF Client
<1>4. CASE UNCHANGED vars
  <2>1. Typed' /\ UNCHANGED <<dbq, cq, pend, cur, pc, safe>>
    BY <1>4, StepTyped DEF SafeIInv, vars
  <2>2. \A c \in Callers : AnswerComes(c) => AnswerComes(c)'
    BY <2>1, StillComes
  <2> QED BY <2>1, <2>2 DEF SafeIInv
<1> QED BY <1>1, <1>2, <1>3, <1>4 DEF Next, Server

LEMMA SafeCalls == SafeIInv => SafeCall
<1> SUFFICES ASSUME SafeIInv, NEW c \in Callers, safe[c], CircularWait(c) PROVE FALSE
  BY DEF SafeCall
<1>1. /\ pc[c] = "wait" /\ cq[Blk[c]] = <<>> /\ cur = c /\ Len(cq[c]) = Cap[c]
      /\ c \in Queues /\ c # Blk[c] /\ c # NoName
  BY QueueNames DEF CircularWait
<1>2. PICK p \in InDbq(Blk[c]) : Len(cq[c]) + Len(pend[c]) + Ahead(c, p - 1) <= Cap[c]
  BY <1>1 DEF SafeIInv, AnswerComes
<1>3. p - 1 \in Nat
  <2>1. p \in 1 .. Len(dbq)
    BY InDbqType DEF SafeIInv
  <2>2. Len(dbq) \in Nat
    BY InDbqType DEF SafeIInv
  <2> QED BY <2>1, <2>2
<1>4. pend[c] # <<>> /\ pend[c] \in Seq(Message)
  BY <1>1 DEF SafeIInv, Typed, TypeOK, Sending
<1>5. Len(pend[c]) \in Nat /\ Len(pend[c]) # 0 /\ Cap[c] \in Nat
  BY <1>1, <1>4, LenProperties, EmptySeq, ServerAssumption
<1>6. Ahead(c, p - 1) \in Nat
  BY <1>3, AheadType
<1> QED BY <1>1, <1>2, <1>5, <1>6

\* A call made while the caller's first queue has room for what the requests
\* ahead of it may bring never meets the circular wait: the database task is
\* not blocked on the caller's first queue before it has sent the answer,
\* with any number of clients and callers and any lengths of the queues
\* (db_api.c, db_notify.c).
THEOREM CallsAreSafe == Spec => []SafeCall
<1>1. Init => SafeIInv
  BY InitTyped, QueueNames DEF Init, SafeIInv
<1> QED BY <1>1, StepSafe, SafeCalls, PTL DEF Spec

-----------------------------------------------------------------------------
(* What the subscription search of db_notificationsHandle finds            *)

\* The keys looked up are keys of the same table.
LEMMA SearchKeysAreKeys ==
    ASSUME NEW k \in Key
    PROVE  SearchKeys(k) \subseteq Key
BY DEF SearchKeys, Key, At

\* No unrelated subscriber is told: every key looked up for an update of k
\* shares a cell with k (db_notify.c:759-842).
THEOREM SearchSound ==
    ASSUME NEW k \in Key, Fields # {}, Entries # {},
           NEW s \in SearchKeys(k)
    PROVE  Overlap(s, k)
<1> DEFINE F(g) == IF g # ALL THEN g ELSE CHOOSE h \in Fields : TRUE
           E(g) == IF g # ALL THEN g ELSE CHOOSE h \in Entries : TRUE
           f == IF k.f = ALL THEN F(s.f) ELSE k.f
           e == IF k.e = ALL THEN E(s.e) ELSE k.e
           x == [t |-> k.t, f |-> f, e |-> e]
<1>1. s \in Key /\ s.t = k.t
  BY SearchKeysAreKeys DEF SearchKeys, Key, At
<1>2. f \in Fields /\ e \in Entries
  BY <1>1 DEF Key
<1>3. x \in Cell
  BY <1>2 DEF Cell, Key
<1>4. Covers(k, x)
  BY DEF Covers, Key
<1>5. s.f \in {ALL, x.f} /\ s.e \in {ALL, x.e}
  <2>1. s.f = ALL \/ k.f = ALL \/ s.f = k.f
    BY DEF SearchKeys, Key, At
  <2>2. s.e = ALL \/ k.e = ALL \/ s.e = k.e
    BY DEF SearchKeys, Key, At
  <2> QED BY <2>1, <2>2
<1>6. Covers(s, x)
  BY <1>1, <1>5 DEF Covers
<1> QED BY <1>3, <1>4, <1>6 DEF Overlap

\* The search is complete for the update of a single cell: whoever holds a
\* key that covers it is looked up.
THEOREM CellSearchComplete ==
    ASSUME NEW k \in Key, k.f # ALL, k.e # ALL,
           NEW s \in Key, Overlap(s, k)
    PROVE  s \in SearchKeys(k)
<1>1. PICK x \in Cell : Covers(s, x) /\ Covers(k, x)
  BY DEF Overlap
<1>2. s.t = k.t /\ s.f \in {ALL, k.f} /\ s.e \in {ALL, k.e}
  BY <1>1 DEF Covers
<1>3. s = [t |-> s.t, f |-> s.f, e |-> s.e]
  BY DEF Key
<1>4. k = At(k, k.f, k.e)
  BY DEF Key, At
<1> QED BY <1>2, <1>3, <1>4 DEF SearchKeys, At

\* A subscription to a whole table is found by every update of the table,
\* whatever its key.
THEOREM WholeTableFound ==
    ASSUME NEW k \in Key
    PROVE  [t |-> k.t, f |-> ALL, e |-> ALL] \in SearchKeys(k)
BY DEF SearchKeys, Key, At

\* A subscription to a whole field is found by every update inside that
\* field and by none of a whole entry, although that covers its cells.
THEOREM FieldSubscriberFound ==
    ASSUME NEW k \in Key, NEW s \in Key,
           s.f # ALL, s.e = ALL
    PROVE  s \in SearchKeys(k) <=> s.t = k.t /\ s.f = k.f
<1>1. s = [t |-> s.t, f |-> s.f, e |-> ALL]
  BY DEF Key
<1>2. ASSUME s \in SearchKeys(k) PROVE s.t = k.t /\ s.f = k.f
  <2>1. s.t = k.t
    BY <1>2 DEF SearchKeys, Key, At
  <2>2. s.f = k.f
    BY <1>2, KeyAssumption DEF SearchKeys, Key, At, ALL
  <2> QED BY <2>1, <2>2
<1>3. ASSUME s.t = k.t, s.f = k.f PROVE s \in SearchKeys(k)
  <2>1. At(k, k.f, ALL) = s
    BY <1>1, <1>3 DEF At
  <2>2. CASE k.e = ALL
    <3>1. k = At(k, k.f, ALL)
      BY <2>2 DEF Key, At
    <3> QED BY <2>1, <3>1 DEF SearchKeys
  <2>3. CASE k.e # ALL
    BY <2>1, <2>3, <1>3 DEF SearchKeys
  <2> QED BY <2>2, <2>3
<1> QED BY <1>2, <1>3

-----------------------------------------------------------------------------
(* The counter                                                             *)

\* What the invariant needs to be inductive: the tree is finite.
CountIInv == Typed /\ IsFiniteSet(subs) /\ SubsCounted

\* Different keys of a request make as many subscriptions.
LEMMA SubscriptionsCounted ==
    ASSUME NEW m \in Requests, NEW S \in SUBSET (DOMAIN m.pay),
           \A i, j \in S : m.pay[i].key = m.pay[j].key => i = j
    PROVE  LET T == {<<m.cq, m.pay[i].key>> : i \in S}
           IN  IsFiniteSet(T) /\ Cardinality(T) = Cardinality(S)
<1> DEFINE T == {<<m.cq, m.pay[i].key>> : i \in S}
           f == [i \in S |-> <<m.cq, m.pay[i].key>>]
<1>1. IsFiniteSet(S)
  BY RequestType, CardinalityOfPositions
<1>2. f \in [S -> T]
  OBVIOUS
<1>3. \A i, j \in S : f[i] = f[j] => i = j
  OBVIOUS
<1>4. \A t \in T : \E i \in S : f[i] = t
  OBVIOUS
<1>5. ExistsBijection(S, T)
  <2> HIDE DEF f, T
  <2>1. f \in Bijection(S, T)
    BY <1>2, <1>3, <1>4, Fun_IsBij
  <2> QED BY <2>1 DEF ExistsBijection
<1> QED BY <1>1, <1>5, FS_Bijection

\* An increasing list of positions that starts at 1 has no gap: at most n of
\* them are not behind n.
LEMMA AddedFits ==
    ASSUME NEW m \in Requests, NEW n \in Int
    PROVE  LET S == {i \in DOMAIN m.pay : i <= n}
           IN  \A T \in SUBSET S : /\ IsFiniteSet(T) /\ Cardinality(T) \in Nat
                                   /\ n >= 0 => Cardinality(T) <= n
                                   /\ n <= 0 => T = {}
<1> SUFFICES ASSUME NEW T \in SUBSET {i \in DOMAIN m.pay : i <= n}
             PROVE  /\ IsFiniteSet(T) /\ Cardinality(T) \in Nat
                    /\ n >= 0 => Cardinality(T) <= n
                    /\ n <= 0 => T = {}
  OBVIOUS
<1>1. T \in SUBSET (1 .. n)
  BY RequestType
<1>2. IsFiniteSet(1 .. n) /\ (n >= 0 => Cardinality(1 .. n) = n)
  BY FS_Interval, 1 \in Int
<1>3. IsFiniteSet(T) /\ Cardinality(T) <= Cardinality(1 .. n)
  BY <1>1, <1>2, FS_Subset
<1> QED BY <1>1, <1>2, <1>3, FS_CardinalityType

LEMMA SubscribeCount == CountIInv /\ Subscribe => IsFiniteSet(subs') /\ SubsCounted'
<1> SUFFICES ASSUME CountIInv, Subscribe PROVE IsFiniteSet(subs') /\ SubsCounted'
  OBVIOUS
<1> DEFINE m == Head(dbq)
           added == IF m.cq \in Special THEN {} ELSE Added(m)
           T == {<<m.cq, m.pay[i].key>> : i \in added}
<1>1. /\ Take("SUBSCRIBE") /\ subs' = subs \cup T
      /\ subCount' = subCount + Cardinality(added)
  BY DEF Subscribe
<1>2. m \in Requests
  BY <1>1, TakenRequest DEF CountIInv
<1>3. /\ subCount = Cardinality(subs) /\ subCount \in Int /\ IsFiniteSet(subs)
      /\ Room = MaxSub - 1 - subCount /\ Room \in Int /\ MaxSub \in Nat
      /\ subs # {} => subCount < MaxSub
  BY ServerAssumption DEF CountIInv, SubsCounted, Typed, TypeOK, Room
<1>4. added \in SUBSET {i \in DOMAIN m.pay : i <= Room}
  BY DEF Added
<1>5. /\ Cardinality(added) \in Nat /\ (Room >= 0 => Cardinality(added) <= Room)
      /\ Room <= 0 => added = {}
  <2> HIDE DEF added, m
  <2> QED BY <1>2, <1>3, <1>4, AddedFits
<1>6. \A i \in added : /\ i \in 1 .. i /\ ~Known(m, i)
  BY <1>2, RequestType DEF Added
<1>7. \A i, j \in added : m.pay[i].key = m.pay[j].key => i = j
  <2> SUFFICES ASSUME NEW i \in added, NEW j \in added, m.pay[i].key = m.pay[j].key, i < j
               PROVE  FALSE
    BY <1>2, <1>4, RequestType
  <2>1. i \in 1 .. j - 1
    BY <1>2, <1>4, RequestType
  <2> QED BY <1>6, <2>1 DEF Known
<1>8. T \cap subs = {}
  BY <1>6 DEF Known
<1>9. IsFiniteSet(T) /\ Cardinality(T) = Cardinality(added)
  <2>1. added \in SUBSET (DOMAIN m.pay)
    BY <1>4
  <2> HIDE DEF added, m
  <2> QED BY <1>2, <1>7, <2>1, SubscriptionsCounted
<1> HIDE DEF T, added
<1>10. IsFiniteSet(subs') /\ Cardinality(subs') = subCount + Cardinality(added)
  <2>1. subs \cap T = {} /\ Cardinality(subs \cap T) = 0
    BY <1>8, FS_EmptySet
  <2>2. /\ IsFiniteSet(subs \cup T)
        /\ Cardinality(subs \cup T) = Cardinality(subs) + Cardinality(T) - Cardinality(subs \cap T)
    BY <1>3, <1>9, FS_Union
  <2> QED BY <1>1, <1>3, <1>5, <1>9, <2>1, <2>2
<1>11. subs' # {} => subCount' < MaxSub
  <2>1. CASE Room > 0
    BY <1>1, <1>3, <1>5, <2>1
  <2>2. CASE Room <= 0
    <3>1. added = {} /\ Cardinality(added) = 0
      BY <1>5, <2>2, FS_EmptySet
    <3>2. T = {}
      BY <3>1 DEF T
    <3> QED BY <1>1, <1>3, <3>1, <3>2
  <2> QED BY <1>3, <2>1, <2>2
<1> QED BY <1>1, <1>10, <1>11 DEF SubsCounted

LEMMA UnsubscribeCount == CountIInv /\ Unsubscribe => IsFiniteSet(subs') /\ SubsCounted'
<1> SUFFICES ASSUME CountIInv, Unsubscribe PROVE IsFiniteSet(subs') /\ SubsCounted'
  OBVIOUS
<1> DEFINE m == Head(dbq)
           gone == IF m.cq \in Special THEN {} ELSE Removed(m)
           T == {<<m.cq, m.pay[i].key>> : i \in gone}
<1>1. /\ Take("UNSUBSCRIBE") /\ subs' = subs \ T
      /\ subCount' = subCount - Cardinality(gone)
  BY DEF Unsubscribe
<1>2. m \in Requests
  BY <1>1, TakenRequest DEF CountIInv
<1>3. /\ subCount = Cardinality(subs) /\ subCount \in Int /\ IsFiniteSet(subs)
      /\ subs # {} => subCount < MaxSub
      /\ MaxSub \in Nat
  BY ServerAssumption DEF CountIInv, SubsCounted, Typed, TypeOK
<1>4. gone \in SUBSET (DOMAIN m.pay)
  BY DEF Removed
<1>5. \A i \in gone : i \in 1 .. i /\ <<m.cq, m.pay[i].key>> \in subs
  BY <1>2, RequestType DEF Removed
<1>6. \A i, j \in gone : m.pay[i].key = m.pay[j].key => i = j
  <2> SUFFICES ASSUME NEW i \in gone, NEW j \in gone, m.pay[i].key = m.pay[j].key, i < j
               PROVE  FALSE
    BY <1>2, <1>4, RequestType
  <2>1. i \in 1 .. j - 1 /\ j \in 1 .. j
    BY <1>2, <1>4, RequestType
  <2> QED BY <2>1 DEF Removed
<1>7. T \subseteq subs /\ subs \cap T = T
  BY <1>5
<1>8. IsFiniteSet(T) /\ Cardinality(T) = Cardinality(gone) /\ Cardinality(gone) \in Nat
  <2> HIDE DEF gone, m
  <2> QED BY <1>2, <1>4, <1>6, SubscriptionsCounted, CardinalityOfPositions, RequestType
<1> HIDE DEF T, gone
<1>9. IsFiniteSet(subs') /\ Cardinality(subs') = subCount - Cardinality(gone)
  <2>1. IsFiniteSet(subs \ T) /\ Cardinality(subs \ T) = Cardinality(subs) - Cardinality(subs \cap T)
    BY <1>3, FS_Difference
  <2> QED BY <1>1, <1>3, <1>7, <1>8, <2>1
<1>10. subs' # {} => subs # {}
  BY <1>1
<1> QED BY <1>1, <1>3, <1>8, <1>9, <1>10 DEF SubsCounted

LEMMA StepCount == CountIInv /\ [Next]_vars => CountIInv'
<1> SUFFICES ASSUME CountIInv, [Next]_vars PROVE CountIInv'
  OBVIOUS
<1>1. Typed'
  BY StepTyped DEF CountIInv
<1>2. CASE Subscribe \/ Unsubscribe
  BY <1>1, <1>2, SubscribeCount, UnsubscribeCount DEF CountIInv
<1>3. CASE UNCHANGED <<subs, subCount>>
  BY <1>1, <1>3 DEF CountIInv, SubsCounted
<1>4. CASE Get \/ Update \/ Delete \/ \E q \in Queues : Deliver(q)
  BY <1>3, <1>4 DEF Get, Update, Delete, Deliver
<1>5. CASE \E c \in Clients : Client(c)
  BY <1>3, <1>5 DEF Client, Send, Resume, Receive, Return, srvVars
<1>6. CASE UNCHANGED vars
  BY <1>3, <1>6 DEF vars
<1> QED BY <1>2, <1>4, <1>5, <1>6 DEF Next, Server, Serve

(* The counter that limits the subscriptions is the size of the tree, and  *)
(* the tree never outgrows the limit, also after messages of which only a  *)
(* part was stored or removed (db_notify.c).                               *)
THEOREM CounterIsRight == Spec => []SubsCounted
<1>1. Init => CountIInv
  BY InitTyped, FS_EmptySet DEF Init, CountIInv, SubsCounted
<1>2. CountIInv => SubsCounted
  BY DEF CountIInv
<1> QED BY <1>1, <1>2, StepCount, PTL DEF Spec

-----------------------------------------------------------------------------
(* What a client believes                                                  *)

\* The messages of s that say something of x, and what x is after them all.
Heard(s, x) == {i \in DOMAIN s : Mentions(s[i], x)}
Belief(v, s, x) == IF Heard(s, x) = {} THEN v ELSE Says(s[Last(Heard(s, x))], x)

LEMMA BelievesBelief ==
    ASSUME NEW c, NEW x PROVE Believes(c, x) = Belief(view[c][x], Coming(c), x)
BY DEF Believes, Belief, Heard

LEMMA LastIs ==
    ASSUME NEW n \in Nat, NEW S \in SUBSET (1 .. n), NEW i \in S, \A j \in S : j <= i
    PROVE  Last(S) = i
<1>1. Last(S) \in S /\ \A j \in S : j <= Last(S)
  BY DEF Last
<1>2. i <= Last(S) /\ Last(S) <= i
  BY <1>1
<1>3. \A j \in S : j \in 1 .. n
  OBVIOUS
<1>5. i \in 1 .. n /\ Last(S) \in 1 .. n
  BY <1>1, <1>3
<1>4. i \in Int /\ Last(S) \in Int
  BY <1>5
<1> QED BY <1>2, <1>4

LEMMA LastLast ==
    ASSUME NEW n \in Nat, NEW S \in SUBSET (1 .. n), S # {}
    PROVE  Last(S) \in S /\ \A j \in S : j <= Last(S)
<1> DEFINE T == {n - i : i \in S}
<1>1. \E i \in S : \A j \in S : j <= i
  <2>1. Last(S) \in S
    BY LastIsMember
  <2>2. CASE \E i \in S : \A j \in S : j <= i
    BY <2>2
  <2>3. CASE ~ \E i \in S : \A j \in S : j <= i
    <3>1. T \subseteq Nat /\ T # {}
      <4>1. \A i \in S : n - i \in Nat
        OBVIOUS
      <4>2. n - Last(S) \in T
        BY <2>1
      <4> QED BY <4>1, <4>2
    <3>2. PICK y \in T : \A z \in T : ~(<<z, y>> \in OpToRel(<, Nat))
      <4> HIDE DEF T
      <4> QED BY <3>1, NatLessThanWellFounded, WFMin
    <3>3. PICK i \in S : y = n - i
      OBVIOUS
    <3>4. PICK j \in S : ~(j <= i)
      BY <2>3
    <3>5. n - j \in T /\ n - j < y /\ n - j \in Nat /\ y \in Nat
      BY <3>1, <3>3, <3>4
    <3>6. <<n - j, y>> \in OpToRel(<, Nat)
      BY <3>5 DEF OpToRel
    <3> QED BY <3>2, <3>5, <3>6
  <2> QED BY <2>2, <2>3
<1> QED BY <1>1 DEF Last

\* A message that comes last is believed if it says something.
LEMMA BeliefAppend ==
    ASSUME NEW v, NEW s \in Seq(Message), NEW m \in Message, NEW x
    PROVE  Belief(v, Append(s, m), x) = IF Mentions(m, x) THEN Says(m, x) ELSE Belief(v, s, x)
<1> DEFINE t == Append(s, m)
           n == Len(s)
<1>1. /\ n \in Nat /\ DOMAIN s = 1 .. n /\ DOMAIN t = 1 .. n + 1
      /\ t[n + 1] = m /\ \A i \in 1 .. n : t[i] = s[i]
  BY AppendProperties, LenProperties
<1> HIDE DEF t, n
<1>2. /\ Heard(s, x) \in SUBSET (1 .. n)
      /\ Heard(t, x) = Heard(s, x) \cup (IF Mentions(m, x) THEN {n + 1} ELSE {})
  <2>1. \A i \in 1 .. n : i \in 1 .. n + 1 /\ i # n + 1
    BY <1>1
  <2>2. \A i \in 1 .. n + 1 : i \in 1 .. n \/ i = n + 1
    BY <1>1
  <2> QED BY <1>1, <2>1, <2>2 DEF Heard
<1>3. CASE Mentions(m, x)
  <2>1. /\ Heard(t, x) \in SUBSET (1 .. n + 1) /\ n + 1 \in Heard(t, x)
        /\ \A j \in Heard(t, x) : j <= n + 1
    BY <1>1, <1>2, <1>3
  <2>2. Last(Heard(t, x)) = n + 1
    <3>1. n + 1 \in Nat
      BY <1>1
    <3> QED BY <2>1, <3>1, LastIs
  <2> QED BY <1>1, <1>3, <2>1, <2>2 DEF Belief, t
<1>4. CASE ~Mentions(m, x)
  <2>1. Heard(t, x) = Heard(s, x)
    BY <1>2, <1>4
  <2>2. Heard(s, x) # {} => Last(Heard(s, x)) \in 1 .. n
    BY <1>1, <1>2, LastIsMember
  <2> QED BY <1>1, <1>4, <2>1, <2>2 DEF Belief, t
<1> QED BY <1>3, <1>4

\* The first message is applied first.
LEMMA BeliefHead ==
    ASSUME NEW v, NEW s \in Seq(Message), s # <<>>, NEW x
    PROVE  Belief(v, s, x)
             = Belief(IF Mentions(Head(s), x) THEN Says(Head(s), x) ELSE v, Tail(s), x)
<1> DEFINE t == Tail(s)
           n == Len(t)
<1>1. /\ n \in Nat /\ DOMAIN t = 1 .. n /\ DOMAIN s = 1 .. n + 1
      /\ Head(s) = s[1] /\ \A i \in 1 .. n : t[i] = s[i + 1]
  BY HeadTailProperties, LenProperties
<1> HIDE DEF t, n
<1>2. /\ Heard(t, x) \in SUBSET (1 .. n) /\ Heard(s, x) \in SUBSET (1 .. n + 1)
      /\ \A i \in 1 .. n : i \in Heard(t, x) <=> i + 1 \in Heard(s, x)
      /\ 1 \in Heard(s, x) <=> Mentions(Head(s), x)
  <2>1. \A i \in 1 .. n : i + 1 \in 1 .. n + 1
    BY <1>1
  <2> QED BY <1>1, <2>1 DEF Heard
<1>3. CASE Heard(t, x) # {}
  <2> DEFINE l == Last(Heard(t, x))
  <2>1. l \in Heard(t, x) /\ \A j \in Heard(t, x) : j <= l
    BY <1>1, <1>2, <1>3, LastLast
  <2> HIDE DEF l
  <2>2. l \in 1 .. n /\ l + 1 \in Heard(s, x)
    BY <1>2, <2>1
  <2>3. ASSUME NEW j \in Heard(s, x) PROVE j <= l + 1
    <3>1. CASE j = 1
      BY <1>1, <2>2, <3>1
    <3>2. CASE j # 1
      <4>1. j - 1 \in 1 .. n /\ (j - 1) + 1 = j
        BY <1>1, <1>2, <3>2
      <4>2. j - 1 <= l
        BY <1>2, <2>1, <4>1
      <4> QED BY <1>1, <1>2, <2>2, <4>2
    <3> QED BY <3>1, <3>2
  <2>4. Last(Heard(s, x)) = l + 1
    <3>1. n + 1 \in Nat
      BY <1>1
    <3> QED BY <1>2, <2>2, <2>3, <3>1, LastIs
  <2> QED BY <1>1, <1>3, <2>2, <2>4 DEF Belief, l, t
<1>4. CASE Heard(t, x) = {}
  <2>1. \A i \in Heard(s, x) : i = 1
    <3> SUFFICES ASSUME NEW i \in Heard(s, x), i # 1 PROVE FALSE
      OBVIOUS
    <3>1. i - 1 \in 1 .. n /\ (i - 1) + 1 = i
      BY <1>1, <1>2
    <3> QED BY <1>2, <1>4, <3>1
  <2>2. CASE Mentions(Head(s), x)
    <3>1. Heard(s, x) = {1}
      BY <1>2, <2>1, <2>2
    <3>2. Last(Heard(s, x)) = 1
      <4>1. 1 \in Heard(s, x) /\ \A j \in Heard(s, x) : j <= 1
        BY <3>1
      <4> QED BY <1>1, <1>2, <4>1, LastIs
    <3> QED BY <1>1, <1>4, <2>2, <3>1, <3>2 DEF Belief, t
  <2>3. CASE ~Mentions(Head(s), x)
    <3>1. Heard(s, x) = {}
      BY <1>2, <2>1, <2>3
    <3> QED BY <1>4, <2>3, <3>1 DEF Belief, t
  <2> QED BY <2>2, <2>3
<1> QED BY <1>3, <1>4

\* Only a handler changes what is on its way to a client.
LEMMA ComingType ==
    ASSUME Typed, NEW c \in Clients
    PROVE  /\ Coming(c) \in Seq(Message) /\ cq[c] \in Seq(Message) /\ pend[c] \in Seq(Message)
           /\ pend[c] = <<>> => Coming(c) = cq[c]
<1>1. cq[c] \in Seq(Message) /\ pend[c] \in Seq(Message)
  BY QueueNames DEF Typed, TypeOK
<1>2. PICK a \in Seq(Message) : a = cq[c]
  BY <1>1
<1>3. PICK b \in Seq(Message) : b = pend[c]
  BY <1>1
<1>4. a \o b \in Seq(Message) /\ (b = <<>> => a \o b = a)
  OBVIOUS
<1> QED BY <1>2, <1>3, <1>4 DEF Coming

LEMMA DeliverComing ==
    ASSUME Typed, NEW q \in Queues, Deliver(q), NEW c \in Clients
    PROVE  Coming(c)' = Coming(c)
<1>1. /\ cq \in [Queues -> Seq(Message)] /\ pend \in [Queues -> Seq(Message)]
      /\ pend[q] # <<>> /\ c \in Queues
      /\ cq' = [cq EXCEPT ![q] = Append(@, Head(pend[q]))]
      /\ pend' = [pend EXCEPT ![q] = Tail(@)]
  BY QueueNames DEF Typed, TypeOK, Sending, Deliver
<1>2. CASE c = q
  <2>1. PICK a \in Seq(Message) : a = cq[c]
    BY <1>1
  <2>2. PICK b \in Seq(Message) : b = pend[c]
    BY <1>1
  <2>3. b # <<>> /\ cq'[c] = Append(a, Head(b)) /\ pend'[c] = Tail(b)
    BY <1>1, <1>2, <2>1, <2>2
  <2>4. Append(a, Head(b)) \o Tail(b) = a \o b
    BY <2>3
  <2> QED BY <2>1, <2>2, <2>3, <2>4 DEF Coming
<1>3. CASE c # q
  BY <1>1, <1>3 DEF Coming
<1> QED BY <1>2, <1>3

LEMMA ReceiveBelieves ==
    ASSUME Typed, NEW d \in Clients, Receive(d), NEW c \in Clients, NEW x \in Cell
    PROVE  Believes(c, x)' = Believes(c, x)
<1>1. /\ cq \in [Queues -> Seq(Message)] /\ pend \in [Queues -> Seq(Message)]
      /\ view \in [Clients -> [Cell -> Values \cup {Unknown}]]
      /\ cq[d] # <<>> /\ c \in Queues /\ d \in Queues
      /\ cq' = [cq EXCEPT ![d] = Tail(@)] /\ pend' = pend
      /\ view' = [view EXCEPT ![d] = [y \in Cell |->
                    IF Mentions(Head(cq[d]), y) THEN Says(Head(cq[d]), y) ELSE view[d][y]]]
  BY QueueNames DEF Typed, TypeOK, Receive, srvVars
<1>2. CASE c = d
  <2>1. PICK a \in Seq(Message) : a = cq[c]
    BY <1>1
  <2>2. PICK b \in Seq(Message) : b = pend[c]
    BY <1>1
  <2>3. a # <<>> /\ cq'[c] = Tail(a) /\ pend'[c] = b
    BY <1>1, <1>2, <2>1, <2>2
  <2>4. Tail(a) \o b = Tail(a \o b) /\ Head(a \o b) = Head(a) /\ a \o b # <<>> /\ a \o b \in Seq(Message)
    BY <2>3
  <2>5. view'[c][x] = IF Mentions(Head(a), x) THEN Says(Head(a), x) ELSE view[c][x]
    BY <1>1, <1>2, <2>1
  <2>6. Belief(view[c][x], a \o b, x) = Belief(view'[c][x], Tail(a \o b), x)
    BY <2>4, <2>5, BeliefHead
  <2>7. Believes(c, x) = Belief(view[c][x], a \o b, x)
    BY <2>1, <2>2 DEF Believes, Belief, Heard, Coming
  <2>8. Believes(c, x)' = Belief(view'[c][x], Tail(a) \o b, x)
    BY <2>3 DEF Believes, Belief, Heard, Coming
  <2> QED BY <2>4, <2>6, <2>7, <2>8
<1>3. CASE c # d
  <2>1. Coming(c)' = Coming(c) /\ view'[c] = view[c]
    BY <1>1, <1>3 DEF Coming
  <2> QED BY <2>1 DEF Believes
<1> QED BY <1>2, <1>3

\* A handler's reply says nothing; a notification is believed last.
LEMMA ServedBelieves ==
    ASSUME Typed, NEW method, Take(method), NEW reply \in Message, reply.sel = {},
           NEW notes \in [Queues -> Seq(Message)], Dispatch(Head(dbq), reply, notes),
           NEW c \in Clients, NEW x \in Cell
    PROVE  /\ notes[c] = <<>> => Believes(c, x)' = Believes(c, x)
           /\ \A n \in Message : notes[c] = <<n>> =>
                 Believes(c, x)' = IF Mentions(n, x) THEN Says(n, x) ELSE Believes(c, x)
<1>1. /\ pend[c] = <<>> /\ UNCHANGED <<cq, view>>
      /\ pend'[c] = IF c = Head(dbq).cq THEN <<reply>> \o notes[c] ELSE notes[c]
  BY QueueNames DEF Take, Typed, Sending, NoNotes, Dispatch, cliVars
<1>2. PICK a \in Seq(Message) : a = cq[c] /\ Coming(c) = a
  BY <1>1, ComingType
<1>3. ~Mentions(reply, x)
  BY DEF Mentions, Covering
<1>4. Believes(c, x) = Belief(view[c][x], a, x)
  BY <1>2 DEF Believes, Belief, Heard
<1>5. PICK b : b = pend'[c]
  OBVIOUS
<1>6. Believes(c, x)' = Belief(view[c][x], a \o b, x)
  BY <1>1, <1>2, <1>5 DEF Believes, Belief, Heard, Coming
<1> DEFINE v == view[c][x]
           ar == Append(a, reply)
<1>7. ar \in Seq(Message) /\ Belief(v, ar, x) = Belief(v, a, x)
  BY <1>3, BeliefAppend
<1>8. ASSUME notes[c] = <<>> PROVE Believes(c, x)' = Believes(c, x)
  <2>1. CASE c = Head(dbq).cq
    <3>1. a \o b = ar
      BY <1>1, <1>5, <1>8, <2>1
    <3> QED BY <1>4, <1>6, <1>7, <3>1
  <2>2. CASE c # Head(dbq).cq
    <3>1. a \o b = a
      BY <1>1, <1>5, <1>8, <2>2
    <3> QED BY <1>4, <1>6, <3>1
  <2> QED BY <2>1, <2>2
<1>9. ASSUME NEW n \in Message, notes[c] = <<n>>
      PROVE  Believes(c, x)' = IF Mentions(n, x) THEN Says(n, x) ELSE Believes(c, x)
  <2>1. CASE c = Head(dbq).cq
    <3>1. a \o b = Append(ar, n)
      BY <1>1, <1>5, <1>9, <2>1
    <3>2. Belief(v, Append(ar, n), x) = IF Mentions(n, x) THEN Says(n, x) ELSE Belief(v, ar, x)
      <4> HIDE DEF ar, v
      <4> QED BY <1>7, BeliefAppend
    <3> QED BY <1>4, <1>6, <1>7, <3>1, <3>2
  <2>2. CASE c # Head(dbq).cq
    <3>1. a \o b = Append(a, n)
      BY <1>1, <1>5, <1>9, <2>2
    <3>2. Belief(v, Append(a, n), x) = IF Mentions(n, x) THEN Says(n, x) ELSE Belief(v, a, x)
      <4> HIDE DEF v
      <4> QED BY BeliefAppend
    <3> QED BY <1>4, <1>6, <3>1, <3>2
  <2> QED BY <2>1, <2>2
<1> QED BY <1>8, <1>9

-----------------------------------------------------------------------------
(* What changes                                                            *)

\* A cell ends as the last payload that changed something wrote it.
LEMMA LastChanged ==
    ASSUME NEW d \in [Cell -> Values], NEW pay \in Seq(Payload),
           NEW S \in SUBSET (DOMAIN pay), NEW x \in Cell
    PROVE  LET C == Covering(pay, Updated(d, pay, S), x)
           IN  Write(d, pay, S)[x] = IF C = {} THEN d[x] ELSE pay[Last(C)].data[x]
<1> DEFINE U == Updated(d, pay, S)
           C == Covering(pay, U, x)
           D == Covering(pay, S, x)
           n == Len(pay)
           Upto(i) == {j \in D : j < i}
           Val(i) == pay[i].data[x]
<1>1. n \in Nat /\ S \subseteq 1 .. n /\ U \subseteq S
  BY LenProperties DEF Updated
<1>2. C \subseteq D /\ D \in SUBSET (1 .. n) /\ C \in SUBSET (1 .. n)
  BY <1>1 DEF Covering
<1>3. Write(d, pay, S)[x] = IF D = {} THEN d[x] ELSE Val(Last(D))
  BY DEF Write
<1>4. ASSUME NEW i \in D, i \notin C
      PROVE  Val(i) = IF Upto(i) = {} THEN d[x] ELSE Val(Last(Upto(i)))
  <2>1. i \in S /\ i \notin U /\ x \in CellsOf(pay[i].key)
    BY <1>4 DEF Covering, CellsOf
  <2>2. Before(d, pay, S, i)[x] = Val(i)
    BY <2>1 DEF Updated
  <2>3. Covering(pay, {j \in S : j < i}, x) = Upto(i)
    BY DEF Covering
  <2>4. Before(d, pay, S, i)[x] = IF Upto(i) = {} THEN d[x] ELSE Val(Last(Upto(i)))
    <3> HIDE DEF Upto
    <3> QED BY <2>3 DEF Before, Write
  <2> QED BY <2>2, <2>4
<1> DEFINE W == IF C = {} THEN d[x] ELSE Val(Last(C))
           Bad == {i \in D : (\A j \in C : j <= i) /\ Val(i) # W}
<1>5. C # {} => Last(C) \in C /\ \A j \in C : j <= Last(C)
  BY <1>1, <1>2, LastLast
<1> HIDE DEF Val, U, C, D, n
<1>6. Bad = {}
  <2> SUFFICES ASSUME Bad # {} PROVE FALSE
    OBVIOUS
  <2>1. Bad \subseteq Nat
    <3>1. \A i \in 1 .. n : i \in Nat
      BY <1>1
    <3>2. Bad \subseteq D
      OBVIOUS
    <3> HIDE DEF Bad
    <3> QED BY <1>2, <3>1, <3>2
  <2>2. PICK i \in Bad : \A y \in Bad : ~(<<y, i>> \in OpToRel(<, Nat))
    <3> HIDE DEF Bad
    <3> QED BY <2>1, NatLessThanWellFounded, WFMin
  <2>3. i \in D /\ i \in 1 .. n /\ (\A j \in C : j <= i) /\ Val(i) # W
    BY <1>2
  <2>4. i \notin C
    <3> SUFFICES ASSUME i \in C PROVE FALSE
      OBVIOUS
    <3>1. Last(C) = i
      BY <1>1, <1>2, <2>3, LastIs
    <3> QED BY <2>3, <3>1
  <2>5. Val(i) = IF Upto(i) = {} THEN d[x] ELSE Val(Last(Upto(i)))
    BY <1>4, <2>3, <2>4
  <2>6. C \subseteq Upto(i)
    <3> SUFFICES ASSUME NEW j \in C PROVE j \in D /\ j < i
      OBVIOUS
    <3>1. j \in D /\ j \in 1 .. n /\ j <= i /\ j # i
      BY <1>2, <2>3, <2>4
    <3> QED BY <2>3, <3>1
  <2>7. Upto(i) # {}
    BY <2>3, <2>5, <2>6
  <2>8. PICK l : l = Last(Upto(i))
    OBVIOUS
  <2>9. l \in Upto(i) /\ \A j \in Upto(i) : j <= l
    <3>1. Upto(i) \in SUBSET (1 .. n)
      BY <1>2
    <3> HIDE DEF Upto
    <3> QED BY <1>1, <2>7, <2>8, <3>1, LastLast
  <2>10. l \in D /\ l < i /\ l \in Nat /\ i \in Nat /\ \A j \in C : j <= l
    BY <1>2, <2>3, <2>6, <2>9
  <2>11. l \in Bad
    BY <2>3, <2>5, <2>7, <2>8, <2>10
  <2>12. <<l, i>> \in OpToRel(<, Nat)
    BY <2>10 DEF OpToRel
  <2> QED BY <2>2, <2>11, <2>12
<1>7. CASE D = {}
  BY <1>2, <1>3, <1>7 DEF U, C, Val
<1>8. CASE D # {}
  <2>1. Last(D) \in D /\ \A j \in D : j <= Last(D)
    BY <1>1, <1>2, <1>8, LastLast
  <2>2. \A j \in C : j <= Last(D)
    BY <1>2, <2>1
  <2>3. Val(Last(D)) = W
    BY <1>6, <2>1, <2>2
  <2> QED BY <1>3, <1>8, <2>3 DEF U, C, Val
<1> QED BY <1>7, <1>8

-----------------------------------------------------------------------------
(* Freshness                                                               *)

\* No request writes under the same key twice: db_notify.c delivers a key
\* that comes twice once, with the contents it had first, so that the
\* subscribers would be left with these.
NoKeyTwice ==
    \A m \in Requests : m.method = "UPDATE" =>
        \A i, j \in DOMAIN m.pay : m.pay[i].key = m.pay[j].key => i = j

FreshIInv == Typed /\ Fresh

\* The payloads of a request that write, and what the client gets of them.
LEMMA SelectedFound ==
    ASSUME NEW m \in Requests, m.method \in {"UPDATE", "DELETE"},
           NEW pay \in Seq(Payload), DOMAIN pay = DOMAIN m.pay,
           \A i \in DOMAIN pay : pay[i].key = m.pay[i].key,
           NEW U \in SUBSET (DOMAIN pay), \A i \in U : pay[i].key \in Key,
           NEW c \in Clients, NEW x \in Cell, Found(c, x)
    PROVE  LET T == Selected(c, pay, U)
           IN  /\ Covering(pay, T, x) \subseteq Covering(pay, U, x)
               /\ Covering(pay, U, x) # {} => Covering(pay, T, x) # {}
               /\ NoKeyTwice /\ m.method = "UPDATE" => Covering(pay, T, x) = Covering(pay, U, x)
<1> DEFINE T == Selected(c, pay, U)
           C == Covering(pay, U, x)
<1>1. ASSUME NEW i \in C PROVE Told(c, pay[i].key)
  <2>1. i \in U /\ Covers(pay[i].key, x) /\ pay[i].key \in Key /\ i \in DOMAIN m.pay
    BY <1>1 DEF Covering
  <2>2. pay[i].key \in WriteKeys
    BY <2>1 DEF WriteKeys
  <2>3. PICK s \in Key : <<c, s>> \in subs /\ s \in SearchKeys(pay[i].key)
    BY <2>1, <2>2 DEF Found
  <2> QED BY <2>3 DEF Told
<1>2. Covering(pay, T, x) \subseteq C
  BY DEF Covering, Selected
<1>3. ASSUME C # {} PROVE Covering(pay, T, x) # {}
  <2>1. C \subseteq Nat /\ C \subseteq U
    BY LenProperties DEF Covering
  <2>2. PICK i \in C : \A y \in C : ~(<<y, i>> \in OpToRel(<, Nat))
    <3> HIDE DEF C
    <3> QED BY <1>3, <2>1, NatLessThanWellFounded, WFMin
  <2>3. \A j \in U : j < i => pay[j].key # pay[i].key
    <3> SUFFICES ASSUME NEW j \in U, j < i, pay[j].key = pay[i].key PROVE FALSE
      OBVIOUS
    <3>1. j \in C
      BY DEF Covering
    <3>2. <<j, i>> \in OpToRel(<, Nat)
      BY <2>1, <3>1 DEF OpToRel
    <3> QED BY <2>2, <3>1, <3>2
  <2>4. i \in T
    BY <1>1, <2>1, <2>3 DEF Selected
  <2> QED BY <2>4 DEF Covering
<1>4. ASSUME NoKeyTwice, m.method = "UPDATE" PROVE C \subseteq Covering(pay, T, x)
  <2> SUFFICES ASSUME NEW i \in C PROVE i \in T
    BY DEF Covering
  <2>1. \A j \in U : j < i => pay[j].key # pay[i].key
    <3> SUFFICES ASSUME NEW j \in U, j < i, pay[j].key = pay[i].key PROVE FALSE
      OBVIOUS
    <3>1. i \in DOMAIN m.pay /\ j \in DOMAIN m.pay /\ m.pay[i].key = m.pay[j].key
      BY DEF Covering
    <3>2. i = j /\ i \in Nat
      BY <1>4, <3>1, RequestType DEF NoKeyTwice
    <3> QED BY <3>2
  <2> QED BY <1>1, <2>1 DEF Selected, Covering
<1> QED BY <1>2, <1>3, <1>4

\* The tables are written, and the subscribers that are found are told.
LEMMA WrittenFresh ==
    ASSUME FreshIInv, NEW method, Take(method), NEW m \in Requests, m = Head(dbq),
           m.method \in {"UPDATE", "DELETE"},
           NEW w \in Seq(Payload), NEW pay \in Seq(Payload),
           DOMAIN w = DOMAIN m.pay, DOMAIN pay = DOMAIN m.pay,
           \A i \in DOMAIN m.pay : w[i].key = m.pay[i].key /\ pay[i].key = m.pay[i].key,
           NEW S \in SUBSET (DOMAIN w),
           \A i \in S : w[i].key \in Key /\ DOMAIN pay[i].data = CellsOf(pay[i].key),
           \/ m.method = "UPDATE" /\ NoKeyTwice /\ pay = w
           \/ m.method = "DELETE" /\ \A i \in DOMAIN w : \A y \in CellsOf(w[i].key) : w[i].data[y] = Zero,
           Store(m, w, S), UNCHANGED <<subs, refused>>,
           NEW reply \in Message, reply.sel = {},
           Dispatch(m, reply, Notes(m, pay, Updated(db, w, S)))
    PROVE  Fresh'
<1> DEFINE U == Updated(db, w, S)
           notes == Notes(m, pay, U)
<1>1. /\ Typed /\ db \in [Cell -> Values] /\ U \subseteq S
  BY DEF FreshIInv, Typed, TypeOK, Updated
<1>2. notes \in [Queues -> Seq(Message)]
  <2>1. U \in SUBSET (DOMAIN pay) /\ \A i \in U : DOMAIN pay[i].data = CellsOf(pay[i].key)
    BY <1>1
  <2> HIDE DEF U
  <2> QED BY <2>1, NotesType DEF SentMethods
<1> SUFFICES ASSUME NEW c \in Clients \ refused, NEW x \in Cell, Found(c, x), writer'[x] # c
             PROVE  Believes(c, x)' = db'[x]
  BY DEF Fresh, Found
<1> DEFINE C == Covering(w, U, x)
           T == Selected(c, pay, U)
           D == Covering(pay, T, x)
<1>3. db'[x] = IF C = {} THEN db[x] ELSE w[Last(C)].data[x]
  <2>1. db' = Write(db, w, S)
    BY DEF Store
  <2> HIDE DEF C, U
  <2> QED BY <1>1, <2>1, LastChanged DEF C, U
<1>4. /\ Covering(pay, U, x) = C /\ C \in SUBSET (DOMAIN m.pay)
      /\ \A i \in C : Covers(w[i].key, x)
  BY <1>1 DEF Covering
<1>5. /\ D \subseteq C /\ (C # {} => D # {})
      /\ NoKeyTwice /\ m.method = "UPDATE" => D = C
  <2>1. PICK Z \in SUBSET (DOMAIN pay) : Z = U /\ \A i \in Z : pay[i].key \in Key
    BY <1>1
  <2>2. /\ Covering(pay, Selected(c, pay, Z), x) \subseteq Covering(pay, Z, x)
        /\ Covering(pay, Z, x) # {} => Covering(pay, Selected(c, pay, Z), x) # {}
        /\ NoKeyTwice /\ m.method = "UPDATE" =>
              Covering(pay, Selected(c, pay, Z), x) = Covering(pay, Z, x)
    <3>1. \A i \in DOMAIN pay : pay[i].key = m.pay[i].key
      OBVIOUS
    <3> HIDE DEF U, C, D, T, notes
    <3> QED BY <2>1, <3>1, SelectedFound
  <2>3. Covering(pay, Z, x) = C /\ Covering(pay, Selected(c, pay, Z), x) = D
    BY <1>4, <2>1
  <2> HIDE DEF C, D
  <2> QED BY <2>2, <2>3
<1>6. writer'[x] = IF db'[x] = db[x] THEN writer[x] ELSE IF m.cq \in Clients THEN m.cq ELSE NoName
  BY DEF Store
<1>7. /\ notes[c] = <<>> => Believes(c, x)' = Believes(c, x)
      /\ \A n \in Message : notes[c] = <<n>> =>
            Believes(c, x)' = IF Mentions(n, x) THEN Says(n, x) ELSE Believes(c, x)
  <2>1. PICK N \in [Queues -> Seq(Message)] : N = notes
    BY <1>2
  <2>2. Dispatch(Head(dbq), reply, N)
    BY <2>1
  <2> HIDE DEF notes
  <2>3. /\ N[c] = <<>> => Believes(c, x)' = Believes(c, x)
        /\ \A n \in Message : N[c] = <<n>> =>
              Believes(c, x)' = IF Mentions(n, x) THEN Says(n, x) ELSE Believes(c, x)
    BY <1>1, <2>2, ServedBelieves
  <2> QED BY <2>1, <2>3
<1>8. db'[x] = db[x] => Believes(c, x) = db'[x]
  BY <1>6 DEF FreshIInv, Fresh
<1> DEFINE n == Note(m.method, pay, T)
<1>9. /\ n.method = m.method /\ n.pay = pay /\ n.sel = T
      /\ Mentions(n, x) <=> D # {}
  BY DEF Note, Mentions
<1>10. c \in Queues
  BY QueueNames
<1>11. CASE C = {}
  <2>1. ~Mentions(n, x) /\ db'[x] = db[x]
    BY <1>3, <1>5, <1>9, <1>11
  <2>2. notes[c] = <<>> \/ (n \in Message /\ notes[c] = <<n>>)
    <3>1. notes[c] = IF c # m.cq /\ T # {} THEN <<n>> ELSE <<>>
      BY <1>10 DEF Notes
    <3>2. T \in SUBSET (DOMAIN pay) /\ \A i \in T : DOMAIN pay[i].data = CellsOf(pay[i].key)
      BY <1>1 DEF Selected
    <3>3. n \in Message
      <4> HIDE DEF T
      <4> QED BY <3>2, NoteType DEF SentMethods
    <3> QED BY <3>1, <3>3
  <2> HIDE DEF n, notes
  <2> QED BY <1>7, <1>8, <2>1, <2>2
<1>12. CASE C # {} /\ c = m.cq
  <2>1. notes[c] = <<>>
    BY <1>10, <1>12 DEF Notes
  <2>2. db'[x] = db[x]
    BY <1>6, <1>12
  <2> HIDE DEF notes
  <2> QED BY <1>7, <1>8, <2>1, <2>2
<1>13. CASE C # {} /\ c # m.cq
  <2>1. D # {} /\ T # {}
    BY <1>5, <1>13 DEF Covering
  <2>2. n \in Message /\ notes[c] = <<n>>
    <3>1. notes[c] = <<n>>
      BY <1>10, <1>13, <2>1 DEF Notes
    <3>2. T \in SUBSET (DOMAIN pay) /\ \A i \in T : DOMAIN pay[i].data = CellsOf(pay[i].key)
      BY <1>1 DEF Selected
    <3>3. n \in Message
      <4> HIDE DEF T
      <4> QED BY <3>2, NoteType DEF SentMethods
    <3> QED BY <3>1, <3>3
  <2>3. Believes(c, x)' = Says(n, x)
    <3> HIDE DEF n, notes, D
    <3> QED BY <1>7, <1>9, <2>1, <2>2
  <2>4. Says(n, x) = IF m.method = "DELETE" THEN Zero ELSE pay[Last(D)].data[x]
    BY DEF Says, Note
  <2>5. CASE m.method = "UPDATE"
    <3>1. NoKeyTwice /\ pay = w
      BY <2>5
    <3>2. D = C
      BY <1>5, <2>5, <3>1
    <3> HIDE DEF D, C
    <3> QED BY <1>3, <1>13, <2>3, <2>4, <2>5, <3>1, <3>2
  <2>6. CASE m.method = "DELETE"
    <3>1. Last(C) \in C
      <4>1. C \in SUBSET (1 .. Len(m.pay)) /\ Len(m.pay) \in Nat
        BY <1>4, RequestType
      <4> HIDE DEF C
      <4> QED BY <1>13, <4>1, LastIsMember
    <3>2. w[Last(C)].data[x] = Zero
      <4> HIDE DEF C
      <4>1. Last(C) \in DOMAIN w /\ x \in CellsOf(w[Last(C)].key)
        BY <1>4, <3>1 DEF CellsOf
      <4> QED BY <2>6, <4>1
    <3> HIDE DEF C, D
    <3> QED BY <1>3, <1>13, <2>3, <2>4, <2>6, <3>2
  <2> QED BY <2>5, <2>6
<1> QED BY <1>11, <1>12, <1>13

\* What a GET and a SUBSCRIBE send.
LEMMA GetReply ==
    ASSUME Typed, Get
    PROVE  \E r, data : /\ Dispatch(Head(dbq), Reply("RESPONSE", r, data), NoNotes)
                        /\ Reply("RESPONSE", r, data) \in Message
<1>1. PICK m \in Requests : m = Head(dbq)
  BY TakenRequest DEF Get
<1>2. PICK done : done = Prefix(Sized(m.pay))
  OBVIOUS
<1>3. PICK p : p = Snapshot(db, m.pay)
  OBVIOUS
<1>4. PICK data : data = [i \in DOMAIN m.pay |-> IF i \in done THEN p[i] ELSE m.pay[i]]
  OBVIOUS
<1>5. Dispatch(m, Reply("RESPONSE", FailedIndex(m.pay, done), data), NoNotes)
  BY <1>1, <1>2, <1>3, <1>4 DEF Get
<1>6. data \in Seq(Payload)
  <2>1. m.pay \in Seq(Payload) /\ DOMAIN m.pay = 1 .. Len(m.pay) /\ Len(m.pay) \in Nat
    BY RequestType
  <2>2. p \in Seq(Payload) /\ DOMAIN p = DOMAIN m.pay
    BY <1>3, <2>1, SnapshotType DEF Typed, TypeOK
  <2>3. \A i \in DOMAIN m.pay : m.pay[i] \in Payload /\ p[i] \in Payload
    BY <2>1, <2>2, ElementOfSeq, LenProperties
  <2>4. data \in [1 .. Len(m.pay) -> Payload]
    BY <1>4, <2>1, <2>3
  <2> QED BY <2>1, <2>4, SeqDef
<1>7. FailedIndex(m.pay, done) \in Nat
  BY <1>2, PrefixSized
<1>8. Reply("RESPONSE", FailedIndex(m.pay, done), data) \in Message
  BY <1>6, <1>7, ReplyType DEF SentMethods
<1> QED BY <1>1, <1>5, <1>8

Subscribed(m, ok, r, added, notes) ==
    /\ Dispatch(m, Reply("ACK", r, m.pay), notes)
    /\ notes = [NoNotes EXCEPT ![m.cq] =
          IF ok THEN <<Note("GET", Snapshot(db, m.pay), DOMAIN m.pay)>> ELSE <<>>]
    /\ subs' = subs \cup {<<m.cq, m.pay[i].key>> : i \in added}
    /\ refused' = IF ok THEN refused ELSE refused \cup {m.cq}

LEMMA SubscribeSends ==
    ASSUME Typed, Subscribe, NEW m, m = Head(dbq)
    PROVE  \E ok \in BOOLEAN, r \in Nat, added \in SUBSET (DOMAIN m.pay),
              notes \in [Queues -> Seq(Message)] : Subscribed(m, ok, r, added, notes)
<1>1. m \in Requests /\ m.method = "SUBSCRIBE" /\ db \in [Cell -> Values]
  BY TakenRequest DEF Subscribe, Typed, TypeOK
<1>2. m.pay \in Seq(Payload) /\ m.cq \in Clients
  BY <1>1, RequestType, ServerAssumption
<1>3. PICK sized \in BOOLEAN : sized = \A i \in DOMAIN m.pay : m.pay[i].key \in Key
  OBVIOUS
<1>4. PICK r : r = IF SubscribeResult(m) = MW_E_OK /\ ~sized THEN MW_E_BAD_PARAMETER
                   ELSE SubscribeResult(m)
  OBVIOUS
<1>5. PICK added : added = IF m.cq \in Special THEN {} ELSE Added(m)
  OBVIOUS
<1>6. PICK first : first = Note("GET", Snapshot(db, m.pay), DOMAIN m.pay)
  OBVIOUS
<1>7. PICK notes : notes = [NoNotes EXCEPT ![m.cq] = IF r = MW_E_OK THEN <<first>> ELSE <<>>]
  OBVIOUS
<1>8. /\ Dispatch(m, Reply("ACK", r, m.pay), notes)
      /\ subs' = subs \cup {<<m.cq, m.pay[i].key>> : i \in added}
      /\ refused' = IF r = MW_E_OK THEN refused ELSE refused \cup {m.cq}
  BY <1>3, <1>4, <1>5, <1>6, <1>7 DEF Subscribe
<1>9. r \in Nat
  <2>1. Room <= 0 \/ Room > 0
    BY ServerAssumption DEF Typed, TypeOK, Room
  <2> QED BY <1>4, <2>1 DEF SubscribeResult, MW_E_OK, MW_E_NO_MEMORY, MW_E_BAD_PARAMETER
<1>10. added \in SUBSET (DOMAIN m.pay)
  BY <1>5 DEF Added
<1>11. notes \in [Queues -> Seq(Message)]
  <2>1. first \in Message
    BY <1>1, <1>2, <1>6, SnapshotType, NoteType DEF SentMethods
  <2>2. (IF r = MW_E_OK THEN <<first>> ELSE <<>>) \in Seq(Message)
    BY <2>1, EmptySeq
  <2> QED BY <1>7, <2>2, NoNotesType
<1>12. PICK ok \in BOOLEAN : ok = (r = MW_E_OK)
  OBVIOUS
<1>13. Subscribed(m, ok, r, added, notes)
  BY <1>6, <1>7, <1>8, <1>12 DEF Subscribed
<1> QED BY <1>9, <1>10, <1>11, <1>13

LEMMA UpdateFresh == NoKeyTwice /\ FreshIInv /\ Update => Fresh'
<1> SUFFICES ASSUME NoKeyTwice, FreshIInv, Update PROVE Fresh'
  OBVIOUS
<1>1. PICK m \in Requests : m = Head(dbq) /\ m.method = "UPDATE" /\ Take("UPDATE")
  BY TakenRequest DEF Update, FreshIInv
<1>2. PICK S : S = Prefix(Sized(m.pay))
  OBVIOUS
<1>3. /\ m.pay \in Seq(Payload) /\ S \in SUBSET (DOMAIN m.pay)
      /\ \A i \in S : m.pay[i].key \in Key /\ DOMAIN m.pay[i].data = CellsOf(m.pay[i].key)
  BY <1>2, RequestType DEF Prefix, Sized
<1>4. PICK reply \in Message : /\ reply.sel = {}
                               /\ Dispatch(m, reply, Notes(m, m.pay, Updated(db, m.pay, S)))
  <2>1. PICK r \in {MW_E_OK, 1} :
           Dispatch(m, Reply("RESPONSE", r, m.pay), Notes(m, m.pay, Updated(db, m.pay, S)))
    BY <1>1, <1>2 DEF Update
  <2>2. Reply("RESPONSE", r, m.pay) \in Message
    BY <1>3, ReplyType DEF SentMethods, MW_E_OK
  <2> QED BY <2>1, <2>2 DEF Reply
<1>5. Store(m, m.pay, S) /\ UNCHANGED <<subs, refused>>
  BY <1>1, <1>2 DEF Update
<1> QED BY <1>1, <1>3, <1>4, <1>5, WrittenFresh

LEMMA DeleteFresh == FreshIInv /\ Delete => Fresh'
<1> SUFFICES ASSUME FreshIInv, Delete PROVE Fresh'
  OBVIOUS
<1>1. PICK m \in Requests : m = Head(dbq) /\ m.method = "DELETE" /\ Take("DELETE")
  BY TakenRequest DEF Delete, FreshIInv
<1>2. PICK S : S = Prefix(Empty(m.pay))
  OBVIOUS
<1>3. PICK w : w = Zeroed(m.pay)
  OBVIOUS
<1>4. PICK old : old = Overwritten(db, m.pay)
  OBVIOUS
<1>5. /\ w \in Seq(Payload) /\ DOMAIN w = DOMAIN m.pay
      /\ old \in Seq(Payload) /\ DOMAIN old = DOMAIN m.pay
      /\ \A i \in DOMAIN m.pay : w[i].key = m.pay[i].key /\ old[i].key = m.pay[i].key
      /\ \A i \in DOMAIN m.pay : DOMAIN old[i].data = CellsOf(m.pay[i].key)
  <2>1. db \in [Cell -> Values]
    BY DEF FreshIInv, Typed, TypeOK
  <2> QED BY <1>3, <1>4, <2>1, OverwrittenType
<1>6. /\ S \in SUBSET (DOMAIN w)
      /\ \A i \in S : w[i].key \in Key /\ DOMAIN old[i].data = CellsOf(old[i].key)
  <2>1. S \in SUBSET (DOMAIN m.pay) /\ \A i \in S : m.pay[i].key \in Key
    BY <1>2 DEF Prefix, Empty
  <2> QED BY <1>5, <2>1
<1>7. \A i \in DOMAIN w : \A y \in CellsOf(w[i].key) : w[i].data[y] = Zero
  <2>1. w = [i \in DOMAIN m.pay |->
                [key |-> m.pay[i].key,
                 data |-> [y \in CellsOf(m.pay[i].key) |-> [x \in Cell |-> Zero][y]]]]
    BY <1>3 DEF Zeroed, Snapshot
  <2> QED BY <1>5, <2>1 DEF CellsOf
<1>8. PICK reply \in Message : /\ reply.sel = {}
                               /\ Dispatch(m, reply, Notes(m, old, Updated(db, w, S)))
  <2>1. PICK r \in {MW_E_OK, MW_E_OP_STOPPED} :
           Dispatch(m, Reply("RESPONSE", r, m.pay), Notes(m, old, Updated(db, w, S)))
    BY <1>1, <1>2, <1>3, <1>4 DEF Delete, Overwritten
  <2>2. Reply("RESPONSE", r, m.pay) \in Message
    BY RequestType, ReplyType DEF SentMethods, MW_E_OK, MW_E_OP_STOPPED
  <2> QED BY <2>1, <2>2 DEF Reply
<1>9. Store(m, w, S) /\ UNCHANGED <<subs, refused>>
  BY <1>1, <1>2, <1>3 DEF Delete
<1> QED BY <1>1, <1>5, <1>6, <1>7, <1>8, <1>9, WrittenFresh

\* No subscription is added, nothing is written and nobody is told.
LEMMA AskedFresh == FreshIInv /\ (Get \/ Unsubscribe) => Fresh'
<1> SUFFICES ASSUME FreshIInv, Get \/ Unsubscribe PROVE Fresh'
  OBVIOUS
<1>1. PICK method \in Methods, reply \in Message :
         reply.sel = {} /\ Take(method) /\ Dispatch(Head(dbq), reply, NoNotes)
  <2>1. CASE Get
    <3>1. PICK m \in Requests : m = Head(dbq) /\ Take("GET")
      BY <2>1, TakenRequest DEF Get, FreshIInv
    <3>2. PICK r, data : /\ Dispatch(m, Reply("RESPONSE", r, data), NoNotes)
                         /\ Reply("RESPONSE", r, data) \in Message
      BY <2>1, <3>1, GetReply DEF FreshIInv
    <3> QED BY <3>1, <3>2 DEF Reply, Methods
  <2>2. CASE Unsubscribe
    <3>1. PICK m \in Requests : m = Head(dbq) /\ Take("UNSUBSCRIBE")
      BY <2>2, TakenRequest DEF Unsubscribe, FreshIInv
    <3>2. PICK r \in {MW_E_OK, MW_E_ENTRY_NOT_FOUND} :
             Dispatch(m, Reply("ACK", r, m.pay), NoNotes)
      BY <2>2, <3>1 DEF Unsubscribe
    <3>3. Reply("ACK", r, m.pay) \in Message
      BY RequestType, ReplyType DEF SentMethods, MW_E_OK, MW_E_ENTRY_NOT_FOUND
    <3> QED BY <3>1, <3>2, <3>3 DEF Reply, Methods
  <2> QED BY <2>1, <2>2
<1>2. subs' \subseteq subs /\ UNCHANGED <<db, writer, refused>>
  BY DEF Get, Unsubscribe
<1> SUFFICES ASSUME NEW c \in Clients \ refused, NEW x \in Cell, Found(c, x)', writer[x] # c
             PROVE  Believes(c, x)' = db[x]
  BY <1>2 DEF Fresh
<1>3. Found(c, x)
  BY <1>2 DEF Found
<1>4. Believes(c, x)' = Believes(c, x)
  <2>1. NoNotes[c] = <<>> /\ NoNotes \in [Queues -> Seq(Message)]
    BY NoNotesType, QueueNames
  <2> QED BY <1>1, <2>1, ServedBelieves DEF FreshIInv
<1> QED BY <1>3, <1>4 DEF FreshIInv, Fresh

\* A new subscription comes with a snapshot of all it covers.
LEMMA SubscribeFresh == FreshIInv /\ Subscribe => Fresh'
<1> SUFFICES ASSUME FreshIInv, Subscribe PROVE Fresh'
  OBVIOUS
<1>1. PICK m \in Requests : m = Head(dbq) /\ m.method = "SUBSCRIBE" /\ Take("SUBSCRIBE")
  BY TakenRequest DEF Subscribe, FreshIInv
<1>2. m.cq \in Clients /\ m.pay \in Seq(Payload) /\ db \in [Cell -> Values]
  BY <1>1, RequestType, ServerAssumption DEF FreshIInv, Typed, TypeOK
<1>3. PICK p : p = Snapshot(db, m.pay)
  OBVIOUS
<1> DEFINE first == Note("GET", p, DOMAIN m.pay)
<1>4. PICK ok \in BOOLEAN, r \in Nat, added \in SUBSET (DOMAIN m.pay),
           notes \in [Queues -> Seq(Message)] : Subscribed(m, ok, r, added, notes)
  BY <1>1, SubscribeSends DEF FreshIInv
<1>0. /\ Dispatch(m, Reply("ACK", r, m.pay), notes)
      /\ notes = [NoNotes EXCEPT ![m.cq] = IF ok THEN <<first>> ELSE <<>>]
      /\ subs' = subs \cup {<<m.cq, m.pay[i].key>> : i \in added}
      /\ refused' = IF ok THEN refused ELSE refused \cup {m.cq}
  BY <1>3, <1>4 DEF Subscribed
<1>5. PICK reply \in Message : reply.sel = {} /\ Dispatch(Head(dbq), reply, notes)
  <2>1. Reply("ACK", r, m.pay) \in Message
    BY <1>2, ReplyType DEF SentMethods
  <2> QED BY <1>0, <1>1, <2>1 DEF Reply
<1>6. UNCHANGED <<db, writer>>
  BY DEF Subscribe
<1> SUFFICES ASSUME NEW c \in Clients \ refused', NEW x \in Cell, Found(c, x)', writer[x] # c
             PROVE  Believes(c, x)' = db[x]
  BY <1>6 DEF Fresh
<1>7. PICK s \in Key : /\ <<c, s>> \in subs' /\ Covers(s, x)
                       /\ \A k \in WriteKeys : Covers(k, x) => s \in SearchKeys(k)
  BY DEF Found
<1>8. <<c, s>> \in subs => Believes(c, x) = db[x]
  BY <1>0, <1>7 DEF FreshIInv, Fresh, Found
<1>9. CASE c # m.cq
  <2>1. notes[c] = <<>> /\ <<c, s>> \in subs
    BY <1>0, <1>7, <1>9, NoNotesType, QueueNames
  <2> QED BY <1>1, <1>5, <1>8, <2>1, ServedBelieves DEF FreshIInv
<1>10. CASE c = m.cq
  <2>1. ok /\ notes[c] = <<first>>
    BY <1>0, <1>10, NoNotesType, QueueNames
  <2>2. /\ DOMAIN p = DOMAIN m.pay /\ p \in Seq(Payload)
        /\ \A i \in DOMAIN m.pay : /\ p[i].key = m.pay[i].key
                                   /\ DOMAIN p[i].data = CellsOf(p[i].key)
    BY <1>2, <1>3, SnapshotType
  <2>3. first \in Message
    BY <2>2, NoteType DEF SentMethods
  <2>4. Believes(c, x)' = IF Mentions(first, x) THEN Says(first, x) ELSE Believes(c, x)
    <3>1. PICK f \in Message : f = first
      BY <2>3
    <3>2. notes[c] = <<f>>
      BY <2>1, <3>1
    <3>3. Believes(c, x)' = IF Mentions(f, x) THEN Says(f, x) ELSE Believes(c, x)
      <4> HIDE DEF first
      <4> QED BY <1>1, <1>5, <3>2, ServedBelieves DEF FreshIInv
    <3> QED BY <3>1, <3>3
  <2> DEFINE C == Covering(p, DOMAIN m.pay, x)
  <2>5. (Mentions(first, x) <=> C # {}) /\ Says(first, x) = p[Last(C)].data[x]
    BY DEF Mentions, Says, Note
  <2>6. CASE C # {}
    <3>1. C \in SUBSET (1 .. Len(m.pay)) /\ Len(m.pay) \in Nat
      BY RequestType DEF Covering
    <3>2. Last(C) \in C
      <4> HIDE DEF C
      <4> QED BY <2>6, <3>1, LastIsMember
    <3>3. Last(C) \in DOMAIN m.pay /\ x \in CellsOf(m.pay[Last(C)].key)
      BY <2>2, <3>2 DEF Covering, CellsOf
    <3>4. p[Last(C)].data[x] = db[x]
      <4> HIDE DEF C
      <4> QED BY <1>3, <3>3 DEF Snapshot
    <3> HIDE DEF C, first
    <3> QED BY <2>4, <2>5, <2>6, <3>4
  <2>7. CASE C = {}
    <3>1. <<c, s>> \in subs
      <4> SUFFICES ASSUME NEW i \in added, <<c, s>> = <<m.cq, m.pay[i].key>> PROVE FALSE
        BY <1>0, <1>7
      <4>1. i \in C
        BY <1>7, <2>2 DEF Covering
      <4> QED BY <2>7, <4>1
    <3> HIDE DEF C, first
    <3> QED BY <1>8, <2>4, <2>5, <2>7, <3>1
  <2> QED BY <2>6, <2>7
<1> QED BY <1>9, <1>10

\* Nothing changes but what a client has taken from its queue.
LEMMA ClientFresh ==
    ASSUME FreshIInv, UNCHANGED <<db, subs, writer, refused>>,
           \A c \in Clients, x \in Cell : Believes(c, x)' = Believes(c, x)
    PROVE  Fresh'
<1>1. \A c, x : Found(c, x)' <=> Found(c, x)
  BY DEF Found
<1> QED BY <1>1 DEF FreshIInv, Fresh

LEMMA StepFresh == NoKeyTwice /\ FreshIInv /\ [Next]_vars => FreshIInv'
<1> SUFFICES ASSUME NoKeyTwice, FreshIInv, [Next]_vars PROVE Fresh'
  BY StepTyped DEF FreshIInv
<1>1. CASE Serve
  BY <1>1, UpdateFresh, DeleteFresh, AskedFresh, SubscribeFresh DEF Serve
<1>2. ASSUME NEW q \in Queues, Deliver(q) PROVE Fresh'
  <2>1. UNCHANGED <<db, subs, writer, refused, view>>
    BY <1>2 DEF Deliver, cliVars
  <2>2. ASSUME NEW c \in Clients, NEW x \in Cell PROVE Believes(c, x)' = Believes(c, x)
    <3>1. Coming(c)' = Coming(c)
      BY <1>2, DeliverComing DEF FreshIInv
    <3> QED BY <2>1, <3>1 DEF Believes
  <2> QED BY <2>1, <2>2, ClientFresh
<1>3. ASSUME NEW d \in Clients, Receive(d) PROVE Fresh'
  <2>1. UNCHANGED <<db, subs, writer, refused>>
    BY <1>3 DEF Receive, srvVars
  <2>2. \A c \in Clients, x \in Cell : Believes(c, x)' = Believes(c, x)
    BY <1>3, ReceiveBelieves DEF FreshIInv
  <2> QED BY <2>1, <2>2, ClientFresh
<1>4. ASSUME NEW d \in Clients, Return(d) PROVE Fresh'
  <2>1. /\ UNCHANGED <<db, subs, writer, refused, view, pend>>
        /\ d \in Callers /\ cq' = [cq EXCEPT ![Blk[d]] = Tail(@)]
    BY <1>4 DEF Return, srvVars
  <2>2. ASSUME NEW c \in Clients, NEW x \in Cell PROVE Believes(c, x)' = Believes(c, x)
    <3>1. Coming(c)' = Coming(c)
      <4>1. /\ cq \in [Queues -> Seq(Message)] /\ c \in Queues
            /\ Blk[d] \in Queues /\ Blk[d] # c
        BY <2>1, QueueNames DEF FreshIInv, Typed, TypeOK
      <4> QED BY <2>1, <4>1 DEF Coming
    <3> QED BY <2>1, <3>1 DEF Believes
  <2> QED BY <2>1, <2>2, ClientFresh
<1>5. ASSUME UNCHANGED <<db, subs, writer, refused, view, pend, cq>> PROVE Fresh'
  <2>1. ASSUME NEW c \in Clients, NEW x \in Cell PROVE Believes(c, x)' = Believes(c, x)
    BY <1>5 DEF Believes, Coming
  <2> QED BY <1>5, <2>1, ClientFresh
<1>6. ASSUME NEW c \in Clients, Client(c) PROVE Fresh'
  BY <1>3, <1>4, <1>5, <1>6 DEF Client, Send, Resume, srvVars
<1>7. CASE UNCHANGED vars
  BY <1>5, <1>7 DEF vars
<1> QED BY <1>1, <1>2, <1>6, <1>7 DEF Next, Server

(* When no update writes under the same key twice, a subscriber is never   *)
(* left with a stale value: in any order of subscriptions, updates and     *)
(* deletions by any number of clients, with any lengths of the queues, its *)
(* copy of a cell is the database's once it has received what is on its    *)
(* way (db_notify.c).                                                      *)
THEOREM SubscribersAreFresh == ASSUME NoKeyTwice PROVE Spec => []Fresh
<1>1. Init => FreshIInv
  BY InitTyped DEF Init, FreshIInv, Fresh, Found
<1>2. FreshIInv /\ [Next]_vars => FreshIInv'
  BY StepFresh
<1>3. FreshIInv => Fresh
  BY DEF FreshIInv
<1> QED BY <1>1, <1>2, <1>3, PTL DEF Spec

-----------------------------------------------------------------------------
(* The refinement of DbAtomic *)

(* Of DbServer, the refinement needs the types and that one message is     *)
(* under way for each call.                                                *)
AtomicIInv == Typed /\ BlkQueueClean

-----------------------------------------------------------------------------
(* Payload lists                                                           *)

LEMMA LastOne == ASSUME NEW i \in Nat PROVE Last({i}) = i
BY DEF Last

\* The payloads in front of the first that fails are the first n.
LEMMA PrefixIsFirst ==
  ASSUME NEW n \in Nat, NEW S \in SUBSET (1 .. n)
  PROVE  \E k \in 0 .. n : Prefix(S) = 1 .. k
<1>1. Prefix(S) \in SUBSET (1 .. n)
  BY DEF Prefix
<1>2. CASE Prefix(S) = {}
  <2>1. Prefix(S) = 1 .. 0
    BY <1>2
  <2> QED BY <2>1
<1>3. CASE Prefix(S) # {}
  <2>1. PICK k : k = Last(Prefix(S))
    OBVIOUS
  <2>2. k \in Prefix(S) /\ \A j \in Prefix(S) : j <= k
    BY <1>1, <1>3, <2>1, LastIsGreatest
  <2>3. k \in 1 .. n /\ 1 .. k \subseteq S
    BY <1>1, <2>2 DEF Prefix
  <2>4. 1 .. k \subseteq Prefix(S)
    BY <2>3 DEF Prefix
  <2>5. Prefix(S) \subseteq 1 .. k
    BY <1>1, <2>2, <2>3
  <2>6. k \in 0 .. n
    BY <2>3
  <2>7. Prefix(S) = 1 .. k
    BY <2>4, <2>5, Zenon
  <2> QED BY <2>6, <2>7, Zenon
<1> QED BY <1>2, <1>3

\* All payloads pass when each does.
LEMMA PrefixOfAll ==
  ASSUME NEW n \in Nat
  PROVE  Prefix(1 .. n) = 1 .. n
BY DEF Prefix

\* What a handler writes is what the first payloads write.
LEMMA WriteIsWritten ==
  ASSUME NEW m \in Requests, NEW pay \in Seq(Payload), NEW k \in 0 .. Len(m.pay),
         db \in [Cell -> Values], DOMAIN pay = DOMAIN m.pay,
         \A i \in DOMAIN pay : pay[i].key = m.pay[i].key,
         m.method = "UPDATE" => pay = m.pay,
         m.method # "UPDATE" => \A i \in DOMAIN pay : \A x \in Cell :
                                   Covers(pay[i].key, x) => pay[i].data[x] = Zero
  PROVE  Write(db, pay, 1 .. k)
           = [x \in Cell |-> IF x \in DOMAIN Written(m, k) THEN Written(m, k)[x] ELSE db[x]]
<1>1. DOMAIN m.pay = 1 .. Len(m.pay) /\ Len(m.pay) \in Nat
  BY RequestType
<1>2. ASSUME NEW x \in Cell
      PROVE  /\ Covering(pay, 1 .. k, x) = Covering(m.pay, 1 .. k, x)
             /\ Covering(pay, 1 .. k, x) # {} =>
                  Last(Covering(pay, 1 .. k, x)) \in Covering(pay, 1 .. k, x)
  <2>1. Covering(pay, 1 .. k, x) = Covering(m.pay, 1 .. k, x)
    BY <1>1 DEF Covering
  <2>2. Covering(pay, 1 .. k, x) \in SUBSET (1 .. k)
    BY DEF Covering
  <2>3. PICK C : C = Covering(pay, 1 .. k, x)
    OBVIOUS
  <2>4. C # {} => Last(C) \in C
    <3>1. C \in SUBSET (1 .. k) /\ k \in Nat
      BY <1>1, <2>2, <2>3
    <3> QED BY <3>1, LastIsMember, Zenon
  <2> QED BY <2>1, <2>3, <2>4, Zenon
<1>3. ASSUME NEW x \in Cell
      PROVE  Write(db, pay, 1 .. k)[x] =
               IF x \in DOMAIN Written(m, k) THEN Written(m, k)[x] ELSE db[x]
  <2>1. x \in DOMAIN Written(m, k) <=> Covering(pay, 1 .. k, x) # {}
    BY <1>2 DEF Written
  <2>2. CASE Covering(pay, 1 .. k, x) = {}
    BY <2>1, <2>2 DEF Write
  <2>3. CASE Covering(pay, 1 .. k, x) # {}
    <3>1. PICK i : i = Last(Covering(pay, 1 .. k, x))
      OBVIOUS
    <3>2. i \in DOMAIN pay /\ Covers(pay[i].key, x)
      BY <1>1, <1>2, <2>3, <3>1 DEF Covering
    <3>3. Write(db, pay, 1 .. k)[x] = pay[i].data[x]
      BY <2>3, <3>1 DEF Write
    <3>4. Written(m, k)[x] = IF m.method = "UPDATE" THEN m.pay[i].data[x] ELSE Zero
      BY <1>2, <2>3, <3>1 DEF Written
    <3> QED BY <2>1, <2>3, <3>2, <3>3, <3>4
  <2> QED BY <2>2, <2>3
<1> QED BY <1>3 DEF Write

-----------------------------------------------------------------------------
(* What the handlers write and answer                                      *)

Over(p) == [x \in Cell |-> IF x \in DOMAIN p THEN p[x] ELSE db[x]]

LEMMA NothingWritten ==
  ASSUME NEW m \in Requests, db \in [Cell -> Values]
  PROVE  db = Over(Written(m, 0))
<1>1. DOMAIN Written(m, 0) = {}
  <2>1. \A x : Covering(m.pay, 1 .. 0, x) = {}
    BY DEF Covering
  <2> QED BY <2>1 DEF Written
<1> HIDE DEF Written
<1> QED BY <1>1 DEF Over

LEMMA UpdateWrites ==
  ASSUME Typed, Update
  PROVE  \E p \in Effects(Head(dbq)) : db' = Over(p)
<1>1. PICK m \in Requests : m = Head(dbq) /\ m.method = "UPDATE"
  BY TakenRequest DEF Update
<1>2. db' = Write(db, m.pay, Prefix(Sized(m.pay)))
  BY <1>1 DEF Update, Store
<1>3. DOMAIN m.pay = 1 .. Len(m.pay) /\ Len(m.pay) \in Nat /\ m.pay \in Seq(Payload)
  BY RequestType
<1>4. PICK k \in 0 .. Len(m.pay) : Prefix(Sized(m.pay)) = 1 .. k
  <2>1. Sized(m.pay) \in SUBSET (1 .. Len(m.pay))
    BY <1>3 DEF Sized
  <2> QED BY <1>3, <2>1, PrefixIsFirst, Zenon
<1>5. db' = Over(Written(m, k))
  <2>1. db \in [Cell -> Values]
    BY DEF Typed, TypeOK
  <2> QED BY <1>1, <1>2, <1>3, <1>4, <2>1, WriteIsWritten DEF Over
<1>6. Written(m, k) \in Effects(m)
  BY <1>1 DEF Effects
<1> QED BY <1>1, <1>5, <1>6, Zenon

LEMMA DeleteWrites ==
  ASSUME Typed, Delete
  PROVE  \E p \in Effects(Head(dbq)) : db' = Over(p)
<1>1. PICK m \in Requests : m = Head(dbq) /\ m.method = "DELETE"
  BY TakenRequest DEF Delete
<1>2. db' = Write(db, Zeroed(m.pay), Prefix(Empty(m.pay)))
  BY <1>1 DEF Delete, Store
<1>3. DOMAIN m.pay = 1 .. Len(m.pay) /\ Len(m.pay) \in Nat /\ m.pay \in Seq(Payload)
  BY RequestType
<1>4. PICK k \in 0 .. Len(m.pay) : Prefix(Empty(m.pay)) = 1 .. k
  <2>1. Empty(m.pay) \in SUBSET (1 .. Len(m.pay))
    BY <1>3 DEF Empty
  <2> QED BY <1>3, <2>1, PrefixIsFirst, Zenon
<1>5. /\ DOMAIN Zeroed(m.pay) = DOMAIN m.pay
      /\ \A i \in DOMAIN m.pay : Zeroed(m.pay)[i].key = m.pay[i].key
      /\ \A i \in DOMAIN m.pay, x \in Cell :
           Covers(m.pay[i].key, x) => Zeroed(m.pay)[i].data[x] = Zero
  BY DEF Zeroed, Snapshot, CellsOf
<1>6. Zeroed(m.pay) \in Seq(Payload)
  <2>1. [x \in Cell |-> Zero] \in [Cell -> Values]
    BY ServerAssumption
  <2> QED BY <1>3, <2>1, SnapshotType DEF Zeroed
<1>7. db' = Over(Written(m, k))
  <2>1. db \in [Cell -> Values]
    BY DEF Typed, TypeOK
  <2>2. PICK zero \in Seq(Payload) : zero = Zeroed(m.pay)
    BY <1>6
  <2> QED BY <1>1, <1>2, <1>3, <1>4, <1>5, <2>1, <2>2, WriteIsWritten DEF Over
<1>8. Written(m, k) \in Effects(m)
  BY <1>1 DEF Effects
<1> QED BY <1>1, <1>7, <1>8, Zenon

\* Every handler has an effect that its request may have.
LEMMA ServeWrites ==
  ASSUME Typed, Serve
  PROVE  /\ \E p \in Effects(Head(dbq)) : db' = Over(p)
         /\ Head(dbq) \in Requests
<1>1. Head(dbq) \in Requests
  BY TakenRequest DEF Serve, Get, Update, Delete, Subscribe, Unsubscribe
<1>2. CASE Get \/ Subscribe \/ Unsubscribe
  <2>1. PICK m \in Requests : m = Head(dbq)
    BY <1>1
  <2>2. db' = db /\ m.method \notin {"UPDATE", "DELETE"}
    BY <1>2, <2>1, TakenRequest DEF Get, Subscribe, Unsubscribe
  <2>3. Written(m, 0) \in Effects(m)
    BY <2>2 DEF Effects
  <2>4. db' = Over(Written(m, 0))
    BY <2>2, NothingWritten DEF Typed, TypeOK
  <2> QED BY <1>1, <2>1, <2>3, <2>4, Zenon
<1> QED BY <1>1, <1>2, UpdateWrites, DeleteWrites, Zenon DEF Serve

\* A whole request of a caller.
Whole(m) ==
  /\ m.method \in {"GET", "UPDATE", "DELETE"}
  /\ IF m.method = "DELETE" THEN Empty(m.pay) = DOMAIN m.pay ELSE Sized(m.pay) = DOMAIN m.pay

LEMMA CallsWhole ==
  ASSUME NEW c \in Callers, NEW m \in Requests, m.cq = Blk[c]
  PROVE  Whole(m)
<1>1. m.cq \notin Clients
  BY QueueNames
<1>2. m.method \in {"GET", "UPDATE", "DELETE"}
  BY <1>1, ServerAssumption DEF Methods
<1> QED BY <1>2, CallsAssumption DEF Whole

\* The contents of a message with the same keys and sizes as a request.
LEMMA ContentsOf ==
  ASSUME NEW m \in Requests, NEW n, NEW d, DOMAIN n.pay = DOMAIN m.pay,
         \A i \in DOMAIN m.pay : /\ n.pay[i].key = m.pay[i].key
                                 /\ DOMAIN n.pay[i].data = DOMAIN m.pay[i].data,
         \A x \in Carried(m) :
           n.pay[Last(Covering(m.pay, DOMAIN m.pay, x))].data[x] = d[x]
  PROVE  Contents(n) = [x \in Carried(m) |-> d[x]]
<1>1. \A x : Covering(n.pay, DOMAIN n.pay, x) = Covering(m.pay, DOMAIN m.pay, x)
  BY DEF Covering
<1>2. Carried(n) = Carried(m)
  <2>1. ASSUME NEW x \in Cell PROVE x \in Carried(n) <=> x \in Carried(m)
    <3>1. \A i \in Covering(m.pay, DOMAIN m.pay, x) : DOMAIN n.pay[i].data = DOMAIN m.pay[i].data
      BY DEF Covering
    <3> QED BY <1>1, <3>1 DEF Carried
  <2> QED BY <2>1 DEF Carried
<1> HIDE DEF Carried
<1> QED BY <1>1, <1>2 DEF Contents

\* The last payload that covers a cell which the request has data for.
LEMMA LastCovers ==
  ASSUME NEW m \in Requests, NEW x \in Carried(m)
  PROVE  LET i == Last(Covering(m.pay, DOMAIN m.pay, x)) IN
         /\ x \in Cell /\ Covering(m.pay, DOMAIN m.pay, x) # {}
         /\ i \in DOMAIN m.pay /\ Covers(m.pay[i].key, x)
<1>1. PICK C : C = Covering(m.pay, DOMAIN m.pay, x)
  OBVIOUS
<1>2. x \in Cell /\ C # {} /\ C \in SUBSET (DOMAIN m.pay)
  BY <1>1 DEF Carried, Covering
<1>3. Last(C) \in C
  BY <1>2, RequestType, LastIsMember
<1> QED BY <1>1, <1>2, <1>3 DEF Covering

LEMMA GetAnswers ==
  ASSUME Typed, Get, Whole(Head(dbq)), Head(dbq).cq \in Queues \ Clients
  PROVE  \E n \in Message : /\ pend'[Head(dbq).cq] = <<n>>
                            /\ Contents(n) = [x \in Carried(Head(dbq)) |-> db'[x]]
<1>1. PICK m \in Requests : m = Head(dbq) /\ m.method = "GET"
  BY TakenRequest DEF Get
<1>2. DOMAIN m.pay = 1 .. Len(m.pay) /\ Len(m.pay) \in Nat /\ m.pay \in Seq(Payload)
  BY RequestType
<1>3. Sized(m.pay) = DOMAIN m.pay /\ Prefix(DOMAIN m.pay) = DOMAIN m.pay
  BY <1>1, <1>2, PrefixOfAll DEF Whole
<1>4. PICK data : data = [i \in DOMAIN m.pay |->
                      IF i \in Prefix(Sized(m.pay)) THEN Snapshot(db, m.pay)[i] ELSE m.pay[i]]
  OBVIOUS
<1>5. data = [i \in DOMAIN m.pay |-> Snapshot(db, m.pay)[i]]
  BY <1>3, <1>4
<1>6. data = Snapshot(db, m.pay) /\ data \in Seq(Payload)
  <2>1. Snapshot(db, m.pay) = [i \in DOMAIN m.pay |-> Snapshot(db, m.pay)[i]]
    BY DEF Snapshot
  <2>2. db \in [Cell -> Values]
    BY DEF Typed, TypeOK
  <2>3. Snapshot(db, m.pay) \in Seq(Payload)
    BY <1>2, <2>2, SnapshotType
  <2> QED BY <1>5, <2>1, <2>3, Zenon
<1>7. PICK n : n = Reply("RESPONSE", FailedIndex(m.pay, Prefix(Sized(m.pay))), data)
  OBVIOUS
<1>8. n \in Message /\ n.pay = data
  <2>1. FailedIndex(m.pay, Prefix(Sized(m.pay))) \in Nat /\ "RESPONSE" \in SentMethods
    BY PrefixSized DEF SentMethods
  <2>2. n \in Message
    BY <1>6, <1>7, <2>1, ReplyType, Zenon
  <2> QED BY <1>7, <2>2 DEF Reply
<1>9. Dispatch(m, n, NoNotes) /\ db' = db
  BY <1>1, <1>4, <1>7 DEF Get
<1>10. pend'[m.cq] = <<n>>
  <2>1. pend'[m.cq] = <<n>> \o NoNotes[m.cq]
    BY <1>1, <1>9 DEF Dispatch
  <2>2. NoNotes[m.cq] = <<>>
    BY <1>1, NoNotesType
  <2> QED BY <1>8, <2>1, <2>2
<1>11. Contents(n) = [x \in Carried(m) |-> db[x]]
  <2>1. ASSUME NEW i \in DOMAIN m.pay
        PROVE  /\ n.pay[i].key = m.pay[i].key
               /\ n.pay[i].data = [x \in CellsOf(m.pay[i].key) |-> db[x]]
               /\ DOMAIN n.pay[i].data = DOMAIN m.pay[i].data
    <3>1. DOMAIN m.pay[i].data = CellsOf(m.pay[i].key)
      BY <1>3 DEF Sized
    <3> QED BY <1>6, <1>8, <3>1 DEF Snapshot
  <2>2. ASSUME NEW x \in Carried(m)
        PROVE  n.pay[Last(Covering(m.pay, DOMAIN m.pay, x))].data[x] = db[x]
    <3>1. PICK i : i = Last(Covering(m.pay, DOMAIN m.pay, x))
      OBVIOUS
    <3>2. i \in DOMAIN m.pay /\ x \in CellsOf(m.pay[i].key)
      BY <3>1, LastCovers DEF CellsOf
    <3> QED BY <2>1, <3>1, <3>2
  <2>3. DOMAIN n.pay = DOMAIN m.pay
    BY <1>5, <1>8
  <2>4. \A i \in DOMAIN m.pay : /\ n.pay[i].key = m.pay[i].key
                              /\ DOMAIN n.pay[i].data = DOMAIN m.pay[i].data
    BY <2>1
  <2>5. PICK d : d = db
    OBVIOUS
  <2>6. \A x \in Carried(m) : n.pay[Last(Covering(m.pay, DOMAIN m.pay, x))].data[x] = d[x]
    BY <2>2, <2>5
  <2>7. Contents(n) = [x \in Carried(m) |-> d[x]]
    BY <2>3, <2>4, <2>6, ContentsOf
  <2> QED BY <2>5, <2>7
<1> QED BY <1>1, <1>8, <1>9, <1>10, <1>11

\* What an update or deletion sends to the second queue of a caller.
LEMMA ReplyOnly ==
  ASSUME Typed, NEW m \in Requests, m.cq \in Queues \ Clients,
         NEW n \in Message, NEW pay, NEW changed, Dispatch(m, n, Notes(m, pay, changed))
  PROVE  pend'[m.cq] = <<n>>
<1>1. pend'[m.cq] = <<n>> \o Notes(m, pay, changed)[m.cq]
  BY DEF Dispatch
<1>2. Notes(m, pay, changed)[m.cq] = <<>>
  BY DEF Notes
<1> QED BY <1>1, <1>2

LEMMA UpdateAnswers ==
  ASSUME Typed, Update, Whole(Head(dbq)), Head(dbq).cq \in Queues \ Clients
  PROVE  \E n \in Message : /\ pend'[Head(dbq).cq] = <<n>>
                            /\ Contents(n) = [x \in Carried(Head(dbq)) |-> db'[x]]
<1>1. PICK m \in Requests : m = Head(dbq) /\ m.method = "UPDATE"
  BY TakenRequest DEF Update
<1>2. DOMAIN m.pay = 1 .. Len(m.pay) /\ Len(m.pay) \in Nat /\ m.pay \in Seq(Payload)
  BY RequestType
<1>3. Prefix(Sized(m.pay)) = DOMAIN m.pay
  <2>1. Sized(m.pay) = DOMAIN m.pay
    BY <1>1 DEF Whole
  <2> QED BY <1>2, <2>1, PrefixOfAll
<1>4. PICK result \in Nat : result = IF FailedIndex(m.pay, Prefix(Sized(m.pay))) = 1 THEN 1 ELSE MW_E_OK
  BY DEF MW_E_OK
<1>5. PICK n : n = Reply("RESPONSE", result, m.pay)
  OBVIOUS
<1>6. n \in Message /\ n.pay = m.pay
  <2>1. n \in Message
    BY <1>2, <1>5, ReplyType DEF SentMethods
  <2> QED BY <1>5, <2>1 DEF Reply
<1>7. /\ Dispatch(m, n, Notes(m, m.pay, Updated(db, m.pay, Prefix(Sized(m.pay)))))
      /\ db' = Write(db, m.pay, DOMAIN m.pay)
  BY <1>1, <1>3, <1>4, <1>5 DEF Update, Store
<1>8. pend'[m.cq] = <<n>>
  BY <1>1, <1>6, <1>7, ReplyOnly
<1>9. ASSUME NEW x \in Carried(m)
      PROVE  n.pay[Last(Covering(m.pay, DOMAIN m.pay, x))].data[x] = db'[x]
  BY <1>6, <1>7, LastCovers DEF Write
<1>10. Contents(n) = [x \in Carried(m) |-> db'[x]]
  <2>1. PICK d : d = db'
    OBVIOUS
  <2> QED BY <1>6, <1>9, <2>1, ContentsOf
<1> QED BY <1>1, <1>6, <1>8, <1>10

LEMMA DeleteAnswers ==
  ASSUME Typed, Delete, Whole(Head(dbq)), Head(dbq).cq \in Queues \ Clients
  PROVE  \E n \in Message : /\ pend'[Head(dbq).cq] = <<n>>
                            /\ Contents(n) = [x \in Carried(Head(dbq)) |-> db'[x]]
<1>1. PICK m \in Requests : m = Head(dbq) /\ m.method = "DELETE"
  BY TakenRequest DEF Delete
<1>2. m.pay \in Seq(Payload)
  BY RequestType
<1>4. PICK result \in Nat :
        result = IF Prefix(Empty(m.pay)) = {} THEN MW_E_OP_STOPPED ELSE MW_E_OK
  BY DEF MW_E_OK, MW_E_OP_STOPPED
<1>5. PICK n : n = Reply("RESPONSE", result, m.pay)
  OBVIOUS
<1>6. n \in Message /\ n.pay = m.pay
  <2>1. n \in Message
    BY <1>2, <1>5, ReplyType DEF SentMethods
  <2> QED BY <1>5, <2>1 DEF Reply
<1>7. \E old, changed : Dispatch(m, n, Notes(m, old, changed))
  BY <1>1, <1>4, <1>5 DEF Delete
<1>8. pend'[m.cq] = <<n>>
  BY <1>1, <1>6, <1>7, ReplyOnly
<1>9. Carried(m) = {}
  BY <1>1 DEF Carried, Covering, Whole, Empty
<1>10. Contents(n) = [x \in Carried(m) |-> db'[x]]
  <2>1. PICK d : d = db'
    OBVIOUS
  <2> QED BY <1>6, <1>9, <2>1, ContentsOf
<1> QED BY <1>1, <1>6, <1>8, <1>10

\* The answer of a call holds what the cells hold when it is served.
LEMMA ServeAnswers ==
  ASSUME Typed, Serve, Whole(Head(dbq)), Head(dbq).cq \in Queues \ Clients
  PROVE  \E n \in Message : /\ pend'[Head(dbq).cq] = <<n>>
                            /\ Contents(n) = [x \in Carried(Head(dbq)) |-> db'[x]]
<1>1. ~ Subscribe /\ ~ Unsubscribe
  BY DEF Whole, Subscribe, Unsubscribe, Take
<1> QED BY <1>1, GetAnswers, UpdateAnswers, DeleteAnswers, Zenon DEF Serve

-----------------------------------------------------------------------------
(* Where a call is                                                         *)

\* One message among three places.
LEMMA OneOfThree ==
  ASSUME NEW A, IsFiniteSet(A), NEW p \in Seq(Message), NEW s \in Seq(Message), NEW w \in {0, 1},
         Cardinality(A) + Len(p) + Len(s) = w
  PROVE  /\ w = 0 => A = {} /\ p \o s = <<>>
         /\ w = 1 => \/ p \o s = <<>> /\ \E i : A = {i}
                     \/ A = {} /\ Len(p \o s) = 1
<1>1. Len(p) \in Nat /\ Len(s) \in Nat /\ Cardinality(A) \in Nat
  BY LenProperties, FS_CardinalityType
<1>2. (Cardinality(A) = 0 <=> A = {}) /\ (Cardinality(A) = 1 => \E i : A = {i})
  BY FS_EmptySet, FS_Singleton
<1>3. p \o s \in Seq(Message) /\ Len(p \o s) = Len(p) + Len(s)
  BY ConcatProperties
<1>4. Len(p \o s) = 0 => p \o s = <<>>
  BY <1>3, EmptySeq
<1>5. CASE w = 0
  BY <1>1, <1>2, <1>3, <1>4, <1>5
<1>6. CASE w = 1
  <2>1. \/ Cardinality(A) = 1 /\ Len(p) + Len(s) = 0
        \/ Cardinality(A) = 0 /\ Len(p) + Len(s) = 1
    BY <1>1, <1>6
  <2> QED BY <1>2, <1>3, <1>4, <1>6, <2>1
<1> QED BY <1>5, <1>6

\* The request of a call is in dbq, or its answer is on its way.
LEMMA Places ==
  ASSUME AtomicIInv, NEW c \in Callers
  PROVE  /\ pc[c] # "wait" => Asked(c) = {} /\ Answers(c) = <<>>
         /\ pc[c] = "wait" => \/ Answers(c) = <<>> /\ \E i \in 1 .. Len(dbq) : Asked(c) = {i}
                              \/ Asked(c) = {} /\ Len(Answers(c)) = 1
<1>1. Blk[c] \in Queues /\ Asked(c) = InDbq(Blk[c])
  BY QueueNames DEF Asked, InDbq
<1>2. PICK p : p = pend[Blk[c]]
  OBVIOUS
<1>3. PICK s : s = cq[Blk[c]]
  OBVIOUS
<1>4. p \in Seq(Message) /\ s \in Seq(Message) /\ Answers(c) = p \o s
  BY <1>1, <1>2, <1>3 DEF AtomicIInv, Typed, TypeOK, Answers
<1>5. IsFiniteSet(Asked(c)) /\ Asked(c) \subseteq 1 .. Len(dbq)
  BY <1>1, InDbqType DEF AtomicIInv
<1>6. PICK w \in {0, 1} : w = IF pc[c] = "wait" THEN 1 ELSE 0
  OBVIOUS
<1>7. Cardinality(Asked(c)) + Len(p) + Len(s) = w
  BY <1>1, <1>2, <1>3, <1>6 DEF AtomicIInv, BlkQueueClean
<1>8. /\ w = 0 => Asked(c) = {} /\ p \o s = <<>>
      /\ w = 1 => \/ p \o s = <<>> /\ \E i : Asked(c) = {i}
                  \/ Asked(c) = {} /\ Len(p \o s) = 1
  <2>1. p \in Seq(Message) /\ s \in Seq(Message) /\ IsFiniteSet(Asked(c))
    BY <1>4, <1>5
  <2>2. PICK A : A = Asked(c)
    OBVIOUS
  <2>3. IsFiniteSet(A) /\ Cardinality(A) + Len(p) + Len(s) = w
    BY <1>7, <2>1, <2>2
  <2>4. /\ w = 0 => A = {} /\ p \o s = <<>>
        /\ w = 1 => \/ p \o s = <<>> /\ \E i : A = {i}
                    \/ A = {} /\ Len(p \o s) = 1
    BY <2>1, <2>3, OneOfThree
  <2> QED BY <2>2, <2>4, Zenon
<1>9. (\E i : Asked(c) = {i}) => \E i \in 1 .. Len(dbq) : Asked(c) = {i}
  BY <1>5
<1>10. CASE pc[c] = "wait"
  <2>1. w = 1
    BY <1>6, <1>10
  <2> QED BY <1>4, <1>8, <1>9, <1>10, <2>1, Zenon
<1>11. CASE pc[c] # "wait"
  <2>1. w = 0
    BY <1>6, <1>11
  <2> QED BY <1>4, <1>8, <1>11, <2>1, Zenon
<1> QED BY <1>10, <1>11

SameCall(c) == CallOf(c)' = CallOf(c) /\ AnswerOf(c)' = AnswerOf(c)

\* A caller is where it was when its request and its answer are.
LEMMA Unmoved ==
  ASSUME NEW c \in Callers, pc'[c] = pc[c], out'[c] = out[c], Answers(c)' = Answers(c),
         \/ Asked(c) = {} /\ Asked(c)' = {}
         \/ \E i, j \in Nat : Asked(c) = {i} /\ Asked(c)' = {j} /\ dbq'[j] = dbq[i]
  PROVE  SameCall(c)
<1>1. CallOf(c)' = CallOf(c)
  <2>1. CASE Asked(c) = {} /\ Asked(c)' = {}
    BY <2>1 DEF CallOf, IsCall
  <2>2. CASE \E i, j \in Nat : Asked(c) = {i} /\ Asked(c)' = {j} /\ dbq'[j] = dbq[i]
    <3>1. PICK i \in Nat, j \in Nat : Asked(c) = {i} /\ Asked(c)' = {j} /\ dbq'[j] = dbq[i]
      BY <2>2
    <3>2. Last({i}) = i /\ Last({j}) = j
      BY LastOne
    <3>3. dbq[Last(Asked(c))] = dbq'[Last(Asked(c)')] /\ Asked(c) # {} /\ Asked(c)' # {}
      BY <3>1, <3>2
    <3> QED BY <3>3 DEF CallOf, IsCall
  <2> QED BY <2>1, <2>2
<1>2. AnswerOf(c)' = AnswerOf(c)
  BY <1>1 DEF AnswerOf
<1> QED BY <1>1, <1>2 DEF SameCall

\* Outside the way back there is no answer.
LEMMA NoAnswer ==
  /\ \A m : <<m>> # Back /\ <<m>> # <<>> /\ <<m>>[1] = m
  /\ Back # <<>>
<1>1. ASSUME NEW m PROVE <<m>> # Back /\ <<m>> # <<>> /\ <<m>>[1] = m
  <2>1. Len(<<m>>) = 1 /\ Len(Back) = 2 /\ Len(<<>>) = 0
    BY DEF Back
  <2> QED BY <2>1
<1>2. Back # <<>>
  BY DEF Back
<1> QED BY <1>1, <1>2

-----------------------------------------------------------------------------
(* The queue of the database                                               *)

LEMMA AskedTail ==
  ASSUME Typed, NEW c \in Callers, dbq # <<>>, dbq' = Tail(dbq), Head(dbq).cq # Blk[c],
         Asked(c) = {} \/ \E i \in 1 .. Len(dbq) : Asked(c) = {i}
  PROVE  \/ Asked(c) = {} /\ Asked(c)' = {}
         \/ \E i, j \in Nat : Asked(c) = {i} /\ Asked(c)' = {j} /\ dbq'[j] = dbq[i]
<1>1. /\ Len(dbq) \in Nat /\ DOMAIN dbq = 1 .. Len(dbq) /\ dbq[1] = Head(dbq)
      /\ DOMAIN dbq' = 1 .. Len(dbq) - 1
      /\ \A i \in 1 .. Len(dbq) - 1 : dbq'[i] = dbq[i + 1]
  <2>1. dbq \in Seq(Requests)
    BY DEF Typed, TypeOK
  <2>2. Tail(dbq) \in Seq(Requests) /\ Len(Tail(dbq)) = Len(dbq) - 1
        /\ \A i \in 1 .. Len(Tail(dbq)) : Tail(dbq)[i] = dbq[i + 1]
    BY <2>1, HeadTailProperties
  <2>3. DOMAIN Tail(dbq) = 1 .. Len(Tail(dbq))
    BY <2>2, LenProperties
  <2> QED BY <2>1, <2>2, <2>3, LenProperties, EmptySeq
<1>2. \A i \in 1 .. Len(dbq) - 1 : i \in Asked(c)' <=> i + 1 \in Asked(c)
  BY <1>1 DEF Asked
<1>3. Asked(c)' \subseteq 1 .. Len(dbq) - 1
  BY <1>1 DEF Asked
<1>4. CASE Asked(c) = {}
  BY <1>2, <1>3, <1>4
<1>5. ASSUME NEW i \in 1 .. Len(dbq), Asked(c) = {i}
      PROVE  \E j \in Nat : i \in Nat /\ Asked(c)' = {j} /\ dbq'[j] = dbq[i]
  <2>1. i # 1
    BY <1>1, <1>5 DEF Asked
  <2>2. PICK j : j = i - 1
    OBVIOUS
  <2>3. j \in 1 .. Len(dbq) - 1 /\ j + 1 = i
    BY <1>1, <2>1, <2>2
  <2>4. j \in Asked(c)' /\ dbq'[j] = dbq[i]
    BY <1>1, <1>2, <1>5, <2>3
  <2>5. ASSUME NEW k \in Asked(c)' PROVE k = j
    <3>1. k \in 1 .. Len(dbq) - 1 /\ k + 1 = i
      BY <1>2, <1>3, <1>5
    <3> QED BY <2>3, <3>1
  <2>6. Asked(c)' = {j}
    <3>1. j \in Asked(c)'
      BY <2>4
    <3> QED BY <2>5, <3>1, Zenon
  <2>7. j \in Nat /\ i \in Nat
    BY <1>1, <2>3
  <2> QED BY <2>4, <2>6, <2>7
<1> QED BY <1>4, <1>5, Zenon

LEMMA AskedAppend ==
  ASSUME Typed, NEW c \in Callers, NEW m \in Requests, dbq' = Append(dbq, m)
  PROVE  /\ \A i \in Asked(c) : dbq'[i] = dbq[i]
         /\ Asked(c) \subseteq Nat
         /\ m.cq # Blk[c] => Asked(c)' = Asked(c)
         /\ m.cq = Blk[c] => Asked(c)' = Asked(c) \cup {Len(dbq) + 1}
         /\ dbq'[Len(dbq) + 1] = m /\ Len(dbq) + 1 \in Nat
<1>1. dbq \in Seq(Requests) /\ Len(dbq) \in Nat /\ DOMAIN dbq = 1 .. Len(dbq)
  BY LenProperties DEF Typed, TypeOK
<1>2. /\ \A i \in 1 .. Len(dbq) : dbq'[i] = dbq[i]
      /\ dbq'[Len(dbq) + 1] = m /\ DOMAIN dbq' = 1 .. Len(dbq) + 1
  <2>1. /\ Append(dbq, m) \in Seq(Requests) /\ Len(Append(dbq, m)) = Len(dbq) + 1
        /\ \A i \in 1 .. Len(dbq) : Append(dbq, m)[i] = dbq[i]
        /\ Append(dbq, m)[Len(dbq) + 1] = m
    BY <1>1, AppendProperties
  <2>2. DOMAIN Append(dbq, m) = 1 .. Len(dbq) + 1
    BY <2>1, LenProperties
  <2> QED BY <2>1, <2>2
<1>3. Asked(c) \subseteq 1 .. Len(dbq) /\ Asked(c)' \subseteq 1 .. Len(dbq) + 1
  BY <1>1, <1>2 DEF Asked
<1>4. \A i \in 1 .. Len(dbq) : i \in Asked(c)' <=> i \in Asked(c)
  BY <1>1, <1>2 DEF Asked
<1>5. Len(dbq) + 1 \in Asked(c)' <=> m.cq = Blk[c]
  BY <1>1, <1>2 DEF Asked
<1>6. \A i \in 1 .. Len(dbq) + 1 : i \in 1 .. Len(dbq) \/ i = Len(dbq) + 1
  BY <1>1
<1>7. Len(dbq) + 1 \notin Asked(c)
  BY <1>1, <1>3
<1>8. m.cq # Blk[c] => Asked(c)' = Asked(c)
  BY <1>3, <1>4, <1>5, <1>6, Zenon
<1>9. m.cq = Blk[c] => Asked(c)' = Asked(c) \cup {Len(dbq) + 1}
  BY <1>3, <1>4, <1>5, <1>6
<1> QED BY <1>1, <1>2, <1>3, <1>8, <1>9

\* The request at the head of dbq is that of a call.
LEMMA AskedHead ==
  ASSUME AtomicIInv, NEW c \in Callers, dbq # <<>>, dbq' = Tail(dbq), Head(dbq).cq = Blk[c]
  PROVE  Asked(c) = {1} /\ Asked(c)' = {} /\ pc[c] = "wait" /\ Answers(c) = <<>> /\ dbq[1] = Head(dbq)
<1>1. /\ Len(dbq) \in Nat /\ DOMAIN dbq = 1 .. Len(dbq) /\ dbq[1] = Head(dbq) /\ Len(dbq) # 0
      /\ DOMAIN dbq' = 1 .. Len(dbq) - 1
      /\ \A i \in 1 .. Len(dbq) - 1 : dbq'[i] = dbq[i + 1]
  <2>1. dbq \in Seq(Requests)
    BY DEF AtomicIInv, Typed, TypeOK
  <2>2. Tail(dbq) \in Seq(Requests) /\ Len(Tail(dbq)) = Len(dbq) - 1
        /\ \A i \in 1 .. Len(Tail(dbq)) : Tail(dbq)[i] = dbq[i + 1]
    BY <2>1, HeadTailProperties
  <2>3. DOMAIN Tail(dbq) = 1 .. Len(Tail(dbq))
    BY <2>2, LenProperties
  <2> QED BY <2>1, <2>2, <2>3, LenProperties, EmptySeq
<1>2. 1 \in Asked(c)
  BY <1>1 DEF Asked
<1>3. Asked(c) # {}
  BY <1>2
<1>4. pc[c] = "wait" /\ Answers(c) = <<>> /\ \E i \in 1 .. Len(dbq) : Asked(c) = {i}
  BY <1>3, Places, Zenon
<1>5. Asked(c) = {1}
  BY <1>2, <1>4
<1>6. \A i \in 1 .. Len(dbq) - 1 : i \in Asked(c)' => i + 1 \in Asked(c)
  BY <1>1 DEF Asked
<1>7. Asked(c)' \subseteq 1 .. Len(dbq) - 1
  BY <1>1 DEF Asked
<1>8. Asked(c)' = {}
  <2>1. ASSUME NEW i \in Asked(c)' PROVE FALSE
    <3>1. i \in 1 .. Len(dbq) - 1 /\ i + 1 = 1
      BY <1>5, <1>6, <1>7
    <3> QED BY <1>1, <3>1
  <2> QED BY <2>1
<1> QED BY <1>1, <1>4, <1>5, <1>8

-----------------------------------------------------------------------------
(* The steps that a caller does not see *)

\* What concerns a caller alone stays as it is.
LEMMA Still ==
  ASSUME NEW c \in Callers, pc'[c] = pc[c], out'[c] = out[c], Answers(c)' = Answers(c),
         dbq' = dbq
  PROVE  SameCall(c)
<1>1. Asked(c)' = Asked(c)
  BY DEF Asked
<1>2. CallOf(c)' = CallOf(c)
  BY <1>1 DEF CallOf, IsCall
<1> QED BY <1>2 DEF SameCall, AnswerOf

LEMMA MovedHead ==
  ASSUME NEW p \in Seq(Message), NEW s \in Seq(Message), p # <<>>, Len(p \o s) = 1
  PROVE  Tail(p) \o Append(s, Head(p)) = p \o s
<1>1. Len(p) \in Nat /\ Len(s) \in Nat /\ Len(p) # 0 /\ Len(p) + Len(s) = 1
  BY LenProperties, ConcatProperties, EmptySeq
<1>2. s = <<>> /\ Len(p) = 1
  <2>1. Len(s) = 0 /\ Len(p) = 1
    <3>1. \A a, b \in Nat : a # 0 /\ a + b = 1 => b = 0 /\ a = 1
      OBVIOUS
    <3> QED BY <1>1, <3>1, Zenon
  <2> QED BY <2>1, EmptySeq
<1>3. Tail(p) \in Seq(Message) /\ Len(Tail(p)) = 0 /\ Head(p) \in Message /\ p[1] = Head(p)
  BY <1>2, HeadTailProperties
<1>4. Tail(p) = <<>>
  BY <1>3, EmptySeq
<1>5. p = <<Head(p)>>
  BY <1>2, <1>3
<1>6. Append(s, Head(p)) = <<Head(p)>>
  BY <1>2, <1>3
<1>7. <<>> \o <<Head(p)>> = <<Head(p)>> /\ p \o <<>> = p
  BY <1>3, ConcatEmptySeq
<1> QED BY <1>2, <1>4, <1>5, <1>6, <1>7, Zenon

LEMMA DeliverStill ==
  ASSUME AtomicIInv, NEW q \in Queues, Deliver(q), NEW c \in Callers
  PROVE  SameCall(c)
<1>1. /\ cq \in [Queues -> Seq(Message)] /\ pend \in [Queues -> Seq(Message)]
      /\ pend[q] # <<>> /\ Blk[c] \in Queues
      /\ cq' = [cq EXCEPT ![q] = Append(@, Head(pend[q]))]
      /\ pend' = [pend EXCEPT ![q] = Tail(@)]
  BY QueueNames DEF AtomicIInv, Typed, TypeOK, Sending, Deliver
<1>2. Answers(c)' = Answers(c)
  <2>1. CASE Blk[c] = q
    <3>1. PICK p \in Seq(Message) : p = pend[q]
      BY <1>1
    <3>2. PICK s \in Seq(Message) : s = cq[q]
      BY <1>1
    <3>3. Answers(c) = p \o s /\ p # <<>>
      BY <1>1, <2>1, <3>1, <3>2 DEF Answers
    <3>4. Len(p \o s) = 1
      <4>1. p \o s # <<>>
        BY <3>3, ConcatProperties, LenProperties, EmptySeq
      <4> QED BY <3>3, <4>1, Places
    <3>5. Answers(c)' = Tail(p) \o Append(s, Head(p))
      BY <1>1, <2>1, <3>1, <3>2 DEF Answers
    <3> QED BY <3>3, <3>4, <3>5, MovedHead
  <2>2. CASE Blk[c] # q
    BY <1>1, <2>2 DEF Answers
  <2> QED BY <2>1, <2>2
<1> QED BY <1>2, Still DEF Deliver, cliVars

LEMMA ReceiveStill ==
  ASSUME AtomicIInv, NEW d \in Clients, Receive(d), NEW c \in Callers
  PROVE  SameCall(c)
<1>1. /\ cq \in [Queues -> Seq(Message)] /\ Blk[c] \in Queues /\ Blk[c] # d
      /\ cq' = [cq EXCEPT ![d] = Tail(@)] /\ UNCHANGED <<pend, dbq, pc, out>>
  BY QueueNames DEF AtomicIInv, Typed, TypeOK, Receive, srvVars
<1>2. Answers(c)' = Answers(c)
  BY <1>1 DEF Answers
<1> QED BY <1>1, <1>2, Still

-----------------------------------------------------------------------------
(* The steps that a caller sees *)

\* A function of the callers that changes for one of them.
LEMMA OneCall ==
  ASSUME NEW c \in Callers, NEW call, NEW ans, CallOf(c)' = call, AnswerOf(c)' = ans,
         \A d \in Callers : d # c => SameCall(d)
  PROVE  /\ [d \in Callers |-> CallOf(d)]' = [[d \in Callers |-> CallOf(d)] EXCEPT ![c] = call]
         /\ [d \in Callers |-> AnswerOf(d)]' = [[d \in Callers |-> AnswerOf(d)] EXCEPT ![c] = ans]
BY DEF SameCall

LEMMA NoCall ==
  ASSUME \A d \in Callers : SameCall(d)
  PROVE  UNCHANGED <<[d \in Callers |-> CallOf(d)], [d \in Callers |-> AnswerOf(d)]>>
BY DEF SameCall

LEMMA Unanswered ==
  ASSUME NEW c \in Callers
  PROVE  /\ CallOf(c) # Back => AnswerOf(c) = Atomic!Nothing
         /\ CallOf(c)' # Back => AnswerOf(c)' = Atomic!Nothing
BY DEF AnswerOf, Atomic!Nothing

LEMMA ReturnReturns ==
  ASSUME AtomicIInv, NEW c \in Clients, Return(c)
  PROVE  c \in Callers /\ Atomic!Return(c)
<1>1. /\ c \in Callers /\ pc[c] = "wait" /\ cq[Blk[c]] # <<>>
      /\ cq' = [cq EXCEPT ![Blk[c]] = Tail(@)]
      /\ pc' = [pc EXCEPT ![c] = "loop"] /\ UNCHANGED <<db, pend, dbq, out>>
  BY DEF Return, srvVars
<1>2. /\ cq \in [Queues -> Seq(Message)] /\ pend \in [Queues -> Seq(Message)]
      /\ pc \in [Clients -> {"loop", "send", "wait"}] /\ Blk[c] \in Queues
  BY <1>1, QueueNames DEF AtomicIInv, Typed, TypeOK
<1>3. Answers(c) # <<>>
  <2>1. pend[Blk[c]] \in Seq(Message) /\ cq[Blk[c]] \in Seq(Message)
    BY <1>2
  <2> QED BY <1>1, <2>1, ConcatProperties, LenProperties, EmptySeq DEF Answers
<1>4. CallOf(c) = Back
  <2>1. Asked(c) = {}
    BY <1>1, <1>3, Places, Zenon
  <2> QED BY <1>1, <2>1 DEF CallOf
<1>5. CallOf(c)' = <<>> /\ AnswerOf(c)' = Atomic!Nothing
  <2>1. pc'[c] = "loop"
    BY <1>1, <1>2
  <2>2. CallOf(c)' = <<>>
    BY <2>1 DEF CallOf
  <2> QED BY <1>1, <2>2, Unanswered, NoAnswer
<1>6. ASSUME NEW d \in Callers, d # c PROVE SameCall(d)
  <2>1. Blk[d] # Blk[c] /\ Blk[d] \in Queues /\ d \in Clients
    BY <1>1, <1>6, QueueNames
  <2>2. Answers(d)' = Answers(d) /\ pc'[d] = pc[d]
    BY <1>1, <1>2, <1>6, <2>1 DEF Answers
  <2> QED BY <1>1, <2>2, Still
<1>7. Atomic!Return(c)
  BY <1>1, <1>4, <1>5, <1>6, OneCall DEF Atomic!Return
<1> QED BY <1>1, <1>7

\* A request that enters dbq, in the eyes of the caller that sends it and of
\* the others.
LEMMA EnqueueCall ==
  ASSUME AtomicIInv, NEW c \in Clients, NEW m \in Requests,
         m.cq \in {c, NoName} \/ IsCall(c, m), pc[c] # "wait", Enqueue(c, m),
         UNCHANGED <<cq, pend>>, \A d \in Clients : d # c => out'[d] = out[d]
  PROVE  /\ \A d \in Callers : d # c => SameCall(d)
         /\ c \in Callers => CallOf(c)' = IF IsCall(c, m) THEN <<m>> ELSE <<>>
<1>1. /\ dbq' = Append(dbq, m)
      /\ pc' = [pc EXCEPT ![c] = IF IsCall(c, m) THEN "wait" ELSE "loop"]
      /\ pc \in [Clients -> {"loop", "send", "wait"}]
  BY DEF Enqueue, AtomicIInv, Typed, TypeOK
<1>2. ASSUME NEW d \in Callers, d # c PROVE SameCall(d)
  <2>1. d \in Clients /\ m.cq # Blk[d]
    BY <1>2, QueueNames DEF IsCall
  <2>2. /\ \A i \in Asked(d) : dbq'[i] = dbq[i]
        /\ Asked(d) \subseteq Nat /\ Asked(d)' = Asked(d)
    BY <1>1, <2>1, AskedAppend DEF AtomicIInv
  <2>3. Asked(d) = {} \/ \E i : Asked(d) = {i}
    BY Places, Zenon
  <2>4. \/ Asked(d) = {} /\ Asked(d)' = {}
        \/ \E i, j \in Nat : Asked(d) = {i} /\ Asked(d)' = {j} /\ dbq'[j] = dbq[i]
    BY <2>2, <2>3
  <2>5. pc'[d] = pc[d] /\ out'[d] = out[d] /\ Answers(d)' = Answers(d)
    BY <1>1, <1>2, <2>1 DEF Answers
  <2> QED BY <2>4, <2>5, Unmoved
<1>3. ASSUME c \in Callers PROVE CallOf(c)' = IF IsCall(c, m) THEN <<m>> ELSE <<>>
  <2>1. CASE IsCall(c, m)
    <3>1. Asked(c) = {}
      BY <1>3, Places, Zenon
    <3>2. Asked(c)' = {Len(dbq) + 1} /\ dbq'[Len(dbq) + 1] = m /\ Len(dbq) + 1 \in Nat
      BY <1>1, <1>3, <2>1, <3>1, AskedAppend DEF IsCall, AtomicIInv
    <3>3. PICK k \in Nat : k = Len(dbq) + 1
      BY <3>2
    <3>4. Last({k}) = k
      BY LastOne
    <3>5. pc'[c] = "wait"
      BY <1>1, <2>1
    <3> QED BY <2>1, <3>2, <3>3, <3>4, <3>5 DEF CallOf
  <2>2. CASE ~IsCall(c, m)
    <3>1. pc'[c] = "loop"
      BY <1>1, <2>2
    <3> QED BY <2>2, <3>1 DEF CallOf
  <2> QED BY <2>1, <2>2
<1> QED BY <1>2, <1>3

\* A caller that begins a call, or that does not.
LEMMA Begins ==
  ASSUME NEW c \in Clients, NEW m \in Requests, UNCHANGED db,
         \A d \in Callers : d # c => SameCall(d),
         c \in Callers => /\ CallOf(c) = <<>>
                          /\ CallOf(c)' = <<>> \/ CallOf(c)' = <<m>>
  PROVE  (\E d \in Callers : Atomic!Call(d)) \/ UNCHANGED Atomic!vars
<1>1. CASE c \in Callers /\ CallOf(c)' = <<m>>
  <2>1. AnswerOf(c) = Atomic!Nothing /\ AnswerOf(c)' = Atomic!Nothing /\ <<m>> \in Calls
    BY <1>1, Unanswered, NoAnswer DEF Calls
  <2>2. PICK none : none = Atomic!Nothing
    OBVIOUS
  <2>3. /\ [d \in Callers |-> CallOf(d)]' = [[d \in Callers |-> CallOf(d)] EXCEPT ![c] = <<m>>]
        /\ [d \in Callers |-> AnswerOf(d)]' = [[d \in Callers |-> AnswerOf(d)] EXCEPT ![c] = none]
    BY <1>1, <2>1, <2>2, OneCall
  <2>4. UNCHANGED [d \in Callers |-> AnswerOf(d)]
    BY <2>1, <2>2, <2>3
  <2>5. [d \in Callers |-> CallOf(d)][c] = <<>>
    BY <1>1
  <2>6. Atomic!Call(c)
    BY <2>1, <2>3, <2>4, <2>5 DEF Atomic!Call
  <2> QED BY <1>1, <2>6
<1>2. CASE c \in Callers => CallOf(c)' = <<>>
  <2>1. \A d \in Callers : SameCall(d)
    <3>1. c \in Callers => SameCall(c)
      BY <1>2, Unanswered, NoAnswer DEF SameCall
    <3> QED BY <3>1
  <2> QED BY <2>1, NoCall DEF Atomic!vars
<1> QED BY <1>1, <1>2

LEMMA SendCalls ==
  ASSUME AtomicIInv, NEW c \in Clients, NEW m \in Requests, Send(c, m)
  PROVE  (\E d \in Callers : Atomic!Call(d)) \/ UNCHANGED Atomic!vars
<1>1. /\ pc[c] = "loop" /\ (m.cq \in {c, NoName} \/ IsCall(c, m))
      /\ UNCHANGED <<db, cq, pend>>
  BY DEF Send, srvVars
<1>2. c \in Callers => CallOf(c) = <<>>
  BY <1>1 DEF CallOf
<1>3. /\ pc \in [Clients -> {"loop", "send", "wait"}] /\ Callers \subseteq Clients
      /\ out \in [Clients -> {<<>>} \cup {<<n>> : n \in Requests}]
  BY QueueNames DEF AtomicIInv, Typed, TypeOK
<1>4. CASE Enqueue(c, m) /\ UNCHANGED out
  <2>1. /\ \A d \in Callers : d # c => SameCall(d)
        /\ c \in Callers => CallOf(c)' = IF IsCall(c, m) THEN <<m>> ELSE <<>>
    BY <1>1, <1>4, EnqueueCall
  <2> QED BY <1>1, <1>2, <2>1, Begins
<1>5. CASE /\ pc' = [pc EXCEPT ![c] = "send"]
           /\ out' = [out EXCEPT ![c] = <<m>>]
           /\ UNCHANGED <<dbq, safe>>
  <2>1. ASSUME NEW d \in Callers, d # c PROVE SameCall(d)
    BY <1>1, <1>3, <1>5, <2>1, Still DEF Answers
  <2>2. pc'[c] = "send" /\ Head(out'[c]) = m
    BY <1>3, <1>5
  <2>3. CallOf(c)' = IF IsCall(c, m) THEN <<m>> ELSE <<>>
    BY <2>2 DEF CallOf, IsCall
  <2> QED BY <1>1, <1>2, <2>1, <2>3, Begins
<1>6. CASE UNCHANGED <<dbq, pc, out, safe>>
  <2>1. ASSUME NEW d \in Callers PROVE SameCall(d)
    BY <1>1, <1>6, Still DEF Answers
  <2>2. c \in Callers => CallOf(c)' = <<>>
    BY <1>2, <2>1 DEF SameCall
  <2> QED BY <1>1, <1>2, <2>1, <2>2, Begins
<1> QED BY <1>4, <1>5, <1>6 DEF Send

LEMMA ResumeStill ==
  ASSUME AtomicIInv, NEW d \in Clients, Resume(d), NEW c \in Callers
  PROVE  SameCall(c)
<1>1. PICK m \in Requests : out[d] = <<m>> /\ (m.cq \in {d, NoName} \/ IsCall(d, m))
  BY DEF AtomicIInv, Typed, Holding, Resume
<1>2. /\ pc[d] = "send" /\ Enqueue(d, m) /\ UNCHANGED <<db, cq, pend>>
      /\ out' = [out EXCEPT ![d] = <<>>] /\ out \in [Clients -> {<<>>} \cup {<<n>> : n \in Requests}]
  BY <1>1 DEF Resume, srvVars, AtomicIInv, Typed, TypeOK
<1>3. /\ \A e \in Callers : e # d => SameCall(e)
      /\ d \in Callers => CallOf(d)' = IF IsCall(d, m) THEN <<m>> ELSE <<>>
  BY <1>1, <1>2, EnqueueCall
<1>4. CASE c = d
  <2>1. CallOf(c) = IF IsCall(c, m) THEN <<m>> ELSE <<>>
    BY <1>1, <1>2, <1>4 DEF CallOf
  <2>2. CallOf(c)' = CallOf(c) /\ CallOf(c) # Back
    BY <1>3, <1>4, <2>1, NoAnswer
  <2> QED BY <2>2, Unanswered DEF SameCall
<1> QED BY <1>3, <1>4

\* A request that is served, in the eyes of the callers it is not of.
LEMMA ServedOther ==
  ASSUME AtomicIInv, Serve, NEW c \in Callers, Head(dbq).cq # Blk[c]
  PROVE  SameCall(c)
<1>1. PICK reply \in Message, notes \in [Queues -> Seq(Message)] :
        /\ Dispatch(Head(dbq), reply, notes)
        /\ \A q \in Queues \ Clients : notes[q] = <<>>
  BY ServeServing DEF AtomicIInv, Serving
<1>2. /\ cur = NoName /\ dbq # <<>> /\ dbq' = Tail(dbq) /\ UNCHANGED <<cq, pc, out>>
  BY DEF Serve, Get, Update, Delete, Subscribe, Unsubscribe, Take, cliVars
<1>3. Blk[c] \in Queues \ Clients
  BY QueueNames
<1>4. pend[Blk[c]] = <<>> /\ pend'[Blk[c]] = <<>>
  BY <1>1, <1>2, <1>3 DEF AtomicIInv, Typed, Sending, NoNotes, Dispatch
<1>5. Answers(c)' = Answers(c)
  BY <1>2, <1>4 DEF Answers
<1>6. Asked(c) = {} \/ \E i \in 1 .. Len(dbq) : Asked(c) = {i}
  BY Places, Zenon
<1>7. \/ Asked(c) = {} /\ Asked(c)' = {}
      \/ \E i, j \in Nat : Asked(c) = {i} /\ Asked(c)' = {j} /\ dbq'[j] = dbq[i]
  BY <1>2, <1>6, AskedTail DEF AtomicIInv
<1> QED BY <1>2, <1>5, <1>7, Unmoved

LEMMA ServedOwn ==
  ASSUME AtomicIInv, Serve, NEW c \in Callers, Head(dbq).cq = Blk[c]
  PROVE  /\ CallOf(c) = <<Head(dbq)>> /\ CallOf(c)' = Back
         /\ AnswerOf(c)' = [x \in Carried(Head(dbq)) |-> db'[x]]
<1>1. /\ dbq # <<>> /\ dbq' = Tail(dbq) /\ UNCHANGED <<cq, pc, out>>
  BY DEF Serve, Get, Update, Delete, Subscribe, Unsubscribe, Take, cliVars
<1>2. /\ Asked(c) = {1} /\ Asked(c)' = {} /\ pc[c] = "wait" /\ Answers(c) = <<>>
      /\ dbq[1] = Head(dbq)
  BY <1>1, AskedHead
<1>3. CallOf(c) = <<Head(dbq)>>
  <2>1. Last({1}) = 1
    BY LastOne
  <2> QED BY <1>2, <2>1 DEF CallOf
<1>4. CallOf(c)' = Back
  BY <1>1, <1>2 DEF CallOf
<1>5. PICK n \in Message : /\ pend'[Blk[c]] = <<n>>
                           /\ Contents(n) = [x \in Carried(Head(dbq)) |-> db'[x]]
  <2>1. Head(dbq) \in Requests /\ Head(dbq).cq \in Queues \ Clients
    BY ServeWrites, QueueNames DEF AtomicIInv
  <2>2. Whole(Head(dbq))
    BY <2>1, CallsWhole
  <2> QED BY <2>1, <2>2, ServeAnswers DEF AtomicIInv
<1>6. cq'[Blk[c]] = <<>>
  <2>1. PICK p \in Seq(Message) : p = pend[Blk[c]]
    BY QueueNames DEF AtomicIInv, Typed, TypeOK
  <2>2. PICK s \in Seq(Message) : s = cq[Blk[c]]
    BY QueueNames DEF AtomicIInv, Typed, TypeOK
  <2>3. p \o s = <<>>
    BY <1>2, <2>1, <2>2 DEF Answers
  <2>4. s = <<>>
    BY <2>3, ConcatProperties, LenProperties, EmptySeq
  <2> QED BY <1>1, <2>2, <2>4
<1>7. Answers(c)' = <<n>>
  <2>1. <<n>> \in Seq(Message)
    OBVIOUS
  <2>2. <<n>> \o <<>> = <<n>>
    BY <2>1, ConcatEmptySeq
  <2> QED BY <1>5, <1>6, <2>2 DEF Answers
<1>8. AnswerOf(c)' = Contents(n)
  BY <1>4, <1>7, NoAnswer DEF AnswerOf
<1> QED BY <1>3, <1>4, <1>5, <1>8

\* The database task serves the call of one caller, or a message that waits
\* for no answer.
LEMMA ServeServes ==
  ASSUME AtomicIInv, Serve
  PROVE  Atomic!Post \/ \E c \in Callers : Atomic!Serve(c)
<1>1. PICK m \in Requests : m = Head(dbq)
  BY ServeWrites DEF AtomicIInv
<1>2. PICK p \in Effects(m) : db' = Over(p)
  BY <1>1, ServeWrites DEF AtomicIInv
<1>3. db' = Atomic!With(p)
  BY <1>2 DEF Over, Atomic!With
<1>4. /\ <<m>> \in Calls
      /\ [r \in Calls |-> Effects(r[1])][<<m>>] = Effects(m)
      /\ [r \in Calls |-> Carried(r[1])][<<m>>] = Carried(m)
  BY DEF Calls
<1>5. CASE \E c \in Callers : m.cq = Blk[c]
  <2>1. PICK c \in Callers : m.cq = Blk[c]
    BY <1>5
  <2>2. /\ CallOf(c) = <<m>> /\ CallOf(c)' = Back
        /\ AnswerOf(c)' = [x \in Carried(m) |-> db'[x]]
    BY <1>1, <2>1, ServedOwn
  <2>3. ASSUME NEW d \in Callers, d # c PROVE SameCall(d)
    BY <1>1, <2>1, <2>3, QueueNames, ServedOther
  <2>4. PICK ans : ans = [x \in Carried(m) |-> db'[x]]
    OBVIOUS
  <2>5. /\ [d \in Callers |-> CallOf(d)]' = [[d \in Callers |-> CallOf(d)] EXCEPT ![c] = Back]
        /\ [d \in Callers |-> AnswerOf(d)]' = [[d \in Callers |-> AnswerOf(d)] EXCEPT ![c] = ans]
    BY <2>2, <2>3, <2>4, OneCall
  <2>6. [d \in Callers |-> CallOf(d)][c] = <<m>> /\ <<m>> \notin {<<>>, Back}
    BY <2>2, NoAnswer
  <2>7. Atomic!Serve(c)
    BY <1>3, <1>4, <2>4, <2>5, <2>6 DEF Atomic!Serve
  <2> QED BY <2>7
<1>6. CASE ~ \E c \in Callers : m.cq = Blk[c]
  <2>1. \A d \in Callers : SameCall(d)
    BY <1>1, <1>6, ServedOther
  <2>2. UNCHANGED <<[d \in Callers |-> CallOf(d)], [d \in Callers |-> AnswerOf(d)]>>
    BY <2>1, NoCall
  <2>3. Atomic!Post
    BY <1>3, <1>4, <2>2 DEF Atomic!Post
  <2> QED BY <2>3
<1> QED BY <1>5, <1>6

LEMMA InitAtomic == Init => Atomic!Init
<1> SUFFICES ASSUME Init PROVE Atomic!Init
  OBVIOUS
<1>1. \A c \in Callers : CallOf(c) = <<>>
  BY QueueNames DEF Init, CallOf
<1>2. \A c \in Callers : AnswerOf(c) = Atomic!Nothing
  BY <1>1, Unanswered, NoAnswer
<1>3. db \in [Cell -> Values]
  BY ServerAssumption DEF Init
<1> QED BY <1>1, <1>2, <1>3 DEF Atomic!Init

LEMMA StepAtomic ==
  ASSUME AtomicIInv, [Next]_vars
  PROVE  [Atomic!Next]_(Atomic!vars)
<1>1. ASSUME \A c \in Callers : SameCall(c), UNCHANGED db
      PROVE  UNCHANGED Atomic!vars
  BY <1>1, NoCall DEF Atomic!vars
<1>2. CASE Serve
  BY <1>2, ServeServes DEF Atomic!Next
<1>3. CASE \E q \in Queues : Deliver(q)
  <2>1. UNCHANGED db
    BY <1>3 DEF Deliver
  <2> QED BY <1>1, <1>3, <2>1, DeliverStill
<1>4. CASE \E c \in Clients : Client(c)
  <2>1. PICK c \in Clients : Client(c)
    BY <1>4
  <2>2. CASE \E m \in Requests : Send(c, m)
    BY <2>2, SendCalls DEF Atomic!Next
  <2>3. CASE Resume(c)
    <3>1. UNCHANGED db
      BY <2>3 DEF Resume, srvVars
    <3> QED BY <1>1, <2>3, <3>1, ResumeStill
  <2>4. CASE Receive(c)
    <3>1. UNCHANGED db
      BY <2>4 DEF Receive, srvVars
    <3> QED BY <1>1, <2>4, <3>1, ReceiveStill
  <2>5. CASE Return(c)
    BY <2>5, ReturnReturns DEF Atomic!Next
  <2> QED BY <2>1, <2>2, <2>3, <2>4, <2>5 DEF Client
<1>5. CASE UNCHANGED vars
  <2>1. UNCHANGED <<db, dbq, pc, out, pend, cq>>
    BY <1>5 DEF vars
  <2>2. ASSUME NEW c \in Callers PROVE SameCall(c)
    BY <2>1, Still DEF Answers
  <2> QED BY <1>1, <2>1, <2>2
<1> QED BY <1>2, <1>3, <1>4, <1>5 DEF Next, Server

(* A task that calls the database, a request and an answer on queues that  *)
(* it shares with every other client, sees an atomic store: its request    *)
(* takes effect once, at one moment between the call and the return, and   *)
(* the answer is what the cells held then.                                 *)
THEOREM CallsAreAtomic == Spec => IsAtomic
<1>1. Init => AtomicIInv
  BY InitTyped, InitClean DEF AtomicIInv
<1>2. AtomicIInv /\ [Next]_vars => AtomicIInv'
  BY StepTyped, StepClean DEF AtomicIInv
<1>3. AtomicIInv /\ [Next]_vars => [Atomic!Next]_(Atomic!vars)
  BY StepAtomic
<1> QED BY <1>1, <1>2, <1>3, InitAtomic, PTL DEF Spec, IsAtomic, Atomic!Spec
==============================================================================
