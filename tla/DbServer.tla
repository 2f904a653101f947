------------------------------ MODULE DbServer ------------------------------
(***************************************************************************)
(* The database task and the client tasks around it.                       *)
(*                                                                         *)
(* Every client owns a message queue.  It sends request messages to the    *)
(* queue "dbq"; the database task takes them one at a time, changes its    *)
(* tables and subscriptions, and then sends the reply and the              *)
(* notifications one by one, waiting forever on a client queue that is     *)
(* full.  A caller also owns a second queue of length 1 for the requests   *)
(* whose answer it waits for; while it waits it does not serve its first   *)
(* queue.                                                                  *)
(*                                                                         *)
(* A message is the request buffer: its payload list, and in sel the       *)
(* positions of the payloads it carries on (a notification keeps the       *)
(* payloads that changed something and that its receiver subscribed).      *)
(***************************************************************************)
EXTENDS DbKey, Sequences, FiniteSets

CONSTANTS
    Clients,     \* client tasks, each named by its message queue
    Callers,     \* the clients that own a second queue
    Blk,         \* the second queue of each caller (sys_mgmt: "syd")
    Patient,     \* clients that send to dbq with an infinite timeout
    Special,     \* clients the search knows without a subscription (SYNCD)
    SpecialFields,   \* the <<table, field>> pairs of _tb_api_func
    Values, Zero,    \* cell contents, and the contents after a reset
    Unknown,     \* a cell the client was never told about
    NoName,      \* an empty cq_name
    Requests,    \* the requests the clients may send
    MaxSends,    \* bound on the requests each client sends
    DbqLen,      \* DB_REQUEST_Q_LEN
    Cap,         \* length of each client queue
    MaxSub       \* MAX_SUB_NUM

Queues == Clients \cup {Blk[c] : c \in Callers}

\* The methods of a request, and of the messages the database sends.
Methods == {"GET", "UPDATE", "DELETE", "SUBSCRIBE", "UNSUBSCRIBE"}
SentMethods == {"ACK", "RESPONSE", "GET", "UPDATE", "DELETE"}

\* The contents of a payload: a value for each cell its key covers, or
\* nothing when data_size is 0.
Data == UNION {[S -> Values] : S \in SUBSET Cell}
NoData == [x \in {} |-> Zero]
Payload == [key : [t : Tables, f : Nat, e : Nat], data : Data]

ASSUME ServerAssumption ==
    /\ Blk \in [Callers -> Queues] /\ Callers \subseteq Clients
    /\ \A c, d \in Callers : Blk[c] \notin Clients /\ (Blk[c] = Blk[d] => c = d)
    /\ NoName \notin Queues
    /\ Special \subseteq Clients
    /\ Zero \in Values /\ Unknown \notin Values
    /\ DbqLen \in Nat \ {0} /\ MaxSends \in Nat /\ MaxSub \in Nat
    /\ Cap \in [Queues -> Nat \ {0}]
    /\ \A m \in Requests :
         /\ m.method \in Methods
         /\ m.cq \in Queues \cup {NoName}
         /\ m.method \in {"SUBSCRIBE", "UNSUBSCRIBE"} => m.cq \in Clients
         /\ m.pay \in Seq(Payload) \ {<<>>}

VARIABLES
    db,        \* the tables
    subs,      \* the subscription tree: <<queue, key>> pairs
    subCount,  \* its counter, _db_core sub_count
    dbq,       \* the request queue
    cq,        \* the client queues
    pend,      \* messages the database task still has to send, per queue
    cur,       \* the queue it sends to next, NoName when it is receiving
    pc,        \* what each client task does: "loop", "send" or "wait"
    out,       \* the request a task in "send" holds
    left,      \* requests each client may still send
    view,      \* each client's own copy of the cells
    writer,    \* history: the queue name of the last change of each cell
    refused,   \* history: clients with a subscription answered by an error
    safe       \* history: the call was made with room for what is ahead of it

srvVars == <<db, subs, subCount, pend, cur, writer, refused>>
cliVars == <<pc, out, left, view, safe>>
vars == <<db, subs, subCount, dbq, cq, pend, cur, pc, out, left, view, writer,
          refused, safe>>

\* Results, from mw_error.h.
MW_E_OK == 0
MW_E_BAD_PARAMETER == 1
MW_E_NO_MEMORY == 2
MW_E_ENTRY_NOT_FOUND == 4
MW_E_OP_STOPPED == 13

Last(S) == CHOOSE i \in S : \A j \in S : j <= i

-----------------------------------------------------------------------------
(* Payloads *)

\* The positions in front of the first one that is not in S.
Prefix(S) == {i \in S : 1 .. i \subseteq S}

\* The answer of db_getData and db_setData: the failing position, or 0.
FailedIndex(pay, done) ==
    IF done = DOMAIN pay THEN MW_E_OK ELSE Cardinality(done) + 1

\* The payloads that pass their check: GET and UPDATE bring a buffer of exactly
\* the size of the key, DELETE brings none.
Sized(pay) == {i \in DOMAIN pay : /\ pay[i].key \in Key
                                  /\ DOMAIN pay[i].data = CellsOf(pay[i].key)}
Empty(pay) == {i \in DOMAIN pay : pay[i].key \in Key /\ DOMAIN pay[i].data = {}}

Covering(pay, S, x) == {i \in S : Covers(pay[i].key, x)}

\* The tables after the payloads S of pay are written in order.
Write(d, pay, S) ==
    [x \in Cell |-> LET C == Covering(pay, S, x)
                    IN  IF C = {} THEN d[x] ELSE pay[Last(C)].data[x]]

\* The tables when the payload at i is written, after those of S before it.
Before(d, pay, S, i) == Write(d, pay, {j \in S : j < i})

\* The payloads of S that change something when they are written.
Updated(d, pay, S) ==
    {i \in S : \E x \in CellsOf(pay[i].key) :
                  Before(d, pay, S, i)[x] # pay[i].data[x]}

\* pay with the present contents of the tables as data, and with zeroes.
Snapshot(d, pay) ==
    [i \in DOMAIN pay |->
        [key |-> pay[i].key, data |-> [x \in CellsOf(pay[i].key) |-> d[x]]]]
Zeroed(pay) == Snapshot([x \in Cell |-> Zero], pay)

-----------------------------------------------------------------------------
(* Messages to clients *)

Reply(method, result, pay) ==
    [method |-> method, result |-> result, pay |-> pay, sel |-> {}]

Note(method, pay, sel) ==
    [method |-> method, result |-> 0, pay |-> pay, sel |-> sel]

\* Mutant: only the subscribers of the very same key are looked up.
ToldExactly(q, k) ==
    \/ <<q, k>> \in subs
    \/ q \in Special /\ <<k.t, k.f>> \in SpecialFields

Told(q, k) ==
    \/ \E s \in SearchKeys(k) : <<q, s>> \in subs
    \/ q \in Special /\ <<k.t, k.f>> \in SpecialFields

\* The payloads q is notified of: of the changed ones, those it is told of;
\* a key that comes twice is delivered once, as it came first.
Selected(q, pay, changed) ==
    {i \in changed :
        /\ Told(q, pay[i].key)
        /\ \A j \in changed : j < i => pay[j].key # pay[i].key}

\* The notifications of one request: at most one message per client, none
\* for the client that made the change.
Notes(m, pay, changed) ==
    [q \in Queues |->
        IF q \in Clients /\ q # m.cq /\ Selected(q, pay, changed) # {}
        THEN <<Note(m.method, pay, Selected(q, pay, changed))>>
        ELSE <<>>]

NoNotes == [q \in Queues |-> <<>>]

\* Mutant: the notifications go out before the reply.
DispatchReplyLast(m, reply, notes) ==
    /\ pend' = [q \in Queues |->
                   IF q = m.cq THEN notes[q] \o <<reply>> ELSE notes[q]]
    /\ IF \E q \in Queues : notes[q] # <<>>
       THEN \E q \in Queues : notes[q] # <<>> /\ cur' = q
       ELSE cur' = m.cq

\* The reply goes first, then what else there is to send.
Dispatch(m, reply, notes) ==
    /\ pend' = [q \in Queues |->
                   IF q = m.cq THEN <<reply>> \o notes[q] ELSE notes[q]]
    /\ IF m.cq # NoName
       THEN cur' = m.cq
       ELSE IF \E q \in Queues : notes[q] # <<>>
            THEN \E q \in Queues : notes[q] # <<>> /\ cur' = q
            ELSE cur' = NoName

-----------------------------------------------------------------------------
(* The database task *)

\* Takes the oldest request; only when nothing is left to send.
Take(method) ==
    /\ cur = NoName /\ dbq # <<>>
    /\ Head(dbq).method = method
    /\ dbq' = Tail(dbq)
    /\ UNCHANGED <<cq, cliVars>>

Get ==
    /\ Take("GET")
    /\ LET m == Head(dbq)
           done == Prefix(Sized(m.pay))
           data == [i \in DOMAIN m.pay |->
                      IF i \in done THEN Snapshot(db, m.pay)[i] ELSE m.pay[i]]
       IN  Dispatch(m, Reply("RESPONSE", FailedIndex(m.pay, done), data), NoNotes)
    /\ UNCHANGED <<db, subs, subCount, writer, refused>>

\* Stores the payloads S of pay for the request m and keeps who changed what.
Store(m, pay, S) ==
    /\ db' = Write(db, pay, S)
    /\ writer' = [x \in Cell |->
                     IF db'[x] = db[x] THEN writer[x]
                     ELSE IF m.cq \in Clients THEN m.cq ELSE NoName]

\* When the first payload fails, the answer is 1.  When a later one fails,
\* the payloads in front of it are stored and notified, and the answer is
\* that of db_genNotification: MW_E_OK.
Update ==
    /\ Take("UPDATE")
    /\ LET m == Head(dbq)
           done == Prefix(Sized(m.pay))
           result == IF FailedIndex(m.pay, done) = 1 THEN 1 ELSE MW_E_OK
       IN  /\ Store(m, m.pay, done)
           /\ Dispatch(m, Reply("RESPONSE", result, m.pay),
                       Notes(m, m.pay, Updated(db, m.pay, done)))
    /\ UNCHANGED <<subs, subCount, refused>>

\* The notification of a deletion carries what each payload overwrites.
Delete ==
    /\ Take("DELETE")
    /\ LET m == Head(dbq)
           done == Prefix(Empty(m.pay))
           zero == Zeroed(m.pay)
           old == [i \in DOMAIN m.pay |->
                      Snapshot(Before(db, zero, done, i), m.pay)[i]]
           result == IF done = {} THEN MW_E_OP_STOPPED ELSE MW_E_OK
       IN  /\ Store(m, zero, done)
           /\ Dispatch(m, Reply("RESPONSE", result, m.pay),
                       Notes(m, old, Updated(db, zero, done)))
    /\ UNCHANGED <<subs, subCount, refused>>

\* A key of the message that is already subscribed, or came before in it.
Known(m, i) == \/ <<m.cq, m.pay[i].key>> \in subs
               \/ \E j \in 1 .. i - 1 : m.pay[j].key = m.pay[i].key

\* The payloads db_subscribe adds: up to the first known key, and while the
\* counter leaves room.
Room == MaxSub - 1 - subCount
\* Mutant: known keys are added again.
AddedTwice(m) == {i \in DOMAIN m.pay : i <= Room}
Added(m) == {i \in DOMAIN m.pay : i <= Room /\ \A j \in 1 .. i : ~Known(m, j)}

\* A known key ends the loop with MW_E_OK, for it is what the search for it
\* returned.
SubscribeResult(m) ==
    CASE m.cq \in Special -> MW_E_OK
      [] m.cq \notin Special /\ Room <= 0 -> MW_E_NO_MEMORY
      [] m.cq \notin Special /\ Room > 0 ->
           IF \/ Added(m) = DOMAIN m.pay
              \/ \E i \in DOMAIN m.pay : i <= Room /\ Known(m, i)
           THEN MW_E_OK ELSE MW_E_NO_MEMORY

\* An accepted subscription is followed by a snapshot of every key in it.
Subscribe ==
    /\ Take("SUBSCRIBE")
    /\ LET m == Head(dbq)
           added == IF m.cq \in Special THEN {} ELSE Added(m)
           stored == SubscribeResult(m)
           sized == \A i \in DOMAIN m.pay : m.pay[i].key \in Key
           result == IF stored = MW_E_OK /\ ~sized THEN MW_E_BAD_PARAMETER
                     ELSE stored
           first == Note("GET", Snapshot(db, m.pay), DOMAIN m.pay)
       IN  /\ subs' = subs \cup {<<m.cq, m.pay[i].key>> : i \in added}
           /\ subCount' = subCount + Cardinality(added)
           /\ refused' = IF result = MW_E_OK THEN refused ELSE refused \cup {m.cq}
           /\ Dispatch(m, Reply("ACK", result, m.pay),
                       [NoNotes EXCEPT ![m.cq] =
                           IF result = MW_E_OK THEN <<first>> ELSE <<>>])
    /\ UNCHANGED <<db, writer>>

\* The payloads db_unsubscribe removes: up to the first that is not there.
Removed(m) ==
    {i \in DOMAIN m.pay :
        \A j \in 1 .. i : /\ <<m.cq, m.pay[j].key>> \in subs
                          /\ \A h \in 1 .. j - 1 : m.pay[h].key # m.pay[j].key}

Unsubscribe ==
    /\ Take("UNSUBSCRIBE")
    /\ LET m == Head(dbq)
           gone == IF m.cq \in Special THEN {} ELSE Removed(m)
           result == IF m.cq \in Special \/ gone = DOMAIN m.pay
                     THEN MW_E_OK ELSE MW_E_ENTRY_NOT_FOUND
       IN  /\ subs' = subs \ {<<m.cq, m.pay[i].key>> : i \in gone}
           /\ subCount' = subCount - Cardinality(gone)
           /\ Dispatch(m, Reply("ACK", result, m.pay), NoNotes)
    /\ UNCHANGED <<db, writer, refused>>

\* Mutant: the length of the queue is not respected.
DeliverAnyway(q) ==
    /\ cur = q
    /\ cq' = [cq EXCEPT ![q] = Append(@, Head(pend[q]))]
    /\ pend' = [pend EXCEPT ![q] = Tail(@)]
    /\ IF pend'[q] # <<>> THEN cur' = q
       ELSE IF \E r \in Queues : pend'[r] # <<>>
            THEN \E r \in Queues : pend'[r] # <<>> /\ cur' = r
            ELSE cur' = NoName
    /\ UNCHANGED <<db, subs, subCount, dbq, writer, refused, cliVars>>

\* Sends the next message to q; blocks while q is full.
Deliver(q) ==
    /\ cur = q
    /\ Len(cq[q]) < Cap[q]
    /\ cq' = [cq EXCEPT ![q] = Append(@, Head(pend[q]))]
    /\ pend' = [pend EXCEPT ![q] = Tail(@)]
    /\ IF pend'[q] # <<>> THEN cur' = q
       ELSE IF \E r \in Queues : pend'[r] # <<>>
            THEN \E r \in Queues : pend'[r] # <<>> /\ cur' = r
            ELSE cur' = NoName
    /\ UNCHANGED <<db, subs, subCount, dbq, writer, refused, cliVars>>

Serve == Get \/ Update \/ Delete \/ Subscribe \/ Unsubscribe
Server == Serve \/ \E q \in Queues : Deliver(q)

-----------------------------------------------------------------------------
(* The client tasks *)

IsCall(c, m) == c \in Callers /\ m.cq = Blk[c]

\* What c may still get before the request at position k is answered.
Ahead(c, k) ==
    k + Cardinality({i \in 1 .. k : dbq[i].cq = c /\ dbq[i].method = "SUBSCRIBE"})

\* m enters dbq; a call makes c wait for the answer.
Enqueue(c, m) ==
    /\ dbq' = Append(dbq, m)
    /\ pc' = [pc EXCEPT ![c] = IF IsCall(c, m) THEN "wait" ELSE "loop"]
    /\ safe' = [safe EXCEPT ![c] =
                   Len(cq[c]) + Len(pend[c]) + Ahead(c, Len(dbq)) <= Cap[c]]

\* c sends a request under its own queue name, its second one, or none.
Send(c, m) ==
    /\ pc[c] = "loop" /\ left[c] > 0
    /\ m.cq \in {c, NoName} \/ IsCall(c, m)
    /\ left' = [left EXCEPT ![c] = @ - 1]
    /\ \/ /\ Len(dbq) < DbqLen
          /\ Enqueue(c, m)
          /\ UNCHANGED out
       \/ /\ Len(dbq) >= DbqLen /\ (c \in Patient \/ IsCall(c, m))
          /\ pc' = [pc EXCEPT ![c] = "send"]
          /\ out' = [out EXCEPT ![c] = <<m>>]
          /\ UNCHANGED <<dbq, safe>>
       \/ /\ Len(dbq) >= DbqLen /\ ~(c \in Patient \/ IsCall(c, m))
          /\ UNCHANGED <<dbq, pc, out, safe>>
    /\ UNCHANGED <<srvVars, cq, view>>

\* Room appeared for the request c was waiting to send.
Resume(c) ==
    /\ pc[c] = "send" /\ Len(dbq) < DbqLen
    /\ Enqueue(c, Head(out[c]))
    /\ out' = [out EXCEPT ![c] = <<>>]
    /\ UNCHANGED <<srvVars, cq, left, view>>

\* What message m says of cell x, when it says something.
Mentions(m, x) == Covering(m.pay, m.sel, x) # {}
Says(m, x) == IF m.method = "DELETE" THEN Zero
              ELSE m.pay[Last(Covering(m.pay, m.sel, x))].data[x]

\* The main loop of a client: replies are ignored, the payloads of a
\* notification are applied in order.
Receive(c) ==
    /\ pc[c] = "loop" /\ cq[c] # <<>>
    /\ LET m == Head(cq[c])
       IN  view' = [view EXCEPT ![c] =
                      [x \in Cell |-> IF Mentions(m, x) THEN Says(m, x) ELSE @[x]]]
    /\ cq' = [cq EXCEPT ![c] = Tail(@)]
    /\ UNCHANGED <<srvVars, dbq, pc, out, left, safe>>

\* Mutant: the wait for the answer ends with a timeout.
ReturnOrTimeout(c) ==
    /\ c \in Callers /\ pc[c] = "wait"
    /\ cq' = IF cq[Blk[c]] = <<>> THEN cq ELSE [cq EXCEPT ![Blk[c]] = Tail(@)]
    /\ pc' = [pc EXCEPT ![c] = "loop"]
    /\ UNCHANGED <<srvVars, dbq, out, left, view, safe>>

\* A caller takes the answer from its second queue.
Return(c) ==
    /\ c \in Callers /\ pc[c] = "wait" /\ cq[Blk[c]] # <<>>
    /\ cq' = [cq EXCEPT ![Blk[c]] = Tail(@)]
    /\ pc' = [pc EXCEPT ![c] = "loop"]
    /\ UNCHANGED <<srvVars, dbq, out, left, view, safe>>

Client(c) == (\E m \in Requests : Send(c, m)) \/ Resume(c) \/ Receive(c) \/ Return(c)

-----------------------------------------------------------------------------
Init ==
    /\ db = [x \in Cell |-> Zero]
    /\ subs = {} /\ subCount = 0
    /\ dbq = <<>>
    /\ cq = [q \in Queues |-> <<>>]
    /\ pend = NoNotes /\ cur = NoName
    /\ pc = [c \in Clients |-> "loop"]
    /\ out = [c \in Clients |-> <<>>]
    /\ left = [c \in Clients |-> MaxSends]
    /\ view = [c \in Clients |-> [x \in Cell |-> Unknown]]
    /\ writer = [x \in Cell |-> NoName]
    /\ refused = {}
    /\ safe = [c \in Clients |-> FALSE]

Next == Server \/ \E c \in Clients : Client(c)

Spec == Init /\ [][Next]_vars

\* The database task runs whenever it can, and so does every client loop.
\* A client is not obliged to send.
FairSpec == /\ Spec
            /\ WF_vars(Server)
            /\ \A c \in Clients : WF_vars(Receive(c)) /\ WF_vars(Return(c))
                                  /\ WF_vars(Resume(c))

-----------------------------------------------------------------------------
(* Properties *)

\* The payloads a message carries on have a value for every cell they cover.
Carries(m) == /\ m.sel \subseteq DOMAIN m.pay
              /\ \A i \in m.sel : DOMAIN m.pay[i].data = CellsOf(m.pay[i].key)

Message == {m \in [method : SentMethods, result : Nat, pay : Seq(Payload), sel : SUBSET Nat] :
               Carries(m)}

\* Type correctness: every queue holds well-formed messages and respects
\* its length.
TypeOK ==
    /\ db \in [Cell -> Values]
    /\ subs \subseteq Clients \X [t : Tables, f : Nat, e : Nat]
    /\ subCount \in Int
    /\ dbq \in Seq(Requests) /\ Len(dbq) <= DbqLen
    /\ cq \in [Queues -> Seq(Message)]
    /\ \A q \in Queues : Len(cq[q]) <= Cap[q]
    /\ pend \in [Queues -> Seq(Message)]
    /\ cur \in Queues \cup {NoName}
    /\ pc \in [Clients -> {"loop", "send", "wait"}]
    /\ out \in [Clients -> {<<>>} \cup {<<m>> : m \in Requests}]
    /\ left \in [Clients -> 0 .. MaxSends]
    /\ view \in [Clients -> [Cell -> Values \cup {Unknown}]]
    /\ writer \in [Cell -> Clients \cup {NoName}]
    /\ refused \subseteq Clients
    /\ safe \in [Clients -> BOOLEAN]

\* What TypeOK needs to be inductive: the database task sends exactly as long
\* as there is something to send, and a client that waits for room in dbq holds
\* a request of its own.
Sending == /\ cur = NoName => pend = NoNotes
           /\ cur # NoName => pend[cur] # <<>>
Holding == \A c \in Clients : pc[c] = "send" =>
    \E m \in Requests : out[c] = <<m>> /\ (m.cq \in {c, NoName} \/ IsCall(c, m))
Typed == TypeOK /\ Sending /\ Holding

\* What c will believe of x when it has received all that is on its way.
Coming(c) == cq[c] \o pend[c]
Believes(c, x) ==
    LET S == {i \in DOMAIN Coming(c) : Mentions(Coming(c)[i], x)}
    IN  IF S = {} THEN view[c][x] ELSE Says(Coming(c)[Last(S)], x)

WriteKeys == {k \in Key : \E m \in Requests :
                 /\ m.method \in {"UPDATE", "DELETE"}
                 /\ \E i \in DOMAIN m.pay : m.pay[i].key = k}

\* c holds a subscription to x that the search finds for every update of x.
Found(c, x) == \E s \in Key : /\ <<c, s>> \in subs /\ Covers(s, x)
                              /\ \A k \in WriteKeys : Covers(k, x) => s \in SearchKeys(k)

\* A subscriber is never left with a stale value: whatever the order of
\* subscriptions, updates and deletions, of sends that block and queues that
\* are full, its copy of a cell becomes the database's once it has received
\* what is on its way.  The client that made the last change is not told
\* (db_notify.c:241-252), and one whose subscription was refused may miss
\* the snapshot.
Fresh == \A c \in Clients \ refused, x \in Cell :
            Found(c, x) /\ writer[x] # c => Believes(c, x) = db[x]

\* The counter that limits the subscriptions is the size of the tree, also
\* after messages of which only a part was stored or removed.
SubsCounted == subCount = Cardinality(subs) /\ (subs # {} => subCount < MaxSub)

\* The second queue of a caller never needs clearing (sys_mgmt.c:941-943,
\* syncd_queue.c): outside a call nothing for it is under way, and during a
\* call exactly one message is, so the answer taken is that of the call.
InDbq(q) == {i \in DOMAIN dbq : dbq[i].cq = q}
BlkQueueClean ==
    \A c \in Callers :
        LET q == Blk[c]
        IN  Cardinality(InDbq(q)) + Len(pend[q]) + Len(cq[q])
              = IF pc[c] = "wait" THEN 1 ELSE 0

\* A call that is made while the caller's first queue has room for what the
\* requests ahead of it may bring is not caught in a circular wait, where the
\* database task waits for room in the queue of a caller that waits for its
\* answer.
CircularWait(c) == /\ pc[c] = "wait" /\ cq[Blk[c]] = <<>>
                   /\ cur = c /\ Len(cq[c]) = Cap[c]
SafeCall == \A c \in Callers : safe[c] => ~CircularWait(c)

\* Such a call returns.
SafeCallReturns == \A c \in Callers :
    (pc[c] = "wait" /\ safe[c]) ~> pc[c] # "wait"
=============================================================================
