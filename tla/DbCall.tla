-------------------------------- MODULE DbCall --------------------------------
(***************************************************************************)
(* The buffers of the messages between clients and the database.  A buffer *)
(* is allocated by a client, sent by its address to the database, comes    *)
(* back as the answer or is freed there, and is freed at last by the one   *)
(* who holds it.  Loopers (ERPS, IGMP snooping) post with a timeout and    *)
(* receive in their main loop; callers (CLI, telnet) wait without limit on *)
(* a queue of their own.  All wait for the database to be ready before     *)
(* they send for the first time.                                           *)
(***************************************************************************)
EXTENDS Integers, Sequences, FiniteSets

CONSTANTS
  Loopers, Callers,
  MaxBuf,   \* the heap has room for as many buffers
  DbqLen,   \* AIR_MAX_DB_REQUEST_LEN
  QLen      \* length of the queue of a client

Tasks == Loopers \cup Callers
Bufs == 1..MaxBuf
None == 0

ASSUME CallAssumption ==
  /\ Loopers \cap Callers = {}
  /\ MaxBuf \in Nat /\ DbqLen \in Nat \ {0} /\ QLen \in Nat \ {0}
  /\ "nobody" \notin Tasks /\ IsFiniteSet(Tasks)

VARIABLES
  heap,    \* the buffers that are free
  to,      \* the client queue named in each buffer, or nobody
  dbq,     \* the queue of the database
  cq,      \* the queue of each client
  at,      \* where each client is in its code
  out,     \* the buffer that it is about to send
  got,     \* the buffer that it received
  cur,     \* the message that the database handles
  copy,    \* the notification that it is about to send
  todo     \* the clients that it has yet to notify

vars == <<heap, to, dbq, cq, at, out, got, cur, copy, todo>>
db == <<cur, copy, todo>>

Lowest(S) == CHOOSE b \in S : \A x \in S : b <= x

-----------------------------------------------------------------------------
(* Clients.                                                                *)

(* A message is allocated and filled in, for an answer or for none; a      *)
(* looper does so when it has nothing to receive or while it handles what  *)
(* it received, a caller for each call.                                    *)
Make(t, q) ==
  /\ heap # {}
  /\ \/ at[t] = "idle" /\ cq[t] = << >>
     \/ at[t] = "handle" /\ t \in Loopers
  /\ q = t \/ (q = "nobody" /\ t \in Loopers)
  /\ LET b == Lowest(heap)
     IN  /\ heap' = heap \ {b} /\ to' = [to EXCEPT ![b] = q]
         /\ out' = [out EXCEPT ![t] = b]
  /\ at' = [at EXCEPT ![t] = "send"]
  /\ UNCHANGED <<dbq, cq, got, db>>

(* After a post the main loop goes on with what it received, if anything.  *)
Back(t) == IF t \in Callers THEN "wait" ELSE IF got[t] = None THEN "idle" ELSE "done"

(* dbapi_sendMsg and dbapi_sendRequesttoDb with room in the queue: the     *)
(* buffer is the database's.                                               *)
Send(t) ==
  /\ at[t] = "send" /\ Len(dbq) < DbqLen
  /\ dbq' = Append(dbq, out[t]) /\ out' = [out EXCEPT ![t] = None]
  /\ at' = [at EXCEPT ![t] = Back(t)]
  /\ UNCHANGED <<heap, to, cq, got, db>>

\* Mutant: the message is not freed.
SendTimeoutKeep(t) ==
  /\ t \in Loopers /\ at[t] = "send" /\ Len(dbq) = DbqLen
  /\ at' = [at EXCEPT ![t] = Back(t)] /\ out' = [out EXCEPT ![t] = None]
  /\ UNCHANGED <<heap, to, dbq, cq, got, db>>

(* dbapi_sendMsg when the queue stays full until the timeout: it frees the *)
(* message itself.                                                         *)
SendTimeout(t) ==
  /\ t \in Loopers /\ at[t] = "send" /\ Len(dbq) = DbqLen
  /\ heap' = heap \cup {out[t]}
  /\ at' = [at EXCEPT ![t] = Back(t)] /\ out' = [out EXCEPT ![t] = None]
  /\ UNCHANGED <<to, dbq, cq, got, db>>

(* The main loop receives; a caller receives its answer.                   *)
Receive(t) ==
  /\ cq[t] # << >>
  /\ \/ t \in Loopers /\ at[t] = "idle" /\ at' = [at EXCEPT ![t] = "handle"]
     \/ at[t] = "wait" /\ at' = [at EXCEPT ![t] = "done"]
  /\ got' = [got EXCEPT ![t] = Head(cq[t])]
  /\ cq' = [cq EXCEPT ![t] = Tail(@)]
  /\ UNCHANGED <<heap, to, dbq, out, db>>

(* What was received is freed when it was handled or read.                 *)
Free(t) ==
  /\ at[t] \in {"handle", "done"}
  /\ heap' = heap \cup {got[t]} /\ got' = [got EXCEPT ![t] = None]
  /\ at' = [at EXCEPT ![t] = "idle"]
  /\ UNCHANGED <<to, dbq, cq, out, db>>

-----------------------------------------------------------------------------
(* The database.                                                           *)

(* It takes a message and makes the change or reads the data; the change   *)
(* may concern some clients.                                               *)
Take ==
  /\ cur = None /\ todo = {} /\ dbq # << >>
  /\ cur' = Head(dbq) /\ dbq' = Tail(dbq)
  /\ todo' \in SUBSET Loopers
  /\ UNCHANGED <<heap, to, cq, at, out, got, copy>>

\* Mutant: it frees the message also when it was sent.
ReplyFree ==
  /\ cur # None
  /\ IF to[cur] = "nobody" THEN UNCHANGED cq
     ELSE /\ Len(cq[to[cur]]) < QLen
          /\ cq' = [cq EXCEPT ![to[cur]] = Append(@, cur)]
  /\ heap' = heap \cup {cur} /\ cur' = None
  /\ UNCHANGED <<to, dbq, at, out, got, copy, todo>>

\* Mutant: the answer also goes without a request.
ReplyAll ==
  /\ cur # None
  /\ IF to[cur] = "nobody"
     THEN \E t \in Tasks : Len(cq[t]) < QLen /\ cq' = [cq EXCEPT ![t] = Append(@, cur)]
     ELSE /\ Len(cq[to[cur]]) < QLen
          /\ cq' = [cq EXCEPT ![to[cur]] = Append(@, cur)]
  /\ cur' = None
  /\ UNCHANGED <<heap, to, dbq, at, out, got, copy, todo>>

(* The message goes back to the queue that it names, whatever time that    *)
(* takes, or it is freed.                                                  *)
Reply ==
  /\ cur # None /\ cur' = None
  /\ IF to[cur] = "nobody"
     THEN heap' = heap \cup {cur} /\ UNCHANGED cq
     ELSE /\ Len(cq[to[cur]]) < QLen
          /\ cq' = [cq EXCEPT ![to[cur]] = Append(@, cur)]
          /\ UNCHANGED heap
  /\ UNCHANGED <<to, dbq, at, out, got, copy, todo>>

(* A notification is a copy for each client, sent whatever time that takes; *)
(* without memory it is left out.                                          *)
Copy(t) ==
  /\ cur = None /\ t \in todo /\ copy = None
  /\ IF heap = {} THEN todo' = todo \ {t} /\ UNCHANGED <<heap, copy, to>>
     ELSE /\ copy' = Lowest(heap) /\ heap' = heap \ {copy'}
          /\ to' = [to EXCEPT ![copy'] = t]
          /\ UNCHANGED todo
  /\ UNCHANGED <<dbq, cq, at, out, got, cur>>

Notify ==
  /\ copy # None
  /\ LET t == to[copy]
     IN  /\ Len(cq[t]) < QLen
         /\ cq' = [cq EXCEPT ![t] = Append(@, copy)]
         /\ todo' = todo \ {t}
  /\ copy' = None
  /\ UNCHANGED <<heap, to, dbq, at, out, got, cur>>

Init ==
  /\ heap = Bufs /\ to = [b \in Bufs |-> "nobody"]
  /\ dbq = << >> /\ cq = [t \in Tasks |-> << >>]
  /\ at = [t \in Tasks |-> "idle"]
  /\ out = [t \in Tasks |-> None] /\ got = [t \in Tasks |-> None]
  /\ cur = None /\ copy = None /\ todo = {}

Client(t) == Send(t) \/ SendTimeout(t) \/ Receive(t) \/ Free(t)
Database == Take \/ Reply \/ Notify \/ \E t \in todo : Copy(t)

Next ==
  \/ \E t \in Tasks : Client(t) \/ \E q \in Tasks \cup {"nobody"} : Make(t, q)
  \/ Database

Spec == Init /\ [][Next]_vars

(* Every task goes on, and one that waits for room in the queue of the     *)
(* database gets it when there is room again and again.                    *)
FairSpec ==
  /\ Spec /\ WF_vars(Database)
  /\ \A t \in Tasks : WF_vars(Client(t)) /\ SF_vars(Send(t))

-----------------------------------------------------------------------------
Count(s, b) == Cardinality({n \in DOMAIN s : s[n] = b})
Waiting(b) ==
  {p \in Tasks \X (1..QLen) : p[2] <= Len(cq[p[1]]) /\ cq[p[1]][p[2]] = b}
(* How often a buffer is held by one who will send or free it.             *)
Held(b) ==
  Count(dbq, b) + Count(out, b) + Count(got, b) + Count(<<cur, copy>>, b)
    + Cardinality(Waiting(b))

(* Every buffer is free, or it is in one queue or one task's hands: nobody *)
(* frees or reuses what another holds, and nothing is lost, on the paths   *)
(* where the queue is full as on the others.                               *)
OneOwner == \A b \in Bufs : Held(b) = IF b \in heap THEN 0 ELSE 1

(* A call that waits has just one message under way, and a caller that     *)
(* does not wait has none: it takes neither the answer to an earlier call  *)
(* nor another client's.                                                   *)
OneAnswer ==
  \A c \in Callers :
    LET mine == {b \in Bufs \ heap : to[b] = c /\ b \notin {out[c], got[c]}}
    IN  IF at[c] = "wait"
        THEN \E b \in Bufs : mine = {b} /\ cq[c] \in {<< >>, <<b>>}
        ELSE mine = {} /\ cq[c] = << >>

(* Every buffer comes back to the heap, however full the queues are.       *)
ComesBack == \A b \in Bufs : b \notin heap ~> b \in heap
===============================================================================
