----------------------------- MODULE AtomicStore -----------------------------
(***************************************************************************)
(* What the database promises to a client that calls it: between the call  *)
(* and its return the request takes effect once, at one moment, and the    *)
(* answer is what the cells that it names held right then.                 *)
(***************************************************************************)
CONSTANTS
  Cells, Values, Callers, Requests,
  Changes,  \* what each request may write: functions from cells to values
  Reads,    \* the cells whose contents each request is answered with
  None, Served

VARIABLES
  store,
  call,     \* the request of each caller; None outside a call, Served at last
  answer    \* what was read for it

vars == <<store, call, answer>>

Nothing == [x \in {} |-> None]

(* The store after p is written.                                           *)
With(p) == [x \in Cells |-> IF x \in DOMAIN p THEN p[x] ELSE store[x]]

Init ==
  /\ store \in [Cells -> Values]
  /\ call = [c \in Callers |-> None] /\ answer = [c \in Callers |-> Nothing]

Call(c) ==
  /\ call[c] = None
  /\ \E m \in Requests : call' = [call EXCEPT ![c] = m]
  /\ UNCHANGED <<store, answer>>

Serve(c) ==
  /\ call[c] \notin {None, Served}
  /\ \E p \in Changes[call[c]] : store' = With(p)
  /\ answer' = [answer EXCEPT ![c] = [x \in Reads[call[c]] |-> store'[x]]]
  /\ call' = [call EXCEPT ![c] = Served]

Return(c) ==
  /\ call[c] = Served
  /\ call' = [call EXCEPT ![c] = None] /\ answer' = [answer EXCEPT ![c] = Nothing]
  /\ UNCHANGED store

(* A message that waits for no answer takes effect.                        *)
Post ==
  /\ \E m \in Requests : \E p \in Changes[m] : store' = With(p)
  /\ UNCHANGED <<call, answer>>

Next == Post \/ \E c \in Callers : Call(c) \/ Serve(c) \/ Return(c)

Spec == Init /\ [][Next]_vars
===============================================================================
