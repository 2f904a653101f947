------------------------------ MODULE DbAtomic ------------------------------
(***************************************************************************)
(* The database task and its queues are an AtomicStore to the callers.     *)
(***************************************************************************)
EXTENDS DbServer

(* The requests of callers pass the checks of db_getData, db_setData and   *)
(* db_delData, for a client takes the sizes from the tables (dbapi_get-    *)
(* DataSize): of one that fails, the answer brings back in part what the   *)
(* caller put into its own buffer.                                         *)
ASSUME CallsAssumption ==
  \A m \in Requests, c \in Callers : m.cq = Blk[c] =>
    IF m.method = "DELETE" THEN Empty(m.pay) = DOMAIN m.pay ELSE Sized(m.pay) = DOMAIN m.pay

(* The cells that a message has data for, and the data.                    *)
Carried(m) ==
  {x \in Cell : \E i \in Covering(m.pay, DOMAIN m.pay, x) : DOMAIN m.pay[i].data # {}}
Contents(m) ==
  [x \in Carried(m) |-> m.pay[Last(Covering(m.pay, DOMAIN m.pay, x))].data[x]]

(* What the first n payloads of a request write; it may stop after any.    *)
Written(m, n) ==
  [x \in {y \in Cell : Covering(m.pay, 1 .. n, y) # {}} |->
     IF m.method = "UPDATE" THEN m.pay[Last(Covering(m.pay, 1 .. n, x))].data[x] ELSE Zero]
Effects(m) ==
  {Written(m, n) : n \in IF m.method \in {"UPDATE", "DELETE"} THEN 0 .. Len(m.pay) ELSE {0}}

(* The call that a task waits for: the request until it is served, then    *)
(* the answer on its way back.                                             *)
Asked(c) == {i \in DOMAIN dbq : dbq[i].cq = Blk[c]}
Answers(c) == pend[Blk[c]] \o cq[Blk[c]]
Back == <<"gone", "back">>
CallOf(c) ==
  CASE pc[c] = "loop" \/ (pc[c] = "send" /\ ~IsCall(c, Head(out[c]))) -> <<>>
    [] pc[c] = "send" /\ IsCall(c, Head(out[c])) -> <<Head(out[c])>>
    [] pc[c] = "wait" /\ Asked(c) # {} -> <<dbq[Last(Asked(c))]>>
    [] OTHER -> Back
AnswerOf(c) ==
  IF CallOf(c) = Back /\ Answers(c) # <<>> THEN Contents(Head(Answers(c)))
  ELSE [x \in {} |-> Zero]

Calls == {<<m>> : m \in Requests}
Atomic ==
  INSTANCE AtomicStore WITH
    Cells <- Cell, Requests <- Calls,
    Changes <- [r \in Calls |-> Effects(r[1])],
    Reads <- [r \in Calls |-> Carried(r[1])],
    None <- <<>>, Served <- Back, store <- db,
    call <- [c \in Callers |-> CallOf(c)], answer <- [c \in Callers |-> AnswerOf(c)]

(* A client that calls the database, a whole exchange of messages over two *)
(* queues beside other clients' requests and notifications, sees an atomic *)
(* store: it gets the answer to its own request, which was carried out     *)
(* once, and no other value than that of the moment.                       *)
IsAtomic == Atomic!Spec
===============================================================================
