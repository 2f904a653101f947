------------------------------- MODULE ErpsRing -------------------------------
(***************************************************************************)
(* A ring of N switches that run the protection state machine.  The east   *)
(* port of node n and the west port of node n + 1 are the ends of link n.  *)
(* Links fail and recover; a switch learns of it when its task runs.  An   *)
(* R-APS frame leaves by both ports; each node it reaches takes a copy     *)
(* into its packet queue, and passes it on in hardware if its ACL forwards.*)
(*                                                                         *)
(* Four assumptions stand for time.  A frame is handled while the guard    *)
(* timer runs that was started after it was sent (GuardExpire).  The       *)
(* queues are served when a frame is sent again (Retransmit) and when the  *)
(* WTR timer expires, which a failure that is announced outlives           *)
(* (WtrExpire).  After the first Hasty failures a link changes only when   *)
(* the change before it is settled.  Lost interrupts, configuration        *)
(* changes and forced or manual switches, which no node of this kind asks  *)
(* for, are left to ErpsNode.                                              *)
(***************************************************************************)
EXTENDS ErpsFsm

CONSTANTS
  N,          \* nodes of the ring
  Layouts,    \* the port roles of the nodes
  IsRevertive, \* the revertive mode of the ring
  QLen,       \* length of the packet queue of a node
  Hasty,      \* failures that come and go at any moment; what comes later
              \* waits until the change before it is settled
  MaxFail     \* link failures

Nodes == 0..(N - 1)
Links == Nodes

ASSUME RingAssumption ==
  /\ N \in Nat /\ N > 1
  /\ Layouts \subseteq [Nodes -> [Ports -> Roles]]
  /\ IsRevertive \in BOOLEAN
  /\ Hasty \in Nat
  /\ QLen \in Nat /\ MaxFail \in Nat

VARIABLES
  node,    \* the ring record of each node
  up,      \* the links that are up
  rx,      \* the packet queue of each node
  older,   \* how many frames of each queue were on their way when the
           \* guard timer of a node was started
  fails    \* failures so far

vars == <<node, up, rx, older, fails>>

East(n, k) == (n + k) % N           \* the node k hops to the east
West(n, k) == (n + N - k) % N
LinkAt(n, p) == IF p = "east" THEN n ELSE West(n, 1)

Id(n) == n + 1
Pid == [p \in Ports |-> IF p = "west" THEN 1 ELSE 2]

Created(n, layout) ==
  Quiet(StateMachineInit([ZeroRing(Pid, {}, NoneRuns) EXCEPT
    !.roles = layout[n], !.id = Id(n), !.revertive = IsRevertive]))

(* All nodes were just created on a sound ring and their first frames lost.*)
Init ==
  /\ \E layout \in Layouts : node = [n \in Nodes |-> Created(n, layout)]
  /\ up = Links /\ fails = 0
  /\ rx = [n \in Nodes |-> << >>]
  /\ older = [n \in Nodes |-> [m \in Nodes |-> 0]]

-----------------------------------------------------------------------------
(* A frame of node n comes to the node k hops away if the links up to it   *)
(* work and all nodes between forward.                                     *)
ComesEast(n, k) ==
  /\ \A i \in 0..(k - 1) : East(n, i) \in up
  /\ \A i \in 1..(k - 1) : node[East(n, i)].fw
ComesWest(n, k) ==
  /\ \A i \in 1..k : West(n, i) \in up
  /\ \A i \in 1..(k - 1) : node[West(n, i)].fw

Copies(n, m, msg) ==
  LET Copy(b) == IF b THEN <<[from |-> Id(n), raps |-> msg]>> ELSE << >>
  IN  Copy(\E k \in 1..(N - 1) : m = East(n, k) /\ ComesEast(n, k))
        \o Copy(\E k \in 1..(N - 1) : m = West(n, k) /\ ComesWest(n, k))

(* A full queue loses what comes.                                          *)
Enqueue(q, new) ==
  LET all == q \o new
  IN  IF Len(all) <= QLen THEN all ELSE SubSeq(all, 1, QLen)

Sent(n, m, out) ==
  IF out = << >> THEN << >>
  ELSE IF Len(out) = 1 THEN Copies(n, m, out[1])
  ELSE Copies(n, m, out[1]) \o Copies(n, m, out[2])

(* Node n did a step that computed s, when the queues were q.              *)
Step(n, s, q) ==
  /\ node' = [node EXCEPT ![n] = Quiet(s)]
  /\ rx' = [m \in Nodes |->
              IF m = n THEN q[m] ELSE Enqueue(q[m], Sent(n, m, s.out))]
  /\ older' = [m \in Nodes |->
       IF m = n /\ "guard" \in s.idx \ node[n].idx
       THEN [x \in Nodes |-> Len(q[x])]
       ELSE [x \in Nodes |-> IF older[m][x] = 0 THEN 0
                             ELSE older[m][x] - (Len(rx[x]) - Len(q[x]))]]

-----------------------------------------------------------------------------
(* What a node knows of its links, and a ring where all is known and heard.*)
Noticed(n, p) == (LinkAt(n, p) \in up) = (p \notin node[n].failed)
Calm ==
  /\ \A n \in Nodes : rx[n] = << >>
  /\ \A n \in Nodes, p \in Ports : Noticed(n, p)
NoGuard == \A n \in Nodes : "guard" \notin node[n].idx

MayChange(n) == n <= Hasty \/ (Calm /\ NoGuard)

Fail(l) ==
  /\ l \in up /\ fails < MaxFail /\ MayChange(fails + 1)
  /\ up' = up \ {l} /\ fails' = fails + 1
  /\ UNCHANGED <<node, rx, older>>

Recover(l) ==
  /\ l \notin up /\ MayChange(fails)
  /\ up' = up \cup {l}
  /\ UNCHANGED <<node, rx, older, fails>>

Detect(n, p) ==
  /\ ~ Noticed(n, p)
  /\ Step(n, LinkChange(node[n], p, LinkAt(n, p) \in up), rx)
  /\ UNCHANGED <<up, fails>>

Receive(n) ==
  /\ rx[n] # << >>
  /\ Step(n, ToPriorityLogic(node[n], Head(rx[n]).raps, Head(rx[n]).from),
          [rx EXCEPT ![n] = Tail(@)])
  /\ UNCHANGED <<up, fails>>

(* The guard timer outlasts the frames that were on their way when it was  *)
(* started.                                                                *)
GuardExpire(n) ==
  /\ "guard" \in node[n].idx
  /\ \A m \in Nodes : older[n][m] = 0
  /\ Step(n, GuardTimerExpire(node[n]), rx)
  /\ UNCHANGED <<up, fails>>

(* The WTR timer, of minutes, does not expire under the eyes of a failure  *)
(* that a node keeps announcing to its owner, or while the ring is busy    *)
(* with a change.                                                          *)
AnnouncesTo(m, n) ==
  node[m].sending /\ node[m].raps.req = "SF" /\ Copies(m, n, node[m].raps) # << >>

WtrExpire(n) ==
  /\ "wtr" \in node[n].idx
  /\ Calm /\ NoGuard
  /\ \A m \in Nodes : ~ AnnouncesTo(m, n)
  /\ Step(n, WtrTimerExpire(node[n]), rx)
  /\ UNCHANGED <<up, fails>>

(* The retransmission every five seconds finds the queues served.          *)
Retransmit(n) ==
  /\ node[n].sending /\ Calm
  /\ Step(n, Resend(node[n]), rx)
  /\ UNCHANGED <<up, fails>>

Next ==
  \/ \E l \in Links : Fail(l) \/ Recover(l)
  \/ \E n \in Nodes, p \in Ports : Detect(n, p)
  \/ \E n \in Nodes :
       Receive(n) \/ GuardExpire(n) \/ WtrExpire(n) \/ Retransmit(n)

Spec == Init /\ [][Next]_vars

(* The task of a switch serves its events, packets and timers.  The queue  *)
(* of packets is served before the next frame is sent again.               *)
FairSpec ==
  /\ Spec
  /\ \A n \in Nodes :
       /\ WF_vars(Receive(n)) /\ WF_vars(GuardExpire(n))
       /\ SF_vars(WtrExpire(n)) /\ SF_vars(Retransmit(n))
       /\ \A p \in Ports : WF_vars(Detect(n, p))

-----------------------------------------------------------------------------
(* Data does not circle: a link is down, or a node blocks one of its ports,*)
(* whatever the order in which the nodes learn of failures and recoveries  *)
(* and of each other.                                                      *)
NoLoop == up = Links => \E n \in Nodes : node[n].blocked # {}

(* The ring is at rest: all nodes idle, the owner blocks the RPL, and no   *)
(* port elsewhere is blocked.                                              *)
Settled ==
  \A n \in Nodes :
    /\ node[n].state = "IDLE"
    /\ IF NodeType(node[n]) = "TRANSFER"
       THEN node[n].blocked = {} ELSE node[n].blocked = {RplPort(node[n])}

(* A ring whose links stay up goes back to rest (the WTR timer, R-APS      *)
(* NR and NR,RB, the choice between blocked ports by node id).             *)
Reverts == <>[](up = Links) => <>[] Settled

(* Once one link stays down, only its ends stay blocked: all nodes reach   *)
(* each other, the RPL included in the path.                               *)
OnlyBlocks(l) == \A n \in Nodes : \A p \in node[n].blocked : LinkAt(n, p) = l
Protects == \A l \in Links : <>[](up = Links \ {l}) => <>[] OnlyBlocks(l)
=============================================================================
