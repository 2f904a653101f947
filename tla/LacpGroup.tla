------------------------------- MODULE LacpGroup -------------------------------
(***************************************************************************)
(* One LAG group of a switch in an environment that may do anything: its   *)
(* partners send every frame of a small set at any time, links and speeds  *)
(* change, markers are answered or not.                                    *)
(*                                                                         *)
(* All of it is done by the sys_mgmt task, one message of its queue after  *)
(* the other, so that each handler is a step.  The frames the group sends  *)
(* are left out, and what only decides when one is sent with them.         *)
(***************************************************************************)
EXTENDS Lacp

CONSTANTS
  Frames,    \* bound: what arrives, by system, key and state of the sender and
             \* whether it knows the port as it is
  KeyOf,     \* bound: the keys of the speeds that each port may have
  Late       \* bound: timer messages that wait in the queue

ASSUME GroupAssumption ==
  /\ \A f \in Frames : f.key \in Nat /\ f.state \subseteq Read /\ f.known \in BOOLEAN
  /\ KeyOf \in [Ports -> SUBSET Nat] /\ Late \in Nat

VARIABLES
  g,         \* the group
  late       \* messages of the timer that wait in the queue

vars == <<g, late>>

Quiet(h) ==
  [h EXCEPT !.out = [p \in Ports |-> << >>],
            !.port = [p \in Ports |-> [h.port[p] EXCEPT !.ntt = FALSE, !.per = 0, !.sent = 0,
                                                        !.pstate = @ \ {"fast"}]]]

Init == g = NoGroup("own") /\ late = 0

(* trunk_port configuration.                                               *)
CreateGroup ==
  /\ ~g.on
  /\ \E up \in SUBSET Ports, key \in [Ports -> UNION {KeyOf[p] : p \in Ports}] :
       /\ \A p \in Ports : key[p] \in KeyOf[p]
       /\ g' = Quiet(Create(g, {"act"}, key, up))
  /\ UNCHANGED late

DestroyGroup == g.on /\ g' = Quiet(Destroy(g)) /\ UNCHANGED late

Arrive(p) ==
  /\ g.on
  /\ \E f \in Frames :
       LET d == [kind |-> "pdu", actor |-> [sys |-> f.sys, key |-> f.key, no |-> p],
                 state |-> f.state,
                 partner |-> IF f.known THEN Self(g, p) ELSE Nobody,
                 pstate |-> IF f.known THEN g.port[p].state \cap Read ELSE {"agg"}]
       IN  g' = Quiet(Receive(g, p, d))
  /\ UNCHANGED late

Second == g.on /\ g' = Quiet(Tick(g)) /\ UNCHANGED late

Up(p) == g.on /\ (\E k \in KeyOf[p] : g' = Quiet(LinkUp(g, p, k))) /\ UNCHANGED late

Down(p) == g.on /\ g' = Quiet(PortDisable(g, p)) /\ UNCHANGED late

Speed(p) == g.on /\ (\E k \in KeyOf[p] : g' = KeyChange(g, p, k)) /\ UNCHANGED late

Answered(p) ==
  g.on /\ g.port[p].mark /\ g' = MarkerResponse(g, p) /\ UNCHANGED late

(* The timer ends; its message does not wait for room in the queue.        *)
Expire ==
  /\ g.sd > 0
  /\ g' = [g EXCEPT !.sd = 0]
  /\ late' \in {late, late + 1} \cap 0..Late

Served == late > 0 /\ late' = late - 1 /\ g' = Transit(g)

Next ==
  \/ CreateGroup \/ DestroyGroup \/ Second \/ Expire \/ Served
  \/ \E p \in Ports : \/ Arrive(p) \/ Up(p) \/ Down(p) \/ Speed(p) \/ Answered(p)

Spec == Init /\ [][Next]_vars

-----------------------------------------------------------------------------
(* The counters of the aggregator agree with its ports, through every way  *)
(* in which a port joins, waits, distributes and leaves; no port is past   *)
(* DETACHED without one.                                                   *)
Counted ==
  /\ g.la.refcnt = Cardinality({p \in Ports : g.port[p].la})
  /\ g.la.refcnt <= MaxMember
  /\ g.la.pending = Cardinality({p \in Ports : g.port[p].ww > 0})
  /\ g.la.dist = {p \in Ports : Is(g, p, "dist")}
  /\ g.active <=> g.la.dist # {}
  /\ \A p \in Ports :
       /\ g.port[p].la <=> g.port[p].mux # "DETACHED"
       /\ Is(g, p, "sync") <=> g.port[p].mux \in {"ATTACHED", "COLLECTING", "DISTRIBUTING"}
       /\ Is(g, p, "coll") <=> g.port[p].mux \in {"COLLECTING", "DISTRIBUTING"}
       /\ Is(g, p, "dist") <=> g.port[p].mux = "DISTRIBUTING"

(* The database, and with it the switch hardware, has a port as aggregated *)
(* exactly while it distributes on an aggregator that is not suppressed.   *)
ToldRight ==
  g.told = {p \in Ports : Is(g, p, "dist") /\ ~g.suppress}

(* All selected ports lead to the one system and key of the aggregator,    *)
(* which is not a port of the group itself.                                *)
OnePartner ==
  \A p \in Ports :
    g.port[p].sel /\ g.port[p].la =>
      /\ g.la.peer.sys = g.port[p].peer.sys /\ g.la.peer.key = g.port[p].peer.key
      /\ g.la.key = g.port[p].key
      /\ g.port[p].peer.sys # g.sys
===============================================================================
