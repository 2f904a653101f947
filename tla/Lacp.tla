--------------------------------- MODULE Lacp ---------------------------------
(***************************************************************************)
(* Link aggregation (IEEE 802.3ad): the record of one LAG group of a       *)
(* switch and what the receive, selection, mux, periodic and transmit      *)
(* machines of its ports do to it.  Operators from record to record; the   *)
(* frames that a step sends are left in it.                                *)
(*                                                                         *)
(* A port joins the one aggregator of the group, waits until no other port *)
(* waits, and then follows its partner through ATTACHED and COLLECTING to  *)
(* DISTRIBUTING.  The database is told which ports are aggregated.         *)
(***************************************************************************)
EXTENDS Integers, FiniteSets, Sequences

CONSTANTS
  Ports,      \* the members of the group
  MaxMember,  \* MAX_TRUNK_MEMBER_NUM
  FastTime, SlowTime, ShortTime, LongTime, WaitTime,  \* LACP_..._TIME
  Delay,      \* LACP_TRANSIT_DELAY
  MaxSent,    \* 3 / LACP_FAST_PERIODIC_TIME
  Prio        \* the priority of each partner system as the code compares it

ASSUME LacpAssumption ==
  /\ Ports \subseteq Nat \ {0} /\ IsFiniteSet(Ports) /\ MaxMember \in Nat \ {0}
  /\ {FastTime, SlowTime, ShortTime, LongTime, WaitTime, Delay, MaxSent} \subseteq Nat \ {0}
  /\ FastTime <= SlowTime

(* The bits of lip_state that the receiver of a frame reads; dist, dflt    *)
(* and exp are sent as well.                                               *)
Read == {"act", "fast", "agg", "sync", "coll"}

(* Whom a port knows: system, key and port.  lacp_partner_admin_strict is  *)
(* Nobody with no bits.                                                    *)
Nobody == [sys |-> "nobody", key |-> 0, no |-> 0]
NoLa == [refcnt |-> 0, dist |-> {}, pending |-> 0, peer |-> Nobody, key |-> 0]

Marker == [kind |-> "marker"]

Self(g, p) == [sys |-> g.sys, key |-> g.port[p].key, no |-> p]
Is(g, p, b) == b \in g.port[p].state
Set(g, p, b) == [g EXCEPT !.port[p].state = @ \cup {b}]
Clear(g, p, b) == [g EXCEPT !.port[p].state = @ \ {b}]
Ntt(g, p) == [g EXCEPT !.port[p].ntt = TRUE]

-----------------------------------------------------------------------------
(* The database is told which ports are aggregated; whether another port is *)
(* SELECTED or UNSELECTED is only shown to the user, and left out.         *)

Aggregated(g) ==
  {p \in Ports : g.active /\ ~g.suppress /\ p \in g.la.dist /\ g.port[p].mux = "DISTRIBUTING"}

Tell(g) == [g EXCEPT !.told = Aggregated(g)]

(* Nothing is distributed until the partner has answered a marker on every *)
(* port, or the timer ends: no frame of a flow overtakes another.          *)
Suppress(g) ==
  Tell([g EXCEPT !.suppress = TRUE, !.sd = Delay,
                 !.port = [p \in Ports |-> [g.port[p] EXCEPT !.mark = @ \/ p \in g.la.dist]],
                 !.out = [p \in Ports |-> IF p \in g.la.dist THEN Append(@[p], Marker) ELSE @[p]]])

SelectActive(g) ==
  LET best == g.la.dist # {}
  IN  IF best = g.active THEN g
      ELSE IF best THEN Suppress([g EXCEPT !.active = TRUE])
      ELSE [g EXCEPT !.active = FALSE]

DisableDistributing(g, p) ==
  IF ~g.port[p].la \/ ~Is(g, p, "dist") THEN g
  ELSE LET h == [g EXCEPT !.la.dist = @ \ {p}]
       IN  Clear(IF g.active THEN SelectActive(Suppress(h)) ELSE h, p, "dist")

EnableDistributing_AtOnce(g, p) ==
  LET h == Set([g EXCEPT !.la.dist = @ \cup {p}], p, "dist")
  IN  CASE Is(g, p, "dist") -> g
        [] ~Is(g, p, "dist") /\ g.active -> h
        [] OTHER -> SelectActive(h)

EnableDistributing(g, p) ==
  LET h == Set([g EXCEPT !.la.dist = @ \cup {p}], p, "dist")
  IN  CASE Is(g, p, "dist") -> g
        [] ~Is(g, p, "dist") /\ g.active -> Suppress(h)
        [] OTHER -> SelectActive(h)

(* The end of the timer, and the answer to the last marker that was sent.  *)
Resume_Silently(g) == [g EXCEPT !.suppress = FALSE]
Resume(g) == Tell([g EXCEPT !.suppress = FALSE])
Transit(g) == IF ~g.on THEN Tell(g) ELSE IF g.suppress THEN Resume(g) ELSE g

MarkerResponse(g, p) ==
  LET h == [g EXCEPT !.port[p].mark = FALSE]
  IN  IF g.suppress /\ ~ \E q \in Ports : q <= MaxMember /\ h.port[q].mark
      THEN Resume(h) ELSE h

-----------------------------------------------------------------------------
(* Selection.                                                              *)

Unselect(g, p) ==
  LET h == [g EXCEPT !.port[p].la = FALSE, !.la.refcnt = @ - 1]
  IN  IF ~g.port[p].la THEN g
      ELSE IF h.la.refcnt > 0 THEN h ELSE [h EXCEPT !.la = NoLa]

(* A port may join if both ends aggregate, and system and key of both ends *)
(* are those of the aggregator.                                            *)
Compatible(g, p) ==
  LET q == g.port[p]
  IN  /\ "agg" \in q.state /\ "agg" \in q.pstate
      /\ g.la.peer.sys = q.peer.sys /\ g.la.peer.key = q.peer.key /\ g.la.key = q.key

Join(g, p) == Tell([g EXCEPT !.port[p].la = TRUE, !.port[p].sel = TRUE])

(* The new aggregator counts the port at once, whether or not it may join. *)
NewLa(g, p) ==
  LET h == [g EXCEPT !.la = [NoLa EXCEPT !.refcnt = 1, !.peer = g.port[p].peer,
                                         !.key = g.port[p].key]]
  IN  IF Compatible(h, p) THEN Join(h, p) ELSE h

(* The other ports give way to a partner of larger priority.               *)
GiveWay(g, p) ==
  LET S == {q \in Ports \ {p} : g.port[q].la}
      h == [g EXCEPT !.port = [q \in Ports |-> [g.port[q] EXCEPT !.la = @ /\ q \notin S]],
                     !.la.refcnt = @ - Cardinality(S)]
  IN  IF S # {} /\ h.la.refcnt = 0 THEN NewLa(h, p) ELSE h

Select(g, p) ==
  CASE g.port[p].la \/ Is(g, p, "dflt") \/ Is(g, p, "exp") -> g
    [] OTHER ->
         IF g.la = NoLa THEN NewLa(g, p)
         ELSE IF Compatible(g, p)
         THEN IF g.la.refcnt = MaxMember THEN g ELSE Join([g EXCEPT !.la.refcnt = @ + 1], p)
         ELSE IF Prio[g.la.peer.sys] < Prio[g.port[p].peer.sys] THEN GiveWay(g, p) ELSE g

-----------------------------------------------------------------------------
(* Mux machine.                                                            *)

StopWait_Counted(g, p) == [g EXCEPT !.port[p].ww = 0]

StopWait(g, p) ==
  IF g.port[p].ww = 0 THEN g
  ELSE [g EXCEPT !.port[p].ww = 0, !.la.pending = @ - 1]

Enter(g, p, m) ==
  CASE m = "DETACHED" ->
         LET h == Clear(DisableDistributing(Clear(g, p, "sync"), p), p, "coll")
         IN  Unselect(StopWait(Ntt(h, p), p), p)
    [] m = "WAITING" -> [g EXCEPT !.port[p].ww = WaitTime, !.la.pending = @ + 1]
    [] m = "ATTACHED" -> Ntt(Clear(Set(g, p, "sync"), p, "coll"), p)
    [] m = "COLLECTING" -> Ntt(DisableDistributing(Set(g, p, "coll"), p), p)
    [] m = "DISTRIBUTING" -> Ntt(EnableDistributing(g, p), p)

SetMux(g, p, m) ==
  IF g.port[p].mux = m THEN g ELSE [Enter(g, p, m) EXCEPT !.port[p].mux = m]

NextMux_Deaf(g, p) ==
  LET q == g.port[p]
      sync == "sync" \in q.pstate
      both == sync /\ "coll" \in q.pstate
  IN  CASE q.mux = "DETACHED" -> IF q.sel THEN "WAITING" ELSE q.mux
        [] q.mux = "WAITING" ->
             IF ~q.sel THEN "DETACHED" ELSE IF g.la.pending = 0 THEN "ATTACHED" ELSE q.mux
        [] q.mux = "ATTACHED" ->
             IF ~q.sel THEN "DETACHED" ELSE IF sync THEN "COLLECTING" ELSE q.mux
        [] q.mux = "COLLECTING" ->
             IF ~q.sel \/ ~sync THEN "ATTACHED" ELSE IF both THEN "DISTRIBUTING" ELSE q.mux
        [] q.mux = "DISTRIBUTING" -> IF q.sel THEN q.mux ELSE "COLLECTING"

NextMux(g, p) ==
  LET q == g.port[p]
      sync == "sync" \in q.pstate
      both == sync /\ "coll" \in q.pstate
  IN  CASE q.mux = "DETACHED" -> IF q.sel THEN "WAITING" ELSE q.mux
        [] q.mux = "WAITING" ->
             IF ~q.sel THEN "DETACHED" ELSE IF g.la.pending = 0 THEN "ATTACHED" ELSE q.mux
        [] q.mux = "ATTACHED" ->
             IF ~q.sel THEN "DETACHED" ELSE IF sync THEN "COLLECTING" ELSE q.mux
        [] q.mux = "COLLECTING" ->
             IF ~q.sel \/ ~sync THEN "ATTACHED" ELSE IF both THEN "DISTRIBUTING" ELSE q.mux
        [] q.mux = "DISTRIBUTING" -> IF q.sel /\ both THEN q.mux ELSE "COLLECTING"

(* The machine runs on until it stays: four steps at most.                 *)
Mux(g, p) ==
  LET run[n \in 0..4] == IF n = 0 THEN g ELSE SetMux(run[n - 1], p, NextMux(run[n - 1], p))
  IN  run[4]

-----------------------------------------------------------------------------
(* Transmit and periodic machines.  At most MaxSent frames a second leave  *)
(* a port; one that is held back leaves with the next tick.                *)

Frame(g, p) == [kind |-> "pdu", actor |-> Self(g, p), state |-> g.port[p].state \cap Read,
                partner |-> g.port[p].peer, pstate |-> g.port[p].pstate]

Tx(g, p) ==
  LET q == g.port[p]
  IN  CASE ~("agg" \in q.state /\ "act" \in q.state \cup q.pstate) ->
             [g EXCEPT !.port[p].ntt = FALSE]
        [] OTHER ->
             IF ~q.ntt \/ q.sent >= MaxSent THEN g
             ELSE [g EXCEPT !.port[p].ntt = FALSE, !.port[p].sent = @ + 1,
                            !.out[p] = Append(@, Frame(g, p))]

Schedule(g, p) ==
  LET q == g.port[p]
  IN  CASE "act" \notin q.state \cup q.pstate -> [g EXCEPT !.port[p].per = 0]
        [] OTHER -> IF q.per > 0 THEN g
                    ELSE [g EXCEPT !.port[p].per =
                                     IF "fast" \in q.pstate THEN FastTime ELSE SlowTime]

(* The partner has changed the period it expects.                          *)
UpdateTimeout(g, p, old) ==
  LET q == g.port[p]
      fast == "fast" \in q.pstate
  IN  IF fast = ("fast" \in old) THEN g
      ELSE [g EXCEPT !.port[p].per = 0, !.port[p].ntt = @ \/ fast \/ q.per = FastTime]

-----------------------------------------------------------------------------
(* Receive machine.                                                        *)

SetExpired(g, p) ==
  [g EXCEPT !.port[p].pstate = (@ \ {"sync"}) \cup {"fast"}, !.port[p].cw = ShortTime,
            !.port[p].per = FastTime, !.port[p].state = @ \cup {"exp"}]

RecordDefault(g, p) ==
  UpdateTimeout([Set(g, p, "dflt") EXCEPT !.port[p].peer = Nobody, !.port[p].pstate = {}],
                p, g.port[p].pstate)

(* Another partner, or one that no longer aggregates: the selection ends.  *)
UpdateSelected_BySystem(g, p, peer, bits) ==
  LET q == g.port[p]
      same == q.peer.sys = peer.sys /\ ("agg" \in q.pstate <=> "agg" \in bits)
  IN  [g EXCEPT !.port[p].sel = @ /\ same]

UpdateSelected(g, p, peer, bits) ==
  LET q == g.port[p]
      same == q.peer = peer /\ ("agg" \in q.pstate <=> "agg" \in bits)
  IN  [g EXCEPT !.port[p].sel = @ /\ same]

UpdateNtt(g, p, d) ==
  LET told == {"act", "sync", "agg"}
  IN  IF d.partner = Self(g, p) /\ g.port[p].state \cap told = d.pstate \cap told
      THEN g ELSE Ntt(g, p)

(* The partner is in sync only if it knows this port, or aggregates alone. *)
RecordPdu(g, p, d) ==
  LET q == g.port[p]
      active == "act" \in d.state \/ ("act" \in q.state /\ "act" \in d.pstate)
      known == d.partner = Self(g, p) /\ ("agg" \in q.state) = ("agg" \in d.pstate)
      bits == IF active /\ (known \/ "agg" \notin d.pstate) THEN d.state
              ELSE d.state \ {"sync"}
  IN  UpdateTimeout([Clear(g, p, "dflt") EXCEPT !.port[p].peer = d.actor,
                                                !.port[p].pstate = bits],
                    p, q.pstate)

(* A tick within a second of the frame does not count, so that the timer   *)
(* has one tick more than its value.                                       *)
Receive(g, p, d) ==
  LET time == IF Is(g, p, "fast") THEN ShortTime ELSE LongTime
      h == RecordPdu(UpdateNtt(UpdateSelected(g, p, d.actor, d.state), p, d), p, d)
  IN  IF ~Is(g, p, "agg") \/ (d.actor.sys = g.sys /\ d.actor.no \in Ports) THEN g
      ELSE Tx(Clear([h EXCEPT !.port[p].cw = time + 1], p, "exp"), p)

RxTimer(g, p) ==
  IF ~Is(g, p, "exp") THEN SetExpired(g, p)
  ELSE Clear(RecordDefault(UpdateSelected(g, p, Nobody, {}), p), p, "exp")

-----------------------------------------------------------------------------
(* The second, and what the switch learns of its links.                    *)

Current(g, p) ==
  LET h == [g EXCEPT !.port[p].cw = @ - 1]
  IN  CASE g.port[p].cw = 0 -> g
        [] g.port[p].cw = 1 -> RxTimer(h, p)
        [] OTHER -> h

Periodic(g, p) ==
  CASE g.port[p].per = 0 -> g
    [] OTHER -> [g EXCEPT !.port[p].per = @ - 1, !.port[p].ntt = @ \/ g.port[p].per = 1]

WaitWhile(g, p) ==
  CASE g.port[p].ww = 0 -> g
    [] OTHER -> [g EXCEPT !.port[p].ww = @ - 1,
                          !.la.pending = IF g.port[p].ww = 1 THEN @ - 1 ELSE @]

TickPort(g, p) ==
  LET timers == WaitWhile(Periodic(Current([g EXCEPT !.port[p].sent = 0], p), p), p)
  IN  IF ~Is(g, p, "agg") THEN g
      ELSE Schedule(Tx(Mux(Select(timers, p), p), p), p)

(* The ports of the group in their order.                                  *)
Tick(g) ==
  LET f[S \in SUBSET Ports] ==
        IF S = {} THEN g
        ELSE LET p == CHOOSE q \in S : \A r \in S : r <= q
             IN  TickPort(f[S \ {p}], p)
  IN  f[Ports]

PortEnable(g, p) == SetExpired(Set(g, p, "agg"), p)

PortDisable(g, p) ==
  LET h == Clear(SetMux([g EXCEPT !.port[p].sel = FALSE], p, "DETACHED"), p, "agg")
  IN  Clear(RecordDefault(h, p), p, "exp")

(* The key of a port follows its speed.                                    *)
KeyChange(g, p, key) == [g EXCEPT !.port[p].sel = @ /\ g.port[p].key = key, !.port[p].key = key]

LinkUp(g, p, key) ==
  LET h == PortEnable(KeyChange(g, p, key), p)
  IN  IF Is(h, p, "act") THEN Ntt(h, p) ELSE h

NoGroup(sys) ==
  [sys |-> sys, on |-> FALSE, la |-> NoLa, active |-> FALSE, suppress |-> FALSE, sd |-> 0,
   told |-> {}, out |-> [p \in Ports |-> << >>],
   port |-> [p \in Ports |->
     [state |-> {}, key |-> 0, peer |-> Nobody, pstate |-> {}, sel |-> FALSE, mux |-> "DETACHED",
      ntt |-> FALSE, mark |-> FALSE, cw |-> 0, per |-> 0, ww |-> 0, la |-> FALSE, sent |-> 0]]]

(* Ports whose link is down start as ports whose link goes down.           *)
Create(g, bits, key, up) ==
  LET h == [NoGroup(g.sys) EXCEPT !.on = TRUE,
              !.port = [p \in Ports |-> [@[p] EXCEPT !.state = bits, !.key = key[p]]]]
      f[S \in SUBSET Ports] ==
        IF S = {} THEN h
        ELSE LET p == CHOOSE q \in S : TRUE
             IN  IF p \in up THEN PortEnable(f[S \ {p}], p) ELSE PortDisable(f[S \ {p}], p)
  IN  Tell(f[Ports])

(* Each port says farewell with a frame that is neither in sync nor        *)
(* collecting; the timer goes with the group.                              *)
Destroy(g) ==
  [NoGroup(g.sys) EXCEPT
     !.out = [p \in Ports |-> <<Frame(SetMux(g, p, "DETACHED"), p)>>]]
===============================================================================
