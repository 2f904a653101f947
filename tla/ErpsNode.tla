------------------------------- MODULE ErpsNode -------------------------------
(***************************************************************************)
(* One switch with one ring instance (MAX_ERPS_INSTANCE_NUM is 1): the     *)
(* ERPS task with its configuration from the database, its event queue,    *)
(* its timers, and R-APS messages from a ring that may hold nodes of any   *)
(* make: every message may arrive at every time.                           *)
(***************************************************************************)
EXTENDS ErpsFsm

CONSTANTS
  Phys,       \* the ports of the switch
  Gphy,       \* those with a built-in PHY, which are not polled
  Configs,    \* what the database may hold for the instance
  Id,         \* node id of this switch
  Remotes,    \* node ids of others
  Inputs,     \* R-APS messages that arrive
  EvtLen,     \* length of the event queue
  MaxConfig   \* configuration messages from the database

Config == [roles : [Ports -> Roles], pid : [Ports -> Phys],
           revertive : BOOLEAN, holds : BOOLEAN]

ASSUME NodeAssumption ==
  /\ Gphy \subseteq Phys
  /\ Configs \subseteq {c \in Config : c.pid["west"] # c.pid["east"]} /\ Configs # {}
  /\ Id \in Nat /\ Remotes \subseteq Nat
  /\ Inputs \subseteq Message
  /\ EvtLen \in Nat /\ MaxConfig \in Nat

VARIABLES
  r,       \* _erps_ring_instance[0], the timer slots and the STP states
  ring,    \* the instance exists: ring_id and raps_vid are not zero
  pair,    \* node_id_bpr of each ring port
  link,    \* the ports whose link is up
  seen,    \* _link_sts: the ports last seen up by the event handler
  armed,   \* the ports whose link interrupt is enabled
  latched, \* the interrupt status register of the switch
  evts,    \* the event queue
  left     \* configuration messages to come

vars == <<r, ring, pair, link, seen, armed, latched, evts, left>>

NoPair == <<0, 0>>
Bit(m) == IF "BPR" \in m.status THEN 1 ELSE 0

Clean == [p \in Ports |-> NoPair]
SomeConfig == CHOOSE c \in Configs : TRUE

Zero(stp, run) == ZeroRing(SomeConfig.pid, stp, run)

Init ==
  /\ r = Zero({}, NoneRuns)
  /\ ring = FALSE /\ pair = Clean
  /\ link \in SUBSET Phys /\ seen = {}
  /\ armed = {} /\ latched \in SUBSET Gphy
  /\ evts = << >> /\ left = MaxConfig

(* The ring record after a step of the task that computed s, and the pairs *)
(* when they were q before the state machine ran.                          *)
Step(s, q) ==
  /\ r' = Quiet(s)
  /\ pair' = IF s.cleared THEN Clean ELSE q

-----------------------------------------------------------------------------
(* Configuration: _erps_handle_db_erps_info.                               *)

(* The link check after the initialisation, west port first.               *)
CheckLink(s, p) ==
  IF s.pid[p] \in link THEN s
  ELSE Handle([s EXCEPT !.failed = @ \cup {p}], "SF", p)
CheckLinks(s) == CheckLink(CheckLink(s, "west"), "east")

RingPorts(s) == {s.pid[p] : p \in Ports}

(* _erps_instance_init.  The timer indices become invalid first.           *)
InstanceInit(s) == CheckLinks(StateMachineInit([s EXCEPT !.idx = {}]))

Create(c) ==
  /\ left > 0 /\ left' = left - 1
  /\ IF ring THEN UNCHANGED <<r, ring, pair, armed>>
     ELSE LET s == [Zero(r.stp, r.run) EXCEPT
                      !.roles = c.roles, !.pid = c.pid, !.id = Id,
                      !.revertive = c.revertive, !.holds = c.holds]
          IN  /\ Step(InstanceInit(s), Clean)
              /\ ring' = TRUE
              /\ armed' = armed \cup RingPorts(s)
  /\ UNCHANGED <<link, seen, latched, evts>>

\* Mutant: the port that is left stays as it is.
MovePortOnly(s, p, c) ==
  [s EXCEPT !.pid[p] = c.pid[p], !.roles[p] = c.roles[p]]

(* A port that moves is opened under its old number.                       *)
MovePort(s, p, c) ==
  LET u == IF s.pid[p] # c.pid[p] THEN Unblock(s, p) ELSE s
  IN  [u EXCEPT !.pid[p] = c.pid[p], !.roles[p] = c.roles[p]]

(* _erps_instance_update: the timer indices become invalid here as well,   *)
(* and nothing resets what is known of the links.                          *)
InstanceUpdate(s) ==
  CheckLinks(StateMachineInit(RingPortUnblock([s EXCEPT !.idx = {}])))

Update(c) ==
  /\ left > 0 /\ left' = left - 1
  /\ ring
  /\ LET s == MovePort(MovePort([r EXCEPT !.revertive = c.revertive],
                                "west", c), "east", c)
         h == [s EXCEPT !.holds = c.holds]
     IN  IF /\ r.revertive = c.revertive
            /\ r.pid = c.pid /\ r.roles = c.roles
         THEN Step(h, pair) /\ UNCHANGED armed
         ELSE /\ Step(Flush(InstanceUpdate(h)), pair)
              /\ armed' = (armed \ RingPorts(r)) \cup RingPorts(h)
  /\ UNCHANGED <<ring, link, seen, latched, evts>>

StopAll(s) ==
  HoldOffTimerStop(GuardTimerStop(WtbTimerStop(WtrTimerStop(s))))

(* _erps_instance_deinit.  Without an instance its zeros name slot 0, and  *)
(* whatever timer runs there is stopped.                                   *)
Delete ==
  /\ left > 0 /\ left' = left - 1
  /\ IF ring
     THEN LET s == RingPortUnblock(StopAll(r))
          IN  /\ r' = Zero(s.stp, s.run)
              /\ armed' = armed \ RingPorts(r)
     ELSE /\ \/ r' = r
             \/ \E k \in Timers : r.run[k] > 0 /\ r' = [r EXCEPT !.run[k] = @ - 1]
          /\ UNCHANGED armed
  /\ ring' = FALSE /\ pair' = Clean
  /\ UNCHANGED <<link, seen, latched, evts>>

-----------------------------------------------------------------------------
(* Links.  The switch notes the change of a link in its status register,  *)
(* surely so if the interrupt of the port is enabled.  An SFP port may     *)
(* only report a loss, by its pin or because it was disabled.  An event    *)
(* for which the queue has no room is lost.                                *)
Put(kind, ports) ==
  evts' = IF Len(evts) < EvtLen
          THEN Append(evts, [kind |-> kind, ports |-> ports]) ELSE evts

LinkToggle(q) ==
  /\ link' = IF q \in link THEN link \ {q} ELSE link \cup {q}
  /\ \/ q \in Gphy /\ latched' = latched \cup {q}
     \/ q \notin armed \cap Gphy /\ UNCHANGED latched
  /\ \/ UNCHANGED evts
     \/ q \in (armed \cap link) \ Gphy /\ Put("down", {q})
  /\ UNCHANGED <<r, ring, pair, seen, armed, left>>

(* erps_gsw_isr: it takes the whole register, also what ports latched      *)
(* whose interrupt is not enabled.                                         *)
GswIsr ==
  /\ latched \cap armed # {}
  /\ Put("irq", latched) /\ latched' = {}
  /\ UNCHANGED <<r, ring, pair, link, seen, armed, left>>

(* _erps_link_status_change_noti_handle reads the links when it runs and   *)
(* compares them with what it saw last, from the lowest port to the        *)
(* highest.                                                                *)
FirstPort == IF r.pid["west"] < r.pid["east"] THEN "west" ELSE "east"
NewLink(s, p, ports) ==
  IF ring /\ s.pid[p] \in ports /\ (s.pid[p] \in seen) # (s.pid[p] \in link)
  THEN LinkChange(s, p, s.pid[p] \in link) ELSE s

LinkEvent ==
  /\ evts # << >> /\ Head(evts).kind = "irq"
  /\ LET ports == Head(evts).ports
         first == NewLink(r, FirstPort, ports)
     IN  /\ Step(NewLink(first, Another(FirstPort), ports), pair)
         /\ seen' = (seen \ ports) \cup (link \cap ports)
  /\ evts' = Tail(evts)
  /\ UNCHANGED <<ring, link, armed, latched, left>>

(* A loss reported by an SFP pin or by disabling the port.                 *)
Lost(s, p, ports) ==
  IF ring /\ s.pid[p] \in ports THEN LinkChange(s, p, FALSE) ELSE s

DownEvent ==
  /\ evts # << >> /\ Head(evts).kind = "down"
  /\ Step(Lost(Lost(r, "west", Head(evts).ports), "east", Head(evts).ports), pair)
  /\ evts' = Tail(evts)
  /\ UNCHANGED <<ring, link, seen, armed, latched, left>>

\* Mutant: only a loss is polled for.
PollPortLoss(s, p) ==
  IF s.pid[p] \notin Gphy /\ s.pid[p] \notin link /\ p \notin s.failed
  THEN LinkChange(s, p, FALSE) ELSE s

(* _erps_link_status_polling, the west port first.                         *)
PollPort(s, p) ==
  IF s.pid[p] \notin Gphy /\ (s.pid[p] \in link) = (p \in s.failed)
  THEN LinkChange(s, p, s.pid[p] \in link) ELSE s

Poll ==
  /\ ring
  /\ Step(PollPort(PollPort(r, "west"), "east"), pair)
  /\ UNCHANGED <<ring, link, seen, armed, latched, evts, left>>

-----------------------------------------------------------------------------
(* R-APS messages and timers.                                              *)

(* The flush logic of _erps_raps_msg_input: an NR forgets the pair of the  *)
(* port, any other message replaces it and flushes if neither port had it. *)
NewPair(p, m, node) ==
  IF RequestOf(m) = "RAPS_NR" THEN NoPair ELSE <<node, Bit(m)>>
NeedFlush(p, m, node) ==
  /\ RequestOf(m) # "RAPS_NR" /\ "DNF" \notin m.status
  /\ \A x \in Ports : pair[x] # <<node, Bit(m)>>

RapsInput(p, m, node) ==
  /\ ring /\ node # r.id
  /\ LET s == IF NeedFlush(p, m, node) THEN Flush(r) ELSE r
     IN  Step(ToPriorityLogic(s, m, node),
              [pair EXCEPT ![p] = NewPair(p, m, node)])
  /\ UNCHANGED <<ring, link, seen, armed, latched, evts, left>>

TimerExpire(k) ==
  /\ r.run[k] > 0
  /\ Step(CASE k = "wtr" -> WtrTimerExpire(r)
            [] k = "wtb" -> WtbTimerExpire(r)
            [] k = "guard" -> GuardTimerExpire(r)
            [] k = "hold_off" -> HoldOffTimerExpire(r), pair)
  /\ UNCHANGED <<ring, link, seen, armed, latched, evts, left>>

Next ==
  \/ \E c \in Configs : Create(c) \/ Update(c)
  \/ Delete
  \/ \E q \in Phys : LinkToggle(q)
  \/ GswIsr \/ LinkEvent \/ DownEvent \/ Poll
  \/ \E p \in Ports, m \in Inputs, node \in Remotes : RapsInput(p, m, node)
  \/ \E k \in Timers : TimerExpire(k)

Spec == Init /\ [][Next]_vars

(* The task polls at least once a second and serves its event queue.      *)
FairSpec ==
  Spec /\ WF_vars(Poll) /\ WF_vars(LinkEvent \/ DownEvent)

-----------------------------------------------------------------------------
(* While a local failure is the top request the node is in the Protection  *)
(* state and says so to the ring, it blocks the failed port, and no port   *)
(* that works, whatever failures, messages and timers came in between.     *)
FailureIsProtected ==
  r.local = "SF" =>
    /\ r.state = "PROTECTION"
    /\ r.sending /\ r.raps.req = "SF"
    /\ r.blocked # {} /\ r.blocked \subseteq r.failed

(* The WTR and WTB timers of a node run only while it waits to revert: as  *)
(* the owner of a revertive ring in the Pending state; and a node that     *)
(* gives way to no weaker request because it waits does have the timer.    *)
WaitIsPending ==
  /\ r.idx \cap {"wtr", "wtb"} # {} => Revertive(r) /\ r.state = "PENDING"
  /\ r.local = "WTR_RUNNING" => "wtr" \in r.idx
  /\ r.local = "WTB_RUNNING" => "wtb" \in r.idx

(* A node that tells the ring that the RPL is blocked (RB) blocks it, on   *)
(* its RPL port and on no other, and is its idle owner: on that word every *)
(* other node opens its ports.                                             *)
RbMeansBlocked ==
  r.sending /\ "RB" \in r.raps.status =>
    /\ Owner(r) /\ r.state = "IDLE"
    /\ r.blocked = {RplPort(r)}

(* R-APS frames pass through the node in hardware exactly while both ring  *)
(* ports are open, and the STP state of the ports of the switch is what    *)
(* the ring records: no port stays closed that left the ring.              *)
HardwareFollows ==
  /\ ring => (r.fw <=> r.blocked = {})
  /\ r.stp = IF ring THEN {r.pid[p] : p \in r.blocked} ELSE {}

(* A timer runs in at most one slot and the ring holds its index.          *)
TimersAreOwn ==
  \A k \in Timers : r.run[k] = IF k \in r.idx THEN 1 ELSE 0

(* Once a polled port stays down the node knows, and does not believe it   *)
(* failed once it stays up, although a report of a loss may come late.     *)
PolledPortKnown ==
  \A p \in Ports :
    /\ <>[](ring /\ r.pid[p] \in link \ Gphy) => <>[](p \notin r.failed)
    /\ <>[](ring /\ r.pid[p] \in Phys \ (link \cup Gphy)) => <>[](p \in r.failed)
==============================================================================
