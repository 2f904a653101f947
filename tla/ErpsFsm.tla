------------------------------- MODULE ErpsFsm -------------------------------
(***************************************************************************)
(* The protection state machine of a ring node: the priority logic and the *)
(* state table of erps_state_machine.c with the port, timer and            *)
(* transmission functions of erps.c that the table calls.                  *)
(*                                                                         *)
(* An operator takes a ring record and returns the record after the call.  *)
(* Next to the fields of ERPS_RING_T the record has three outputs of the   *)
(* step, which Quiet clears: the messages sent (out), whether the FDB was  *)
(* flushed, and whether a port was blocked, which clears the (node id,     *)
(* BPR) pairs of both ports.                                               *)
(***************************************************************************)
EXTENDS Naturals, Sequences

CONSTANT Slots       \* ERPS_MAX_TIMER_NUM, the size of _erps_timer_instance
ASSUME SlotsAssumption == Slots \in Nat

Ports == {"west", "east"}
Another(p) == IF p = "west" THEN "east" ELSE "west"

Roles == {"TRANSFER", "NEIGHBOR", "OWNER"}
Timers == {"wtr", "wtb", "guard", "hold_off"}

(* The requests that are ever raised, by their number: the lower one wins. *)
(* CLEAR is what a record filled with zeros holds, and LAST is no request. *)
Priority ==
  [CLEAR |-> 0, RAPS_FS |-> 2, SF |-> 3, CLEAR_SF |-> 4, RAPS_SF |-> 5,
   RAPS_MS |-> 6, WTR_EXPIRES |-> 8, WTR_RUNNING |-> 9, WTB_EXPIRES |-> 10,
   WTB_RUNNING |-> 11, RAPS_NR_RB |-> 12, RAPS_NR |-> 13, LAST |-> 14]

Flags == {"BPR", "DNF", "RB"}
Message == [req : {"NR", "MS", "SF", "FS"}, status : SUBSET Flags]
Nothing == [req |-> "NR", status |-> {}]      \* both bytes zero

-----------------------------------------------------------------------------
(* Node type and RPL port follow from the port roles, the west port first. *)
HasRole(r, role) == \E p \in Ports : r.roles[p] = role
NodeType(r) == IF HasRole(r, "OWNER") THEN "OWNER"
               ELSE IF HasRole(r, "NEIGHBOR") THEN "NEIGHBOR" ELSE "TRANSFER"
RplPort(r) == IF r.roles["west"] = NodeType(r) THEN "west" ELSE "east"
Owner(r) == NodeType(r) = "OWNER"
Revertive(r) == Owner(r) /\ r.revertive

Quiet(r) == [r EXCEPT !.out = << >>, !.flush = FALSE, !.cleared = FALSE]
Flush(r) == [r EXCEPT !.flush = TRUE]

(* The memory of a ring filled with zeros: ports forward, the state is     *)
(* Idle.  Ports of the switch and running slots are not part of it.        *)
ZeroRing(pid, stp, run) ==
  [roles |-> [p \in Ports |-> "TRANSFER"], pid |-> pid,
   revertive |-> FALSE, holds |-> FALSE, id |-> 0,
   state |-> "IDLE", local |-> "CLEAR", failed |-> {}, blocked |-> {},
   fw |-> FALSE, stp |-> stp, idx |-> {}, run |-> run,
   sending |-> FALSE, raps |-> Nothing,
   out |-> << >>, flush |-> FALSE, cleared |-> FALSE]
NoneRuns == [k \in Timers |-> 0]

-----------------------------------------------------------------------------
(* Ports.  stp holds the ports of the switch whose STP state discards.     *)
(* The ACL forwards R-APS frames between the ring ports (fw) only from the *)
(* moment a port is opened while the other one forwards.                   *)
Block(r, p) ==
  IF p \in r.blocked THEN r
  ELSE [r EXCEPT !.blocked = @ \cup {p}, !.stp = @ \cup {r.pid[p]},
                 !.fw = FALSE, !.cleared = TRUE]

Unblock(r, p) ==
  IF p \notin r.blocked THEN r
  ELSE [r EXCEPT !.blocked = @ \ {p}, !.stp = @ \ {r.pid[p]},
                 !.fw = Another(p) \notin r.blocked]

RingPortUnblock(r) == Unblock(Unblock(r, "west"), "east")

NonFailPortUnblock(r) ==
  LET w == IF "west" \in r.failed THEN r ELSE Unblock(r, "west")
  IN  IF "east" \in r.failed THEN w ELSE Unblock(w, "east")

-----------------------------------------------------------------------------
(* Timers.  idx holds the timers whose index in the ring record is valid,  *)
(* run[k] counts the slots that run with the callback of timer k.          *)
InUse(r) == r.run["wtr"] + r.run["wtb"] + r.run["guard"] + r.run["hold_off"]

\* Mutant: a timer that runs is started again.
StartTimerAgain(r, k) ==
  IF InUse(r) >= Slots THEN r
  ELSE [r EXCEPT !.idx = @ \cup {k}, !.run[k] = @ + 1]

StartTimer(r, k) ==
  IF k \in r.idx \/ InUse(r) >= Slots THEN r
  ELSE [r EXCEPT !.idx = @ \cup {k}, !.run[k] = @ + 1]

StopTimer(r, k) ==
  IF k \notin r.idx THEN r
  ELSE [r EXCEPT !.idx = @ \ {k}, !.run[k] = @ - 1]

WtrTimerStart(r) ==
  IF "wtr" \in r.idx THEN r
  ELSE [StartTimer(r, "wtr") EXCEPT !.local = "WTR_RUNNING"]
WtbTimerStart(r) ==
  IF "wtb" \in r.idx THEN r
  ELSE [StartTimer(r, "wtb") EXCEPT !.local = "WTB_RUNNING"]
GuardTimerStart(r) == StartTimer(r, "guard")
HoldOffTimerStart(r) == StartTimer(r, "hold_off")

WtrTimerStop(r) == StopTimer(r, "wtr")
WtbTimerStop(r) == StopTimer(r, "wtb")
HoldOffTimerStop(r) == StopTimer(r, "hold_off")
(* The guard timer is stopped only if the index of the WTB timer is valid. *)
GuardTimerStop(r) == IF "wtb" \in r.idx THEN StopTimer(r, "guard") ELSE r

OwnerStopsWait(r) == IF Owner(r) THEN WtbTimerStop(WtrTimerStop(r)) ELSE r

-----------------------------------------------------------------------------
(* Transmission: what is sent now is sent again while sending is TRUE.     *)
TxStart(r) == [r EXCEPT !.sending = TRUE]

\* Mutant: transmission is stopped only in the Pending state.
TxStopPending(r) ==
  IF r.sending /\ r.state = "PENDING"
  THEN [r EXCEPT !.sending = FALSE, !.raps = Nothing] ELSE r

TxStop(r) == IF r.sending THEN [r EXCEPT !.sending = FALSE, !.raps = Nothing]
             ELSE r

RapsMsgSend(r, req, status) ==
  LET m == [req |-> req, status |-> status]
  IN  [r EXCEPT !.raps = m, !.out = Append(@, m)]
Announce(r, req, status) == TxStart(RapsMsgSend(r, req, status))

Bpr(p) == IF p = "east" THEN {"BPR"} ELSE {}
Goto(r, state) == [r EXCEPT !.state = state]

-----------------------------------------------------------------------------
\* Mutant: the timers go on.
LeavePendingOnly(r) == r

(* The state table, one operator per request.  In the Pending state an     *)
(* owner also stops the WTR and WTB timers.                                *)
LeavePending(r) == IF r.state = "PENDING" THEN OwnerStopsWait(r) ELSE r

RapsFs(r) ==
  IF r.state = "FORCED_SWITCH" THEN r
  ELSE Goto(LeavePending(TxStop(RingPortUnblock(r))), "FORCED_SWITCH")

Sf(r, p) ==
  IF r.state = "FORCED_SWITCH" THEN r
  ELSE LET s == [r EXCEPT !.local = "SF"]
           known == NonFailPortUnblock(Announce(s, "SF", Bpr(p) \cup {"DNF"}))
           new == Flush(NonFailPortUnblock(Announce(Block(s, p), "SF", Bpr(p))))
       IN  Goto(LeavePending(IF p \in r.blocked THEN known ELSE new),
                "PROTECTION")

\* Mutant: no guard timer.
ClearSfUnguarded(r, p) ==
  IF r.state # "PROTECTION" THEN r
  ELSE LET a == Announce(r, "NR", Bpr(p))
       IN  Goto(IF Revertive(r) THEN WtrTimerStart(a) ELSE a, "PENDING")

ClearSf(r, p) ==
  IF r.state # "PROTECTION" THEN r
  ELSE LET a == Announce(GuardTimerStart(r), "NR", Bpr(p))
       IN  Goto(IF Revertive(r) THEN WtrTimerStart(a) ELSE a, "PENDING")

\* Mutant: the ports that work stay closed.
RapsSfClosed(r) ==
  IF r.state \in {"PROTECTION", "FORCED_SWITCH"} THEN r
  ELSE Goto(LeavePending(TxStop(r)), "PROTECTION")

RapsSf(r) ==
  IF r.state \in {"PROTECTION", "FORCED_SWITCH"} THEN r
  ELSE Goto(LeavePending(TxStop(NonFailPortUnblock(r))), "PROTECTION")

RapsMs(r) ==
  CASE r.state \in {"IDLE", "PENDING"} ->
         Goto(LeavePending(TxStop(NonFailPortUnblock(r))), "MANUAL_SWITCH")
    [] r.state = "MANUAL_SWITCH" /\ r.blocked # {} ->
         LET a == Announce(GuardTimerStart(r), "NR", {})
         IN  Goto(IF Revertive(r) THEN WtbTimerStart(a) ELSE a, "PENDING")
    [] OTHER -> r

(* Expiry of the WTR timer, which stops the WTB timer, or the converse.    *)
Revert(r, other) ==
  IF r.state # "PENDING" THEN r
  ELSE IF ~ Owner(r) THEN Goto(r, "IDLE")
  ELSE LET p == RplPort(r)
           s == StopTimer(r, other)
           known == Announce(s, "NR", Bpr(p) \cup {"DNF", "RB"})
           new == Flush(Announce(Block(s, p), "NR", Bpr(p) \cup {"RB"}))
       IN  Goto(Unblock(IF p \in r.blocked THEN known ELSE new, Another(p)),
                "IDLE")
WtrExpires(r) == Revert(r, "wtb")
WtbExpires(r) == Revert(r, "wtr")

BlockRpl(r) == Unblock(Block(r, RplPort(r)), Another(RplPort(r)))

RapsNrRb(r) ==
  CASE r.state = "IDLE" ->
         LET Open(s, p) == IF r.roles[p] = "TRANSFER" THEN Unblock(s, p) ELSE s
             o == Open(Open(r, "west"), "east")
         IN  IF Owner(r) THEN o ELSE TxStop(o)
    [] r.state = "PENDING" ->
         Goto(CASE NodeType(r) = "OWNER" -> OwnerStopsWait(r)
                [] NodeType(r) = "NEIGHBOR" -> TxStop(BlockRpl(r))
                [] OTHER -> TxStop(RingPortUnblock(r)), "IDLE")
    [] OTHER -> Goto(r, "PENDING")

\* Mutant: the owner does not wait to revert.
RapsNrNoWait(r, node) ==
  CASE r.state \in {"IDLE", "PENDING"} -> r
    [] OTHER -> Goto(r, "PENDING")

RapsNr(r, node) ==
  LET yield == r.id < node
      opened == TxStop(NonFailPortUnblock(r))
  IN  CASE r.state = "IDLE" ->
             IF NodeType(r) = "TRANSFER" /\ yield THEN opened ELSE r
        [] r.state = "PENDING" -> IF yield THEN opened ELSE r
        [] r.state = "PROTECTION" ->
             Goto(IF Revertive(r) THEN WtrTimerStart(r) ELSE r, "PENDING")
        [] OTHER ->
             Goto(IF Revertive(r) THEN WtbTimerStart(r) ELSE r, "PENDING")

Act(r, request, arg) ==
  CASE request = "RAPS_FS" -> RapsFs(r)
    [] request = "SF" -> Sf(r, arg)
    [] request = "CLEAR_SF" -> ClearSf(r, arg)
    [] request = "RAPS_SF" -> RapsSf(r)
    [] request = "RAPS_MS" -> RapsMs(r)
    [] request = "WTR_EXPIRES" -> WtrExpires(r)
    [] request = "WTB_EXPIRES" -> WtbExpires(r)
    [] request = "RAPS_NR_RB" -> RapsNrRb(r)
    [] request = "RAPS_NR" -> RapsNr(r, arg)

\* Mutant: the local request outlives a stronger one.
HandleKeeps(r, request, arg) ==
  LET c == IF request = "CLEAR_SF" /\ r.local = "SF"
           THEN [r EXCEPT !.local = "LAST"] ELSE r
  IN  IF Priority[request] > Priority[c.local] THEN c ELSE Act(c, request, arg)

(* erps_state_machine_handle: the priority logic.  A request of lower      *)
(* priority than the local request is dropped; the local request is        *)
(* forgotten by any other.                                                 *)
Handle(r, request, arg) ==
  LET c == IF request = "CLEAR_SF" /\ r.local = "SF"
           THEN [r EXCEPT !.local = "LAST"] ELSE r
  IN  IF Priority[request] > Priority[c.local] THEN c
      ELSE Act([c EXCEPT !.local = "LAST"], request, arg)

-----------------------------------------------------------------------------
(* erps_state_machine_init.                                                *)
StateMachineInit(r) ==
  LET f == [r EXCEPT !.local = "LAST", !.blocked = {}]
      s == HoldOffTimerStop(GuardTimerStop(WtbTimerStop(WtrTimerStop(f))))
      b == IF NodeType(r) = "TRANSFER" THEN Unblock(Block(s, "west"), "east")
           ELSE BlockRpl(s)
      w == IF Revertive(r) THEN WtrTimerStart(b) ELSE b
  IN  Goto(Announce(w, "NR", {}), "PENDING")

(* Link up or down on a ring port: _erps_link_status_change_process.       *)
LinkChange(r, p, up) ==
  IF up
  THEN LET u == [HoldOffTimerStop(r) EXCEPT !.failed = @ \ {p}]
       IN  IF Another(p) \in r.failed THEN Handle(u, "SF", Another(p))
           ELSE Handle(u, "CLEAR_SF", p)
  ELSE LET d == [r EXCEPT !.failed = @ \cup {p}]
       IN  IF r.holds THEN HoldOffTimerStart(HoldOffTimerStop(d))
           ELSE Handle(d, "SF", p)

(* Timer callbacks; the slot is freed when the callback returns.           *)
Expired(r, k) == [r EXCEPT !.idx = @ \ {k}, !.run[k] = @ - 1]

WtrTimerExpire(r) == Expired(Handle(r, "WTR_EXPIRES", 0), "wtr")
WtbTimerExpire(r) == Expired(Handle(r, "WTB_EXPIRES", 0), "wtb")
GuardTimerExpire(r) == Expired(r, "guard")
HoldOffTimerExpire(r) ==
  LET w == IF "west" \in r.failed THEN Handle(r, "SF", "west") ELSE r
      e == IF "east" \in r.failed THEN Handle(w, "SF", "east") ELSE w
  IN  Expired(e, "hold_off")

(* What a received R-APS message asks of the priority logic, unless the    *)
(* guard timer shields it.                                                 *)
RequestOf(m) ==
  CASE m.req = "NR" -> IF "RB" \in m.status THEN "RAPS_NR_RB" ELSE "RAPS_NR"
    [] m.req = "MS" -> "RAPS_MS"
    [] m.req = "SF" -> "RAPS_SF"
    [] m.req = "FS" -> "RAPS_FS"

ToPriorityLogic(r, m, node) ==
  IF node = r.id \/ "guard" \in r.idx THEN r ELSE Handle(r, RequestOf(m), node)

(* The retransmission of what is being sent.                               *)
Resend(r) == RapsMsgSend(r, r.raps.req, r.raps.status)
=============================================================================
