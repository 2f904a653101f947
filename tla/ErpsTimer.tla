------------------------------- MODULE ErpsTimer -------------------------------
(***************************************************************************)
(* The timers of the ERPS task: a table of slots with absolute times that  *)
(* shares one periodic hardware timer, whose interrupt puts an event into  *)
(* the bounded queue of the task, and the indices by which the ring        *)
(* instance names its slots.  The times are those of a 32-bit clock, that  *)
(* wraps; TickMod stands for 2^32.                                         *)
(***************************************************************************)
EXTENDS Integers, Sequences

CONSTANTS
  Kinds,     \* the timers of the ring that are used
  Duration,  \* the times that each may be set to
  Slots,     \* ERPS_MAX_TIMER_NUM
  TickMod,   \* the clock wraps at this time
  MaxLate,   \* bound: no timer is overdue by more
  EvtLen     \* length of the event queue

SlotIds == 1..Slots

ASSUME TimerAssumption ==
  /\ Kinds \subseteq {"wtr", "wtb", "guard", "hold_off"}
  /\ Slots \in Nat \ {0} /\ EvtLen \in Nat \ {0} /\ MaxLate \in Nat
  /\ Duration \in [Kinds -> SUBSET (Nat \ {0})]
  /\ TickMod \in Nat \ {0}
  /\ \A k \in Kinds : \A d \in Duration[k] : 2 * (d + MaxLate) < TickMod

VARIABLES
  slot,    \* _erps_timer_instance
  idx,     \* the slot that the ring names for each kind, 0 for the invalid index
  hw,      \* the hardware timer: its goal, and the time left to its interrupt
  now,     \* air_util_getSystemTick
  ring,    \* the instance exists
  evts,    \* the event queue: expiries of the hardware timer, and others
  lost,    \* an expiry found no room since the slots were checked last
  rang     \* the slots whose callback ran in the last step

vars == <<slot, idx, hw, now, ring, evts, lost, rang>>

Free == [kind |-> "none", at |-> 0]
Off == [on |-> FALSE, goal |-> 0, left |-> 0]
NoIdx == [k \in Kinds |-> 0]

(* Unsigned and signed difference of two times.                            *)
Ahead(t) == (t - now) % TickMod
Signed(t) == IF 2 * Ahead(t) >= TickMod THEN Ahead(t) - TickMod ELSE Ahead(t)

Used(s) == {i \in SlotIds : s.slot[i] # Free}
(* The least unsigned time left of the slots in use, and of x.             *)
Least(s, x) ==
  CHOOSE m \in {x} \cup {Ahead(s.slot[i].at) : i \in Used(s)} :
    m <= x /\ \A i \in Used(s) : m <= Ahead(s.slot[i].at)

(* Slot i is taken for d milliseconds; it is freed, its index invalid.     *)
Taken(s, i, k, d) ==
  [s EXCEPT !.slot[i] = [kind |-> k, at |-> (now + d) % TickMod], !.idx[k] = i]
Freed(s, i, k) == [s EXCEPT !.slot[i] = Free, !.idx[k] = 0]

(* erps_timer_start and erps_timer_stop of the hardware.                   *)
HwStart(s, ms) == [s EXCEPT !.hw = [on |-> TRUE, goal |-> ms, left |-> ms]]
HwStop(s) == [s EXCEPT !.hw = Off]

-----------------------------------------------------------------------------
(* The functions on slots take and give these, and whose callbacks ran.    *)
Now == [slot |-> slot, idx |-> idx, hw |-> hw, rang |-> {}]
Become(s) == \E t \in {s} : slot' = t.slot /\ idx' = t.idx /\ hw' = t.hw /\ rang' = t.rang

\* Mutant: the hardware goes on towards the timer it was set for.
HwTimerStartLazy(s, i, k, d) ==
  LET t == Taken(s, i, k, d)
  IN  IF s.hw.on THEN t ELSE HwStart(t, d)

(* erps_hw_timer_start with the first free slot i.                         *)
HwTimerStart(s, i, k, d) ==
  LET t == Taken(s, i, k, d)
  IN  IF Least(t, d) >= d THEN HwStart(t, d) ELSE t

\* Mutant: the index stays valid.
HwTimerStopKeep(s, k) ==
  IF s.idx[k] \notin Used(s) THEN s
  ELSE LET t == [s EXCEPT !.slot[s.idx[k]] = Free]
       IN  IF Used(t) = {} THEN HwStop(t) ELSE HwStart(t, Least(t, TickMod - 1))

\* Mutant: the hardware stops with the timer it was set for.
HwTimerStopAll(s, k) ==
  IF s.idx[k] \notin Used(s) THEN s
  ELSE LET i == s.idx[k]
           t == Freed(s, i, k)
           remain == Ahead(s.slot[i].at)
       IN  IF Used(t) = {} \/ Least(t, remain) >= remain THEN HwStop(t) ELSE t

(* erps_hw_timer_stop by the index of the ring, which becomes invalid if a *)
(* slot was stopped.  The hardware is set for the next timer if the one    *)
(* that is stopped was the first.                                          *)
HwTimerStop(s, k) ==
  IF s.idx[k] \notin Used(s) THEN s
  ELSE LET i == s.idx[k]
           t == Freed(s, i, k)
           remain == Ahead(s.slot[i].at)
       IN  CASE Used(t) = {} -> HwStop(t)
             [] Used(t) # {} /\ Least(t, remain) >= remain ->
                  HwStart(t, Least(t, remain))
             [] OTHER -> t

(* The stop functions of the ring.  The guard timer is stopped only if the *)
(* index of the WTB timer is valid.                                        *)
TimerStop(s, k) ==
  IF k \notin Kinds THEN s
  ELSE IF k = "guard" /\ ("wtb" \notin Kinds \/ s.idx["wtb"] = 0) THEN s
  ELSE HwTimerStop(s, k)
StopWait(s) == TimerStop(TimerStop(s, "wtr"), "wtb")
StopAll(s) == TimerStop(TimerStop(StopWait(s), "guard"), "hold_off")

-----------------------------------------------------------------------------
(* Steps of the task outside the timers.                                   *)

(* The start functions of the ring.  Without a free slot nothing runs.     *)
Start(k) ==
  /\ ring /\ idx[k] = 0
  /\ Used(Now) # SlotIds
  /\ LET i == CHOOSE i \in SlotIds \ Used(Now) : \A j \in 1..(i - 1) : j \in Used(Now)
     IN  \E d \in Duration[k] : Become(HwTimerStart(Now, i, k, d))
  /\ UNCHANGED <<now, ring, evts, lost>>

(* The state machine leaves the wait; a port changes.                      *)
EndWait ==
  /\ ring
  /\ Become(StopWait(Now))
  /\ UNCHANGED <<now, ring, evts, lost>>

EndHoldOff ==
  /\ ring
  /\ Become(TimerStop(Now, "hold_off"))
  /\ UNCHANGED <<now, ring, evts, lost>>

(* An instance is made or changed: its indices become invalid first, so    *)
(* that nothing is stopped.                                                *)
Configure ==
  /\ ring' = TRUE /\ idx' = NoIdx /\ rang' = {}
  /\ UNCHANGED <<slot, hw, now, evts, lost>>

(* The instance is deleted and becomes all zeros, which names the first    *)
(* slot for every timer.                                                   *)
Delete ==
  /\ Become([StopAll(Now) EXCEPT !.idx = [k \in Kinds |-> 1]])
  /\ ring' = FALSE
  /\ UNCHANGED <<now, evts, lost>>

-----------------------------------------------------------------------------
(* Time and the interrupt.                                                 *)
Put(e) ==
  IF Len(evts) < EvtLen THEN evts' = Append(evts, e) /\ UNCHANGED lost
  ELSE UNCHANGED evts /\ lost' = (lost \/ e = "hw")

(* A millisecond: erps_timer_isr counts it, and at the goal it starts      *)
(* again and puts an event.                                                *)
Tick ==
  /\ \A i \in Used(Now) : Signed(slot[i].at) > -MaxLate
  /\ now' = (now + 1) % TickMod
  /\ IF hw.on /\ hw.left <= 1
     THEN hw' = [hw EXCEPT !.left = hw.goal] /\ Put("hw")
     ELSE /\ hw' = IF hw.on THEN [hw EXCEPT !.left = @ - 1] ELSE hw
          /\ UNCHANGED <<evts, lost>>
  /\ rang' = {}
  /\ UNCHANGED <<slot, idx, ring>>

(* A link interrupt, the tick of the software timer, a change of a port.   *)
Arrive ==
  /\ Put("other") /\ rang' = {}
  /\ UNCHANGED <<slot, idx, hw, now, ring>>

(* The callback of slot i; the kinds in heard are those whose request the  *)
(* state machine acts on: it stops the timers of the wait.                 *)
Callback(s, i, heard) ==
  LET k == s.slot[i].kind
      t == IF k \notin heard THEN s
           ELSE CASE k = "wtr" -> TimerStop(s, "wtb")
                  [] k = "wtb" -> TimerStop(s, "wtr")
                  [] k = "hold_off" -> StopWait(s)
                  [] k = "guard" -> s
  IN  Freed(t, i, k)

\* Mutant: a timer is taken for due that has a tick to go.
CheckSlotEarly(s, i, heard) ==
  IF i \in Used(s) /\ Signed(s.slot[i].at) <= 1
  THEN [Callback(s, i, heard) EXCEPT !.rang = @ \cup {i}] ELSE s

(* A slot in the loop of erps_hw_timer_timeout_check.                      *)
CheckSlot(s, i, heard) ==
  IF i \in Used(s) /\ Signed(s.slot[i].at) <= 0
  THEN [Callback(s, i, heard) EXCEPT !.rang = @ \cup {i}] ELSE s

\* Mutant: the hardware is not set again.
TimeoutCheckOnce(s, heard) ==
  LET f[i \in 0..Slots] == IF i = 0 THEN s ELSE CheckSlot(f[i - 1], i, heard)
  IN  HwStop(f[Slots])

(* The slots in order; then the hardware is set for the next timer.        *)
TimeoutCheck(s, heard) ==
  LET f[i \in 0..Slots] == IF i = 0 THEN s ELSE CheckSlot(f[i - 1], i, heard)
      t == HwStop(f[Slots])
  IN  IF Used(t) = {} THEN t ELSE HwStart(t, Least(t, TickMod - 1))

Expire ==
  /\ evts # << >> /\ Head(evts) = "hw"
  /\ \E heard \in SUBSET {slot[i].kind : i \in {j \in Used(Now) : Signed(slot[j].at) <= 0}} :
       Become(TimeoutCheck(Now, heard))
  /\ evts' = Tail(evts) /\ lost' = FALSE
  /\ UNCHANGED <<now, ring>>

Serve ==
  /\ evts # << >> /\ Head(evts) = "other"
  /\ evts' = Tail(evts) /\ rang' = {}
  /\ UNCHANGED <<slot, idx, hw, now, ring, lost>>

Init ==
  /\ slot = [i \in SlotIds |-> Free] /\ idx = [k \in Kinds |-> 1]
  /\ hw = Off /\ now = 0 /\ ring = FALSE
  /\ evts = << >> /\ lost = FALSE /\ rang = {}

Next ==
  \/ \E k \in Kinds : Start(k)
  \/ EndWait \/ EndHoldOff \/ Configure \/ Delete
  \/ Tick \/ Arrive \/ Expire \/ Serve

Spec == Init /\ [][Next]_vars

(* Time goes on and the task serves its queue.                             *)
Dequeue == evts # << >> /\ evts' = Tail(evts)
FairSpec == Spec /\ WF_evts(Dequeue) /\ WF_vars(Tick)

-----------------------------------------------------------------------------
(* No timer is late by more than the time its event waits in the queue:    *)
(* unless an event was lost, the hardware timer runs towards every slot in *)
(* use, or its event is in the queue already, whatever was started,        *)
(* stopped, forgotten or expired in between.                               *)
OnTime ==
  \A i \in Used(Now) :
    \/ lost
    \/ \E n \in 1..Len(evts) : evts[n] = "hw"
    \/ hw.on /\ hw.left <= Signed(slot[i].at)

(* The hardware timer runs exactly while a slot is in use: it is periodic, *)
(* so that an expiry whose event was lost comes again.                     *)
HardwareRuns == hw.on <=> Used(Now) # {}

(* A valid index of the instance names a slot that runs with the callback  *)
(* of that timer, never one that was freed and taken by another: stopping  *)
(* by index stops what was meant.                                          *)
IndexNamesSlot ==
  ring => \A k \in Kinds : idx[k] # 0 => slot[idx[k]].kind = k

(* The slots are alarms that ring once and not before their time.          *)
Promise ==
  INSTANCE Alarms WITH
    Places <- SlotIds,
    alarm <- [i \in SlotIds |->
                IF slot[i] = Free THEN [kind |-> "none", left |-> 0]
                ELSE [kind |-> slot[i].kind, left |-> Signed(slot[i].at)]]
KeepsPromise == Promise!Spec

(* A timer that is due has its callback run or is stopped, unless an event *)
(* is lost.                                                                *)
DueIsServed ==
  \A i \in SlotIds :
    i \in Used(Now) /\ Signed(slot[i].at) <= 0
      ~> i \notin Used(Now) \/ Signed(slot[i].at) > 0 \/ lost
===============================================================================
