--------------------------- MODULE ErpsTimer_proofs ---------------------------
(***************************************************************************)
(* The safety of ErpsTimer for every number of slots, every length of the  *)
(* event queue, all times and every width of the clock, and that it        *)
(* implements Alarms.                                                      *)
(***************************************************************************)
EXTENDS ErpsTimer, TLAPS, SequenceTheorems, WellFoundedInduction

Time == 0 .. TickMod - 1
Slot == {Free} \cup [kind : Kinds, at : Time]
Record == [slot : [SlotIds -> Slot], idx : [Kinds -> 0 .. Slots],
           hw : [on : BOOLEAN, goal : Nat, left : Nat], rang : SUBSET SlotIds]

(* The expiry of the hardware timer is in the queue, or was lost.          *)
Alert == lost \/ \E n \in 1 .. Len(evts) : evts[n] = "hw"

(* A slot in use is at most its time ahead and MaxLate behind, so that the *)
(* sign of the difference to the clock is right.                           *)
Bounded(s) ==
  \A i \in Used(s) : \E d \in Duration[s.slot[i].kind] :
    -MaxLate <= Signed(s.slot[i].at) /\ Signed(s.slot[i].at) <= d

(* The invariants, of a record.                                            *)
TimeOk(s) ==
  \A i \in Used(s) : Alert \/ (s.hw.on /\ s.hw.left <= Signed(s.slot[i].at))
RunsOk(s) == s.hw.on <=> Used(s) # {}
NamesOk(s) == \A k \in Kinds : s.idx[k] # 0 => s.slot[s.idx[k]].kind = k

Typed == now \in Time /\ ring \in BOOLEAN /\ evts \in Seq({"hw", "other"})

IInv ==
  /\ Typed /\ rang \subseteq SlotIds
  /\ Now \in Record /\ Bounded(Now) /\ TimeOk(Now) /\ RunsOk(Now)
  /\ ring => NamesOk(Now)

(* Slots are only freed, and none rings.                                   *)
Fewer(s, t) == \A i \in SlotIds : t.slot[i] \in {s.slot[i], Free}

-----------------------------------------------------------------------------
(* The clock.                                                              *)

\* A remainder, for a number at most one round off.
Wrap(x) == IF x < 0 THEN x + TickMod ELSE IF x < TickMod THEN x ELSE x - TickMod

LEMMA Remainder ==
  ASSUME NEW x \in Int, -TickMod <= x, x < 2 * TickMod
  PROVE  x % TickMod = Wrap(x) /\ Wrap(x) \in Time
<1>1. TickMod \in Nat \ {0}
  BY TimerAssumption
<1> QED BY <1>1 DEF Wrap, Time

LEMMA AheadType ==
  ASSUME now \in Time, NEW a \in Time
  PROVE  /\ Ahead(a) = Wrap(a - now)
         /\ Ahead(a) \in Time
         /\ Signed(a) \in Int
         /\ Signed(a) = Ahead(a) \/ (Signed(a) = Ahead(a) - TickMod /\ 2 * Ahead(a) >= TickMod)
         /\ Signed(a) >= 0 <=> Signed(a) = Ahead(a)
         /\ Signed(a) <= Ahead(a)
<1>1. /\ TickMod \in Nat \ {0} /\ a - now \in Int
      /\ -TickMod <= a - now /\ a - now < 2 * TickMod
  BY TimerAssumption DEF Time
<1>2. Ahead(a) = Wrap(a - now) /\ Ahead(a) \in Time
  BY <1>1, Remainder DEF Ahead
<1> QED BY <1>1, <1>2 DEF Signed, Time

\* A timer that is set to d is d ahead.
LEMMA SetAhead ==
  ASSUME now \in Time, NEW k \in Kinds, NEW d \in Duration[k]
  PROVE  /\ (now + d) % TickMod \in Time
         /\ Ahead((now + d) % TickMod) = d /\ Signed((now + d) % TickMod) = d
         /\ d \in Nat /\ d > 0
<1>1. /\ TickMod \in Nat \ {0} /\ MaxLate \in Nat /\ d \in Nat \ {0}
      /\ 2 * (d + MaxLate) < TickMod
  BY TimerAssumption
<1>2. now \in Nat /\ now < TickMod /\ now + d \in Int /\ d < TickMod
  BY <1>1 DEF Time
<1>3. (now + d) % TickMod = Wrap(now + d) /\ Wrap(now + d) \in Time
  <2>1. -TickMod <= now + d /\ now + d < 2 * TickMod
    BY <1>1, <1>2
  <2> QED BY <1>2, <2>1, Remainder
<1>4. Ahead(Wrap(now + d)) = Wrap(Wrap(now + d) - now)
  BY <1>3, AheadType
<1>5. Wrap(Wrap(now + d) - now) = d
  BY <1>1, <1>2 DEF Wrap
<1> QED BY <1>1, <1>3, <1>4, <1>5 DEF Signed

\* A millisecond brings every time nearer by one.
LEMMA TickAhead ==
  ASSUME now \in Time, now' = (now + 1) % TickMod, NEW a \in Time,
         NEW k \in Kinds, NEW d \in Duration[k],
         -MaxLate < Signed(a), Signed(a) <= d
  PROVE  now' \in Time /\ Signed(a)' = Signed(a) - 1
<1>1. /\ TickMod \in Nat \ {0} /\ MaxLate \in Nat /\ d \in Nat \ {0}
      /\ 2 * (d + MaxLate) < TickMod
  BY TimerAssumption
<1>2. now \in Nat /\ now < TickMod /\ a \in Nat /\ a < TickMod
  BY <1>1 DEF Time
<1>3. now' = Wrap(now + 1) /\ now' \in Time
  <2>1. now + 1 \in Int /\ -TickMod <= now + 1 /\ now + 1 < 2 * TickMod
    BY <1>1, <1>2
  <2> QED BY <2>1, Remainder
<1>4. Ahead(a) = Wrap(a - now)
  BY AheadType
<1>5. Ahead(a)' = Wrap(a - now')
  <2>1. a - now' \in Int /\ -TickMod <= a - now' /\ a - now' < 2 * TickMod
    BY <1>1, <1>2, <1>3 DEF Time
  <2>2. (a - now') % TickMod = Wrap(a - now')
    BY <2>1, Remainder
  <2> QED BY <2>2 DEF Ahead
<1>6. Signed(a) = IF 2 * Ahead(a) >= TickMod THEN Ahead(a) - TickMod ELSE Ahead(a)
  BY DEF Signed
<1>7. Ahead(a)' = IF Ahead(a) = 0 THEN TickMod - 1 ELSE Ahead(a) - 1
  BY <1>1, <1>2, <1>3, <1>4, <1>5 DEF Wrap
<1>8. Signed(a)' = IF 2 * Ahead(a)' >= TickMod THEN Ahead(a)' - TickMod ELSE Ahead(a)'
  BY DEF Signed
<1>9. Ahead(a) \in Time
  BY AheadType
<1> QED BY <1>1, <1>3, <1>6, <1>7, <1>8, <1>9 DEF Time

-----------------------------------------------------------------------------
(* The slots.                                                              *)

LEMMA SlotType ==
  /\ "none" \notin Kinds /\ Free \in Slot
  /\ \A e \in Slot : e # Free => e.kind \in Kinds /\ e.at \in Time
  /\ \A k \in Kinds, a \in Time : [kind |-> k, at |-> a] \in Slot /\ [kind |-> k, at |-> a] # Free
BY TimerAssumption DEF Slot, Free

LEMMA RecordType ==
  ASSUME NEW s \in Record
  PROVE  /\ \A i \in SlotIds : s.slot[i] \in Slot
         /\ \A i \in Used(s) : i \in SlotIds /\ s.slot[i].kind \in Kinds /\ s.slot[i].at \in Time
BY SlotType DEF Record, Used

\* A set of numbers has a least one.
LEMMA Smallest ==
  ASSUME NEW T \in SUBSET Nat, T # {}
  PROVE  \E m \in T : \A y \in T : m <= y
<1>1. PICK m \in T : \A y \in T : ~(<<y, m>> \in OpToRel(<, Nat))
  BY NatLessThanWellFounded, WFMin
<1> SUFFICES ASSUME NEW y \in T PROVE m <= y
  OBVIOUS
<1>2. ~(y < m)
  BY <1>1 DEF OpToRel
<1> QED BY <1>2

\* The least time exists.
LEMMA LeastType ==
  ASSUME now \in Time, NEW s \in Record, NEW x \in Nat
  PROVE  /\ Least(s, x) \in Nat /\ Least(s, x) <= x
         /\ \A i \in Used(s) : Least(s, x) <= Ahead(s.slot[i].at)
         /\ Least(s, x) = x \/ \E i \in Used(s) : Least(s, x) = Ahead(s.slot[i].at)
<1> DEFINE T == {x} \cup {Ahead(s.slot[i].at) : i \in Used(s)}
<1>1. T \subseteq Nat /\ T # {}
  <2>1. \A i \in Used(s) : Ahead(s.slot[i].at) \in Nat
    BY RecordType, AheadType DEF Time
  <2> QED BY <2>1
<1>3. PICK m \in T : \A y \in T : m <= y
  <2> HIDE DEF T
  <2> QED BY <1>1, Smallest
<1>4. m <= x /\ \A i \in Used(s) : m <= Ahead(s.slot[i].at)
  BY <1>3
<1>5. Least(s, x) \in T /\ Least(s, x) <= x /\ \A i \in Used(s) : Least(s, x) <= Ahead(s.slot[i].at)
  BY <1>4 DEF Least
<1> QED BY <1>1, <1>5

\* Starting and stopping the hardware changes nothing else.
LEMMA HwType ==
  ASSUME NEW s \in Record, NEW ms \in Nat
  PROVE  /\ HwStart(s, ms) \in Record /\ HwStop(s) \in Record
         /\ HwStart(s, ms).slot = s.slot /\ HwStop(s).slot = s.slot
         /\ HwStart(s, ms).idx = s.idx /\ HwStop(s).idx = s.idx
         /\ HwStart(s, ms).rang = s.rang /\ HwStop(s).rang = s.rang
         /\ HwStart(s, ms).hw = [on |-> TRUE, goal |-> ms, left |-> ms] /\ HwStop(s).hw = Off
BY DEF HwStart, HwStop, Off, Record

\* A slot is freed, its index forgotten.
LEMMA FreedType ==
  ASSUME NEW s \in Record, NEW k \in Kinds, NEW i \in SlotIds
  PROVE  LET t == Freed(s, i, k)
         IN  /\ t \in Record /\ t.hw = s.hw /\ t.rang = s.rang
             /\ \A j \in SlotIds : t.slot[j] = IF j = i THEN Free ELSE s.slot[j]
             /\ \A j \in Kinds : t.idx[j] = IF j = k THEN 0 ELSE s.idx[j]
             /\ Used(t) = Used(s) \ {i}
             /\ Fewer(s, t)
<1> DEFINE t == Freed(s, i, k)
<1>0. t = [[s EXCEPT !.slot[i] = Free] EXCEPT !.idx[k] = 0]
  BY DEF Freed
<1>1. /\ t = [slot |-> [s.slot EXCEPT ![i] = Free], idx |-> [s.idx EXCEPT ![k] = 0],
              hw |-> s.hw, rang |-> s.rang]
      /\ s.slot \in [SlotIds -> Slot] /\ s.idx \in [Kinds -> 0 .. Slots]
  <2> HIDE DEF t
  <2> QED BY <1>0 DEF Record
<1> HIDE DEF t
<1>2. [s.slot EXCEPT ![i] = Free] \in [SlotIds -> Slot] /\ [s.idx EXCEPT ![k] = 0] \in [Kinds -> 0 .. Slots]
  BY <1>1, SlotType, TimerAssumption
<1>3. t \in Record /\ t.hw = s.hw /\ t.rang = s.rang
  BY <1>1, <1>2 DEF Record
<1>4. /\ \A j \in SlotIds : t.slot[j] = IF j = i THEN Free ELSE s.slot[j]
      /\ \A j \in Kinds : t.idx[j] = IF j = k THEN 0 ELSE s.idx[j]
  BY <1>1
<1>5. Used(t) = Used(s) \ {i} /\ Fewer(s, t)
  BY <1>4 DEF Used, Fewer
<1> QED BY <1>3, <1>4, <1>5 DEF t

\* A slot is taken, its index noted.
LEMMA TakenType ==
  ASSUME now \in Time, NEW s \in Record, NEW k \in Kinds, NEW d \in Duration[k],
         NEW i \in SlotIds
  PROVE  LET t == Taken(s, i, k, d)
         IN  /\ t \in Record /\ t.hw = s.hw /\ t.rang = s.rang
             /\ \A j \in SlotIds :
                  t.slot[j] = IF j = i THEN [kind |-> k, at |-> (now + d) % TickMod] ELSE s.slot[j]
             /\ \A j \in Kinds : t.idx[j] = IF j = k THEN i ELSE s.idx[j]
             /\ Used(t) = Used(s) \cup {i}
<1> DEFINE e == [kind |-> k, at |-> (now + d) % TickMod]
           t == Taken(s, i, k, d)
<1>1. e \in Slot /\ e # Free
  BY SetAhead, SlotType
<1>2. t = [[s EXCEPT !.slot[i] = e] EXCEPT !.idx[k] = i]
  BY DEF Taken
<1> HIDE DEF t, e
<1>3. /\ t = [slot |-> [s.slot EXCEPT ![i] = e], idx |-> [s.idx EXCEPT ![k] = i],
              hw |-> s.hw, rang |-> s.rang]
      /\ s.slot \in [SlotIds -> Slot] /\ s.idx \in [Kinds -> 0 .. Slots]
  BY <1>2 DEF Record
<1>4. [s.slot EXCEPT ![i] = e] \in [SlotIds -> Slot] /\ [s.idx EXCEPT ![k] = i] \in [Kinds -> 0 .. Slots]
  BY <1>1, <1>3 DEF SlotIds
<1>5. t \in Record /\ t.hw = s.hw /\ t.rang = s.rang
  BY <1>3, <1>4 DEF Record
<1>6. /\ \A j \in SlotIds : t.slot[j] = IF j = i THEN e ELSE s.slot[j]
      /\ \A j \in Kinds : t.idx[j] = IF j = k THEN i ELSE s.idx[j]
  BY <1>3
<1>7. Used(t) = Used(s) \cup {i}
  BY <1>1, <1>6 DEF Used
<1> QED BY <1>5, <1>6, <1>7 DEF t, e

-----------------------------------------------------------------------------
(* Starting and stopping timers.                                           *)

Good(s) == s \in Record /\ Bounded(s) /\ TimeOk(s) /\ RunsOk(s)

(* What every function that stops timers leaves alone.                     *)
Keeps(s, t) ==
  /\ t \in Record /\ Fewer(s, t) /\ t.rang = s.rang
  /\ NamesOk(s) => NamesOk(t)

LEMMA FewerUsed ==
  ASSUME NEW s, NEW t, Fewer(s, t)
  PROVE  /\ Used(t) \subseteq Used(s)
         /\ \A i \in Used(t) : t.slot[i] = s.slot[i]
         /\ Bounded(s) => Bounded(t)
BY DEF Fewer, Used, Bounded

LEMMA KeepsTwice ==
  ASSUME NEW s, NEW t, NEW u, Keeps(s, t), Keeps(t, u)
  PROVE  Keeps(s, u)
BY DEF Keeps, Fewer

LEMMA KeepsSame == ASSUME NEW s \in Record PROVE Keeps(s, s)
BY DEF Keeps, Fewer

\* The index of one kind never names the slot of another.
LEMMA FreedKeeps ==
  ASSUME NEW s \in Record, NEW k \in Kinds, NEW i \in SlotIds,
         NamesOk(s) => s.slot[i].kind = k \/ i \notin Used(s)
  PROVE  Keeps(s, Freed(s, i, k))
<1> DEFINE t == Freed(s, i, k)
<1>1. /\ t \in Record /\ t.rang = s.rang /\ Fewer(s, t)
      /\ \A j \in SlotIds : t.slot[j] = IF j = i THEN Free ELSE s.slot[j]
      /\ \A j \in Kinds : t.idx[j] = IF j = k THEN 0 ELSE s.idx[j]
  BY FreedType
<1> HIDE DEF t
<1>2. NamesOk(s) => NamesOk(t)
  <2> SUFFICES ASSUME NamesOk(s), NEW j \in Kinds, t.idx[j] # 0
               PROVE  t.slot[t.idx[j]].kind = j
    BY DEF NamesOk
  <2>1. j # k /\ t.idx[j] = s.idx[j] /\ s.slot[s.idx[j]].kind = j /\ s.idx[j] \in SlotIds
    BY <1>1 DEF NamesOk, Record, SlotIds
  <2>2. s.idx[j] # i
    BY <2>1, SlotType DEF Used, Free
  <2> QED BY <1>1, <2>1, <2>2
<1> QED BY <1>1, <1>2 DEF Keeps, t

\* What is done to the hardware does not matter to the slots.
LEMMA HwKeeps ==
  ASSUME NEW s, NEW t \in Record, Keeps(s, t), NEW ms \in Nat
  PROVE  Keeps(s, HwStart(t, ms)) /\ Keeps(s, HwStop(t))
BY HwType DEF Keeps, Fewer, NamesOk

LEMMA HwTimerStopKeeps ==
  ASSUME now \in Time, NEW s \in Record, NEW k \in Kinds
  PROVE  Keeps(s, HwTimerStop(s, k))
<1>1. CASE s.idx[k] \notin Used(s)
  BY <1>1, KeepsSame DEF HwTimerStop
<1>2. CASE s.idx[k] \in Used(s)
  <2> DEFINE i == s.idx[k]
             t == Freed(s, i, k)
             remain == Ahead(s.slot[i].at)
  <2>1. i \in SlotIds /\ (NamesOk(s) => s.slot[i].kind = k)
    BY <1>2, SlotType DEF Used, NamesOk, SlotIds
  <2>2. Keeps(s, t) /\ t \in Record
    BY <2>1, FreedKeeps DEF Keeps
  <2>3. remain \in Nat
    BY <1>2, RecordType, AheadType DEF Time
  <2>4. Least(t, remain) \in Nat
    BY <2>2, <2>3, LeastType
  <2>5. HwTimerStop(s, k) \in {HwStop(t), HwStart(t, Least(t, remain)), t}
    BY <1>2 DEF HwTimerStop
  <2> QED BY <2>2, <2>4, <2>5, HwKeeps
<1> QED BY <1>1, <1>2

LEMMA HwTimerStopGood ==
  ASSUME now \in Time, NEW s, Good(s), NEW k \in Kinds
  PROVE  Good(HwTimerStop(s, k))
<1> DEFINE u == HwTimerStop(s, k)
<1>1. u \in Record /\ Bounded(u)
  BY HwTimerStopKeeps, FewerUsed DEF Good, Keeps
<1>2. CASE s.idx[k] \notin Used(s)
  BY <1>2 DEF HwTimerStop
<1>3. CASE s.idx[k] \in Used(s)
  <2> DEFINE i == s.idx[k]
             t == Freed(s, i, k)
             remain == Ahead(s.slot[i].at)
  <2>1. i \in SlotIds
    BY <1>3 DEF Used
  <2>2. /\ t \in Record /\ t.hw = s.hw /\ Used(t) = Used(s) \ {i}
        /\ \A j \in Used(t) : t.slot[j] = s.slot[j]
    BY <2>1, FreedType, FewerUsed DEF Good
  <2>3. remain \in Nat
    BY <1>3, RecordType, AheadType DEF Time, Good
  <2>4. /\ Least(t, remain) \in Nat /\ Least(t, remain) <= remain
        /\ \A j \in Used(t) : Least(t, remain) <= Ahead(t.slot[j].at)
    BY <2>2, <2>3, LeastType
  <2>5. u = CASE Used(t) = {} -> HwStop(t)
             [] Used(t) # {} /\ Least(t, remain) >= remain -> HwStart(t, Least(t, remain))
             [] OTHER -> t
    BY <1>3 DEF HwTimerStop
  <2>6. \A j \in Used(t) : t.slot[j].at \in Time
    BY <2>2, RecordType
  <2> HIDE DEF t, remain, i, u
  <2>7. CASE Used(t) = {}
    <3>0. u = HwStop(t) /\ HwStop(t).slot = t.slot /\ HwStop(t).hw = Off
      BY <2>2, <2>5, <2>7, HwType, 0 \in Nat
    <3>1. u = HwStop(t) /\ Used(u) = {} /\ u.hw.on = FALSE
      BY <2>7, <3>0 DEF Used, Off
    <3> QED BY <1>1, <3>1 DEF Good, TimeOk, RunsOk, u
  <2>8. CASE Used(t) # {} /\ Least(t, remain) >= remain
    <3>0. PICK m \in Nat : m = Least(t, remain)
      BY <2>4
    <3>00. /\ u = HwStart(t, m) /\ HwStart(t, m).slot = t.slot
           /\ HwStart(t, m).hw = [on |-> TRUE, goal |-> m, left |-> m]
      BY <2>2, <2>5, <2>8, <3>0, HwType
    <3>1. /\ u.slot = t.slot /\ Used(u) = Used(t)
          /\ u.hw.on = TRUE /\ u.hw.left = Least(t, remain)
      BY <3>0, <3>00 DEF Used
    <3>2. ASSUME NEW j \in Used(u), ~Alert PROVE u.hw.left <= Signed(u.slot[j].at)
      <4>1. j \in Used(s) /\ s.hw.left <= Signed(s.slot[j].at) /\ s.hw.left \in Nat
        BY <2>2, <3>1, <3>2 DEF Good, TimeOk, Record
      <4>2. u.slot[j] = s.slot[j] /\ s.slot[j].at \in Time
        BY <2>2, <2>6, <3>1
      <4>3. Signed(s.slot[j].at) = Ahead(s.slot[j].at)
        BY <4>1, <4>2, AheadType
      <4> QED BY <2>2, <2>4, <3>1, <4>2, <4>3
    <3> QED BY <1>1, <2>8, <3>1, <3>2 DEF Good, TimeOk, RunsOk, u
  <2>9. CASE Used(t) # {} /\ ~(Least(t, remain) >= remain)
    <3>1. u = t /\ u.hw = s.hw
      BY <2>2, <2>5, <2>9
    <3> QED BY <1>1, <2>2, <2>9, <3>1 DEF Good, TimeOk, RunsOk, u
  <2> QED BY <2>7, <2>8, <2>9 DEF u
<1> QED BY <1>2, <1>3

\* The stop functions of the ring.
LEMMA TimerStopGood ==
  ASSUME now \in Time, NEW s \in Record, NEW k
  PROVE  Keeps(s, TimerStop(s, k)) /\ (Good(s) => Good(TimerStop(s, k)))
BY KeepsSame, HwTimerStopKeeps, HwTimerStopGood DEF TimerStop

LEMMA StopsGood ==
  ASSUME now \in Time, NEW s \in Record
  PROVE  /\ Keeps(s, StopWait(s)) /\ (Good(s) => Good(StopWait(s)))
         /\ Keeps(s, StopAll(s)) /\ (Good(s) => Good(StopAll(s)))
<1> DEFINE a == TimerStop(s, "wtr")
           b == TimerStop(a, "wtb")
           c == TimerStop(b, "guard")
           d == TimerStop(c, "hold_off")
<1>1. Keeps(s, a) /\ (Good(s) => Good(a))
  BY TimerStopGood
<1>2. Keeps(a, b) /\ (Good(a) => Good(b))
  BY <1>1, TimerStopGood DEF Keeps
<1>3. Keeps(b, c) /\ (Good(b) => Good(c))
  BY <1>2, TimerStopGood DEF Keeps
<1>4. Keeps(c, d) /\ (Good(c) => Good(d))
  BY <1>3, TimerStopGood DEF Keeps
<1>5. StopWait(s) = b /\ StopAll(s) = d
  BY DEF StopWait, StopAll
<1> HIDE DEF a, b, c, d
<1> QED BY <1>1, <1>2, <1>3, <1>4, <1>5, KeepsTwice

\* A timer is started in a free slot.
LEMMA HwTimerStartGood ==
  ASSUME now \in Time, NEW s, Good(s), NEW k \in Kinds, NEW d \in Duration[k],
         NEW i \in SlotIds \ Used(s)
  PROVE  LET t == HwTimerStart(s, i, k, d)
         IN  /\ Good(t) /\ t.rang = s.rang
             /\ \A j \in SlotIds : t.slot[j] = IF j = i THEN [kind |-> k, at |-> (now + d) % TickMod]
                                               ELSE s.slot[j]
             /\ NamesOk(s) => NamesOk(t)
<1> DEFINE e == [kind |-> k, at |-> (now + d) % TickMod]
           t == Taken(s, i, k, d)
           u == HwTimerStart(s, i, k, d)
<1>1. /\ e \in Slot /\ e # Free /\ e.at \in Time /\ d \in Nat /\ d > 0
      /\ Ahead(e.at) = d /\ Signed(e.at) = d /\ e.kind = k
  BY SetAhead, SlotType
<1>2. /\ t \in Record /\ t.hw = s.hw /\ t.rang = s.rang
      /\ \A j \in SlotIds : t.slot[j] = IF j = i THEN e ELSE s.slot[j]
      /\ \A j \in Kinds : t.idx[j] = IF j = k THEN i ELSE s.idx[j]
      /\ Used(t) = Used(s) \cup {i}
  BY TakenType DEF Good
<1>3. Used(t) = Used(s) \cup {i}
  BY <1>2
<1>4. /\ u = IF Least(t, d) >= d THEN HwStart(t, d) ELSE t
  BY DEF HwTimerStart
<1>5. /\ Least(t, d) \in Nat /\ Least(t, d) <= d
      /\ \A j \in Used(t) : Least(t, d) <= Ahead(t.slot[j].at)
      /\ Least(t, d) = d \/ \E j \in Used(t) : Least(t, d) = Ahead(t.slot[j].at)
  BY <1>1, <1>2, LeastType
<1>6. \A j \in Used(s) : j # i /\ s.slot[j].at \in Time /\ t.slot[j] = s.slot[j]
  BY <1>2, RecordType DEF Good, Used
<1>7. t.slot[i] = e /\ 2 * (d + MaxLate) < TickMod /\ MaxLate \in Nat /\ TickMod \in Nat
  BY <1>2, TimerAssumption
<1> HIDE DEF t, u, e
<1>70. /\ HwStart(t, d) \in Record /\ HwStart(t, d).slot = t.slot
       /\ HwStart(t, d).idx = t.idx /\ HwStart(t, d).rang = t.rang
       /\ HwStart(t, d).hw = [on |-> TRUE, goal |-> d, left |-> d]
  BY <1>1, <1>2, HwType
<1>8. u \in Record /\ u.slot = t.slot /\ u.idx = t.idx /\ u.rang = t.rang /\ Used(u) = Used(t)
  BY <1>2, <1>4, <1>70 DEF Used
<1>9. Bounded(u)
  <2> SUFFICES ASSUME NEW j \in Used(u)
               PROVE  \E c \in Duration[u.slot[j].kind] :
                        -MaxLate <= Signed(u.slot[j].at) /\ Signed(u.slot[j].at) <= c
    BY DEF Bounded
  <2>1. CASE j = i
    <3>1. u.slot[j] = e
      BY <1>7, <1>8, <2>1
    <3>2. d \in Duration[u.slot[j].kind] /\ -MaxLate <= d
      BY <1>1, <1>7, <3>1
    <3> QED BY <1>1, <3>1, <3>2
  <2>2. CASE j # i
    BY <1>2, <1>3, <1>8, <2>2 DEF Bounded, Good, Used
  <2> QED BY <2>1, <2>2
<1>10. TimeOk(u) /\ RunsOk(u)
  <2>1. CASE Least(t, d) >= d
    <3>1. u.hw.on = TRUE /\ u.hw.left = d
      BY <1>4, <1>70, <2>1
    <3>2. ASSUME NEW j \in Used(u), ~Alert PROVE d <= Signed(u.slot[j].at)
      <4>1. CASE j = i
        BY <1>1, <1>7, <1>8, <4>1
      <4>2. CASE j # i
        <5>1. j \in Used(s) /\ s.hw.left <= Signed(s.slot[j].at) /\ s.hw.left \in Nat
          BY <1>3, <1>8, <3>2, <4>2 DEF Good, TimeOk, Record
        <5>2. Signed(s.slot[j].at) = Ahead(s.slot[j].at) /\ Ahead(s.slot[j].at) \in Nat
          BY <1>6, <5>1, AheadType DEF Time
        <5> QED BY <1>1, <1>3, <1>5, <1>6, <1>8, <2>1, <5>1, <5>2
      <4> QED BY <4>1, <4>2
    <3>3. Used(u) # {}
      BY <1>3, <1>8
    <3> QED BY <3>1, <3>2, <3>3 DEF TimeOk, RunsOk
  <2>2. CASE ~(Least(t, d) >= d)
    <3>1. u = t /\ u.hw = s.hw
      BY <1>2, <1>4, <2>2
    <3>2. PICK j \in Used(t) : Least(t, d) = Ahead(t.slot[j].at)
      BY <1>1, <1>5, <2>2
    <3>3. j \in Used(s) /\ t.slot[j] = s.slot[j] /\ Ahead(s.slot[j].at) < d
      BY <1>1, <1>3, <1>5, <1>6, <1>7, <2>2, <3>2
    <3>4. s.slot[j].at \in Time /\ Signed(s.slot[j].at) = Ahead(s.slot[j].at)
      <4>1. Ahead(s.slot[j].at) \in Time
        BY <1>6, <3>3, AheadType
      <4> QED BY <1>1, <1>6, <1>7, <3>3, <4>1 DEF Signed, Time
    <3>5. Alert \/ (s.hw.on /\ s.hw.left <= d)
      BY <1>1, <1>5, <3>2, <3>3, <3>4 DEF Good, TimeOk, Record
    <3>6. s.hw.on
      BY <3>3 DEF Good, RunsOk
    <3>7. TimeOk(u)
      <4> SUFFICES ASSUME NEW m \in Used(u), ~Alert
                   PROVE  u.hw.on /\ u.hw.left <= Signed(u.slot[m].at)
        BY DEF TimeOk
      <4>1. CASE m = i
        BY <1>1, <1>7, <1>8, <3>1, <3>5, <4>1
      <4>2. CASE m # i
        BY <1>3, <1>6, <1>8, <3>1, <4>2 DEF Good, TimeOk
      <4> QED BY <4>1, <4>2
    <3>8. RunsOk(u)
      BY <1>3, <1>8, <3>1, <3>6 DEF RunsOk
    <3> QED BY <3>7, <3>8
  <2> QED BY <2>1, <2>2
<1>11. NamesOk(s) => NamesOk(u)
  <2> SUFFICES ASSUME NamesOk(s), NEW j \in Kinds, u.idx[j] # 0
               PROVE  u.slot[u.idx[j]].kind = j
    BY DEF NamesOk
  <2>1. CASE j = k
    BY <1>1, <1>2, <1>7, <1>8, <2>1
  <2>2. CASE j # k
    <3>1. u.idx[j] = s.idx[j] /\ s.slot[s.idx[j]].kind = j /\ s.idx[j] \in SlotIds
      BY <1>2, <1>8, <2>2 DEF NamesOk, Record, Good, SlotIds
    <3>2. s.idx[j] \in Used(s)
      BY <3>1, SlotType DEF Used, Free
    <3> QED BY <1>2, <1>6, <1>8, <3>1, <3>2
  <2> QED BY <2>1, <2>2
<1> QED BY <1>2, <1>8, <1>9, <1>10, <1>11 DEF Good, u, e

-----------------------------------------------------------------------------
(* The expiry.                                                             *)

Due(s) == {i \in Used(s) : Signed(s.slot[i].at) <= 0}

\* The callback of a slot frees it, and may stop other timers.
LEMMA CallbackKeeps ==
  ASSUME now \in Time, NEW s \in Record, NEW i \in Used(s), NEW heard
  PROVE  Keeps(s, Callback(s, i, heard)) /\ i \notin Used(Callback(s, i, heard))
<1> DEFINE k == s.slot[i].kind
           t == IF k \notin heard THEN s
                ELSE CASE k = "wtr" -> TimerStop(s, "wtb")
                       [] k = "wtb" -> TimerStop(s, "wtr")
                       [] k = "hold_off" -> StopWait(s)
                       [] k = "guard" -> s
<1>1. k \in Kinds /\ k \in {"wtr", "wtb", "guard", "hold_off"} /\ i \in SlotIds
  BY RecordType, TimerAssumption
<1>2. t \in {s, TimerStop(s, "wtb"), TimerStop(s, "wtr"), StopWait(s)}
  BY <1>1
<1>3. Callback(s, i, heard) = Freed(t, i, k)
  BY DEF Callback
<1> HIDE DEF t
<1>4. Keeps(s, t) /\ t \in Record /\ t.slot[i] \in {s.slot[i], Free}
  <2>1. Keeps(s, t)
    BY <1>2, KeepsSame, TimerStopGood, StopsGood
  <2> QED BY <1>1, <2>1 DEF Keeps, Fewer
<1> HIDE DEF k
<1>5. Keeps(t, Freed(t, i, k))
  <2>1. t.slot[i].kind = k \/ i \notin Used(t)
    BY <1>4 DEF Used, k
  <2> QED BY <1>1, <1>4, <2>1, FreedKeeps
<1>6. i \notin Used(Freed(t, i, k))
  BY <1>1, <1>4, FreedType
<1> QED BY <1>3, <1>4, <1>5, <1>6, KeepsTwice

LEMMA CheckSlotType ==
  ASSUME now \in Time, NEW s \in Record, NEW i \in SlotIds, NEW heard
  PROVE  LET t == CheckSlot(s, i, heard)
         IN  /\ t \in Record /\ Fewer(s, t) /\ (NamesOk(s) => NamesOk(t))
             /\ i \notin Due(t)
             /\ \/ t = s
                \/ i \in Due(s) /\ t.rang = s.rang \cup {i}
<1> DEFINE c == Callback(s, i, heard)
<1>1. CASE i \in Due(s)
  <2> DEFINE t == [c EXCEPT !.rang = c.rang \cup {i}]
  <2>1. Keeps(s, c) /\ i \notin Used(c)
    BY <1>1, CallbackKeeps DEF Due
  <2>2. CheckSlot(s, i, heard) = t
    BY <1>1 DEF CheckSlot, Due
  <2> HIDE DEF c
  <2>3. c \in Record
    BY <2>1 DEF Keeps
  <2>4. t \in Record /\ t.slot = c.slot /\ t.idx = c.idx /\ t.rang = c.rang \cup {i}
    BY <2>3 DEF Record
  <2> HIDE DEF t
  <2>5. Fewer(s, t) /\ (NamesOk(s) => NamesOk(t)) /\ i \notin Due(t) /\ t.rang = s.rang \cup {i}
    BY <2>1, <2>4 DEF Keeps, Fewer, NamesOk, Due, Used
  <2> QED BY <1>1, <2>2, <2>4, <2>5
<1>2. CASE i \notin Due(s)
  BY <1>2 DEF CheckSlot, Due, Fewer
<1> QED BY <1>1, <1>2

\* The loop over the slots, as a function of the last slot that was checked.
Loop(f, s, heard) ==
  f = [i \in 0 .. Slots |-> IF i = 0 THEN s ELSE CheckSlot(f[i - 1], i, heard)]

LEMMA LoopExists ==
  ASSUME NEW s, NEW heard
  PROVE  \E f : Loop(f, s, heard)
<1> DEFINE Upto(n, f) == f = [i \in 0 .. n |-> IF i = 0 THEN s ELSE CheckSlot(f[i - 1], i, heard)]
           T == {n \in Nat : ~ \E f : Upto(n, f)}
<1>1. CASE T = {}
  <2>1. Slots \in Nat
    BY TimerAssumption
  <2>2. PICK f : Upto(Slots, f)
    BY <1>1, <2>1
  <2> QED BY <2>2 DEF Loop
<1>2. CASE T # {}
  <2>1. PICK m \in T : \A y \in T : m <= y
    <3> HIDE DEF T
    <3>1. T \in SUBSET Nat
      BY DEF T
    <3> QED BY <1>2, <3>1, Smallest
  <2>2. m # 0
    <3> SUFFICES ASSUME m = 0 PROVE FALSE
      OBVIOUS
    <3>1. Upto(0, [i \in 0 .. 0 |-> s])
      OBVIOUS
    <3> QED BY <2>1, <3>1
  <2>3. m \in Nat /\ m - 1 \in Nat /\ m - 1 \notin T
    <3>1. m \in Nat
      OBVIOUS
    <3> HIDE DEF T
    <3> QED BY <2>1, <2>2, <3>1
  <2>4. PICK g : Upto(m - 1, g)
    BY <2>3
  <2> DEFINE h == [i \in 0 .. m |-> IF i = m THEN CheckSlot(g[m - 1], m, heard) ELSE g[i]]
  <2>5. Upto(m, h)
    <3>1. \A i \in 0 .. m : h[i] = IF i = 0 THEN s ELSE CheckSlot(h[i - 1], i, heard)
      <4> SUFFICES ASSUME NEW i \in 0 .. m
                   PROVE  h[i] = IF i = 0 THEN s ELSE CheckSlot(h[i - 1], i, heard)
        OBVIOUS
      <4>1. CASE i = m
        <5>1. h[i] = CheckSlot(g[m - 1], m, heard) /\ h[i - 1] = g[m - 1] /\ i # 0
          BY <2>2, <2>3, <4>1
        <5> QED BY <4>1, <5>1
      <4>2. CASE i # m
        <5>1. i \in 0 .. (m - 1) /\ h[i] = g[i]
          BY <2>3, <4>2
        <5>2. g[i] = IF i = 0 THEN s ELSE CheckSlot(g[i - 1], i, heard)
          BY <2>4, <5>1
        <5>3. i # 0 => h[i - 1] = g[i - 1]
          BY <2>3, <5>1
        <5> QED BY <5>1, <5>2, <5>3
      <4> QED BY <4>1, <4>2
    <3>2. h = [i \in 0 .. m |-> h[i]]
      OBVIOUS
    <3> HIDE DEF h
    <3> QED BY <3>1, <3>2
  <2> QED BY <2>1, <2>5
<1> QED BY <1>1, <1>2

\* What holds of the slots after the first n were checked.
Checked(s, t, n) ==
  /\ t \in Record /\ Fewer(s, t) /\ (NamesOk(s) => NamesOk(t))
  /\ \A j \in 1 .. n : j \notin Due(t)
  /\ t.rang \subseteq Due(s)
  /\ t.rang = {} => t.slot = s.slot

LEMMA CheckedStep ==
  ASSUME now \in Time, NEW s \in Record, NEW t, NEW n \in Nat, n + 1 \in SlotIds,
         NEW heard, Checked(s, t, n)
  PROVE  Checked(s, CheckSlot(t, n + 1, heard), n + 1)
<1> DEFINE u == CheckSlot(t, n + 1, heard)
<1>1. /\ u \in Record /\ Fewer(t, u) /\ (NamesOk(t) => NamesOk(u))
      /\ n + 1 \notin Due(u)
      /\ u = t \/ (n + 1 \in Due(t) /\ u.rang = t.rang \cup {n + 1})
  BY CheckSlotType DEF Checked
<1> HIDE DEF u
<1>2. Fewer(s, u) /\ (NamesOk(s) => NamesOk(u))
  BY <1>1 DEF Fewer, Checked
<1>3. Due(u) \subseteq Due(t) /\ Due(t) \subseteq Due(s)
  BY <1>1 DEF Fewer, Checked, Due, Used
<1>4. \A j \in 1 .. (n + 1) : j \in 1 .. n \/ j = n + 1
  OBVIOUS
<1>5. u.rang \subseteq Due(s) /\ (u.rang = {} => u.slot = s.slot)
  BY <1>1, <1>3 DEF Checked
<1> QED BY <1>1, <1>2, <1>3, <1>4, <1>5 DEF Checked, u

LEMMA LoopChecked ==
  ASSUME now \in Time, NEW s \in Record, s.rang = {}, NEW f, NEW heard, Loop(f, s, heard)
  PROVE  Checked(s, f[Slots], Slots)
<1> DEFINE T == {n \in 0 .. Slots : ~Checked(s, f[n], n)}
<1>1. Slots \in Nat /\ SlotIds = 1 .. Slots
  BY TimerAssumption DEF SlotIds
<1>2. \A i \in 0 .. Slots : f[i] = IF i = 0 THEN s ELSE CheckSlot(f[i - 1], i, heard)
  BY DEF Loop
<1>3. ASSUME T # {} PROVE FALSE
  <2>1. PICK m \in T : \A y \in T : m <= y
    <3>1. T \in SUBSET Nat
      BY <1>1
    <3> HIDE DEF T
    <3> QED BY <1>3, <3>1, Smallest
  <2>2. m \in 0 .. Slots /\ ~Checked(s, f[m], m)
    OBVIOUS
  <2>3. Checked(s, f[0], 0)
    BY <1>1, <1>2 DEF Checked, Fewer
  <2>4. m - 1 \in Nat /\ m - 1 \in 0 .. Slots /\ m \in SlotIds
    BY <1>1, <2>2, <2>3
  <2>5. m - 1 \notin T
    <3> HIDE DEF T
    <3> QED BY <1>1, <2>1, <2>2, <2>4
  <2>6. Checked(s, f[m - 1], m - 1)
    BY <2>4, <2>5
  <2>7. Checked(s, CheckSlot(f[m - 1], (m - 1) + 1, heard), (m - 1) + 1)
    BY <2>4, <2>6, CheckedStep
  <2>8. (m - 1) + 1 = m /\ f[m] = CheckSlot(f[m - 1], m, heard)
    BY <1>2, <2>2, <2>4
  <2> QED BY <2>2, <2>7, <2>8
<1> QED BY <1>1, <1>3

\* After the expiry no slot is due, and the hardware runs towards the rest.
LEMMA TimeoutCheckGood ==
  ASSUME now \in Time, NEW s \in Record, s.rang = {}, Bounded(s), NEW heard
  PROVE  LET t == TimeoutCheck(s, heard)
         IN  /\ t \in Record /\ Fewer(s, t) /\ (NamesOk(s) => NamesOk(t))
             /\ Due(t) = {} /\ t.rang \subseteq Due(s) /\ (t.rang = {} => t.slot = s.slot)
             /\ Bounded(t) /\ RunsOk(t)
             /\ \A i \in Used(t) : t.hw.on /\ t.hw.left <= Signed(t.slot[i].at)
<1> DEFINE g == CHOOSE f : Loop(f, s, heard)
           v == HwStop(g[Slots])
           t == TimeoutCheck(s, heard)
<1>1. Loop(g, s, heard)
  BY LoopExists
<1>2. t = IF Used(v) = {} THEN v ELSE HwStart(v, Least(v, TickMod - 1))
  BY DEF TimeoutCheck, Loop
<1> HIDE DEF g
<1>3. Checked(s, g[Slots], Slots)
  BY <1>1, LoopChecked
<1> DEFINE w == g[Slots]
<1>4. /\ v \in Record /\ v.slot = w.slot /\ v.idx = w.idx /\ v.rang = w.rang /\ v.hw = Off
  BY <1>3, HwType, 0 \in Nat DEF Checked
<1> HIDE DEF v, w, t
<1>5. TickMod - 1 \in Nat
  BY TimerAssumption
<1>6. /\ Least(v, TickMod - 1) \in Nat
      /\ \A i \in Used(v) : Least(v, TickMod - 1) <= Ahead(v.slot[i].at)
  BY <1>4, <1>5, LeastType
<1>7. PICK m \in Nat : m = Least(v, TickMod - 1)
  BY <1>6
<1>8. /\ HwStart(v, m) \in Record /\ HwStart(v, m).slot = v.slot
      /\ HwStart(v, m).idx = v.idx /\ HwStart(v, m).rang = v.rang
      /\ HwStart(v, m).hw = [on |-> TRUE, goal |-> m, left |-> m]
  BY <1>4, HwType
<1>9. /\ t \in Record /\ t.slot = w.slot /\ t.idx = w.idx /\ t.rang = w.rang
      /\ Used(t) = Used(w) /\ Used(t) = Used(v) /\ Due(t) = Due(w)
  BY <1>2, <1>4, <1>7, <1>8 DEF Used, Due
<1>10. /\ Fewer(s, t) /\ (NamesOk(s) => NamesOk(t)) /\ t.rang \subseteq Due(s)
       /\ t.rang = {} => t.slot = s.slot
  BY <1>3, <1>9 DEF Checked, Fewer, NamesOk, w
<1>11. Due(t) = {}
  <2>1. Due(w) \subseteq 1 .. Slots
    BY DEF Due, Used, SlotIds
  <2> QED BY <1>3, <1>9, <2>1 DEF Checked, w
<1>12. Bounded(t)
  BY <1>10, FewerUsed
<1>13. RunsOk(t)
  BY <1>2, <1>4, <1>7, <1>8, <1>9 DEF RunsOk, Off
<1>14. ASSUME NEW i \in Used(t) PROVE t.hw.on /\ t.hw.left <= Signed(t.slot[i].at)
  <2>1. t.hw.on = TRUE /\ t.hw.left = m /\ m <= Ahead(t.slot[i].at)
    BY <1>2, <1>4, <1>6, <1>7, <1>8, <1>9, <1>14
  <2>2. t.slot[i].at \in Time
    BY <1>9, RecordType
  <2>3. ~(Signed(t.slot[i].at) <= 0)
    BY <1>11 DEF Due
  <2>4. Signed(t.slot[i].at) = Ahead(t.slot[i].at)
    BY <2>2, <2>3, AheadType
  <2> QED BY <2>1, <2>4
<1> QED BY <1>9, <1>10, <1>11, <1>12, <1>13, <1>14 DEF t

-----------------------------------------------------------------------------
(* The steps.                                                              *)

\* The first free slot.
LEMMA FirstFree ==
  ASSUME NEW s, Used(s) # SlotIds
  PROVE  (CHOOSE i \in SlotIds \ Used(s) : \A j \in 1 .. (i - 1) : j \in Used(s))
           \in SlotIds \ Used(s)
<1> DEFINE T == SlotIds \ Used(s)
<1>1. T \in SUBSET Nat /\ T # {}
  BY TimerAssumption DEF Used, SlotIds
<1>2. PICK m \in T : \A y \in T : m <= y
  <2> HIDE DEF T
  <2> QED BY <1>1, Smallest
<1>3. \A j \in 1 .. (m - 1) : j \in Used(s)
  <2> SUFFICES ASSUME NEW j \in 1 .. (m - 1), j \notin Used(s) PROVE FALSE
    OBVIOUS
  <2>1. m \in SlotIds /\ j \in SlotIds
    BY TimerAssumption DEF SlotIds
  <2>2. m <= j
    BY <1>2, <2>1
  <2> QED BY <2>1, <2>2 DEF SlotIds
<1> QED BY <1>3

\* The expiry that is in the queue stays, unless it is served.
LEMMA AlertStays ==
  ASSUME Typed
  PROVE  /\ \A e \in {"hw", "other"} :
              Put(e) => evts' \in Seq({"hw", "other"}) /\ (Alert => Alert') /\ (e = "hw" => Alert')
         /\ Serve => evts' \in Seq({"hw", "other"}) /\ (Alert => Alert')
         /\ evts # << >> => Tail(evts) \in Seq({"hw", "other"})
<1>1. evts \in Seq({"hw", "other"}) /\ Len(evts) \in Nat
  BY DEF Typed
<1>2. ASSUME NEW e \in {"hw", "other"}, Put(e)
      PROVE  evts' \in Seq({"hw", "other"}) /\ (Alert => Alert') /\ (e = "hw" => Alert')
  <2>1. CASE Len(evts) < EvtLen
    <3>1. evts' = Append(evts, e) /\ lost' = lost
      BY <1>2, <2>1 DEF Put
    <3>2. /\ evts' \in Seq({"hw", "other"}) /\ Len(evts') = Len(evts) + 1
          /\ \A n \in 1 .. Len(evts) : evts'[n] = evts[n]
          /\ evts'[Len(evts) + 1] = e
      BY <1>1, <3>1
    <3> QED BY <1>1, <3>1, <3>2 DEF Alert
  <2>2. CASE ~(Len(evts) < EvtLen)
    BY <1>1, <1>2, <2>2 DEF Put, Alert
  <2> QED BY <2>1, <2>2
<1>3. ASSUME evts # << >> PROVE Tail(evts) \in Seq({"hw", "other"})
  BY <1>1, <1>3
<1>4. ASSUME Serve, Alert PROVE Alert'
  <2>1. evts' = Tail(evts) /\ lost' = lost /\ evts[1] = "other" /\ evts # << >>
    BY <1>4 DEF Serve
  <2>2. CASE lost
    BY <2>1, <2>2 DEF Alert
  <2>3. CASE ~lost
    <3>1. PICK n \in 1 .. Len(evts) : evts[n] = "hw"
      BY <1>4, <2>3 DEF Alert
    <3>2. n # 1
      BY <2>1, <3>1
    <3>3. /\ Len(evts') = Len(evts) - 1
          /\ \A j \in 1 .. Len(evts') : evts'[j] = evts[j + 1]
      BY <1>1, <2>1
    <3>4. n - 1 \in 1 .. Len(evts') /\ (n - 1) + 1 = n
      BY <1>1, <3>1, <3>2, <3>3
    <3> QED BY <3>1, <3>3, <3>4 DEF Alert
  <2> QED BY <2>2, <2>3
<1> QED BY <1>2, <1>3, <1>4 DEF Serve

\* The slots become those of x, and the rest of the state lets them.
LEMMA Became ==
  ASSUME NEW x, x \in Record, Bounded(x), RunsOk(x), Become(x), now' = now,
         \A i \in Used(x) : Alert' \/ (x.hw.on /\ x.hw.left <= Signed(x.slot[i].at))
  PROVE  /\ rang' \subseteq SlotIds /\ Now' \in Record
         /\ Bounded(Now)' /\ TimeOk(Now)' /\ RunsOk(Now)'
         /\ NamesOk(x) => NamesOk(Now)'
<1>1. slot' = x.slot /\ idx' = x.idx /\ hw' = x.hw /\ rang' = x.rang
  BY DEF Become
<1>2. /\ Now'.slot = x.slot /\ Now'.idx = x.idx /\ Now'.hw = x.hw
      /\ Now' \in Record /\ rang' \subseteq SlotIds
  BY <1>1 DEF Now, Record
<1>3. Used(Now)' = Used(x) /\ \A a : Signed(a)' = Signed(a)
  BY <1>2 DEF Used, Signed, Ahead
<1>4. Bounded(Now)'
  BY <1>2, <1>3 DEF Bounded
<1>5. TimeOk(Now)'
  BY <1>2, <1>3 DEF TimeOk
<1>6. RunsOk(Now)' /\ (NamesOk(x) => NamesOk(Now)')
  BY <1>2, <1>3 DEF RunsOk, NamesOk
<1> QED BY <1>2, <1>4, <1>5, <1>6

\* The same, for the functions that stop and start timers.
LEMMA BecameGood ==
  ASSUME NEW x, Good(x), Become(x), UNCHANGED <<now, evts, lost>>
  PROVE  /\ rang' \subseteq SlotIds /\ Now' \in Record
         /\ Bounded(Now)' /\ TimeOk(Now)' /\ RunsOk(Now)'
         /\ NamesOk(x) => NamesOk(Now)'
<1>1. Alert' = Alert
  BY DEF Alert
<1> QED BY <1>1, Became DEF Good, TimeOk

\* What is in the record.
LEMMA NowType ==
  ASSUME IInv
  PROVE  /\ now \in Time /\ Good(Now) /\ Now.rang = {} /\ (ring => NamesOk(Now))
         /\ Now.slot = slot /\ Now.idx = idx /\ Now.hw = hw
         /\ slot \in [SlotIds -> Slot] /\ idx \in [Kinds -> 0 .. Slots]
         /\ hw \in [on : BOOLEAN, goal : Nat, left : Nat]
BY DEF IInv, Typed, Good, Now, Record

LEMMA InitIInv == Init => IInv
<1> SUFFICES ASSUME Init PROVE IInv
  OBVIOUS
<1>1. TickMod \in Nat \ {0} /\ Slots \in Nat \ {0}
  BY TimerAssumption
<1>2. Typed /\ rang \subseteq SlotIds /\ ~ring
  <2>1. << >> \in Seq({"hw", "other"})
    OBVIOUS
  <2>2. 0 \in Time
    BY <1>1 DEF Time
  <2> QED BY <2>1, <2>2 DEF Init, Typed
<1>3. Now \in Record
  BY <1>1, SlotType DEF Init, Now, Record, Off
<1>4. Used(Now) = {}
  BY DEF Init, Now, Used
<1> QED BY <1>2, <1>3, <1>4 DEF IInv, Bounded, TimeOk, RunsOk, Now, Init, Off

LEMMA StartIInv == ASSUME IInv, NEW k \in Kinds, Start(k) PROVE IInv'
<1> DEFINE i == CHOOSE i \in SlotIds \ Used(Now) : \A j \in 1 .. (i - 1) : j \in Used(Now)
<1>1. i \in SlotIds \ Used(Now)
  BY FirstFree DEF Start
<1>2. PICK d \in Duration[k] : Become(HwTimerStart(Now, i, k, d))
  BY DEF Start
<1> HIDE DEF i
<1>3. PICK x : x = HwTimerStart(Now, i, k, d)
  OBVIOUS
<1>4. Good(x) /\ (NamesOk(Now) => NamesOk(x))
  BY <1>1, <1>3, NowType, HwTimerStartGood
<1>5. Become(x) /\ UNCHANGED <<now, ring, evts, lost>>
  BY <1>2, <1>3 DEF Start
<1>6. Typed'
  BY <1>5 DEF IInv, Typed
<1> QED BY <1>4, <1>5, <1>6, NowType, BecameGood DEF IInv

LEMMA StopIInv ==
  ASSUME IInv, NEW x, Good(x), Keeps(Now, x), Become(x), UNCHANGED <<now, ring, evts, lost>>
  PROVE  IInv'
<1>1. Typed'
  BY DEF IInv, Typed
<1>2. NamesOk(Now) => NamesOk(x)
  BY DEF Keeps
<1> QED BY <1>1, <1>2, NowType, BecameGood DEF IInv

LEMMA EndWaitIInv == ASSUME IInv, EndWait PROVE IInv'
<1>1. PICK x : x = StopWait(Now)
  OBVIOUS
<1> QED BY <1>1, NowType, StopsGood, StopIInv DEF EndWait, Good

LEMMA EndHoldOffIInv == ASSUME IInv, EndHoldOff PROVE IInv'
<1>1. PICK x : x = TimerStop(Now, "hold_off")
  OBVIOUS
<1> QED BY <1>1, NowType, TimerStopGood, StopIInv DEF EndHoldOff, Good

LEMMA ConfigureIInv == ASSUME IInv, Configure PROVE IInv'
<1>1. /\ Now' = [slot |-> slot, idx |-> NoIdx, hw |-> hw, rang |-> {}]
      /\ UNCHANGED <<now, evts, lost>> /\ ring' = TRUE /\ rang' = {}
  BY DEF Configure, Now
<1>2. Now' \in Record
  BY <1>1, NowType, TimerAssumption DEF NoIdx, Record
<1>3. Used(Now)' = Used(Now) /\ \A a : Signed(a)' = Signed(a)
  BY <1>1, NowType DEF Used, Signed, Ahead
<1>4. Bounded(Now)' /\ TimeOk(Now)' /\ RunsOk(Now)'
  BY <1>1, <1>3, NowType DEF Bounded, TimeOk, RunsOk, Good, Alert
<1>5. NamesOk(Now)'
  BY <1>1 DEF NamesOk, NoIdx
<1> QED BY <1>1, <1>2, <1>4, <1>5 DEF IInv, Typed

LEMMA DeleteIInv == ASSUME IInv, Delete PROVE IInv'
<1>1. PICK x : x = StopAll(Now)
  OBVIOUS
<1>2. Good(x)
  BY <1>1, NowType, StopsGood DEF Good
<1>3. PICK y : y = [x EXCEPT !.idx = [k \in Kinds |-> 1]]
  OBVIOUS
<1>4. /\ y \in Record /\ y.slot = x.slot /\ y.hw = x.hw /\ Used(y) = Used(x)
  BY <1>2, <1>3, TimerAssumption DEF Good, Record, Used
<1>5. Good(y)
  BY <1>2, <1>4 DEF Good, Bounded, TimeOk, RunsOk
<1>6. Become(y) /\ UNCHANGED <<now, evts, lost>> /\ ring' = FALSE
  BY <1>1, <1>3 DEF Delete
<1>7. Typed'
  BY <1>6 DEF IInv, Typed
<1> QED BY <1>5, <1>6, <1>7, BecameGood DEF IInv

LEMMA TickIInv == ASSUME IInv, Tick PROVE IInv'
<1>1. /\ now' = (now + 1) % TickMod /\ rang' = {} /\ UNCHANGED <<slot, idx, ring>>
      /\ Now' = [slot |-> slot, idx |-> idx, hw |-> hw', rang |-> {}]
      /\ \A i \in Used(Now) : Signed(slot[i].at) > -MaxLate
  BY DEF Tick, Now
<1>2. now' \in Time
  <2>1. now \in Nat /\ now < TickMod /\ TickMod \in Nat \ {0}
    BY TimerAssumption, NowType DEF Time
  <2>2. now + 1 \in Int /\ -TickMod <= now + 1 /\ now + 1 < 2 * TickMod
    BY <2>1
  <2> QED BY <1>1, <2>2, Remainder
<1>3. Used(Now)' = Used(Now)
  BY <1>1, NowType DEF Used
<1>4. \A i \in Used(Now) : \E d \in Duration[slot[i].kind] :
        /\ d \in Int /\ Signed(slot[i].at) \in Int /\ Signed(slot[i].at) <= d
        /\ Signed(slot[i].at)' = Signed(slot[i].at) - 1
  <2> SUFFICES ASSUME NEW i \in Used(Now)
               PROVE  \E d \in Duration[slot[i].kind] :
                        /\ d \in Int /\ Signed(slot[i].at) \in Int /\ Signed(slot[i].at) <= d
                        /\ Signed(slot[i].at)' = Signed(slot[i].at) - 1
    OBVIOUS
  <2>1. slot[i].kind \in Kinds /\ slot[i].at \in Time
    BY NowType, RecordType DEF Good
  <2>2. PICK d \in Duration[slot[i].kind] : Signed(slot[i].at) <= d
    BY NowType DEF Good, Bounded
  <2>3. d \in Int /\ Signed(slot[i].at) \in Int
    BY <2>1, NowType, AheadType, TimerAssumption
  <2>4. PICK a : a = slot[i].at
    OBVIOUS
  <2>5. Signed(a)' = Signed(a) - 1
    BY <1>1, <2>1, <2>2, <2>4, NowType, TickAhead
  <2>6. Signed(slot[i].at)' = Signed(a)'
    BY <1>1, <2>4 DEF Signed, Ahead
  <2> QED BY <2>2, <2>3, <2>4, <2>5, <2>6
<1>5. Bounded(Now)'
  <2> SUFFICES ASSUME NEW i \in Used(Now)
               PROVE  \E d \in Duration[slot[i].kind] :
                        -MaxLate <= Signed(slot[i].at)' /\ Signed(slot[i].at)' <= d
    BY <1>1, <1>3 DEF Bounded
  <2>1. PICK d \in Duration[slot[i].kind] :
          /\ d \in Int /\ Signed(slot[i].at) \in Int /\ Signed(slot[i].at) <= d
          /\ Signed(slot[i].at)' = Signed(slot[i].at) - 1
    BY <1>4
  <2>2. Signed(slot[i].at) > -MaxLate /\ MaxLate \in Nat
    BY <1>1, TimerAssumption
  <2> QED BY <2>1, <2>2
<1>6. /\ evts' \in Seq({"hw", "other"}) /\ (Alert => Alert')
      /\ hw' \in [on : BOOLEAN, goal : Nat, left : Nat] /\ hw'.on = hw.on
      /\ Alert' \/ (hw.on => hw'.left = hw.left - 1)
  <2>1. CASE hw.on /\ hw.left <= 1
    <3>1. Put("hw") /\ hw' = [hw EXCEPT !.left = hw.goal]
      BY <2>1 DEF Tick
    <3> QED BY <3>1, NowType, AlertStays DEF IInv
  <2>2. CASE ~(hw.on /\ hw.left <= 1)
    <3>1. UNCHANGED <<evts, lost>> /\ hw' = IF hw.on THEN [hw EXCEPT !.left = hw.left - 1] ELSE hw
      BY <2>2 DEF Tick
    <3> QED BY <2>2, <3>1, NowType DEF IInv, Typed, Alert
  <2> QED BY <2>1, <2>2
<1>7. TimeOk(Now)'
  <2> SUFFICES ASSUME NEW i \in Used(Now), ~Alert'
               PROVE  hw'.on /\ hw'.left <= Signed(slot[i].at)'
    BY <1>1, <1>3 DEF TimeOk
  <2>1. hw.on /\ hw.left <= Signed(slot[i].at)
    BY <1>6, NowType DEF Good, TimeOk
  <2>2. Signed(slot[i].at) \in Int /\ Signed(slot[i].at)' = Signed(slot[i].at) - 1
    BY <1>4
  <2> QED BY <1>6, <2>1, <2>2, NowType
<1>8. RunsOk(Now)' /\ Now' \in Record /\ (ring => NamesOk(Now)')
  BY <1>1, <1>3, <1>6, NowType DEF RunsOk, Good, Record, NamesOk
<1> QED BY <1>1, <1>2, <1>5, <1>6, <1>7, <1>8, NowType DEF IInv, Typed

\* The queue changes, the slots do not.
LEMMA QueueIInv ==
  ASSUME IInv, UNCHANGED <<slot, idx, hw, now, ring>>, rang' = {},
         evts' \in Seq({"hw", "other"}), Alert => Alert'
  PROVE  IInv'
<1>1. Now' = Now
  BY DEF Now
<1>2. Used(Now)' = Used(Now) /\ \A a : Signed(a)' = Signed(a)
  BY <1>1 DEF Used, Signed, Ahead
<1>3. Bounded(Now)' /\ TimeOk(Now)' /\ RunsOk(Now)' /\ (ring => NamesOk(Now)')
  BY <1>1, <1>2, NowType DEF Bounded, TimeOk, RunsOk, NamesOk, Good
<1> QED BY <1>1, <1>3 DEF IInv, Typed

LEMMA ExpireIInv == ASSUME IInv, Expire PROVE IInv'
<1>1. PICK heard : Become(TimeoutCheck(Now, heard))
  BY DEF Expire
<1>2. PICK x : x = TimeoutCheck(Now, heard)
  OBVIOUS
<1>3. /\ x \in Record /\ (NamesOk(Now) => NamesOk(x)) /\ Bounded(x) /\ RunsOk(x)
      /\ \A i \in Used(x) : x.hw.on /\ x.hw.left <= Signed(x.slot[i].at)
  BY <1>2, NowType, TimeoutCheckGood DEF Good
<1>4. Become(x) /\ now' = now /\ ring' = ring /\ evts' = Tail(evts) /\ evts # << >>
  BY <1>1, <1>2 DEF Expire
<1>5. Typed'
  BY <1>4, AlertStays DEF IInv, Typed
<1> QED BY <1>3, <1>4, <1>5, NowType, Became DEF IInv

(* The invariant that makes the three properties inductive.                *)
THEOREM Inductive == Spec => []IInv
<1>1. IInv /\ [Next]_vars => IInv'
  <2> SUFFICES ASSUME IInv, [Next]_vars PROVE IInv'
    OBVIOUS
  <2>1. CASE \E k \in Kinds : Start(k)
    BY <2>1, StartIInv
  <2>2. CASE EndWait \/ EndHoldOff \/ Configure \/ Delete
    BY <2>2, EndWaitIInv, EndHoldOffIInv, ConfigureIInv, DeleteIInv
  <2>3. CASE Tick \/ Expire
    BY <2>3, TickIInv, ExpireIInv
  <2>4. CASE Arrive \/ Serve
    BY <2>4, AlertStays, QueueIInv DEF Arrive, Serve, IInv
  <2>5. CASE UNCHANGED vars
    <3>1. Now' = Now
      BY <2>5 DEF vars, Now
    <3>2. Used(Now)' = Used(Now) /\ (\A a : Signed(a)' = Signed(a)) /\ Alert' = Alert
      BY <2>5, <3>1 DEF vars, Used, Signed, Ahead, Alert
    <3> QED BY <2>5, <3>1, <3>2 DEF vars, IInv, Typed, Bounded, TimeOk, RunsOk, NamesOk
  <2> QED BY <2>1, <2>2, <2>3, <2>4, <2>5 DEF Next
<1> QED BY <1>1, InitIInv, PTL DEF Spec

(* No timer is late by more than the time its event waits in the queue,    *)
(* whatever was started, stopped, forgotten or expired in between, for     *)
(* every number of slots and every width of the clock.                     *)
THEOREM NeverForgotten == Spec => []OnTime
<1>1. IInv => OnTime
  BY NowType DEF OnTime, Good, TimeOk, Alert
<1> QED BY <1>1, Inductive, PTL

(* The periodic hardware timer runs exactly while a slot is in use.        *)
THEOREM HardwareFollowsSlots == Spec => []HardwareRuns
<1>1. IInv => HardwareRuns
  BY NowType DEF HardwareRuns, Good, RunsOk
<1> QED BY <1>1, Inductive, PTL

(* A valid index of the instance names a slot of its own timer.            *)
THEOREM IndicesAreOwn == Spec => []IndexNamesSlot
<1>1. IInv => IndexNamesSlot
  BY NowType DEF IndexNamesSlot, NamesOk
<1> QED BY <1>1, Inductive, PTL

-----------------------------------------------------------------------------
(* The slots implement Alarms.                                             *)

Alarm ==
  [i \in SlotIds |->
     IF slot[i] = Free THEN [kind |-> "none", left |-> 0]
     ELSE [kind |-> slot[i].kind, left |-> Signed(slot[i].at)]]

LEMMA Armed ==
  ASSUME IInv
  PROVE  /\ Promise!Armed = Used(Now) /\ Promise!Due = Due(Now)
         /\ \A i \in SlotIds : Alarm[i] = IF i \in Used(Now)
                                        THEN [kind |-> slot[i].kind, left |-> Signed(slot[i].at)]
                                        ELSE Promise!Nothing
<1>1. \A i \in Used(Now) : slot[i].kind # "none" /\ i \in SlotIds
  BY NowType, RecordType, SlotType DEF Good
<1>2. \A i \in SlotIds : i \in Used(Now) <=> slot[i] # Free
  BY NowType DEF Used
<1>3. \A i \in SlotIds : Alarm[i] = IF i \in Used(Now)
                                   THEN [kind |-> slot[i].kind, left |-> Signed(slot[i].at)]
                                   ELSE Promise!Nothing
  BY <1>2 DEF Alarm, Promise!Nothing
<1>4. Promise!Armed = Used(Now)
  <2>1. Promise!Armed = {i \in SlotIds : Alarm[i] # Promise!Nothing}
    BY DEF Promise!Armed, Alarm
  <2>2. ASSUME NEW i \in Used(Now) PROVE Alarm[i] # Promise!Nothing
    <3>1. PICK a : a = Alarm[i]
      OBVIOUS
    <3>2. a = [kind |-> slot[i].kind, left |-> Signed(slot[i].at)]
      BY <1>1, <1>3, <3>1
    <3>3. a.kind # "none"
      BY <1>1, <3>2
    <3> QED BY <3>1, <3>3 DEF Promise!Nothing
  <2> QED BY <1>1, <1>3, <2>1, <2>2
<1>5. Promise!Due = Due(Now)
  <2>1. Promise!Due = {i \in Used(Now) : Alarm[i].left <= 0}
    BY <1>4 DEF Promise!Due, Alarm
  <2>3. ASSUME NEW i \in Used(Now) PROVE Alarm[i].left = Signed(slot[i].at)
    <3>1. PICK a : a = Alarm[i]
      OBVIOUS
    <3>2. a = [kind |-> slot[i].kind, left |-> Signed(slot[i].at)]
      BY <1>1, <1>3, <3>1
    <3>3. a.left = Signed(slot[i].at)
      BY <3>2
    <3> QED BY <3>1, <3>3
  <2> QED BY <2>1, <2>3, NowType DEF Due
<1> QED BY <1>3, <1>4, <1>5

\* Slots that are freed are cancelled, or ring with those they cancel.
LEMMA FreedPromise ==
  ASSUME IInv, NEW x \in Record, Fewer(Now, x), Become(x), now' = now
  PROVE  \E S : S = Used(Now) \ Used(x) /\ S \subseteq Promise!Armed /\ Promise!Clear(S)
<1>0. PICK S : S = Used(Now) \ Used(x)
  OBVIOUS
<1>1. slot' = x.slot /\ \A a : Signed(a)' = Signed(a)
  BY DEF Become, Signed, Ahead
<1>2. \A i \in SlotIds : x.slot[i] \in {slot[i], Free}
  BY NowType DEF Fewer
<1>3. \A i \in SlotIds : (i \in Used(Now) <=> slot[i] # Free) /\ (i \in Used(x) <=> x.slot[i] # Free)
  BY NowType DEF Used
<1>5. Alarm' = [i \in SlotIds |-> IF i \in S THEN Promise!Nothing ELSE Alarm[i]]
  <2> DEFINE New(i) == IF x.slot[i] = Free THEN Promise!Nothing
                       ELSE [kind |-> x.slot[i].kind, left |-> Signed(x.slot[i].at)]
  <2>1. Alarm' = [i \in SlotIds |-> New(i)]
    BY <1>1 DEF Alarm, Promise!Nothing
  <2>2. ASSUME NEW i \in SlotIds PROVE New(i) = IF i \in S THEN Promise!Nothing ELSE Alarm[i]
    <3>1. CASE x.slot[i] = Free
      BY <1>0, <1>3, <3>1, Armed
    <3>2. CASE x.slot[i] # Free
      <4>1. x.slot[i] = slot[i] /\ i \in Used(Now) /\ i \notin S
        BY <1>0, <1>2, <1>3, <3>2
      <4>2. Alarm[i] = [kind |-> slot[i].kind, left |-> Signed(slot[i].at)]
        BY <4>1, Armed
      <4> QED BY <3>2, <4>1, <4>2
    <3> QED BY <3>1, <3>2
  <2> HIDE DEF New
  <2> QED BY <2>1, <2>2
<1>4. Promise!Clear(S)
  BY <1>5 DEF Promise!Clear, Promise!Nothing, Alarm
<1> QED BY <1>0, <1>4, Armed

LEMMA StopPromise ==
  ASSUME IInv, NEW x, Keeps(Now, x), Become(x), now' = now
  PROVE  Promise!Next
<1>1. x \in Record /\ Fewer(Now, x) /\ rang' = {}
  BY NowType DEF Keeps, Become
<1>2. PICK S : S \subseteq Promise!Armed /\ Promise!Clear(S)
  BY <1>1, FreedPromise
<1>3. Promise!Cancel(S)
  BY <1>1, <1>2 DEF Promise!Cancel
<1> QED BY <1>2, <1>3 DEF Promise!Next

\* The slots stay, and none rings.
LEMMA QuietPromise ==
  ASSUME IInv, UNCHANGED <<slot, now>>, rang' = {}
  PROVE  Promise!Next
<1>1. Alarm' = [i \in SlotIds |-> IF i \in {} THEN Promise!Nothing ELSE Alarm[i]]
  BY DEF Alarm, Signed, Ahead
<1>2. Promise!Clear({})
  BY <1>1 DEF Promise!Clear, Promise!Nothing, Alarm
<1> QED BY <1>2 DEF Promise!Next, Promise!Cancel

LEMMA StartPromise == ASSUME IInv, NEW k \in Kinds, Start(k) PROVE Promise!Next
<1> DEFINE i == CHOOSE i \in SlotIds \ Used(Now) : \A j \in 1 .. (i - 1) : j \in Used(Now)
<1>1. i \in SlotIds \ Used(Now)
  BY FirstFree DEF Start
<1>2. PICK d \in Duration[k] : Become(HwTimerStart(Now, i, k, d))
  BY DEF Start
<1> HIDE DEF i
<1>3. PICK x : x = HwTimerStart(Now, i, k, d)
  OBVIOUS
<1> DEFINE e == [kind |-> k, at |-> (now + d) % TickMod]
<1>4. /\ x.rang = {}
      /\ \A j \in SlotIds : x.slot[j] = IF j = i THEN e ELSE slot[j]
      /\ x \in Record
  BY <1>1, <1>3, NowType, HwTimerStartGood DEF Good
<1>5. slot' = x.slot /\ rang' = {} /\ now' = now
  BY <1>2, <1>3, <1>4 DEF Start, Become
<1>6. e # Free /\ Signed(e.at) = d /\ e.kind = k /\ e.at = (now + d) % TickMod
  BY SetAhead, SlotType, NowType
<1>7. \A a : Signed(a)' = Signed(a)
  BY <1>5 DEF Signed, Ahead
<1> HIDE DEF e
<1>8. Alarm' = [Alarm EXCEPT ![i] = [kind |-> k, left |-> d]]
  <2> DEFINE New(j) == IF x.slot[j] = Free THEN [kind |-> "none", left |-> 0]
                       ELSE [kind |-> x.slot[j].kind, left |-> Signed(x.slot[j].at)]
             Old(j) == IF slot[j] = Free THEN [kind |-> "none", left |-> 0]
                       ELSE [kind |-> slot[j].kind, left |-> Signed(slot[j].at)]
  <2>1. Alarm' = [j \in SlotIds |-> New(j)] /\ Alarm = [j \in SlotIds |-> Old(j)]
    BY <1>5, <1>7 DEF Alarm
  <2>2. New(i) = [kind |-> k, left |-> d]
    BY <1>1, <1>4, <1>6
  <2>3. \A j \in SlotIds : j # i => New(j) = Old(j)
    BY <1>4
  <2> HIDE DEF New, Old
  <2> QED BY <1>1, <2>1, <2>2, <2>3
<1>9. i \in SlotIds /\ i \notin Promise!Armed
  BY <1>1, Armed
<1>10. Promise!Set(i, k)
  BY <1>5, <1>8, <1>9 DEF Promise!Set, Alarm
<1> QED BY <1>9, <1>10 DEF Promise!Next

LEMMA ExpirePromise == ASSUME IInv, Expire PROVE Promise!Next
<1>1. PICK heard : Become(TimeoutCheck(Now, heard))
  BY DEF Expire
<1>2. PICK x : x = TimeoutCheck(Now, heard)
  OBVIOUS
<1>3. /\ x \in Record /\ Fewer(Now, x) /\ Due(x) = {}
      /\ x.rang \subseteq Due(Now) /\ (x.rang = {} => x.slot = slot)
  BY <1>2, NowType, TimeoutCheckGood DEF Good
<1>4. Become(x) /\ now' = now /\ slot' = x.slot /\ rang' = x.rang
  BY <1>1, <1>2 DEF Expire, Become
<1>5. CASE x.rang = {}
  BY <1>3, <1>4, <1>5, QuietPromise
<1>6. CASE x.rang # {}
  <2>1. PICK S : S = Used(Now) \ Used(x) /\ S \subseteq Promise!Armed /\ Promise!Clear(S)
    BY <1>3, <1>4, FreedPromise
  <2>2. Due(Now) \subseteq S
    BY <1>3, <2>1, FewerUsed DEF Due
  <2>3. rang' # {} /\ rang' \subseteq Promise!Due /\ Promise!Due \subseteq S
    BY <1>3, <1>4, <1>6, <2>2, Armed
  <2>4. Promise!Ring(S)
    BY <2>1, <2>3 DEF Promise!Ring
  <2> QED BY <2>1, <2>4 DEF Promise!Next
<1> QED BY <1>5, <1>6

LEMMA TickPromise == ASSUME IInv, Tick PROVE Promise!Next
<1>1. /\ now' = (now + 1) % TickMod /\ rang' = {} /\ slot' = slot
      /\ \A i \in Used(Now) : Signed(slot[i].at) > -MaxLate
  BY DEF Tick
<1>2. \A i \in Used(Now) : Signed(slot[i].at)' = Signed(slot[i].at) - 1
  <2> SUFFICES ASSUME NEW i \in Used(Now) PROVE Signed(slot[i].at)' = Signed(slot[i].at) - 1
    OBVIOUS
  <2>1. slot[i].kind \in Kinds /\ slot[i].at \in Time
    BY NowType, RecordType DEF Good
  <2>2. PICK d \in Duration[slot[i].kind] : Signed(slot[i].at) <= d
    BY NowType DEF Good, Bounded
  <2>4. PICK a : a = slot[i].at
    OBVIOUS
  <2>5. Signed(a)' = Signed(a) - 1
    BY <1>1, <2>1, <2>2, <2>4, NowType, TickAhead
  <2>6. Signed(slot[i].at)' = Signed(a)'
    BY <1>1, <2>4 DEF Signed, Ahead
  <2> QED BY <2>4, <2>5, <2>6
<1> DEFINE Old(i) == IF slot[i] = Free THEN Promise!Nothing
                     ELSE [kind |-> slot[i].kind, left |-> Signed(slot[i].at)]
           Later(i) == IF i \in Used(Now) THEN [Alarm[i] EXCEPT !.left = Alarm[i].left - 1]
                       ELSE Promise!Nothing
<1>3. ASSUME NEW i \in SlotIds PROVE Alarm'[i] = Later(i)
  <2>1. CASE i \in Used(Now)
    <3>1. slot'[i] # Free /\ slot[i] # Free
      BY <1>1, <2>1, NowType DEF Used
    <3>2. Alarm'[i] = [kind |-> slot[i].kind, left |-> Signed(slot[i].at) - 1]
      BY <1>1, <1>2, <2>1, <3>1 DEF Alarm
    <3>3. Alarm[i] = [kind |-> slot[i].kind, left |-> Signed(slot[i].at)]
      BY <2>1, Armed
    <3> HIDE DEF Alarm
    <3> QED BY <2>1, <3>2, <3>3
  <2>2. CASE i \notin Used(Now)
    <3>1. slot[i] = Free
      BY <2>2, NowType DEF Used
    <3> QED BY <1>1, <2>2, <3>1 DEF Alarm, Promise!Nothing
  <2> QED BY <2>1, <2>2
<1>4. Alarm' = [i \in SlotIds |-> Later(i)]
  <2> HIDE DEF Later
  <2>1. Alarm' = [i \in SlotIds |-> Alarm'[i]]
    BY DEF Alarm
  <2> QED BY <1>3, <2>1
<1>5. Promise!Armed = Used(Now)
  BY Armed
<1>6. Promise!Tick
  BY <1>1, <1>4, <1>5 DEF Promise!Tick, Promise!Nothing, Alarm
<1> QED BY <1>6 DEF Promise!Next

(* The slots implement Alarms: a timer that is set rings once, never       *)
(* before its time and never after it was stopped, and with one that rings *)
(* every other that is due rings or is stopped by it.                      *)
THEOREM ImplementsAlarms == Spec => KeepsPromise
<1>1. Init => Promise!Init
  <2>1. ASSUME Init PROVE Alarm = [i \in SlotIds |-> Promise!Nothing] /\ rang = {}
    BY <2>1 DEF Init, Alarm, Promise!Nothing
  <2> QED BY <2>1 DEF Promise!Init, Promise!Nothing, Alarm
<1>2. IInv /\ [Next]_vars => [Promise!Next]_(Promise!vars)
  <2> SUFFICES ASSUME IInv, [Next]_vars PROVE Promise!Next \/ UNCHANGED Promise!vars
    OBVIOUS
  <2>1. CASE \E k \in Kinds : Start(k)
    BY <2>1, StartPromise
  <2>2. CASE EndWait \/ EndHoldOff
    BY <2>2, NowType, StopsGood, TimerStopGood, StopPromise DEF EndWait, EndHoldOff, Good
  <2>3. CASE Delete
    <3>1. PICK x : x = StopAll(Now)
      OBVIOUS
    <3>2. PICK y : y = [x EXCEPT !.idx = [k \in Kinds |-> 1]]
      OBVIOUS
    <3>3. Keeps(Now, x)
      BY <3>1, NowType, StopsGood DEF Good
    <3>4. y \in Record /\ Fewer(Now, y) /\ y.rang = {}
      BY <3>2, <3>3, NowType, TimerAssumption DEF Keeps, Record, Fewer
    <3>5. Become(y) /\ now' = now /\ rang' = {}
      BY <2>3, <3>1, <3>2, <3>4 DEF Delete, Become
    <3>6. PICK S : S \subseteq Promise!Armed /\ Promise!Clear(S)
      BY <3>4, <3>5, FreedPromise
    <3>7. Promise!Cancel(S)
      BY <3>5, <3>6 DEF Promise!Cancel
    <3> QED BY <3>6, <3>7 DEF Promise!Next
  <2>4. CASE Configure \/ Arrive \/ Serve
    BY <2>4, QuietPromise DEF Configure, Arrive, Serve
  <2>5. CASE Tick \/ Expire
    BY <2>5, TickPromise, ExpirePromise
  <2>6. CASE UNCHANGED vars
    BY <2>6 DEF vars, Promise!vars, Signed, Ahead
  <2> QED BY <2>1, <2>2, <2>3, <2>4, <2>5, <2>6 DEF Next
<1> QED BY <1>1, <1>2, Inductive, PTL DEF Spec, KeepsPromise, Promise!Spec
===============================================================================
