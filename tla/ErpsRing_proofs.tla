---------------------------- MODULE ErpsRing_proofs ----------------------------
(***************************************************************************)
(* Data does not circle in a ring with one owner, for any number of nodes, *)
(* any lengths of their queues and any number of failures.                 *)
(***************************************************************************)
EXTENDS ErpsRing, Integers, TLAPS, SequenceTheorems

-----------------------------------------------------------------------------
(* The inductive invariant                                                 *)

Fields ==
  {"roles", "pid", "revertive", "holds", "id", "state", "local", "failed",
   "blocked", "fw", "stp", "idx", "run", "sending", "raps", "out", "flush",
   "cleared"}

\* The slots that run are those that the ring has the index of.
Clocked(s) ==
  /\ s.idx \subseteq Timers /\ s.run \in [Timers -> Int]
  /\ \A k \in Timers : s.run[k] = IF k \in s.idx THEN 1 ELSE 0

\* What a node of this ring does not come to: switches on request, and a
\* failure that waits for the hold-off timer.
Modest(s) ==
  /\ DOMAIN s = Fields
  /\ s.roles \in [Ports -> Roles] /\ s.id \in Nat
  /\ s.failed \subseteq Ports /\ s.blocked \subseteq Ports
  /\ ~ s.holds
  /\ s.state \in {"IDLE", "PENDING", "PROTECTION"}
  /\ s.local \in {"LAST", "SF", "WTR_RUNNING"}
  /\ Clocked(s)

\* A failed port is closed, protected and the local request.
Protected(s) ==
  /\ s.failed # {} <=> s.local = "SF"
  /\ s.failed # {} => s.state = "PROTECTION" /\ s.failed \subseteq s.blocked

GuardsRpl(s) == Owner(s) /\ s.state = "IDLE" /\ RplPort(s) \in s.blocked

\* What a node of this ring sends.
OwnMessage == [req : {"NR", "SF"}, status : SUBSET Flags]

\* What is sent again is still true: SF while a port has failed, NR while a
\* port is closed, and NR,RB while the owner closes the RPL.
Truthful(s) ==
  /\ s.raps \in OwnMessage
  /\ s.sending =>
       IF s.raps.req = "SF" THEN s.failed # {}
       ELSE IF "RB" \in s.raps.status THEN GuardsRpl(s) ELSE s.blocked # {}

Sane(s) == Modest(s) /\ Protected(s) /\ Truthful(s)

-----------------------------------------------------------------------------
(* Records                                                                 *)

\* t is s but for the fields of F.
But(s, t, F) == DOMAIN t = Fields /\ \A f \in Fields \ F : t[f] = s[f]

Put(s, f, v) == [s EXCEPT ![f] = v]
LEMMA FieldPut ==
  ASSUME NEW s, DOMAIN s = Fields, NEW f \in Fields, NEW v
  PROVE  But(s, Put(s, f, v), {f}) /\ Put(s, f, v)[f] = v
BY SMT DEF But, Put

LEMMA ButChain ==
  ASSUME NEW s, NEW t, NEW u, NEW F, NEW G, But(s, t, F), But(t, u, G)
  PROVE  But(s, u, F \cup G)
BY Zenon DEF But

LEMMA ButSelf ==
  ASSUME NEW s, DOMAIN s = Fields, NEW F
  PROVE  But(s, s, F)
BY Zenon DEF But

LEMMA ButMore ==
  ASSUME NEW s, NEW t, NEW F, NEW G, But(s, t, F), F \subseteq G
  PROVE  But(s, t, G)
BY Zenon DEF But

-----------------------------------------------------------------------------
(* Ports                                                                   *)

PortFields == {"blocked", "stp", "fw", "cleared"}
LEMMA BlockPort ==
  ASSUME NEW s, DOMAIN s = Fields, NEW p
  PROVE  LET t == Block(s, p) IN
         But(s, t, PortFields) /\ t.blocked = s.blocked \cup {p}
<1>1. CASE p \in s.blocked
  BY <1>1, SMT DEF But, Block
<1>2. CASE p \notin s.blocked
  <2> DEFINE a == Put(s, "blocked", s.blocked \cup {p})
             b == Put(a, "stp", s.stp \cup {s.pid[p]})
             c == Put(b, "fw", FALSE)
             d == Put(c, "cleared", TRUE)
  <2>1. Block(s, p) = d
    BY <1>2, Zenon DEF Block, Put
  <2>2. {"blocked", "stp", "fw", "cleared"} \subseteq Fields
    BY SMT DEF Fields
  <2>0. "stp" \in Fields /\ "fw" \in Fields /\ "cleared" \in Fields
    BY <2>2, SMT
  <2>3. But(s, a, {"blocked"}) /\ a.blocked = s.blocked \cup {p}
    BY <2>2, FieldPut, SMT
  <2> HIDE DEF a
  <2>4. But(a, b, {"stp"})
    <3>1. DOMAIN a = Fields
      BY <2>3, Zenon DEF But
    <3> QED BY <2>0, <3>1, FieldPut, Zenon
  <2> HIDE DEF b
  <2>5. But(b, c, {"fw"})
    <3>1. DOMAIN b = Fields
      BY <2>4, Zenon DEF But
    <3> QED BY <2>0, <3>1, FieldPut, Zenon
  <2> HIDE DEF c
  <2>6. But(c, d, {"cleared"})
    <3>1. DOMAIN c = Fields
      BY <2>5, Zenon DEF But
    <3> QED BY <2>0, <3>1, FieldPut, Zenon
  <2> HIDE DEF d
  <2>7. But(s, d, PortFields) /\ d.blocked = a.blocked
    BY <2>2, <2>3, <2>4, <2>5, <2>6, SMT DEF But, PortFields
  <2> QED BY <2>1, <2>3, <2>7
<1> QED BY <1>1, <1>2

LEMMA UnblockPort ==
  ASSUME NEW s, DOMAIN s = Fields, NEW p
  PROVE  LET t == Unblock(s, p) IN
         But(s, t, PortFields) /\ t.blocked = s.blocked \ {p}
<1>1. CASE p \notin s.blocked
  BY <1>1, SMT DEF But, Unblock
<1>2. CASE p \in s.blocked
  <2> DEFINE a == Put(s, "blocked", s.blocked \ {p})
             b == Put(a, "stp", s.stp \ {s.pid[p]})
             c == Put(b, "fw", Another(p) \notin s.blocked)
  <2>1. Unblock(s, p) = c
    BY <1>2, Zenon DEF Unblock, Put
  <2>2. {"blocked", "stp", "fw"} \subseteq Fields
    BY SMT DEF Fields
  <2>0. "stp" \in Fields /\ "fw" \in Fields
    BY <2>2, SMT
  <2>3. But(s, a, {"blocked"}) /\ a.blocked = s.blocked \ {p}
    BY <2>2, FieldPut, SMT
  <2> HIDE DEF a
  <2>4. But(a, b, {"stp"})
    <3>1. DOMAIN a = Fields
      BY <2>3, Zenon DEF But
    <3> QED BY <2>0, <3>1, FieldPut, Zenon
  <2> HIDE DEF b
  <2>5. But(b, c, {"fw"})
    <3>1. DOMAIN b = Fields
      BY <2>4, Zenon DEF But
    <3> QED BY <2>0, <3>1, FieldPut, Zenon
  <2> HIDE DEF c
  <2>6. But(s, c, PortFields) /\ c.blocked = a.blocked
    BY <2>2, <2>3, <2>4, <2>5, SMT DEF But, PortFields
  <2> QED BY <2>1, <2>3, <2>6
<1> QED BY <1>1, <1>2

LEMMA AnotherPort ==
  ASSUME NEW p \in Ports
  PROVE  Another(p) \in Ports /\ Another(p) # p /\ Ports = {p, Another(p)}
BY SMT DEF Ports, Another

LEMMA PortsTwice ==
  ASSUME NEW s, NEW t, NEW u, But(s, t, PortFields), But(t, u, PortFields)
  PROVE  But(s, u, PortFields)
BY Zenon DEF But

LEMMA AllOpen ==
  ASSUME NEW s, DOMAIN s = Fields, s.blocked \subseteq Ports
  PROVE  LET t == RingPortUnblock(s) IN
         But(s, t, PortFields) /\ t.blocked = {}
<1> DEFINE a == Unblock(s, "west")
           b == Unblock(a, "east")
<1>1. But(s, a, PortFields) /\ a.blocked = s.blocked \ {"west"}
  BY UnblockPort, Zenon
<1>2. RingPortUnblock(s) = b
  BY Zenon DEF RingPortUnblock
<1> HIDE DEF a
<1>3. DOMAIN a = Fields
  BY <1>1, Zenon DEF But
<1>4. But(a, b, PortFields) /\ b.blocked = a.blocked \ {"east"}
  BY <1>3, UnblockPort, Zenon
<1> HIDE DEF b
<1>5. b.blocked = {}
  BY <1>1, <1>4, SMT DEF Ports
<1> QED BY <1>1, <1>2, <1>4, <1>5, PortsTwice, Zenon

LEMMA FailedStay ==
  ASSUME NEW s, DOMAIN s = Fields, s.blocked \subseteq Ports
  PROVE  LET t == NonFailPortUnblock(s) IN
         But(s, t, PortFields) /\ t.blocked = s.blocked \cap s.failed
<1> DEFINE a == IF "west" \in s.failed THEN s ELSE Unblock(s, "west")
           b == IF "east" \in s.failed THEN a ELSE Unblock(a, "east")
<1>1. But(s, a, PortFields)
  BY UnblockPort, ButSelf, Zenon
<1>2. a.blocked = IF "west" \in s.failed THEN s.blocked ELSE s.blocked \ {"west"}
  BY UnblockPort, Zenon
<1>3. NonFailPortUnblock(s) = b
  BY Zenon DEF NonFailPortUnblock
<1> HIDE DEF a
<1>4. DOMAIN a = Fields
  BY <1>1, Zenon DEF But
<1>5. But(a, b, PortFields)
  BY <1>4, UnblockPort, ButSelf, Zenon
<1>6. b.blocked = IF "east" \in s.failed THEN a.blocked ELSE a.blocked \ {"east"}
  BY <1>4, UnblockPort, Zenon
<1> HIDE DEF b
<1>7. b.blocked = s.blocked \cap s.failed
  BY <1>2, <1>6, SMT DEF Ports
<1> QED BY <1>1, <1>3, <1>5, <1>7, PortsTwice, Zenon

\* One port is closed, the other one opened.
LEMMA OneBlocked ==
  ASSUME NEW s, DOMAIN s = Fields, s.blocked \subseteq Ports, NEW p \in Ports
  PROVE  LET t == Unblock(Block(s, p), Another(p)) IN
         But(s, t, PortFields) /\ t.blocked = {p}
<1> DEFINE a == Block(s, p)
           b == Unblock(a, Another(p))
<1>1. But(s, a, PortFields) /\ a.blocked = s.blocked \cup {p}
  BY BlockPort, Zenon
<1> HIDE DEF a
<1>2. DOMAIN a = Fields
  BY <1>1, Zenon DEF But
<1>3. But(a, b, PortFields) /\ b.blocked = a.blocked \ {Another(p)}
  BY <1>2, UnblockPort, Zenon
<1> HIDE DEF b
<1>4. b.blocked = {p}
  BY <1>1, <1>3, AnotherPort, SMT
<1> QED BY <1>1, <1>3, <1>4, PortsTwice, Zenon DEF a, b

-----------------------------------------------------------------------------
(* Timers                                                                  *)

\* Four slots are enough for the timers of one ring.
Enough == Slots >= 4

ClockFields == {"idx", "run"}
SameGuard(s, t) == "guard" \in t.idx <=> "guard" \in s.idx

LEMMA ClockPut ==
  ASSUME NEW s, DOMAIN s = Fields, NEW I, NEW R,
         NEW t, t = Put(Put(s, "idx", I), "run", R)
  PROVE  But(s, t, ClockFields) /\ t.idx = I /\ t.run = R
<1> DEFINE a == Put(s, "idx", I)
           b == Put(a, "run", R)
<1>1. "idx" \in Fields /\ "run" \in Fields
  BY SMT DEF Fields
<1>2. But(s, a, {"idx"}) /\ a["idx"] = I
  BY <1>1, FieldPut, Zenon
<1> HIDE DEF a
<1>3. DOMAIN a = Fields
  BY <1>2, Zenon DEF But
<1>4. But(a, b, {"run"}) /\ b["run"] = R
  BY <1>1, <1>3, FieldPut, Zenon
<1> HIDE DEF b
<1>5. b["idx"] = a["idx"]
  BY <1>1, <1>4, SMT DEF But
<1>6. But(s, b, ClockFields)
  BY <1>2, <1>4, SMT DEF But, ClockFields
<1>7. t = b
  BY Zenon DEF a, b
<1> QED BY <1>2, <1>4, <1>5, <1>6, <1>7, SMT

LEMMA TimerNames == {"wtr", "wtb", "guard", "hold_off"} = Timers
BY Zenon DEF Timers

\* There is a slot for each timer that does not run.
LEMMA SlotFree ==
  ASSUME Enough, NEW s, Clocked(s), NEW k \in Timers, k \notin s.idx
  PROVE  ~ (InUse(s) >= Slots)
<1>1. \A x \in Timers : s.run[x] \in 0 .. 1
  BY SMT DEF Clocked
<1>2. s.run[k] = 0
  BY Zenon DEF Clocked
<1>3. /\ s.run["wtr"] \in 0 .. 1 /\ s.run["wtb"] \in 0 .. 1
      /\ s.run["guard"] \in 0 .. 1 /\ s.run["hold_off"] \in 0 .. 1
  BY <1>1, TimerNames, SMT
<1>4. \/ s.run["wtr"] = 0 \/ s.run["wtb"] = 0
      \/ s.run["guard"] = 0 \/ s.run["hold_off"] = 0
  BY <1>2, TimerNames, SMT
<1>5. InUse(s) <= 3
  BY <1>3, <1>4, SMT DEF InUse
<1> QED BY <1>3, <1>5, SlotsAssumption, SMT DEF Enough, InUse

LEMMA TimerStarts ==
  ASSUME Enough, NEW s, DOMAIN s = Fields, Clocked(s), NEW k \in Timers
  PROVE  LET t == StartTimer(s, k) IN
         But(s, t, ClockFields) /\ Clocked(t) /\ t.idx = s.idx \cup {k}
<1>1. CASE k \in s.idx
  <2>1. StartTimer(s, k) = s
    BY <1>1, Zenon DEF StartTimer
  <2>2. s.idx = s.idx \cup {k}
    BY <1>1, SMT
  <2> QED BY <2>1, <2>2, ButSelf, Zenon
<1>2. CASE k \notin s.idx
  <2> DEFINE I == s.idx \cup {k}
             R == [s.run EXCEPT ![k] = s.run[k] + 1]
  <2>0. PICK t : t = Put(Put(s, "idx", I), "run", R)
    OBVIOUS
  <2>1. ~ (k \in s.idx \/ InUse(s) >= Slots)
    BY <1>2, SlotFree, Zenon
  <2>2. StartTimer(s, k) = t
    BY <2>0, <2>1, Zenon DEF StartTimer, Put
  <2>3. I \subseteq Timers /\ R \in [Timers -> Int]
    BY SMT DEF Clocked
  <2>4. \A x \in Timers : R[x] = IF x \in I THEN 1 ELSE 0
    BY <1>2, SMT DEF Clocked
  <2> HIDE DEF I, R
  <2>5. But(s, t, ClockFields) /\ t.idx = I /\ t.run = R
    BY <2>0, ClockPut, SMT
  <2>6. Clocked(t)
    BY <2>3, <2>4, <2>5, Zenon DEF Clocked
  <2> QED BY <2>2, <2>5, <2>6, Zenon DEF I
<1> QED BY <1>1, <1>2

\* The slot is freed and the index is no longer valid.
LEMMA TimerFreed ==
  ASSUME NEW s, DOMAIN s = Fields, Clocked(s), NEW k \in Timers, k \in s.idx
  PROVE  LET t == Expired(s, k) IN
         But(s, t, ClockFields) /\ Clocked(t) /\ t.idx = s.idx \ {k}
<1> DEFINE I == s.idx \ {k}
           R == [s.run EXCEPT ![k] = s.run[k] - 1]
<1>0. PICK t : t = Put(Put(s, "idx", I), "run", R)
  OBVIOUS
<1>1. Expired(s, k) = t
  BY <1>0, Zenon DEF Expired, Put
<1>2. I \subseteq Timers /\ R \in [Timers -> Int]
  BY SMT DEF Clocked
<1>3. \A x \in Timers : R[x] = IF x \in I THEN 1 ELSE 0
  BY SMT DEF Clocked
<1> HIDE DEF I, R
<1>4. But(s, t, ClockFields) /\ t.idx = I /\ t.run = R
  BY <1>0, ClockPut, SMT
<1>5. Clocked(t)
  BY <1>2, <1>3, <1>4, Zenon DEF Clocked
<1> QED BY <1>1, <1>4, <1>5, Zenon DEF I

LEMMA TimerStops ==
  ASSUME NEW s, DOMAIN s = Fields, Clocked(s), NEW k \in Timers
  PROVE  LET t == StopTimer(s, k) IN
         But(s, t, ClockFields) /\ Clocked(t) /\ t.idx = s.idx \ {k}
<1>1. CASE k \notin s.idx
  <2>1. StopTimer(s, k) = s
    BY <1>1, Zenon DEF StopTimer
  <2>2. s.idx = s.idx \ {k}
    BY <1>1, SMT
  <2> QED BY <2>1, <2>2, ButSelf, Zenon
<1>2. CASE k \in s.idx
  <2>1. StopTimer(s, k) = Expired(s, k)
    BY <1>2, Zenon DEF StopTimer, Expired
  <2> QED BY <1>2, <2>1, TimerFreed, Zenon
<1> QED BY <1>1, <1>2

\* Only timers are touched, and not the guard timer.
Ticks(s, t) == But(s, t, ClockFields) /\ Clocked(t) /\ SameGuard(s, t)

LEMMA TicksChain ==
  ASSUME NEW s, NEW t, NEW u, Ticks(s, t), Ticks(t, u)
  PROVE  Ticks(s, u)
BY Zenon DEF Ticks, But, SameGuard

LEMMA TicksSelf ==
  ASSUME NEW s, DOMAIN s = Fields, Clocked(s)
  PROVE  Ticks(s, s)
BY ButSelf, Zenon DEF Ticks, SameGuard

LEMMA OtherStops ==
  ASSUME NEW s, DOMAIN s = Fields, Clocked(s), NEW k \in Timers, k # "guard"
  PROVE  Ticks(s, StopTimer(s, k))
<1>1. PICK t : t = StopTimer(s, k)
  OBVIOUS
<1>2. But(s, t, ClockFields) /\ Clocked(t) /\ t.idx = s.idx \ {k}
  BY <1>1, TimerStops, Zenon
<1>3. SameGuard(s, t)
  BY <1>2, SMT DEF SameGuard
<1> QED BY <1>1, <1>2, <1>3, Zenon DEF Ticks

LEMMA OtherStarts ==
  ASSUME Enough, NEW s, DOMAIN s = Fields, Clocked(s), NEW k \in Timers, k # "guard"
  PROVE  Ticks(s, StartTimer(s, k))
<1>1. PICK t : t = StartTimer(s, k)
  OBVIOUS
<1>2. But(s, t, ClockFields) /\ Clocked(t) /\ t.idx = s.idx \cup {k}
  BY <1>1, TimerStarts, Zenon
<1>3. SameGuard(s, t)
  BY <1>2, SMT DEF SameGuard
<1> QED BY <1>1, <1>2, <1>3, Zenon DEF Ticks

LEMMA OtherNames ==
  /\ "wtr" \in Timers /\ "wtr" # "guard" /\ "wtb" \in Timers /\ "wtb" # "guard"
  /\ "hold_off" \in Timers /\ "hold_off" # "guard" /\ "guard" \in Timers
BY SMT DEF Timers

LEMMA WaitStops ==
  ASSUME NEW s, DOMAIN s = Fields, Clocked(s)
  PROVE  Ticks(s, OwnerStopsWait(s))
<1>1. PICK a : a = WtrTimerStop(s)
  OBVIOUS
<1>2. Ticks(s, a)
  BY <1>1, OtherNames, OtherStops, Zenon DEF WtrTimerStop
<1>3. DOMAIN a = Fields /\ Clocked(a)
  BY <1>2, Zenon DEF Ticks, But
<1>4. Ticks(a, WtbTimerStop(a))
  BY <1>3, OtherNames, OtherStops, Zenon DEF WtbTimerStop
<1>5. Ticks(s, WtbTimerStop(WtrTimerStop(s)))
  BY <1>1, <1>2, <1>4, TicksChain, Zenon
<1> QED BY <1>5, TicksSelf, Zenon DEF OwnerStopsWait

LEMMA PendingLeft ==
  ASSUME NEW s, DOMAIN s = Fields, Clocked(s)
  PROVE  Ticks(s, LeavePending(s))
BY WaitStops, TicksSelf, Zenon DEF LeavePending

\* The WTR timer is the local request while it runs.
LEMMA WtrStarts ==
  ASSUME Enough, NEW s, DOMAIN s = Fields, Clocked(s)
  PROVE  LET t == WtrTimerStart(s) IN
         /\ But(s, t, {"idx", "run", "local"}) /\ Clocked(t) /\ SameGuard(s, t)
         /\ t.local = s.local \/ t.local = "WTR_RUNNING"
<1>0. {"idx", "run"} \subseteq {"idx", "run", "local"}
  BY SMT
<1>1. CASE "wtr" \in s.idx
  BY <1>1, ButSelf, Zenon DEF WtrTimerStart, SameGuard
<1>2. CASE "wtr" \notin s.idx
  <2>1. PICK a : a = StartTimer(s, "wtr")
    OBVIOUS
  <2>2. Ticks(s, a)
    BY <2>1, OtherNames, OtherStarts, Zenon
  <2>3. PICK t : t = Put(a, "local", "WTR_RUNNING")
    OBVIOUS
  <2>4. WtrTimerStart(s) = t
    BY <1>2, <2>1, <2>3, Zenon DEF WtrTimerStart, Put
  <2>5. "local" \in Fields /\ "idx" \in Fields /\ "run" \in Fields
    BY SMT DEF Fields
  <2>6. DOMAIN a = Fields
    BY <2>2, Zenon DEF Ticks, But
  <2>7. But(a, t, {"local"}) /\ t["local"] = "WTR_RUNNING"
    BY <2>3, <2>5, <2>6, FieldPut, Zenon
  <2>8. t.idx = a.idx /\ t.run = a.run
    BY <2>5, <2>7, SMT DEF But
  <2>9. But(s, t, {"idx", "run", "local"})
    BY <2>2, <2>7, SMT DEF But, Ticks, ClockFields
  <2>10. Clocked(t) /\ SameGuard(s, t)
    BY <2>2, <2>8, Zenon DEF Ticks, Clocked, SameGuard
  <2> QED BY <2>4, <2>7, <2>9, <2>10, SMT
<1> QED BY <1>1, <1>2

-----------------------------------------------------------------------------
(* What is sent, and the state                                             *)

LEMMA TxStopped ==
  ASSUME NEW s, DOMAIN s = Fields
  PROVE  LET t == TxStop(s) IN
         /\ But(s, t, {"sending", "raps"}) /\ ~ t.sending
         /\ t.raps = s.raps \/ t.raps = Nothing
<1>1. CASE s.sending
  <2> DEFINE a == Put(s, "sending", FALSE)
             b == Put(a, "raps", Nothing)
  <2>1. TxStop(s) = b
    BY <1>1, Zenon DEF TxStop, Put
  <2>2. "sending" \in Fields /\ "raps" \in Fields
    BY SMT DEF Fields
  <2>3. But(s, a, {"sending"}) /\ a["sending"] = FALSE
    BY <2>2, FieldPut, Zenon
  <2> HIDE DEF a
  <2>4. DOMAIN a = Fields
    BY <2>3, Zenon DEF But
  <2>5. But(a, b, {"raps"}) /\ b["raps"] = Nothing
    BY <2>2, <2>4, FieldPut, Zenon
  <2> HIDE DEF b
  <2>6. b["sending"] = a["sending"]
    BY <2>2, <2>5, SMT DEF But
  <2>7. But(s, b, {"sending", "raps"})
    BY <2>3, <2>5, SMT DEF But
  <2> QED BY <2>1, <2>3, <2>5, <2>6, <2>7, SMT
<1>2. CASE ~ s.sending
  BY <1>2, ButSelf, Zenon DEF TxStop
<1> QED BY <1>1, <1>2

SentFields == {"sending", "raps", "out"}
Frame(req, status) == [req |-> req, status |-> status]
\* t has just announced a frame; the rest is s.
Says(s, t, req, status) ==
  /\ But(s, t, SentFields) /\ t.sending = TRUE
  /\ t.raps = Frame(req, status) /\ t.out = Append(s.out, Frame(req, status))

LEMMA Announces ==
  ASSUME NEW s, DOMAIN s = Fields, NEW req, NEW status
  PROVE  Says(s, Announce(s, req, status), req, status)
<1> DEFINE m == Frame(req, status)
           a == Put(s, "raps", m)
           b == Put(a, "out", Append(s.out, m))
           c == Put(b, "sending", TRUE)
<1>1. Announce(s, req, status) = c
  BY Zenon DEF Announce, TxStart, RapsMsgSend, Put, Frame
<1>2. "raps" \in Fields /\ "out" \in Fields /\ "sending" \in Fields
  BY SMT DEF Fields
<1> HIDE DEF m
<1>3. But(s, a, {"raps"}) /\ a["raps"] = m
  BY <1>2, FieldPut, Zenon
<1> HIDE DEF a
<1>4. DOMAIN a = Fields
  BY <1>3, Zenon DEF But
<1>5. But(a, b, {"out"}) /\ b["out"] = Append(s.out, m)
  BY <1>2, <1>4, FieldPut, Zenon
<1> HIDE DEF b
<1>6. DOMAIN b = Fields
  BY <1>5, Zenon DEF But
<1>7. But(b, c, {"sending"}) /\ c["sending"] = TRUE
  BY <1>2, <1>6, FieldPut, Zenon
<1> HIDE DEF c
<1>8. c["raps"] = m /\ c["out"] = Append(s.out, m)
  BY <1>2, <1>3, <1>5, <1>7, SMT DEF But
<1>9. But(s, c, SentFields)
  BY <1>3, <1>5, <1>7, SMT DEF But, SentFields
<1>10. c.raps = Frame(req, status) /\ c.out = Append(s.out, Frame(req, status)) /\ c.sending = TRUE
  BY <1>7, <1>8, Zenon DEF m
<1>11. Says(s, c, req, status)
  BY <1>9, <1>10, Zenon DEF Says
<1> QED BY <1>1, <1>11, Zenon

LEMMA Goes ==
  ASSUME NEW s, DOMAIN s = Fields, NEW state
  PROVE  But(s, Goto(s, state), {"state"}) /\ Goto(s, state).state = state
<1>1. "state" \in Fields
  BY SMT DEF Fields
<1>2. Goto(s, state) = Put(s, "state", state)
  BY Zenon DEF Goto, Put
<1>3. But(s, Put(s, "state", state), {"state"}) /\ Put(s, "state", state)["state"] = state
  BY <1>1, FieldPut, Zenon
<1> QED BY <1>2, <1>3, SMT

LEMMA Flushes ==
  ASSUME NEW s, DOMAIN s = Fields
  PROVE  But(s, Flush(s), {"flush"})
<1>1. "flush" \in Fields
  BY SMT DEF Fields
<1>2. Flush(s) = Put(s, "flush", TRUE)
  BY Zenon DEF Flush, Put
<1> QED BY <1>1, <1>2, FieldPut, ZenonT(60)

LEMMA Asks ==
  ASSUME NEW s, DOMAIN s = Fields, NEW v
  PROVE  LET t == Put(s, "local", v) IN But(s, t, {"local"}) /\ t.local = v
<1>1. "local" \in Fields
  BY SMT DEF Fields
<1>2. PICK t : t = Put(s, "local", v)
  OBVIOUS
<1>3. But(s, t, {"local"}) /\ t["local"] = v
  BY <1>1, <1>2, FieldPut, Zenon
<1> QED BY <1>2, <1>3, SMT

LEMMA Learns ==
  ASSUME NEW s, DOMAIN s = Fields, NEW v
  PROVE  LET t == Put(s, "failed", v) IN But(s, t, {"failed"}) /\ t.failed = v
<1>1. "failed" \in Fields
  BY SMT DEF Fields
<1>2. PICK t : t = Put(s, "failed", v)
  OBVIOUS
<1>3. But(s, t, {"failed"}) /\ t["failed"] = v
  BY <1>1, <1>2, FieldPut, Zenon
<1> QED BY <1>2, <1>3, SMT

LEMMA Quiets ==
  ASSUME NEW s, DOMAIN s = Fields
  PROVE  But(s, Quiet(s), {"out", "flush", "cleared"}) /\ Quiet(s).out = << >>
<1> DEFINE a == Put(s, "out", << >>)
           b == Put(a, "flush", FALSE)
           c == Put(b, "cleared", FALSE)
<1>1. Quiet(s) = c
  BY Zenon DEF Quiet, Put
<1>2. "out" \in Fields /\ "flush" \in Fields /\ "cleared" \in Fields
  BY SMT DEF Fields
<1>3. But(s, a, {"out"}) /\ a["out"] = << >>
  BY <1>2, FieldPut, Zenon
<1> HIDE DEF a
<1>4. DOMAIN a = Fields
  BY <1>3, Zenon DEF But
<1>5. But(a, b, {"flush"})
  BY <1>2, <1>4, FieldPut, Zenon
<1> HIDE DEF b
<1>6. DOMAIN b = Fields
  BY <1>5, Zenon DEF But
<1>7. But(b, c, {"cleared"})
  BY <1>2, <1>6, FieldPut, Zenon
<1> HIDE DEF c
<1>8. c["out"] = << >>
  BY <1>2, <1>3, <1>5, <1>7, SMT DEF But
<1>9. But(s, c, {"out", "flush", "cleared"})
  BY <1>3, <1>5, <1>7, SMT DEF But
<1> QED BY <1>1, <1>8, <1>9, SMT

-----------------------------------------------------------------------------
(* Steps that leave the set-up and the failed ports as they are            *)

Core == Fields \ {"roles", "revertive", "holds", "id", "failed"}
Moves(s, t) == But(s, t, Core)

LEMMA CoreParts ==
  /\ PortFields \subseteq Core /\ ClockFields \subseteq Core /\ SentFields \subseteq Core
  /\ {"sending", "raps"} \subseteq Core /\ {"state"} \subseteq Core
  /\ {"flush"} \subseteq Core /\ {"local"} \subseteq Core
  /\ {"idx", "run", "local"} \subseteq Core /\ {"out", "flush", "cleared"} \subseteq Core
BY SMT DEF Core, Fields, PortFields, ClockFields, SentFields

LEMMA MovesChain ==
  ASSUME NEW s, NEW t, NEW u, Moves(s, t), Moves(t, u)
  PROVE  Moves(s, u)
BY Zenon DEF Moves, But

\* Facts about a step, one for each set of fields.
LEMMA PortsMove ==
  ASSUME NEW s, NEW t, But(s, t, PortFields)
  PROVE  /\ Moves(s, t) /\ t.state = s.state /\ t.local = s.local
         /\ t.idx = s.idx /\ t.run = s.run
         /\ t.sending = s.sending /\ t.raps = s.raps /\ t.out = s.out
<1>1. Moves(s, t)
  BY CoreParts, ButMore, Zenon DEF Moves
<1> QED BY <1>1, SMT DEF But, Fields, PortFields

LEMMA ClocksMove ==
  ASSUME NEW s, NEW t, But(s, t, ClockFields)
  PROVE  /\ Moves(s, t) /\ t.state = s.state /\ t.local = s.local /\ t.blocked = s.blocked
         /\ t.sending = s.sending /\ t.raps = s.raps /\ t.out = s.out
<1>1. Moves(s, t)
  BY CoreParts, ButMore, Zenon DEF Moves
<1> QED BY <1>1, SMT DEF But, Fields, ClockFields

LEMMA WtrMoves ==
  ASSUME NEW s, NEW t, But(s, t, {"idx", "run", "local"})
  PROVE  /\ Moves(s, t) /\ t.state = s.state /\ t.blocked = s.blocked
         /\ t.sending = s.sending /\ t.raps = s.raps /\ t.out = s.out
<1>1. Moves(s, t)
  BY CoreParts, ButMore, Zenon DEF Moves
<1> QED BY <1>1, SMT DEF But, Fields

LEMMA SentMoves ==
  ASSUME NEW s, NEW t, But(s, t, SentFields)
  PROVE  /\ Moves(s, t) /\ t.state = s.state /\ t.local = s.local /\ t.blocked = s.blocked
         /\ t.idx = s.idx /\ t.run = s.run
<1>1. Moves(s, t)
  BY CoreParts, ButMore, Zenon DEF Moves
<1> QED BY <1>1, SMT DEF But, Fields, SentFields

LEMMA StopMoves ==
  ASSUME NEW s, NEW t, But(s, t, {"sending", "raps"})
  PROVE  /\ Moves(s, t) /\ t.state = s.state /\ t.local = s.local /\ t.blocked = s.blocked
         /\ t.idx = s.idx /\ t.run = s.run /\ t.out = s.out
<1>1. Moves(s, t)
  BY CoreParts, ButMore, Zenon DEF Moves
<1> QED BY <1>1, SMT DEF But, Fields

LEMMA StateMoves ==
  ASSUME NEW s, NEW t, But(s, t, {"state"})
  PROVE  /\ Moves(s, t) /\ t.local = s.local /\ t.blocked = s.blocked
         /\ t.idx = s.idx /\ t.run = s.run
         /\ t.sending = s.sending /\ t.raps = s.raps /\ t.out = s.out
<1>1. Moves(s, t)
  BY CoreParts, ButMore, Zenon DEF Moves
<1> QED BY <1>1, SMT DEF But, Fields

LEMMA FlushMoves ==
  ASSUME NEW s, NEW t, But(s, t, {"flush"})
  PROVE  /\ Moves(s, t) /\ t.state = s.state /\ t.local = s.local /\ t.blocked = s.blocked
         /\ t.idx = s.idx /\ t.run = s.run
         /\ t.sending = s.sending /\ t.raps = s.raps /\ t.out = s.out
<1>1. Moves(s, t)
  BY CoreParts, ButMore, Zenon DEF Moves
<1> QED BY <1>1, SMT DEF But, Fields

LEMMA LocalMoves ==
  ASSUME NEW s, NEW t, But(s, t, {"local"})
  PROVE  /\ Moves(s, t) /\ t.state = s.state /\ t.blocked = s.blocked
         /\ t.idx = s.idx /\ t.run = s.run
         /\ t.sending = s.sending /\ t.raps = s.raps /\ t.out = s.out
<1>1. Moves(s, t)
  BY CoreParts, ButMore, Zenon DEF Moves
<1> QED BY <1>1, SMT DEF But, Fields

LEMMA QuietMoves ==
  ASSUME NEW s, NEW t, But(s, t, {"out", "flush", "cleared"})
  PROVE  /\ Moves(s, t) /\ t.state = s.state /\ t.local = s.local /\ t.blocked = s.blocked
         /\ t.idx = s.idx /\ t.run = s.run
         /\ t.sending = s.sending /\ t.raps = s.raps
<1>1. Moves(s, t)
  BY CoreParts, ButMore, Zenon DEF Moves
<1> QED BY <1>1, SMT DEF But, Fields

LEMMA SetupStays ==
  ASSUME NEW s, NEW t, Moves(s, t)
  PROVE  /\ DOMAIN t = Fields /\ t.roles = s.roles /\ t.revertive = s.revertive
         /\ t.holds = s.holds /\ t.id = s.id /\ t.failed = s.failed
<1>1. \A f \in {"roles", "revertive", "holds", "id", "failed"} : f \in Fields \ Core
  BY SMT DEF Core, Fields
<1>2. \A f \in {"roles", "revertive", "holds", "id", "failed"} : t[f] = s[f]
  BY <1>1, Zenon DEF Moves, But
<1>3. DOMAIN t = Fields
  BY Zenon DEF Moves, But
<1> QED BY <1>2, <1>3, SMT

-----------------------------------------------------------------------------
(* Frames                                                                  *)

LEMMA RolesDecide ==
  ASSUME NEW s, NEW t, t.roles = s.roles
  PROVE  Owner(t) = Owner(s) /\ RplPort(t) = RplPort(s) /\ NodeType(t) = NodeType(s)
BY Zenon DEF Owner, RplPort, NodeType, HasRole

LEMMA RplIsAPort ==
  ASSUME NEW s, s.roles \in [Ports -> Roles]
  PROVE  RplPort(s) \in Ports
BY SMT DEF RplPort, Ports

LEMMA TruthKept ==
  ASSUME NEW s, NEW t, Truthful(s), Moves(s, t), t.blocked = s.blocked,
         t.sending = s.sending, t.raps = s.raps, s.state = "IDLE" => t.state = "IDLE"
  PROVE  Truthful(t)
<1>1. t.roles = s.roles /\ t.failed = s.failed
  BY SetupStays, Zenon
<1>2. Owner(t) = Owner(s) /\ RplPort(t) = RplPort(s)
  BY <1>1, RolesDecide, Zenon
<1>3. GuardsRpl(s) => GuardsRpl(t)
  BY <1>2, Zenon DEF GuardsRpl
<1> QED BY <1>1, <1>3, Zenon DEF Truthful

LEMMA SilentTruth ==
  ASSUME NEW t, ~ t.sending, t.raps \in OwnMessage
  PROVE  Truthful(t)
BY Zenon DEF Truthful

\* What the state table makes of a frame at a node without a failed port.
Listens(s) ==
  Modest(s) /\ s.local = "LAST" /\ s.failed = {} /\ Truthful(s)
Heard(s, t) ==
  /\ Moves(s, t) /\ Clocked(t) /\ SameGuard(s, t) /\ t.out = s.out
  /\ t.state \in {"IDLE", "PENDING", "PROTECTION"}
  /\ t.local \in {"LAST", "WTR_RUNNING"}
  /\ t.blocked \subseteq Ports /\ Truthful(t)

LEMMA SameClocks ==
  ASSUME NEW w, Clocked(w), NEW t, t.idx = w.idx, t.run = w.run
  PROVE  Clocked(t) /\ SameGuard(w, t) /\ \A s : SameGuard(s, w) => SameGuard(s, t)
<1>1. Clocked(t)
  BY SMT DEF Clocked
<1>2. SameGuard(w, t) /\ \A s : SameGuard(s, w) => SameGuard(s, t)
  BY Zenon DEF SameGuard
<1> QED BY <1>1, <1>2

LEMMA NotHeard ==
  ASSUME NEW s, Listens(s)
  PROVE  Heard(s, s)
<1>1. Moves(s, s)
  BY ButSelf, Zenon DEF Listens, Modest, Moves
<1> QED BY <1>1, SMT DEF Heard, Listens, Modest, SameGuard

\* Ports are switched, then transmission is stopped.
Silent(s, t) ==
  /\ Moves(s, t) /\ t.idx = s.idx /\ t.run = s.run /\ t.out = s.out
  /\ t.state = s.state /\ t.local = s.local
  /\ t.blocked \subseteq Ports /\ ~ t.sending /\ t.raps \in OwnMessage

LEMMA Silences ==
  ASSUME NEW s, Truthful(s), NEW a, But(s, a, PortFields), a.blocked \subseteq Ports
  PROVE  Silent(s, TxStop(a)) /\ TxStop(a).blocked = a.blocked
<1>1. PICK t : t = TxStop(a)
  OBVIOUS
<1>2. DOMAIN a = Fields
  BY Zenon DEF But
<1>3. But(a, t, {"sending", "raps"}) /\ ~ t.sending /\ (t.raps = a.raps \/ t.raps = Nothing)
  BY <1>1, <1>2, TxStopped, Zenon
<1>4. /\ Moves(s, a) /\ a.state = s.state /\ a.local = s.local
      /\ a.idx = s.idx /\ a.run = s.run /\ a.raps = s.raps /\ a.out = s.out
  BY PortsMove, Zenon
<1>5. /\ Moves(a, t) /\ t.state = a.state /\ t.local = a.local /\ t.blocked = a.blocked
      /\ t.idx = a.idx /\ t.run = a.run /\ t.out = a.out
  BY <1>3, StopMoves, Zenon
<1>6. Moves(s, t)
  BY <1>4, <1>5, MovesChain, Zenon
<1>7. s.raps \in OwnMessage /\ Nothing \in OwnMessage
  BY SMT DEF Truthful, Nothing, OwnMessage
<1>8. t.raps \in OwnMessage
  BY <1>3, <1>4, <1>7, Zenon
<1> QED BY <1>1, <1>3, <1>4, <1>5, <1>6, <1>8, Zenon DEF Silent

\* A node that fell silent goes on to another state.
LEMMA SilentHeard ==
  ASSUME NEW s, Listens(s), NEW t, Silent(s, t), NEW d, Ticks(t, d),
         NEW state \in {"IDLE", "PENDING", "PROTECTION"}
  PROVE  Heard(s, Goto(d, state)) /\ Goto(d, state).blocked = t.blocked
<1>1. PICK u : u = Goto(d, state)
  OBVIOUS
<1>2. But(t, d, ClockFields) /\ Clocked(d) /\ SameGuard(t, d)
  BY Zenon DEF Ticks
<1>3. /\ Moves(t, d) /\ d.state = t.state /\ d.local = t.local /\ d.blocked = t.blocked
      /\ d.sending = t.sending /\ d.raps = t.raps /\ d.out = t.out
  BY <1>2, ClocksMove, Zenon
<1>4. DOMAIN d = Fields
  BY <1>2, Zenon DEF But
<1>5. But(d, u, {"state"}) /\ u.state = state
  BY <1>1, <1>4, Goes, Zenon
<1>6. /\ Moves(d, u) /\ u.local = d.local /\ u.blocked = d.blocked
      /\ u.idx = d.idx /\ u.run = d.run
      /\ u.sending = d.sending /\ u.raps = d.raps /\ u.out = d.out
  BY <1>5, StateMoves, Zenon
<1>7. Moves(s, u)
  BY <1>3, <1>6, MovesChain, Zenon DEF Silent
<1>8. Truthful(u)
  <2>1. ~ u.sending /\ u.raps \in OwnMessage
    BY <1>3, <1>6, Zenon DEF Silent
  <2> QED BY <2>1, SilentTruth, Zenon
<1>9. Clocked(u) /\ SameGuard(s, u)
  <2>1. Clocked(u) /\ SameGuard(d, u)
    BY <1>2, <1>6, SameClocks, Zenon
  <2> QED BY <1>2, <2>1, Zenon DEF Silent, SameGuard
<1>10. u.out = s.out /\ u.local = "LAST" /\ u.blocked = t.blocked /\ u.blocked \subseteq Ports
  BY <1>3, <1>6, Zenon DEF Silent, Listens
<1>11. Heard(s, u)
  BY <1>5, <1>7, <1>8, <1>9, <1>10, SMT DEF Heard
<1> QED BY <1>1, <1>10, <1>11, Zenon

LEMMA SilentTicks ==
  ASSUME NEW s, Listens(s), NEW t, Silent(s, t)
  PROVE  DOMAIN t = Fields /\ Clocked(t) /\ Ticks(t, t) /\ t.local = "LAST"
<1>1. DOMAIN t = Fields
  BY Zenon DEF Silent, Moves, But
<1>2. Clocked(t)
  BY Zenon DEF Silent, Listens, Modest, Clocked
<1> QED BY <1>1, <1>2, TicksSelf, Zenon DEF Silent, Listens

LEMMA RapsSfHeard ==
  ASSUME NEW s, Listens(s)
  PROVE  Heard(s, RapsSf(s))
<1>1. CASE s.state = "PROTECTION"
  <2>1. RapsSf(s) = s
    BY <1>1, SMT DEF RapsSf
  <2> QED BY <2>1, NotHeard, Zenon
<1>2. CASE s.state # "PROTECTION"
  <2>0. DOMAIN s = Fields /\ s.blocked \subseteq Ports /\ Truthful(s)
    BY Zenon DEF Listens, Modest
  <2>1. PICK a : a = NonFailPortUnblock(s)
    OBVIOUS
  <2>2. But(s, a, PortFields) /\ a.blocked = s.blocked \cap s.failed
    BY <2>0, <2>1, FailedStay, Zenon
  <2>3. a.blocked \subseteq Ports
    BY <2>0, <2>2, SMT
  <2>4. PICK t : t = TxStop(a)
    OBVIOUS
  <2>5. Silent(s, t)
    BY <2>0, <2>2, <2>3, <2>4, Silences, Zenon
  <2>6. PICK d : d = LeavePending(t)
    OBVIOUS
  <2>7. Ticks(t, d)
    BY <2>5, <2>6, SilentTicks, PendingLeft, Zenon
  <2>8. RapsSf(s) = Goto(d, "PROTECTION")
    <3>1. s.state \notin {"PROTECTION", "FORCED_SWITCH"}
      BY <1>2, SMT DEF Listens, Modest
    <3> QED BY <2>1, <2>4, <2>6, <3>1, Zenon DEF RapsSf
  <2> QED BY <2>5, <2>7, <2>8, SilentHeard, Zenon
<1> QED BY <1>1, <1>2

LEMMA RapsNrHeard ==
  ASSUME Enough, NEW s, Listens(s), NEW f
  PROVE  LET t == RapsNr(s, f) IN
         /\ Heard(s, t)
         /\ t.blocked = s.blocked \/ s.id < f
         /\ GuardsRpl(s) => t = s
<1> DEFINE opened == TxStop(NonFailPortUnblock(s))
<1>0. DOMAIN s = Fields /\ s.blocked \subseteq Ports /\ Truthful(s) /\ Clocked(s)
  BY Zenon DEF Listens, Modest
<1>1. Heard(s, opened)
  <2>1. PICK a : a = NonFailPortUnblock(s)
    OBVIOUS
  <2>2. But(s, a, PortFields) /\ a.blocked = s.blocked \cap s.failed
    BY <1>0, <2>1, FailedStay, Zenon
  <2>3. a.blocked \subseteq Ports
    BY <1>0, <2>2, SMT
  <2>4. PICK t : t = TxStop(a)
    OBVIOUS
  <2>5. Silent(s, t)
    BY <1>0, <2>2, <2>3, <2>4, Silences, Zenon
  <2>6. Clocked(t) /\ t.local = "LAST"
    BY <2>5, SilentTicks, Zenon
  <2>7. Truthful(t)
    BY <2>5, SilentTruth, Zenon DEF Silent
  <2>8. SameGuard(s, t)
    BY <2>5, Zenon DEF Silent, SameGuard
  <2>9. t.state \in {"IDLE", "PENDING", "PROTECTION"} /\ t.local \in {"LAST", "WTR_RUNNING"}
    BY <2>5, <2>6, SMT DEF Silent, Listens, Modest
  <2>10. Heard(s, t)
    BY <2>5, <2>6, <2>7, <2>8, <2>9, Zenon DEF Heard, Silent
  <2> QED BY <2>1, <2>4, <2>10, Zenon
<1>2. CASE s.state = "IDLE"
  <2>1. RapsNr(s, f) = IF NodeType(s) = "TRANSFER" /\ s.id < f THEN opened ELSE s
    BY <1>2, SMT DEF RapsNr
  <2>2. GuardsRpl(s) => NodeType(s) # "TRANSFER"
    BY SMT DEF GuardsRpl, Owner
  <2> HIDE DEF opened
  <2> QED BY <1>1, <2>1, <2>2, NotHeard, Zenon
<1>3. CASE s.state = "PENDING"
  <2>1. RapsNr(s, f) = IF s.id < f THEN opened ELSE s
    BY <1>3, SMT DEF RapsNr
  <2>2. ~ GuardsRpl(s)
    BY <1>3, SMT DEF GuardsRpl
  <2> HIDE DEF opened
  <2> QED BY <1>1, <2>1, <2>2, NotHeard, Zenon
<1>4. CASE s.state = "PROTECTION"
  <2>1. PICK w : w = IF Revertive(s) THEN WtrTimerStart(s) ELSE s
    OBVIOUS
  <2>2. PICK t : t = Goto(w, "PENDING")
    OBVIOUS
  <2>3. RapsNr(s, f) = t
    BY <1>4, <2>1, <2>2, SMT DEF RapsNr
  <2>4. /\ But(s, w, {"idx", "run", "local"}) /\ Clocked(w) /\ SameGuard(s, w)
        /\ w.local = s.local \/ w.local = "WTR_RUNNING"
    BY <1>0, <2>1, WtrStarts, ButSelf, Zenon DEF SameGuard
  <2>5. /\ Moves(s, w) /\ w.state = s.state /\ w.blocked = s.blocked
        /\ w.sending = s.sending /\ w.raps = s.raps /\ w.out = s.out
    BY <2>4, WtrMoves, Zenon
  <2>6. DOMAIN w = Fields
    BY <2>4, Zenon DEF But
  <2>7. But(w, t, {"state"}) /\ t.state = "PENDING"
    BY <2>2, <2>6, Goes, Zenon
  <2>8. /\ Moves(w, t) /\ t.local = w.local /\ t.blocked = w.blocked
        /\ t.idx = w.idx /\ t.run = w.run
        /\ t.sending = w.sending /\ t.raps = w.raps /\ t.out = w.out
    BY <2>7, StateMoves, Zenon
  <2>9. Moves(s, t)
    BY <2>5, <2>8, MovesChain, Zenon
  <2>10. t.blocked = s.blocked /\ t.sending = s.sending /\ t.raps = s.raps /\ t.out = s.out
    BY <2>5, <2>8, Zenon
  <2>11. s.state # "IDLE"
    BY <1>4, SMT
  <2>12. Truthful(t)
    BY <1>0, <2>9, <2>10, <2>11, TruthKept, Zenon
  <2>13. Clocked(t) /\ SameGuard(s, t)
    BY <2>4, <2>8, SameClocks, Zenon
  <2>14. t.local \in {"LAST", "WTR_RUNNING"} /\ t.state \in {"IDLE", "PENDING", "PROTECTION"}
    BY <2>4, <2>7, <2>8, SMT DEF Listens
  <2>15. t.blocked \subseteq Ports
    BY <1>0, <2>10, Zenon
  <2>16. Heard(s, t)
    BY <2>9, <2>10, <2>12, <2>13, <2>14, <2>15, Zenon DEF Heard
  <2>17. ~ GuardsRpl(s)
    BY <2>11, Zenon DEF GuardsRpl
  <2> QED BY <2>3, <2>10, <2>16, <2>17, Zenon
<1> QED BY <1>2, <1>3, <1>4, SMT DEF Listens, Modest

\* What NR,RB opens in the idle state: the ports with no role in the ring.
Opened(s, t, p) == IF s.roles[p] = "TRANSFER" THEN Unblock(t, p) ELSE t

LEMMA PlainOpens ==
  ASSUME NEW s, NEW t, DOMAIN t = Fields, t.blocked \subseteq Ports, NEW p
  PROVE  But(t, Opened(s, t, p), PortFields) /\ Opened(s, t, p).blocked \subseteq Ports
<1>1. CASE s.roles[p] = "TRANSFER"
  <2>1. PICK u : u = Unblock(t, p)
    OBVIOUS
  <2>2. But(t, u, PortFields) /\ u.blocked = t.blocked \ {p}
    BY <2>1, UnblockPort, Zenon
  <2>3. u.blocked \subseteq Ports
    BY <2>2, SMT
  <2> QED BY <1>1, <2>1, <2>2, <2>3, Zenon DEF Opened
<1>2. CASE s.roles[p] # "TRANSFER"
  BY <1>2, ButSelf, Zenon DEF Opened
<1> QED BY <1>1, <1>2

LEMMA RapsNrRbHeard ==
  ASSUME NEW s, Listens(s), ~ Owner(s)
  PROVE  Heard(s, RapsNrRb(s))
<1>0. DOMAIN s = Fields /\ s.blocked \subseteq Ports /\ Truthful(s) /\ Clocked(s)
  BY Zenon DEF Listens, Modest
<1>p. RplPort(s) \in Ports
  BY RplIsAPort, Zenon DEF Listens, Modest
<1>1. CASE s.state = "IDLE"
  <2>1. PICK a : a = Opened(s, s, "west")
    OBVIOUS
  <2>2. PICK b : b = Opened(s, a, "east")
    OBVIOUS
  <2>3. PICK t : t = TxStop(b)
    OBVIOUS
  <2>4. RapsNrRb(s) = t
    BY <1>1, <2>1, <2>2, <2>3, SMT DEF RapsNrRb, Opened
  <2>5. But(s, a, PortFields) /\ a.blocked \subseteq Ports
    BY <1>0, <2>1, PlainOpens, Zenon
  <2>6. DOMAIN a = Fields
    BY <2>5, Zenon DEF But
  <2>7. But(a, b, PortFields) /\ b.blocked \subseteq Ports
    BY <2>2, <2>5, <2>6, PlainOpens, Zenon
  <2>8. But(s, b, PortFields)
    BY <2>5, <2>7, PortsTwice, Zenon
  <2>9. Silent(s, t)
    BY <1>0, <2>3, <2>7, <2>8, Silences, Zenon
  <2>10. Ticks(t, t) /\ DOMAIN t = Fields
    BY <2>9, SilentTicks, Zenon
  <2>11. Heard(s, Goto(t, "IDLE"))
    BY <2>9, <2>10, SilentHeard, Zenon
  <2>12. Heard(s, t)
    <3>1. Moves(s, t) /\ t.out = s.out /\ t.blocked \subseteq Ports
      BY <2>9, Zenon DEF Silent
    <3>2. Clocked(t) /\ SameGuard(s, t)
      BY <1>0, <2>9, SameClocks, Zenon DEF Silent
    <3>3. t.state \in {"IDLE", "PENDING", "PROTECTION"} /\ t.local \in {"LAST", "WTR_RUNNING"}
      BY <1>1, <2>9, SMT DEF Silent, Listens
    <3>4. Truthful(t)
      BY <2>9, SilentTruth, Zenon DEF Silent
    <3> QED BY <3>1, <3>2, <3>3, <3>4, Zenon DEF Heard
  <2> QED BY <2>4, <2>12, Zenon
<1>2. CASE s.state = "PENDING"
  <2>1. PICK a : a = IF NodeType(s) = "NEIGHBOR" THEN BlockRpl(s) ELSE RingPortUnblock(s)
    OBVIOUS
  <2>2. PICK t : t = TxStop(a)
    OBVIOUS
  <2>3. RapsNrRb(s) = Goto(t, "IDLE")
    <3>1. NodeType(s) # "OWNER"
      BY Zenon DEF Owner
    <3>2. CASE NodeType(s) = "NEIGHBOR"
      BY <1>2, <2>1, <2>2, <3>2, SMT DEF RapsNrRb
    <3>3. CASE NodeType(s) # "NEIGHBOR"
      BY <1>2, <2>1, <2>2, <3>1, <3>3, SMT DEF RapsNrRb
    <3> QED BY <3>2, <3>3
  <2>4. But(s, a, PortFields) /\ a.blocked \subseteq Ports
    <3>1. CASE NodeType(s) = "NEIGHBOR"
      <4>1. But(s, a, PortFields) /\ a.blocked = {RplPort(s)}
        BY <1>0, <1>p, <2>1, <3>1, OneBlocked, Zenon DEF BlockRpl
      <4> QED BY <1>p, <4>1, SMT
    <3>2. CASE NodeType(s) # "NEIGHBOR"
      <4>1. But(s, a, PortFields) /\ a.blocked = {}
        BY <1>0, <2>1, <3>2, AllOpen, Zenon
      <4> QED BY <4>1, SMT
    <3> QED BY <3>1, <3>2
  <2>5. Silent(s, t)
    BY <1>0, <2>2, <2>4, Silences, Zenon
  <2>6. Ticks(t, t)
    BY <2>5, SilentTicks, Zenon
  <2> QED BY <2>3, <2>5, <2>6, SilentHeard, Zenon
<1>3. CASE s.state = "PROTECTION"
  <2>1. PICK t : t = Goto(s, "PENDING")
    OBVIOUS
  <2>2. RapsNrRb(s) = t
    BY <1>3, <2>1, SMT DEF RapsNrRb
  <2>3. But(s, t, {"state"}) /\ t.state = "PENDING"
    BY <1>0, <2>1, Goes, Zenon
  <2>4. /\ Moves(s, t) /\ t.local = s.local /\ t.blocked = s.blocked
        /\ t.idx = s.idx /\ t.run = s.run
        /\ t.sending = s.sending /\ t.raps = s.raps /\ t.out = s.out
    BY <2>3, StateMoves, Zenon
  <2>5. s.state # "IDLE"
    BY <1>3, SMT
  <2>6. Truthful(t)
    BY <1>0, <2>4, <2>5, TruthKept, Zenon
  <2>7. Clocked(t) /\ SameGuard(s, t)
    BY <1>0, <2>4, SameClocks, Zenon
  <2>8. t.local \in {"LAST", "WTR_RUNNING"} /\ t.state \in {"IDLE", "PENDING", "PROTECTION"}
    BY <2>3, <2>4, SMT DEF Listens
  <2>9. Heard(s, t)
    BY <1>0, <2>4, <2>6, <2>7, <2>8, Zenon DEF Heard
  <2> QED BY <2>2, <2>9, Zenon
<1> QED BY <1>1, <1>2, <1>3, SMT DEF Listens, Modest

-----------------------------------------------------------------------------
(* The priority logic                                                      *)

\* A request is dropped or carried out, and then the local request forgotten.
LEMMA HandleDrops ==
  ASSUME NEW s, NEW request, NEW arg, request # "CLEAR_SF"
  PROVE  Handle(s, request, arg) =
           IF Priority[request] > Priority[s.local] THEN s
           ELSE Act(Put(s, "local", "LAST"), request, arg)
BY Zenon DEF Handle, Put

\* A failed port shields the node from frames.
LEMMA FrameDropped ==
  ASSUME NEW s, s.local = "SF", NEW request \in {"RAPS_SF", "RAPS_NR", "RAPS_NR_RB"}, NEW arg
  PROVE  Handle(s, request, arg) = s
<1>1. Priority[request] > Priority[s.local]
  BY SMT DEF Priority
<1>2. request # "CLEAR_SF"
  BY SMT
<1> QED BY <1>1, <1>2, HandleDrops, Zenon

LEMMA Forgets ==
  ASSUME NEW s, Sane(s), s.failed = {}, NEW d, d = Put(s, "local", "LAST")
  PROVE  /\ Listens(d) /\ Moves(s, d) /\ d.state = s.state /\ d.blocked = s.blocked
         /\ d.idx = s.idx /\ d.run = s.run /\ d.sending = s.sending
         /\ d.raps = s.raps /\ d.out = s.out
<1>0. DOMAIN s = Fields /\ Clocked(s) /\ Truthful(s)
  BY Zenon DEF Sane, Modest
<1>1. But(s, d, {"local"}) /\ d.local = "LAST"
  BY <1>0, Asks, Zenon
<1>2. /\ Moves(s, d) /\ d.state = s.state /\ d.blocked = s.blocked
      /\ d.idx = s.idx /\ d.run = s.run
      /\ d.sending = s.sending /\ d.raps = s.raps /\ d.out = s.out
  BY <1>1, LocalMoves, Zenon
<1>3. /\ DOMAIN d = Fields /\ d.roles = s.roles /\ d.holds = s.holds
      /\ d.id = s.id /\ d.failed = s.failed
  BY <1>2, SetupStays, Zenon
<1>4. Clocked(d)
  BY <1>0, <1>2, SameClocks, Zenon
<1>5. Truthful(d)
  BY <1>0, <1>2, TruthKept, Zenon
<1>6. d.local \in {"LAST", "SF", "WTR_RUNNING"}
  BY <1>1, SMT
<1>7. Modest(d)
  BY <1>2, <1>3, <1>4, <1>6, Zenon DEF Modest, Sane
<1> QED BY <1>1, <1>2, <1>3, <1>5, <1>7, Zenon DEF Listens

LEMMA HeardSane ==
  ASSUME NEW s, Listens(s), NEW t, Heard(s, t)
  PROVE  Sane(t) /\ t.failed = {}
<1>1. /\ DOMAIN t = Fields /\ t.roles = s.roles /\ t.holds = s.holds
      /\ t.id = s.id /\ t.failed = s.failed
  BY SetupStays, Zenon DEF Heard
<1>2. t.local \in {"LAST", "SF", "WTR_RUNNING"} /\ t.local # "SF"
  BY SMT DEF Heard
<1>3. Modest(t)
  BY <1>1, <1>2, Zenon DEF Heard, Listens, Modest
<1>4. Protected(t)
  BY <1>1, <1>2, Zenon DEF Protected, Listens
<1> QED BY <1>1, <1>3, <1>4, Zenon DEF Sane, Heard, Listens

\* A frame reaches the state table, or leaves the node as it is.
FrameDone(s, t) ==
  Sane(t) /\ Moves(s, t) /\ SameGuard(s, t) /\ t.out = s.out

LEMMA FrameIgnored ==
  ASSUME NEW s, Sane(s)
  PROVE  FrameDone(s, s)
<1>1. Moves(s, s)
  BY ButSelf, Zenon DEF Sane, Modest, Moves
<1> QED BY <1>1, Zenon DEF FrameDone, SameGuard

LEMMA RequestHandled ==
  ASSUME Enough, NEW s, Sane(s), s.failed = {}, NEW f,
         NEW request \in {"RAPS_SF", "RAPS_NR", "RAPS_NR_RB"},
         request = "RAPS_NR_RB" => ~ Owner(s)
  PROVE  LET t == Handle(s, request, f) IN
         /\ FrameDone(s, t)
         /\ request = "RAPS_NR" =>
              /\ t.blocked = s.blocked \/ s.id < f
              /\ GuardsRpl(s) => GuardsRpl(t)
<1>1. PICK d : d = Put(s, "local", "LAST")
  OBVIOUS
<1>2. /\ Listens(d) /\ Moves(s, d) /\ d.state = s.state /\ d.blocked = s.blocked
      /\ d.idx = s.idx /\ d.run = s.run /\ d.sending = s.sending
      /\ d.raps = s.raps /\ d.out = s.out
  BY <1>1, Forgets, Zenon
<1>3. d.roles = s.roles /\ d.id = s.id
  BY <1>2, SetupStays, Zenon
<1>4. Owner(d) = Owner(s) /\ RplPort(d) = RplPort(s)
  BY <1>3, RolesDecide, Zenon
<1>5. PICK t : t = Act(d, request, f)
  OBVIOUS
<1>6. request # "CLEAR_SF"
  BY SMT
<1>7. Handle(s, request, f) = s \/ Handle(s, request, f) = t
  BY <1>1, <1>5, <1>6, HandleDrops, Zenon
<1>8. ASSUME Heard(d, t)
      PROVE  FrameDone(s, t)
  <2>1. Sane(t)
    BY <1>2, <1>8, HeardSane, Zenon
  <2>2. Moves(s, t)
    BY <1>2, <1>8, MovesChain, Zenon DEF Heard
  <2>3. SameGuard(s, t) /\ t.out = s.out
    BY <1>2, <1>8, Zenon DEF Heard, SameGuard
  <2> QED BY <2>1, <2>2, <2>3, Zenon DEF FrameDone
<1>9. CASE request = "RAPS_SF"
  <2>1. t = RapsSf(d)
    BY <1>5, <1>9, SMT DEF Act
  <2>2. FrameDone(s, t)
    BY <1>2, <1>8, <2>1, RapsSfHeard, Zenon
  <2>3. request # "RAPS_NR"
    BY <1>9, SMT
  <2> QED BY <1>7, <2>2, <2>3, FrameIgnored, Zenon
<1>10. CASE request = "RAPS_NR_RB"
  <2>1. t = RapsNrRb(d)
    BY <1>5, <1>10, SMT DEF Act
  <2>2. FrameDone(s, t)
    BY <1>2, <1>4, <1>8, <1>10, <2>1, RapsNrRbHeard, Zenon
  <2>3. request # "RAPS_NR"
    BY <1>10, SMT
  <2> QED BY <1>7, <2>2, <2>3, FrameIgnored, Zenon
<1>11. CASE request = "RAPS_NR"
  <2>1. t = RapsNr(d, f)
    BY <1>5, <1>11, SMT DEF Act
  <2>2. Heard(d, t) /\ (t.blocked = d.blocked \/ d.id < f) /\ (GuardsRpl(d) => t = d)
    BY <1>2, <2>1, RapsNrHeard, Zenon
  <2>3. t.blocked = s.blocked \/ s.id < f
    BY <1>2, <1>3, <2>2, Zenon
  <2>4. GuardsRpl(s) => GuardsRpl(d)
    BY <1>2, <1>4, Zenon DEF GuardsRpl
  <2> QED BY <1>7, <1>8, <2>2, <2>3, <2>4, FrameIgnored, Zenon
<1> QED BY <1>9, <1>10, <1>11, SMT

\* A frame at a node: no other owner sends NR,RB, an owner that closes the RPL
\* keeps it closed under NR, and a node yields only to a higher id.
LEMMA MessageKeeps ==
  ASSUME Enough, NEW s, Sane(s), NEW m, m.req \in {"NR", "SF"}, NEW f,
         m.req = "NR" /\ "RB" \in m.status /\ f # s.id => ~ Owner(s)
  PROVE  LET t == ToPriorityLogic(s, m, f) IN
         /\ FrameDone(s, t)
         /\ f = s.id \/ "guard" \in s.idx => t = s
         /\ m.req = "NR" /\ "RB" \notin m.status =>
              /\ t.blocked = s.blocked \/ s.id < f
              /\ GuardsRpl(s) => GuardsRpl(t)
<1> DEFINE request == RequestOf(m)
<1>1. /\ request \in {"RAPS_SF", "RAPS_NR", "RAPS_NR_RB"}
      /\ request = "RAPS_NR" <=> m.req = "NR" /\ "RB" \notin m.status
      /\ request = "RAPS_NR_RB" <=> m.req = "NR" /\ "RB" \in m.status
  BY SMT DEF RequestOf
<1> HIDE DEF request
<1>2. CASE f = s.id \/ "guard" \in s.idx
  <2>1. ToPriorityLogic(s, m, f) = s
    BY <1>2, Zenon DEF ToPriorityLogic
  <2> QED BY <1>2, <2>1, FrameIgnored, Zenon
<1>3. CASE ~ (f = s.id \/ "guard" \in s.idx) /\ s.failed = {}
  <2>1. ToPriorityLogic(s, m, f) = Handle(s, request, f)
    BY <1>3, Zenon DEF ToPriorityLogic, request
  <2>2. request = "RAPS_NR_RB" => ~ Owner(s)
    BY <1>1, <1>3, Zenon
  <2>3. PICK t : t = Handle(s, request, f)
    OBVIOUS
  <2>4. /\ FrameDone(s, t)
        /\ request = "RAPS_NR" =>
             /\ t.blocked = s.blocked \/ s.id < f
             /\ GuardsRpl(s) => GuardsRpl(t)
    BY <1>1, <1>3, <2>2, <2>3, RequestHandled, Zenon
  <2> QED BY <1>1, <1>3, <2>1, <2>3, <2>4, Zenon
<1>4. CASE ~ (f = s.id \/ "guard" \in s.idx) /\ s.failed # {}
  <2>1. ToPriorityLogic(s, m, f) = Handle(s, request, f)
    BY <1>4, Zenon DEF ToPriorityLogic, request
  <2>2. s.local = "SF"
    BY <1>4, Zenon DEF Sane, Protected
  <2>3. Handle(s, request, f) = s
    BY <1>1, <2>2, FrameDropped, Zenon
  <2> QED BY <1>4, <2>1, <2>3, FrameIgnored, Zenon
<1> QED BY <1>2, <1>3, <1>4, Zenon

-----------------------------------------------------------------------------
(* Links                                                                   *)

BprFrame(m) == m \in OwnMessage /\ "RB" \notin m.status

LEMMA BprFlags ==
  ASSUME NEW p
  PROVE  /\ "RB" \notin Bpr(p) /\ "RB" \notin Bpr(p) \cup {"DNF"}
         /\ Bpr(p) \subseteq Flags /\ Bpr(p) \cup {"DNF"} \subseteq Flags
         /\ Bpr(p) \cup {"RB"} \subseteq Flags /\ Bpr(p) \cup {"DNF", "RB"} \subseteq Flags
BY SMT DEF Bpr, Flags

LEMMA FrameTypes ==
  ASSUME NEW req \in {"NR", "SF"}, NEW status, status \subseteq Flags
  PROVE  /\ Frame(req, status) \in OwnMessage
         /\ Frame(req, status).req = req /\ Frame(req, status).status = status
BY SMT DEF Frame, OwnMessage

LEMMA SfAlarms ==
  ASSUME NEW s, Modest(s), NEW p \in s.failed, s.failed \ {p} \subseteq s.blocked
  PROVE  LET t == Sf(s, p) IN
         /\ Sane(t) /\ Moves(s, t) /\ SameGuard(s, t)
         /\ \E m : t.out = Append(s.out, m) /\ BprFrame(m)
<1>s. PICK status : status = IF p \in s.blocked THEN Bpr(p) \cup {"DNF"} ELSE Bpr(p)
  OBVIOUS
<1>0. DOMAIN s = Fields /\ Clocked(s) /\ s.blocked \subseteq Ports /\ p \in Ports
  BY SMT DEF Modest
<1>1. PICK a : a = Put(s, "local", "SF")
  OBVIOUS
<1>2. But(s, a, {"local"}) /\ a.local = "SF"
  BY <1>0, <1>1, Asks, Zenon
<1>3. /\ Moves(s, a) /\ a.state = s.state /\ a.blocked = s.blocked
      /\ a.idx = s.idx /\ a.run = s.run /\ a.out = s.out
  BY <1>2, LocalMoves, Zenon
<1>4. DOMAIN a = Fields
  BY <1>2, Zenon DEF But
<1>5. PICK b : b = IF p \in s.blocked THEN a ELSE Block(a, p)
  OBVIOUS
<1>6. But(a, b, PortFields) /\ b.blocked = s.blocked \cup {p}
  <2>1. CASE p \in s.blocked
    <3>1. b = a
      BY <1>5, <2>1, Zenon
    <3>2. s.blocked \cup {p} = s.blocked
      BY <2>1, SMT
    <3> QED BY <1>3, <1>4, <3>1, <3>2, ButSelf, Zenon
  <2>2. CASE p \notin s.blocked
    <3>1. b = Block(a, p)
      BY <1>5, <2>2, Zenon
    <3>2. But(a, b, PortFields) /\ b.blocked = a.blocked \cup {p}
      BY <1>4, <3>1, BlockPort, Zenon
    <3> QED BY <1>3, <3>2, Zenon
  <2> QED BY <2>1, <2>2
<1>7. /\ Moves(a, b) /\ b.state = a.state /\ b.local = a.local
      /\ b.idx = a.idx /\ b.run = a.run /\ b.out = a.out
  BY <1>6, PortsMove, Zenon
<1>8. DOMAIN b = Fields
  BY <1>6, Zenon DEF But
<1>9. PICK c : c = Announce(b, "SF", status)
  OBVIOUS
<1>m. Says(b, c, "SF", status)
  BY <1>8, <1>9, Announces, Zenon
<1>10. /\ But(b, c, SentFields) /\ c.sending = TRUE
       /\ c.raps = Frame("SF", status) /\ c.out = Append(b.out, Frame("SF", status))
  BY <1>m, Zenon DEF Says
<1>11. /\ Moves(b, c) /\ c.state = b.state /\ c.local = b.local /\ c.blocked = b.blocked
       /\ c.idx = b.idx /\ c.run = b.run
  BY <1>10, SentMoves, Zenon
<1>12. DOMAIN c = Fields /\ c.blocked \subseteq Ports
  <2>1. DOMAIN c = Fields
    BY <1>10, Zenon DEF But
  <2>2. c.blocked \subseteq Ports
    BY <1>0, <1>6, <1>11, SMT
  <2> QED BY <2>1, <2>2
<1>13. PICK d : d = NonFailPortUnblock(c)
  OBVIOUS
<1>14. But(c, d, PortFields) /\ d.blocked = c.blocked \cap c.failed
  BY <1>12, <1>13, FailedStay, Zenon
<1>15. /\ Moves(c, d) /\ d.state = c.state /\ d.local = c.local
       /\ d.idx = c.idx /\ d.run = c.run
       /\ d.sending = c.sending /\ d.raps = c.raps /\ d.out = c.out
  BY <1>14, PortsMove, Zenon
<1>16. DOMAIN d = Fields
  BY <1>14, Zenon DEF But
<1>17. PICK e : e = IF p \in s.blocked THEN d ELSE Flush(d)
  OBVIOUS
<1>18. But(d, e, {"flush"})
  BY <1>16, <1>17, Flushes, ButSelf, Zenon
<1>19. /\ Moves(d, e) /\ e.state = d.state /\ e.local = d.local /\ e.blocked = d.blocked
       /\ e.idx = d.idx /\ e.run = d.run
       /\ e.sending = d.sending /\ e.raps = d.raps /\ e.out = d.out
  BY <1>18, FlushMoves, Zenon
<1>20. DOMAIN e = Fields
  BY <1>18, Zenon DEF But
<1>21. Clocked(e) /\ SameGuard(s, e)
  <2>1. e.idx = s.idx /\ e.run = s.run
    BY <1>3, <1>7, <1>11, <1>15, <1>19, Zenon
  <2> QED BY <1>0, <2>1, SameClocks, Zenon
<1>22. PICK g : g = LeavePending(e)
  OBVIOUS
<1>23. Ticks(e, g)
  BY <1>20, <1>21, <1>22, PendingLeft, Zenon
<1>24. /\ Moves(e, g) /\ g.state = e.state /\ g.local = e.local /\ g.blocked = e.blocked
       /\ g.sending = e.sending /\ g.raps = e.raps /\ g.out = e.out
  BY <1>23, ClocksMove, Zenon DEF Ticks
<1>25. DOMAIN g = Fields /\ Clocked(g) /\ SameGuard(e, g)
  BY <1>23, Zenon DEF Ticks, But
<1>26. PICK t : t = Goto(g, "PROTECTION")
  OBVIOUS
<1>27. But(g, t, {"state"}) /\ t.state = "PROTECTION"
  BY <1>25, <1>26, Goes, Zenon
<1>28. /\ Moves(g, t) /\ t.local = g.local /\ t.blocked = g.blocked
       /\ t.idx = g.idx /\ t.run = g.run
       /\ t.sending = g.sending /\ t.raps = g.raps /\ t.out = g.out
  BY <1>27, StateMoves, Zenon
<1>29. Sf(s, p) = t
  <2>1. s.state # "FORCED_SWITCH"
    BY SMT DEF Modest
  <2>2. CASE p \in s.blocked
    BY <1>s, <1>1, <1>5, <1>9, <1>13, <1>17, <1>22, <1>26, <2>1, <2>2, Zenon DEF Sf, Put
  <2>3. CASE p \notin s.blocked
    BY <1>s, <1>1, <1>5, <1>9, <1>13, <1>17, <1>22, <1>26, <2>1, <2>3, Zenon DEF Sf, Put
  <2> QED BY <2>2, <2>3
<1>30. Moves(s, c)
  BY <1>3, <1>7, <1>11, MovesChain, Zenon
<1>31. Moves(s, t)
  BY <1>15, <1>19, <1>24, <1>28, <1>30, MovesChain, Zenon
<1>32. c.failed = s.failed
  BY <1>30, SetupStays, Zenon
<1>33. /\ DOMAIN t = Fields /\ t.roles = s.roles /\ t.holds = s.holds
       /\ t.id = s.id /\ t.failed = s.failed
  BY <1>31, SetupStays, Zenon
<1>34. t.blocked = (s.blocked \cup {p}) \cap s.failed
  BY <1>6, <1>11, <1>14, <1>19, <1>24, <1>28, <1>32, Zenon
<1>35. s.failed \subseteq t.blocked /\ t.blocked \subseteq Ports
  BY <1>0, <1>34, SMT
<1>36. t.local = "SF" /\ t.raps = Frame("SF", status)
  BY <1>2, <1>7, <1>10, <1>11, <1>15, <1>19, <1>24, <1>28, Zenon
<1>37. t.out = Append(s.out, Frame("SF", status))
  BY <1>3, <1>7, <1>10, <1>15, <1>19, <1>24, <1>28, Zenon
<1>38. Clocked(t) /\ SameGuard(s, t)
  <2>1. Clocked(t) /\ SameGuard(g, t)
    BY <1>25, <1>28, SameClocks, Zenon
  <2> QED BY <1>21, <1>25, <2>1, Zenon DEF SameGuard
<1>39. BprFrame(Frame("SF", status))
  <2>1. status \subseteq Flags /\ "RB" \notin status
    BY <1>s, BprFlags, Zenon
  <2> QED BY <2>1, FrameTypes, SMT DEF BprFrame
<1>40. Modest(t)
  BY <1>27, <1>33, <1>35, <1>36, <1>38, SMT DEF Modest
<1>41. Protected(t)
  BY <1>27, <1>33, <1>35, <1>36, Zenon DEF Protected
<1>42. Truthful(t)
  <2>1. t.raps.req = "SF" /\ t.raps \in OwnMessage
    BY <1>36, <1>39, SMT DEF Frame, BprFrame
  <2>2. t.failed # {}
    BY <1>33
  <2> QED BY <2>1, <2>2, SMT DEF Truthful
<1>43. Sane(t)
  BY <1>40, <1>41, <1>42, Zenon DEF Sane
<1> QED BY <1>29, <1>31, <1>37, <1>38, <1>39, <1>43, Zenon

LEMMA FailedSet ==
  ASSUME NEW s, Modest(s), NEW F, F \subseteq Ports, NEW d, d = Put(s, "failed", F)
  PROVE  /\ Modest(d) /\ d.failed = F /\ d.roles = s.roles /\ d.id = s.id /\ d.holds = s.holds
         /\ d.state = s.state /\ d.local = s.local /\ d.blocked = s.blocked
         /\ d.idx = s.idx /\ d.out = s.out
<1>1. But(s, d, {"failed"}) /\ d.failed = F
  BY Learns, Zenon DEF Modest
<1>2. /\ DOMAIN d = Fields /\ d.roles = s.roles /\ d.id = s.id /\ d.holds = s.holds
      /\ d.state = s.state /\ d.local = s.local /\ d.blocked = s.blocked
      /\ d.idx = s.idx /\ d.run = s.run /\ d.out = s.out
  BY <1>1, SMT DEF But, Fields
<1>3. Clocked(d)
  BY <1>2, SameClocks, Zenon DEF Modest
<1>4. Modest(d)
  BY <1>1, <1>2, <1>3, Zenon DEF Modest
<1> QED BY <1>1, <1>2, <1>4, Zenon

LEMMA LocalSet ==
  ASSUME NEW s, Modest(s), NEW d, d = Put(s, "local", "LAST")
  PROVE  Modest(d) /\ d.local = "LAST" /\ Moves(s, d) /\ d.state = s.state
           /\ d.blocked = s.blocked /\ d.idx = s.idx /\ d.out = s.out
<1>1. But(s, d, {"local"}) /\ d.local = "LAST"
  BY Asks, Zenon DEF Modest
<1>2. /\ Moves(s, d) /\ d.state = s.state /\ d.blocked = s.blocked
      /\ d.idx = s.idx /\ d.run = s.run /\ d.out = s.out
  BY <1>1, LocalMoves, Zenon
<1>3. /\ DOMAIN d = Fields /\ d.roles = s.roles /\ d.holds = s.holds
      /\ d.id = s.id /\ d.failed = s.failed
  BY <1>2, SetupStays, Zenon
<1>4. Clocked(d)
  BY <1>2, SameClocks, Zenon DEF Modest
<1>5. d.local \in {"LAST", "SF", "WTR_RUNNING"}
  BY <1>1, SMT
<1>6. Modest(d)
  BY <1>2, <1>3, <1>4, <1>5, Zenon DEF Modest
<1> QED BY <1>1, <1>2, <1>6, Zenon

LEMMA SfRequest ==
  ASSUME NEW s, Modest(s), NEW p \in s.failed, s.failed \ {p} \subseteq s.blocked
  PROVE  LET t == Handle(s, "SF", p) IN
         /\ Sane(t) /\ Moves(s, t) /\ SameGuard(s, t)
         /\ \E m : t.out = Append(s.out, m) /\ BprFrame(m)
<1>1. PICK d : d = Put(s, "local", "LAST")
  OBVIOUS
<1>2. Modest(d) /\ Moves(s, d) /\ d.blocked = s.blocked /\ d.idx = s.idx /\ d.out = s.out
  BY <1>1, LocalSet, Zenon
<1>3. d.failed = s.failed
  BY <1>2, SetupStays, Zenon
<1>4. PICK t : t = Sf(d, p)
  OBVIOUS
<1>5. ~ (Priority["SF"] > Priority[s.local])
  BY SMT DEF Priority, Modest
<1>6. Handle(s, "SF", p) = Act(d, "SF", p)
  BY <1>1, <1>5, HandleDrops, SMT
<1>7. Act(d, "SF", p) = t
  BY <1>4, SMT DEF Act
<1>8. /\ Sane(t) /\ Moves(d, t) /\ SameGuard(d, t)
      /\ \E m : t.out = Append(d.out, m) /\ BprFrame(m)
  BY <1>2, <1>3, <1>4, SfAlarms, Zenon
<1>9. Moves(s, t)
  BY <1>2, <1>8, MovesChain, Zenon
<1>10. SameGuard(s, t) /\ \E m : t.out = Append(s.out, m) /\ BprFrame(m)
  BY <1>2, <1>8, Zenon DEF SameGuard
<1> QED BY <1>6, <1>7, <1>8, <1>9, <1>10, Zenon

\* What detection of a link that is down leads to.
LEMMA LinkDown ==
  ASSUME NEW s, Sane(s), NEW p \in Ports
  PROVE  LET t == LinkChange(s, p, FALSE) IN
         /\ Sane(t) /\ SameGuard(s, t) /\ t.roles = s.roles /\ t.id = s.id
         /\ t.failed = s.failed \cup {p}
         /\ \E m : t.out = Append(s.out, m) /\ BprFrame(m)
<1>0. Modest(s) /\ s.failed \subseteq Ports /\ ~ s.holds
  BY Zenon DEF Sane, Modest
<1>1. PICK F : F = s.failed \cup {p}
  OBVIOUS
<1>2. PICK d : d = Put(s, "failed", F)
  OBVIOUS
<1>3. /\ Modest(d) /\ d.failed = F /\ d.roles = s.roles /\ d.id = s.id
      /\ d.holds = s.holds /\ d.blocked = s.blocked /\ d.idx = s.idx /\ d.out = s.out
  <2>1. F \subseteq Ports
    BY <1>0, <1>1, SMT
  <2> QED BY <1>0, <1>2, <2>1, FailedSet, SMT
<1>4. p \in d.failed /\ d.failed \ {p} \subseteq d.blocked
  BY <1>1, <1>3, SMT DEF Sane, Protected
<1>5. PICK t : t = Handle(d, "SF", p)
  OBVIOUS
<1>6. LinkChange(s, p, FALSE) = t
  BY <1>0, <1>1, <1>2, <1>3, <1>5, Zenon DEF LinkChange, Put
<1>7. /\ Sane(t) /\ Moves(d, t) /\ SameGuard(d, t)
      /\ \E m : t.out = Append(d.out, m) /\ BprFrame(m)
  BY <1>3, <1>4, <1>5, SfRequest, Zenon
<1>8. t.roles = d.roles /\ t.id = d.id /\ t.failed = d.failed
  BY <1>7, SetupStays, Zenon
<1> QED BY <1>1, <1>3, <1>6, <1>7, <1>8, Zenon DEF SameGuard

\* The hold-off timer is stopped before the port is taken as working.
Repaired(s, p) == [HoldOffTimerStop(s) EXCEPT !.failed = @ \ {p}]
LEMMA PortWorks ==
  ASSUME NEW s, Sane(s), NEW p \in Ports,
         NEW u, u = Repaired(s, p)
  PROVE  /\ Modest(u) /\ SameGuard(s, u) /\ u.roles = s.roles /\ u.id = s.id
         /\ u.failed = s.failed \ {p} /\ u.blocked = s.blocked
         /\ u.local = s.local /\ u.state = s.state /\ u.out = s.out
<1>0. Modest(s) /\ DOMAIN s = Fields /\ Clocked(s) /\ s.failed \subseteq Ports
  BY Zenon DEF Sane, Modest
<1>1. PICK a : a = HoldOffTimerStop(s)
  OBVIOUS
<1>2. Ticks(s, a)
  BY <1>0, <1>1, OtherNames, OtherStops, Zenon DEF HoldOffTimerStop
<1>3. But(s, a, ClockFields) /\ Clocked(a) /\ SameGuard(s, a)
  BY <1>2, Zenon DEF Ticks
<1>4. /\ Moves(s, a) /\ a.state = s.state /\ a.local = s.local
      /\ a.blocked = s.blocked /\ a.out = s.out
  BY <1>3, ClocksMove, Zenon
<1>5. /\ DOMAIN a = Fields /\ a.roles = s.roles /\ a.holds = s.holds
      /\ a.id = s.id /\ a.failed = s.failed
  BY <1>4, SetupStays, Zenon
<1>6. Modest(a)
  BY <1>0, <1>3, <1>4, <1>5, Zenon DEF Modest
<1>7. PICK F : F = s.failed \ {p}
  OBVIOUS
<1>8. u = Put(a, "failed", F) /\ F \subseteq Ports
  <2>1. u = Put(a, "failed", F)
    BY <1>1, <1>5, <1>7, Zenon DEF Put, Repaired
  <2>2. F \subseteq Ports
    BY <1>0, <1>7, SMT
  <2> QED BY <2>1, <2>2
<1>9. /\ Modest(u) /\ u.failed = F /\ u.roles = a.roles /\ u.id = a.id
      /\ u.state = a.state /\ u.local = a.local /\ u.blocked = a.blocked
      /\ u.idx = a.idx /\ u.out = a.out
  BY <1>6, <1>8, FailedSet, SMT
<1> QED BY <1>3, <1>4, <1>5, <1>7, <1>9, Zenon DEF SameGuard

\* A link is back while the other one of the node is down.
LEMMA LinkUpOther ==
  ASSUME NEW s, Sane(s), NEW p \in Ports, Another(p) \in s.failed
  PROVE  LET t == LinkChange(s, p, TRUE) IN
         /\ Sane(t) /\ SameGuard(s, t) /\ t.roles = s.roles /\ t.id = s.id
         /\ t.failed = s.failed \ {p} /\ t.failed # {}
         /\ \E m : t.out = Append(s.out, m) /\ BprFrame(m)
<1>1. PICK u : u = Repaired(s, p)
  OBVIOUS
<1>2. /\ Modest(u) /\ SameGuard(s, u) /\ u.roles = s.roles /\ u.id = s.id
      /\ u.failed = s.failed \ {p} /\ u.blocked = s.blocked /\ u.out = s.out
  BY <1>1, PortWorks, SMT
<1>3. Another(p) \in u.failed /\ u.failed \ {Another(p)} \subseteq u.blocked
  BY <1>2, AnotherPort, SMT DEF Sane, Protected
<1>4. PICK t : t = Handle(u, "SF", Another(p))
  OBVIOUS
<1>5. LinkChange(s, p, TRUE) = t
  BY <1>1, <1>4, Zenon DEF LinkChange, Repaired
<1>6. /\ Sane(t) /\ Moves(u, t) /\ SameGuard(u, t)
      /\ \E m : t.out = Append(u.out, m) /\ BprFrame(m)
  BY <1>2, <1>3, <1>4, SfRequest, Zenon
<1>7. t.roles = u.roles /\ t.id = u.id /\ t.failed = u.failed
  BY <1>6, SetupStays, Zenon
<1>8. t.failed # {}
  BY <1>3, <1>7, SMT
<1> QED BY <1>2, <1>5, <1>6, <1>7, <1>8, Zenon DEF SameGuard

\* The last failed port of a node works again: the guard timer starts, NR is
\* sent, and the port stays closed for now.
LEMMA LinkUpLast ==
  ASSUME Enough, NEW s, Sane(s), NEW p \in Ports, s.failed = {p}
  PROVE  LET t == LinkChange(s, p, TRUE) IN
         /\ Sane(t) /\ t.roles = s.roles /\ t.id = s.id
         /\ "guard" \in t.idx /\ t.failed = {} /\ t.blocked # {}
         /\ \E m \in OwnMessage : t.out = Append(s.out, m) /\ m.req = "NR" /\ "RB" \notin m.status
<1>0. s.local = "SF" /\ s.state = "PROTECTION" /\ p \in s.blocked
  BY SMT DEF Sane, Protected
<1>1. PICK u : u = Repaired(s, p)
  OBVIOUS
<1>2. /\ Modest(u) /\ u.roles = s.roles /\ u.id = s.id
      /\ u.failed = s.failed \ {p} /\ u.blocked = s.blocked
      /\ u.local = s.local /\ u.state = s.state /\ u.out = s.out
  BY <1>1, PortWorks, SMT
<1>3. u.failed = {}
  BY <1>2, SMT
<1>4. PICK c : c = Put(u, "local", "LAST")
  OBVIOUS
<1>5. /\ Modest(c) /\ c.local = "LAST" /\ Moves(u, c) /\ c.state = u.state
      /\ c.blocked = u.blocked /\ c.out = u.out
  BY <1>2, <1>4, LocalSet, Zenon
<1>6. PICK d : d = Put(c, "local", "LAST")
  OBVIOUS
<1>7. /\ Modest(d) /\ d.local = "LAST" /\ Moves(c, d) /\ d.state = c.state
      /\ d.blocked = c.blocked /\ d.out = c.out
  BY <1>5, <1>6, LocalSet, Zenon
<1>8. DOMAIN d = Fields /\ Clocked(d) /\ d.blocked \subseteq Ports
  BY <1>7, Zenon DEF Modest
<1>9. PICK a : a = GuardTimerStart(d)
  OBVIOUS
<1>10. But(d, a, ClockFields) /\ Clocked(a) /\ a.idx = d.idx \cup {"guard"}
  BY <1>8, <1>9, OtherNames, TimerStarts, Zenon DEF GuardTimerStart
<1>11. /\ Moves(d, a) /\ a.state = d.state /\ a.local = d.local
       /\ a.blocked = d.blocked /\ a.out = d.out
  BY <1>10, ClocksMove, Zenon
<1>12. DOMAIN a = Fields
  BY <1>10, Zenon DEF But
<1>13. PICK m : m = Frame("NR", Bpr(p))
  OBVIOUS
<1>14. PICK b : b = Announce(a, "NR", Bpr(p))
  OBVIOUS
<1>15. But(a, b, SentFields) /\ b.raps = m /\ b.out = Append(a.out, m)
  <2>1. Says(a, b, "NR", Bpr(p))
    BY <1>12, <1>14, Announces, Zenon
  <2> QED BY <1>13, <2>1, Zenon DEF Says
<1>16. /\ Moves(a, b) /\ b.state = a.state /\ b.local = a.local /\ b.blocked = a.blocked
       /\ b.idx = a.idx /\ b.run = a.run
  BY <1>15, SentMoves, Zenon
<1>17. DOMAIN b = Fields /\ Clocked(b) /\ SameGuard(a, b)
  <2>1. DOMAIN b = Fields
    BY <1>15, Zenon DEF But
  <2> QED BY <1>10, <1>16, <2>1, SameClocks, Zenon
<1>18. PICK w : w = IF Revertive(d) THEN WtrTimerStart(b) ELSE b
  OBVIOUS
<1>19. /\ But(b, w, {"idx", "run", "local"}) /\ Clocked(w) /\ SameGuard(b, w)
       /\ w.local = b.local \/ w.local = "WTR_RUNNING"
  BY <1>17, <1>18, WtrStarts, ButSelf, Zenon DEF SameGuard
<1>20. /\ Moves(b, w) /\ w.state = b.state /\ w.blocked = b.blocked
       /\ w.raps = b.raps /\ w.out = b.out
  BY <1>19, WtrMoves, Zenon
<1>21. DOMAIN w = Fields
  BY <1>19, Zenon DEF But
<1>22. PICK t : t = Goto(w, "PENDING")
  OBVIOUS
<1>23. But(w, t, {"state"}) /\ t.state = "PENDING"
  BY <1>21, <1>22, Goes, Zenon
<1>24. /\ Moves(w, t) /\ t.local = w.local /\ t.blocked = w.blocked
       /\ t.idx = w.idx /\ t.run = w.run /\ t.raps = w.raps /\ t.out = w.out
  BY <1>23, StateMoves, Zenon
<1>25. LinkChange(s, p, TRUE) = t
  <2>1. Another(p) \notin s.failed
    BY AnotherPort, SMT
  <2>2. LinkChange(s, p, TRUE) = Handle(u, "CLEAR_SF", p)
    BY <1>1, <2>1, Zenon DEF LinkChange, Repaired
  <2>3. ~ (Priority["CLEAR_SF"] > Priority[c.local])
    BY <1>5, SMT DEF Priority
  <2>4. u.local = "SF"
    BY <1>0, <1>2, Zenon
  <2>5. Handle(u, "CLEAR_SF", p) = Act(d, "CLEAR_SF", p)
    BY <1>4, <1>6, <2>3, <2>4, Zenon DEF Handle, Put
  <2>6. Act(d, "CLEAR_SF", p) = ClearSf(d, p)
    BY SMT DEF Act
  <2>7. d.state = "PROTECTION"
    BY <1>0, <1>2, <1>5, <1>7, Zenon
  <2>8. ClearSf(d, p) = t
    BY <1>9, <1>14, <1>18, <1>22, <2>7, Zenon DEF ClearSf
  <2> QED BY <2>2, <2>5, <2>6, <2>8, Zenon
<1>26. Moves(u, t)
  BY <1>5, <1>7, <1>11, <1>16, <1>20, <1>24, MovesChain, Zenon
<1>27. /\ DOMAIN t = Fields /\ t.roles = u.roles /\ t.holds = u.holds
       /\ t.id = u.id /\ t.failed = u.failed
  BY <1>26, SetupStays, Zenon
<1>28. t.blocked = s.blocked /\ t.raps = m /\ t.out = Append(s.out, m)
  BY <1>2, <1>5, <1>7, <1>11, <1>15, <1>16, <1>20, <1>24, Zenon
<1>29. t.blocked # {} /\ t.blocked \subseteq Ports
  BY <1>0, <1>28, Zenon DEF Sane, Modest
<1>30. Clocked(t) /\ "guard" \in t.idx
  <2>1. "guard" \in a.idx
    BY <1>10, SMT
  <2>2. Clocked(t) /\ SameGuard(w, t)
    BY <1>19, <1>24, SameClocks, Zenon
  <2> QED BY <1>17, <1>19, <2>1, <2>2, Zenon DEF SameGuard
<1>31. t.local \in {"LAST", "WTR_RUNNING"}
  BY <1>7, <1>11, <1>16, <1>19, <1>24, SMT
<1>32. m \in OwnMessage /\ m.req = "NR" /\ "RB" \notin m.status
  <2>1. Bpr(p) \subseteq Flags /\ "RB" \notin Bpr(p)
    BY BprFlags, Zenon
  <2> QED BY <1>13, <2>1, FrameTypes, SMT
<1>33. Modest(t)
  BY <1>2, <1>23, <1>27, <1>29, <1>30, <1>31, SMT DEF Modest
<1>34. Protected(t)
  BY <1>3, <1>27, <1>31, SMT DEF Protected
<1>35. Truthful(t)
  BY <1>28, <1>29, <1>32, SMT DEF Truthful
<1>36. Sane(t)
  BY <1>33, <1>34, <1>35, Zenon DEF Sane
<1>37. \E x \in OwnMessage : t.out = Append(s.out, x) /\ x.req = "NR" /\ "RB" \notin x.status
  BY <1>28, <1>32, Zenon
<1>38. t.roles = s.roles /\ t.id = s.id /\ t.failed = {}
  BY <1>2, <1>3, <1>27, Zenon
<1> QED BY <1>25, <1>29, <1>30, <1>36, <1>37, <1>38, Zenon

-----------------------------------------------------------------------------
(* Timers that expire, and what is sent again                              *)

\* The slot of a timer is freed; nothing else changes.
LEMMA FreeSane ==
  ASSUME NEW s, Sane(s), NEW k \in Timers, k \in s.idx
  PROVE  LET t == Expired(s, k) IN
         /\ Sane(t) /\ But(s, t, ClockFields) /\ t.idx = s.idx \ {k}
<1>0. Modest(s) /\ Truthful(s) /\ Protected(s) /\ DOMAIN s = Fields /\ Clocked(s)
  BY Zenon DEF Sane, Modest
<1>1. PICK t : t = Expired(s, k)
  OBVIOUS
<1>2. But(s, t, ClockFields) /\ Clocked(t) /\ t.idx = s.idx \ {k}
  BY <1>0, <1>1, TimerFreed, Zenon
<1>3. /\ Moves(s, t) /\ t.state = s.state /\ t.local = s.local /\ t.blocked = s.blocked
      /\ t.sending = s.sending /\ t.raps = s.raps
  BY <1>2, ClocksMove, Zenon
<1>4. /\ DOMAIN t = Fields /\ t.roles = s.roles /\ t.holds = s.holds
      /\ t.id = s.id /\ t.failed = s.failed
  BY <1>3, SetupStays, Zenon
<1>5. Modest(t)
  BY <1>0, <1>2, <1>3, <1>4, Zenon DEF Modest
<1>6. Protected(t)
  BY <1>0, <1>3, <1>4, Zenon DEF Protected
<1>7. Truthful(t)
  BY <1>0, <1>3, TruthKept, Zenon
<1> QED BY <1>1, <1>2, <1>5, <1>6, <1>7, Zenon DEF Sane

\* Expiry of the WTR timer at an owner that waits closes the RPL.
LEMMA OwnerReverts ==
  ASSUME NEW s, Listens(s), s.state = "PENDING", Owner(s), "wtr" \in s.idx
  PROVE  LET t == WtrExpires(s) IN
         /\ Moves(s, t) /\ Sane(t) /\ t.failed = {}
         /\ SameGuard(s, t) /\ "wtr" \in t.idx
         /\ GuardsRpl(t) /\ \E m \in OwnMessage : t.out = Append(s.out, m) /\ m.req = "NR"
<1>0. DOMAIN s = Fields /\ Clocked(s) /\ s.blocked \subseteq Ports
  BY Zenon DEF Listens, Modest
<1>p. PICK p : p = RplPort(s)
  OBVIOUS
<1>q. p \in Ports
  BY <1>p, RplIsAPort, Zenon DEF Listens, Modest
<1>1. PICK a : a = StopTimer(s, "wtb")
  OBVIOUS
<1>2. But(s, a, ClockFields) /\ Clocked(a) /\ a.idx = s.idx \ {"wtb"}
  BY <1>0, <1>1, OtherNames, TimerStops, Zenon
<1>3. /\ Moves(s, a) /\ a.state = s.state /\ a.local = s.local
      /\ a.blocked = s.blocked /\ a.out = s.out
  BY <1>2, ClocksMove, Zenon
<1>4. DOMAIN a = Fields
  BY <1>2, Zenon DEF But
<1>5. PICK b : b = IF p \in s.blocked THEN a ELSE Block(a, p)
  OBVIOUS
<1>6. But(a, b, PortFields) /\ b.blocked = s.blocked \cup {p}
  <2>1. CASE p \in s.blocked
    <3>1. b = a
      BY <1>5, <2>1, Zenon
    <3>2. s.blocked \cup {p} = s.blocked
      BY <2>1, SMT
    <3> QED BY <1>3, <1>4, <3>1, <3>2, ButSelf, Zenon
  <2>2. CASE p \notin s.blocked
    <3>1. b = Block(a, p)
      BY <1>5, <2>2, Zenon
    <3>2. But(a, b, PortFields) /\ b.blocked = a.blocked \cup {p}
      BY <1>4, <3>1, BlockPort, Zenon
    <3> QED BY <1>3, <3>2, Zenon
  <2> QED BY <2>1, <2>2
<1>7. /\ Moves(a, b) /\ b.state = a.state /\ b.local = a.local
      /\ b.idx = a.idx /\ b.run = a.run /\ b.out = a.out
  BY <1>6, PortsMove, Zenon
<1>8. DOMAIN b = Fields
  BY <1>6, Zenon DEF But
<1>9. PICK status : status = IF p \in s.blocked THEN Bpr(p) \cup {"DNF", "RB"}
                                               ELSE Bpr(p) \cup {"RB"}
  OBVIOUS
<1>10. PICK m : m = Frame("NR", status)
  OBVIOUS
<1>11. PICK c : c = Announce(b, "NR", status)
  OBVIOUS
<1>12. But(b, c, SentFields) /\ c.raps = m /\ c.out = Append(b.out, m)
  <2>1. Says(b, c, "NR", status)
    BY <1>8, <1>11, Announces, Zenon
  <2> QED BY <1>10, <2>1, Zenon DEF Says
<1>13. /\ Moves(b, c) /\ c.state = b.state /\ c.local = b.local /\ c.blocked = b.blocked
       /\ c.idx = b.idx /\ c.run = b.run
  BY <1>12, SentMoves, Zenon
<1>14. DOMAIN c = Fields
  BY <1>12, Zenon DEF But
<1>15. PICK e : e = IF p \in s.blocked THEN c ELSE Flush(c)
  OBVIOUS
<1>16. But(c, e, {"flush"})
  BY <1>14, <1>15, Flushes, ButSelf, Zenon
<1>17. /\ Moves(c, e) /\ e.local = c.local /\ e.blocked = c.blocked
       /\ e.idx = c.idx /\ e.run = c.run /\ e.raps = c.raps /\ e.out = c.out
  BY <1>16, FlushMoves, Zenon
<1>18. DOMAIN e = Fields
  BY <1>16, Zenon DEF But
<1>19. PICK g : g = Unblock(e, Another(p))
  OBVIOUS
<1>20. But(e, g, PortFields) /\ g.blocked = e.blocked \ {Another(p)}
  BY <1>18, <1>19, UnblockPort, Zenon
<1>21. /\ Moves(e, g) /\ g.local = e.local
       /\ g.idx = e.idx /\ g.run = e.run /\ g.raps = e.raps /\ g.out = e.out
  BY <1>20, PortsMove, Zenon
<1>22. DOMAIN g = Fields
  BY <1>20, Zenon DEF But
<1>23. PICK t : t = Goto(g, "IDLE")
  OBVIOUS
<1>24. But(g, t, {"state"}) /\ t.state = "IDLE"
  BY <1>22, <1>23, Goes, Zenon
<1>25. /\ Moves(g, t) /\ t.local = g.local /\ t.blocked = g.blocked
       /\ t.idx = g.idx /\ t.run = g.run /\ t.raps = g.raps /\ t.out = g.out
  BY <1>24, StateMoves, Zenon
<1>26. WtrExpires(s) = t
  <2>1. WtrExpires(s) = Revert(s, "wtb")
    BY Zenon DEF WtrExpires
  <2>2. CASE p \in s.blocked
    BY <1>p, <1>1, <1>5, <1>9, <1>11, <1>15, <1>19, <1>23, <2>1, <2>2, Zenon DEF Revert
  <2>3. CASE p \notin s.blocked
    BY <1>p, <1>1, <1>5, <1>9, <1>11, <1>15, <1>19, <1>23, <2>1, <2>3, Zenon DEF Revert
  <2> QED BY <2>2, <2>3
<1>27. Moves(s, t)
  BY <1>3, <1>7, <1>13, <1>17, <1>21, <1>25, MovesChain, Zenon
<1>28. /\ DOMAIN t = Fields /\ t.roles = s.roles /\ t.holds = s.holds
       /\ t.id = s.id /\ t.failed = s.failed
  BY <1>27, SetupStays, Zenon
<1>29. t.blocked = (s.blocked \cup {p}) \ {Another(p)}
  BY <1>6, <1>13, <1>17, <1>20, <1>25, Zenon
<1>30. p \in t.blocked /\ t.blocked \subseteq Ports
  BY <1>0, <1>q, <1>29, AnotherPort, SMT
<1>31. t.raps = m /\ t.out = Append(s.out, m) /\ t.local = s.local
  BY <1>3, <1>7, <1>12, <1>13, <1>17, <1>21, <1>25, Zenon
<1>32. t.idx = a.idx /\ t.run = a.run
  BY <1>7, <1>13, <1>17, <1>21, <1>25, Zenon
<1>33. Clocked(t) /\ SameGuard(a, t)
  BY <1>2, <1>32, SameClocks, Zenon
<1>34. "wtr" \in t.idx /\ SameGuard(s, a)
  BY <1>2, <1>32, SMT DEF SameGuard
<1>35. SameGuard(s, t)
  BY <1>33, <1>34, Zenon DEF SameGuard
<1>36. m \in OwnMessage /\ m.req = "NR" /\ "RB" \in m.status
  <2>1. status \subseteq Flags /\ "RB" \in status
    BY <1>9, BprFlags, SMT
  <2> QED BY <1>10, <2>1, FrameTypes, SMT
<1>37. GuardsRpl(t)
  <2>1. Owner(t) = Owner(s) /\ RplPort(t) = p
    BY <1>p, <1>28, RolesDecide, Zenon
  <2> QED BY <1>24, <1>30, <2>1, Zenon DEF GuardsRpl
<1>38. t.local = "LAST" /\ t.failed = {}
  BY <1>28, <1>31, Zenon DEF Listens
<1>39. Modest(t)
  BY <1>24, <1>28, <1>30, <1>33, <1>38, SMT DEF Modest, Listens
<1>40. Protected(t)
  BY <1>38, SMT DEF Protected
<1>41. Truthful(t)
  BY <1>31, <1>36, <1>37, SMT DEF Truthful
<1>42. Sane(t)
  BY <1>39, <1>40, <1>41, Zenon DEF Sane
<1>43. \E x \in OwnMessage : t.out = Append(s.out, x) /\ x.req = "NR"
  BY <1>31, <1>36, Zenon
<1> QED BY <1>26, <1>27, <1>34, <1>35, <1>37, <1>38, <1>42, <1>43, Zenon

\* Expiry of the WTR timer: an owner closes the RPL, or no port changes and
\* nothing is sent.
LEMMA WtrExpired ==
  ASSUME NEW s, Sane(s), "wtr" \in s.idx
  PROVE  LET t == WtrTimerExpire(s) IN
         /\ Sane(t) /\ SameGuard(s, t) /\ t.roles = s.roles /\ t.id = s.id
         /\ t.failed = s.failed
         /\ \/ t.blocked = s.blocked /\ t.out = s.out
            \/ GuardsRpl(t) /\ \E m \in OwnMessage : t.out = Append(s.out, m) /\ m.req = "NR"
<1>1. PICK h : h = Handle(s, "WTR_EXPIRES", 0)
  OBVIOUS
<1>2. PICK t : t = Expired(h, "wtr")
  OBVIOUS
<1>3. WtrTimerExpire(s) = t
  BY <1>1, <1>2, Zenon DEF WtrTimerExpire
<1>4. ASSUME Sane(h), Moves(s, h), SameGuard(s, h), "wtr" \in h.idx,
             \/ h.blocked = s.blocked /\ h.out = s.out
             \/ GuardsRpl(h) /\ \E m \in OwnMessage : h.out = Append(s.out, m) /\ m.req = "NR"
      PROVE  /\ Sane(t) /\ SameGuard(s, t) /\ t.roles = s.roles /\ t.id = s.id
             /\ t.failed = s.failed
             /\ \/ t.blocked = s.blocked /\ t.out = s.out
                \/ GuardsRpl(t) /\ \E m \in OwnMessage : t.out = Append(s.out, m) /\ m.req = "NR"
  <2>1. Sane(t) /\ But(h, t, ClockFields) /\ t.idx = h.idx \ {"wtr"}
    BY <1>2, <1>4, OtherNames, FreeSane, Zenon
  <2>2. Moves(h, t) /\ t.blocked = h.blocked /\ t.out = h.out /\ t.state = h.state
    BY <2>1, ClocksMove, Zenon
  <2>3. t.roles = h.roles /\ t.id = h.id /\ t.failed = h.failed
    BY <2>2, SetupStays, Zenon
  <2>4. h.roles = s.roles /\ h.id = s.id /\ h.failed = s.failed
    BY <1>4, SetupStays, Zenon
  <2>5. SameGuard(s, t)
    BY <1>4, <2>1, SMT DEF SameGuard
  <2>6. GuardsRpl(h) => GuardsRpl(t)
    BY <2>2, <2>3, RolesDecide, Zenon DEF GuardsRpl
  <2>7. t.roles = s.roles /\ t.id = s.id /\ t.failed = s.failed
    BY <2>3, <2>4, Zenon
  <2>8. \/ t.blocked = s.blocked /\ t.out = s.out
        \/ GuardsRpl(t) /\ \E m \in OwnMessage : t.out = Append(s.out, m) /\ m.req = "NR"
    BY <1>4, <2>2, <2>6, Zenon
  <2> QED BY <2>1, <2>5, <2>7, <2>8, Zenon
<1>5. Moves(s, s)
  BY ButSelf, Zenon DEF Sane, Modest, Moves
<1>6. CASE h = s
  BY <1>3, <1>4, <1>5, <1>6, Zenon DEF SameGuard
<1>7. CASE h # s
  <2>1. PICK d : d = Put(s, "local", "LAST")
    OBVIOUS
  <2>2. ~ (Priority["WTR_EXPIRES"] > Priority[s.local]) /\ h = Act(d, "WTR_EXPIRES", 0)
    <3>1. "WTR_EXPIRES" # "CLEAR_SF"
      BY SMT
    <3> QED BY <1>1, <1>7, <2>1, <3>1, HandleDrops, Zenon
  <2>3. s.failed = {}
    <3>1. s.local # "SF"
      BY <2>2, SMT DEF Priority
    <3> QED BY <3>1, Zenon DEF Sane, Protected
  <2>4. /\ Listens(d) /\ Moves(s, d) /\ d.state = s.state /\ d.blocked = s.blocked
        /\ d.idx = s.idx /\ d.out = s.out
    BY <2>1, <2>3, Forgets, Zenon
  <2>5. h = WtrExpires(d)
    BY <2>2, SMT DEF Act
  <2>6. CASE d.state = "PENDING" /\ Owner(d)
    <3>1. /\ Moves(d, h) /\ Sane(h) /\ h.failed = {}
          /\ SameGuard(d, h) /\ "wtr" \in h.idx
          /\ GuardsRpl(h) /\ \E m \in OwnMessage : h.out = Append(d.out, m) /\ m.req = "NR"
      BY <2>4, <2>5, <2>6, OwnerReverts, Zenon
    <3>2. Moves(s, h)
      BY <2>4, <3>1, MovesChain, Zenon
    <3>3. SameGuard(s, h)
      BY <2>4, <3>1, Zenon DEF SameGuard
    <3> QED BY <1>3, <1>4, <2>4, <3>1, <3>2, <3>3, Zenon
  <2>7. CASE d.state # "PENDING"
    <3>1. h = d
      BY <2>5, <2>7, Zenon DEF WtrExpires, Revert
    <3>2. Sane(h)
      BY <2>4, <3>1, NotHeard, HeardSane, Zenon
    <3>3. SameGuard(s, h)
      BY <2>4, <3>1, Zenon DEF SameGuard
    <3> QED BY <1>3, <1>4, <2>4, <3>1, <3>2, <3>3, Zenon
  <2>8. CASE d.state = "PENDING" /\ ~ Owner(d)
    <3>0. DOMAIN d = Fields /\ Clocked(d) /\ Truthful(d)
      BY <2>4, Zenon DEF Listens, Modest
    <3>1. h = Goto(d, "IDLE")
      BY <2>5, <2>8, Zenon DEF WtrExpires, Revert
    <3>2. But(d, h, {"state"}) /\ h.state = "IDLE"
      BY <3>0, <3>1, Goes, Zenon
    <3>3. /\ Moves(d, h) /\ h.local = d.local /\ h.blocked = d.blocked
          /\ h.idx = d.idx /\ h.run = d.run
          /\ h.sending = d.sending /\ h.raps = d.raps /\ h.out = d.out
      BY <3>2, StateMoves, Zenon
    <3>4. Clocked(h) /\ SameGuard(d, h)
      BY <3>0, <3>3, SameClocks, Zenon
    <3>5. Truthful(h)
      BY <2>8, <3>0, <3>2, <3>3, TruthKept, Zenon
    <3>6. h.state \in {"IDLE", "PENDING", "PROTECTION"} /\ h.local \in {"LAST", "WTR_RUNNING"}
      BY <2>4, <3>2, <3>3, SMT DEF Listens
    <3>7. h.blocked \subseteq Ports
      BY <2>4, <3>3, Zenon DEF Listens, Modest
    <3>8. Heard(d, h)
      BY <3>3, <3>4, <3>5, <3>6, <3>7, Zenon DEF Heard
    <3>9. Sane(h)
      BY <2>4, <3>8, HeardSane, Zenon
    <3>10. Moves(s, h)
      BY <2>4, <3>3, MovesChain, Zenon
    <3>11. SameGuard(s, h)
      BY <2>4, <3>4, Zenon DEF SameGuard
    <3>12. "wtr" \in h.idx /\ h.blocked = s.blocked /\ h.out = s.out
      BY <2>4, <3>3, Zenon
    <3> QED BY <1>3, <1>4, <3>9, <3>10, <3>11, <3>12, Zenon
  <2> QED BY <2>6, <2>7, <2>8, Zenon
<1> QED BY <1>6, <1>7

\* What is being sent is sent once more.
LEMMA ResendSane ==
  ASSUME NEW s, Sane(s)
  PROVE  LET t == Resend(s) IN
         /\ Sane(t) /\ t.roles = s.roles /\ t.id = s.id /\ t.failed = s.failed
         /\ t.blocked = s.blocked /\ t.state = s.state /\ t.idx = s.idx
         /\ \E m \in OwnMessage : /\ t.out = Append(s.out, m)
                                 /\ m.req = s.raps.req /\ m.status = s.raps.status
<1>0. Modest(s) /\ Truthful(s) /\ Protected(s) /\ DOMAIN s = Fields /\ Clocked(s)
  BY Zenon DEF Sane, Modest
<1>m. PICK m : m = Frame(s.raps.req, s.raps.status)
  OBVIOUS
<1>v. PICK v : v = Append(s.out, m)
  OBVIOUS
<1> DEFINE a == Put(s, "raps", m)
           t == Put(a, "out", v)
<1>1. Resend(s) = t
  BY <1>m, <1>v, Zenon DEF Resend, RapsMsgSend, Put, Frame
<1>2. "raps" \in Fields /\ "out" \in Fields
  BY SMT DEF Fields
<1>3. m.req = s.raps.req /\ m.status = s.raps.status
  BY <1>m, SMT DEF Frame
<1>4. But(s, a, {"raps"}) /\ a["raps"] = m
  BY <1>0, <1>2, FieldPut, Zenon
<1> HIDE DEF a
<1>5. DOMAIN a = Fields
  BY <1>4, Zenon DEF But
<1>6. But(a, t, {"out"}) /\ t["out"] = v
  BY <1>2, <1>5, FieldPut, Zenon
<1> HIDE DEF t
<1>7. DOMAIN t = Fields /\ \A f \in Fields : f # "raps" /\ f # "out" => t[f] = s[f]
  BY <1>4, <1>6, SMT DEF But
<1>8. /\ t.roles = s.roles /\ t.id = s.id /\ t.failed = s.failed
      /\ t.blocked = s.blocked /\ t.state = s.state /\ t.idx = s.idx
  BY <1>7, SMT DEF Fields
<1>9. t.holds = s.holds /\ t.local = s.local /\ t.run = s.run /\ t.sending = s.sending
  BY <1>7, SMT DEF Fields
<1>10. t.raps = m /\ t.out = v
  BY <1>2, <1>4, <1>6, SMT DEF But
<1>11. Clocked(t)
  BY <1>0, <1>8, <1>9, SameClocks, Zenon
<1>12. Modest(t)
  BY <1>0, <1>7, <1>8, <1>9, <1>11, Zenon DEF Modest
<1>13. Protected(t)
  BY <1>0, <1>8, <1>9, Zenon DEF Protected
<1>14. GuardsRpl(s) => GuardsRpl(t)
  BY <1>8, RolesDecide, Zenon DEF GuardsRpl
<1>14a. t.raps \in OwnMessage
  <2>1. s.raps.req \in {"NR", "SF"} /\ s.raps.status \subseteq Flags
    BY <1>0, SMT DEF Truthful, OwnMessage
  <2>2. m \in OwnMessage
    BY <1>m, <2>1, FrameTypes, Zenon
  <2> QED BY <1>10, <2>2, Zenon
<1>15. t.raps.req = s.raps.req /\ t.raps.status = s.raps.status
  BY <1>3, <1>10, Zenon
<1>16. Truthful(t)
  BY <1>0, <1>8, <1>9, <1>14, <1>14a, <1>15, Zenon DEF Truthful
<1>17. Sane(t)
  BY <1>12, <1>13, <1>16, Zenon DEF Sane
<1>18. \E x \in OwnMessage : /\ t.out = Append(s.out, x)
                             /\ x.req = s.raps.req /\ x.status = s.raps.status
  BY <1>v, <1>3, <1>10, <1>14a, Zenon
<1> QED BY <1>1, <1>8, <1>17, <1>18, Zenon

\* At the end of a step the messages sent are in the queues.
LEMMA QuietSane ==
  ASSUME NEW s, Sane(s)
  PROVE  LET t == Quiet(s) IN
         /\ Sane(t) /\ t.roles = s.roles /\ t.id = s.id /\ t.failed = s.failed
         /\ t.blocked = s.blocked /\ t.state = s.state /\ t.idx = s.idx
         /\ t.out = << >>
<1>0. Modest(s) /\ Truthful(s) /\ Protected(s) /\ DOMAIN s = Fields /\ Clocked(s)
  BY Zenon DEF Sane, Modest
<1>1. PICK t : t = Quiet(s)
  OBVIOUS
<1>2. But(s, t, {"out", "flush", "cleared"}) /\ t.out = << >>
  BY <1>0, <1>1, Quiets, Zenon
<1>3. /\ Moves(s, t) /\ t.state = s.state /\ t.local = s.local /\ t.blocked = s.blocked
      /\ t.idx = s.idx /\ t.run = s.run
      /\ t.sending = s.sending /\ t.raps = s.raps
  BY <1>2, QuietMoves, Zenon
<1>4. /\ DOMAIN t = Fields /\ t.roles = s.roles /\ t.holds = s.holds
      /\ t.id = s.id /\ t.failed = s.failed
  BY <1>3, SetupStays, Zenon
<1>5. Clocked(t)
  BY <1>0, <1>3, SameClocks, Zenon
<1>6. Modest(t)
  BY <1>0, <1>3, <1>4, <1>5, Zenon DEF Modest
<1>7. Protected(t)
  BY <1>0, <1>3, <1>4, Zenon DEF Protected
<1>8. Truthful(t)
  BY <1>0, <1>3, TruthKept, Zenon
<1>9. Sane(t)
  BY <1>6, <1>7, <1>8, Zenon DEF Sane
<1> QED BY <1>1, <1>2, <1>3, <1>4, <1>9, Zenon

-----------------------------------------------------------------------------
(* A node that was just created                                            *)

LEMMA ZeroFields ==
  ASSUME NEW z, z = ZeroRing(Pid, {}, NoneRuns)
  PROVE  /\ DOMAIN z = Fields /\ z.failed = {} /\ z.holds = FALSE
         /\ z.idx = {} /\ z.run = NoneRuns
<1>1. DOMAIN z = Fields
  BY SMT DEF ZeroRing, Fields
<1>2. z.failed = {} /\ z.holds = FALSE /\ z.idx = {} /\ z.run = NoneRuns
  BY SMT DEF ZeroRing
<1> QED BY <1>1, <1>2

LEMMA IsCreated ==
  ASSUME Enough, NEW n \in Nodes, NEW layout \in [Nodes -> [Ports -> Roles]]
  PROVE  LET t == Created(n, layout) IN
         /\ Sane(t) /\ t.roles = layout[n] /\ t.id = Id(n)
         /\ t.failed = {} /\ t.blocked # {} /\ "guard" \notin t.idx /\ t.out = << >>
<1>1. PICK z : z = ZeroRing(Pid, {}, NoneRuns)
  OBVIOUS
<1>2. /\ DOMAIN z = Fields /\ z.failed = {} /\ z.holds = FALSE
      /\ z.idx = {} /\ z.run = NoneRuns
  BY <1>1, ZeroFields, Zenon
<1>3. PICK ro : ro = layout[n]
  OBVIOUS
<1>4. PICK id : id = Id(n)
  OBVIOUS
<1>n. id \in Nat /\ ro \in [Ports -> Roles]
  BY <1>3, <1>4, RingAssumption, SMT DEF Id, Nodes
<1>5. PICK r : r = Put(Put(Put(z, "roles", ro), "id", id), "revertive", IsRevertive)
  OBVIOUS
<1>6. /\ DOMAIN r = Fields /\ r.failed = {} /\ r.holds = FALSE
      /\ r.idx = {} /\ r.run = NoneRuns /\ r.roles = ro /\ r.id = id
  <2> DEFINE a == Put(z, "roles", ro)
             b == Put(a, "id", id)
             c == Put(b, "revertive", IsRevertive)
  <2>1. "roles" \in Fields /\ "id" \in Fields /\ "revertive" \in Fields
    BY SMT DEF Fields
  <2>2. But(z, a, {"roles"}) /\ a["roles"] = ro
    BY <1>2, <2>1, FieldPut, SMT
  <2>r. r = c
    BY <1>5, Zenon
  <2> HIDE DEF a
  <2>3. DOMAIN a = Fields
    BY <2>2, Zenon DEF But
  <2>4. But(a, b, {"id"}) /\ b["id"] = id
    BY <2>1, <2>3, FieldPut, Zenon
  <2> HIDE DEF b
  <2>5. DOMAIN b = Fields
    BY <2>4, Zenon DEF But
  <2>6. But(b, c, {"revertive"})
    BY <2>1, <2>5, FieldPut, Zenon
  <2> HIDE DEF c
  <2>7. /\ DOMAIN c = Fields /\ c.failed = z.failed /\ c.holds = z.holds
        /\ c.idx = z.idx /\ c.run = z.run
    BY <2>2, <2>4, <2>6, SMT DEF But, Fields
  <2>8. c.roles = ro /\ c.id = id
    BY <2>2, <2>4, <2>6, SMT DEF But, Fields
  <2> QED BY <1>2, <2>r, <2>7, <2>8, Zenon
<1>7. PICK l : l = Put(r, "local", "LAST")
  OBVIOUS
<1>8. But(r, l, {"local"}) /\ l.local = "LAST"
  BY <1>6, <1>7, Asks, Zenon
<1>9. PICK f : f = Put(l, "blocked", {})
  OBVIOUS
<1>10. /\ DOMAIN f = Fields /\ f.failed = {} /\ f.holds = FALSE /\ f.local = "LAST"
       /\ f.idx = {} /\ f.run = NoneRuns /\ f.roles = ro /\ f.id = id /\ f.blocked = {}
  <2>1. "blocked" \in Fields /\ DOMAIN l = Fields
    BY <1>8, SMT DEF Fields, But
  <2>2. But(l, f, {"blocked"}) /\ f["blocked"] = {}
    <3>1. PICK x : x = "blocked"
      OBVIOUS
    <3>2. PICK e : e = {}
      OBVIOUS
    <3>3. x \in Fields /\ f = Put(l, x, e)
      BY <1>9, <2>1, <3>1, <3>2, Zenon
    <3>4. But(l, f, {x}) /\ f[x] = e
      BY <2>1, <3>3, FieldPut, Zenon
    <3> QED BY <3>1, <3>2, <3>4, Zenon
  <2>3. /\ DOMAIN f = Fields /\ f.failed = r.failed /\ f.holds = r.holds
        /\ f.idx = r.idx /\ f.run = r.run /\ f.roles = r.roles /\ f.id = r.id
    BY <1>8, <2>2, SMT DEF But, Fields
  <2>4. f.local = "LAST" /\ f.blocked = {}
    BY <1>8, <2>2, SMT DEF But, Fields
  <2> QED BY <1>6, <2>3, <2>4, Zenon
<1>11. Clocked(f)
  BY <1>10, SMT DEF Clocked, NoneRuns
<1>12. HoldOffTimerStop(GuardTimerStop(WtbTimerStop(WtrTimerStop(f)))) = f
  BY <1>10, SMT DEF HoldOffTimerStop, GuardTimerStop, WtbTimerStop, WtrTimerStop, StopTimer
<1>13. PICK b : b = IF NodeType(r) = "TRANSFER" THEN Unblock(Block(f, "west"), "east")
                    ELSE BlockRpl(f)
  OBVIOUS
<1>14. But(f, b, PortFields) /\ \E p \in Ports : b.blocked = {p}
  <2>1. f.blocked \subseteq Ports /\ "west" \in Ports /\ Another("west") = "east"
    BY <1>10, SMT DEF Ports, Another
  <2>2. RplPort(f) \in Ports
    BY <1>n, <1>10, RplIsAPort, Zenon
  <2>3. CASE NodeType(r) = "TRANSFER"
    <3>1. b = Unblock(Block(f, "west"), Another("west"))
      BY <1>13, <2>1, <2>3, Zenon
    <3> QED BY <1>10, <2>1, <3>1, OneBlocked, Zenon
  <2>4. CASE NodeType(r) # "TRANSFER"
    <3>1. b = Unblock(Block(f, RplPort(f)), Another(RplPort(f)))
      BY <1>13, <2>4, Zenon DEF BlockRpl
    <3> QED BY <1>10, <2>1, <2>2, <3>1, OneBlocked, Zenon
  <2> QED BY <2>3, <2>4
<1>15. /\ Moves(f, b) /\ b.state = f.state /\ b.local = f.local
       /\ b.idx = f.idx /\ b.run = f.run
  BY <1>14, PortsMove, Zenon
<1>16. DOMAIN b = Fields /\ Clocked(b) /\ SameGuard(f, b)
  <2>1. DOMAIN b = Fields
    BY <1>14, Zenon DEF But
  <2> QED BY <1>11, <1>15, <2>1, SameClocks, Zenon
<1>17. PICK w : w = IF Revertive(r) THEN WtrTimerStart(b) ELSE b
  OBVIOUS
<1>18. /\ But(b, w, {"idx", "run", "local"}) /\ Clocked(w) /\ SameGuard(b, w)
       /\ w.local = b.local \/ w.local = "WTR_RUNNING"
  BY <1>16, <1>17, WtrStarts, ButSelf, Zenon DEF SameGuard
<1>19. Moves(b, w) /\ w.blocked = b.blocked
  BY <1>18, WtrMoves, Zenon
<1>20. DOMAIN w = Fields
  BY <1>18, Zenon DEF But
<1>21. PICK x : x = Announce(w, "NR", {})
  OBVIOUS
<1>22. But(w, x, SentFields) /\ x.raps = Frame("NR", {})
  <2>1. Says(w, x, "NR", {})
    BY <1>20, <1>21, Announces, Zenon
  <2> QED BY <2>1, Zenon DEF Says
<1>23. /\ Moves(w, x) /\ x.local = w.local /\ x.blocked = w.blocked
       /\ x.idx = w.idx /\ x.run = w.run
  BY <1>22, SentMoves, Zenon
<1>24. DOMAIN x = Fields
  BY <1>22, Zenon DEF But
<1>25. PICK t : t = Goto(x, "PENDING")
  OBVIOUS
<1>26. But(x, t, {"state"}) /\ t.state = "PENDING"
  BY <1>24, <1>25, Goes, Zenon
<1>27. /\ Moves(x, t) /\ t.local = x.local /\ t.blocked = x.blocked
       /\ t.idx = x.idx /\ t.run = x.run /\ t.raps = x.raps
  BY <1>26, StateMoves, Zenon
<1>28. Created(n, layout) = Quiet(t)
  <2>1. StateMachineInit(r) = t
    BY <1>7, <1>9, <1>12, <1>13, <1>17, <1>21, <1>25, Zenon DEF StateMachineInit, Put
  <2>2. r = [z EXCEPT !.roles = layout[n], !.id = Id(n), !.revertive = IsRevertive]
    BY <1>3, <1>4, <1>5, Zenon DEF Put
  <2> QED BY <1>1, <2>1, <2>2, Zenon DEF Created
<1>29. Moves(f, t)
  BY <1>15, <1>19, <1>23, <1>27, MovesChain, Zenon
<1>30. /\ DOMAIN t = Fields /\ t.roles = f.roles /\ t.holds = f.holds
       /\ t.id = f.id /\ t.failed = f.failed
  BY <1>29, SetupStays, Zenon
<1>31. t.blocked = b.blocked
  BY <1>19, <1>23, <1>27, Zenon
<1>32. t.blocked # {} /\ t.blocked \subseteq Ports
  BY <1>14, <1>31, SMT
<1>33. Clocked(t) /\ SameGuard(w, t)
  <2>1. t.idx = w.idx /\ t.run = w.run
    BY <1>23, <1>27, Zenon
  <2> QED BY <1>18, <2>1, SameClocks, Zenon
<1>34. "guard" \notin t.idx
  <2>1. "guard" \notin f.idx
    BY <1>10, SMT
  <2> QED BY <1>16, <1>18, <1>33, <2>1, Zenon DEF SameGuard
<1>35. t.local \in {"LAST", "WTR_RUNNING"}
  BY <1>10, <1>15, <1>18, <1>23, <1>27, SMT
<1>36. t.raps \in OwnMessage /\ t.raps.req = "NR" /\ "RB" \notin t.raps.status
  BY <1>22, <1>27, SMT DEF Frame, OwnMessage
<1>37. Modest(t)
  BY <1>n, <1>10, <1>26, <1>30, <1>32, <1>33, <1>35, SMT DEF Modest
<1>38. Protected(t)
  BY <1>10, <1>30, <1>35, SMT DEF Protected
<1>39. Truthful(t)
  BY <1>32, <1>36, SMT DEF Truthful
<1>40. Sane(t)
  BY <1>37, <1>38, <1>39, Zenon DEF Sane
<1>41. PICK q : q = Quiet(t)
  OBVIOUS
<1>42. /\ Sane(q) /\ q.roles = t.roles /\ q.id = t.id /\ q.failed = t.failed
       /\ q.blocked = t.blocked /\ q.idx = t.idx /\ q.out = << >>
  BY <1>40, <1>41, QuietSane, Zenon
<1>43. q.roles = layout[n] /\ q.id = Id(n) /\ q.failed = {}
  BY <1>3, <1>4, <1>10, <1>30, <1>42, Zenon
<1> QED BY <1>28, <1>32, <1>34, <1>41, <1>42, <1>43, Zenon

-----------------------------------------------------------------------------
(* The ring                                                                *)

Packets == [from : Nat, raps : OwnMessage]

NodesSane(nd) ==
  /\ DOMAIN nd = Nodes
  /\ \A n \in Nodes : Sane(nd[n]) /\ nd[n].id = Id(n) /\ nd[n].out = << >>

OneOwns(nd) == \A m, n \in Nodes : Owner(nd[m]) /\ Owner(nd[n]) => m = n

Lines(qs) ==
  qs \in [Nodes -> Seq(Packets)] /\ \A m \in Nodes : Len(qs[m]) <= QLen

\* A node counts old frames only while its guard timer runs.
Counts(nd, qs, old) ==
  /\ old \in [Nodes -> [Nodes -> Nat]]
  /\ \A h, m \in Nodes : /\ old[h][m] <= Len(qs[m])
                         /\ old[h][m] > 0 => "guard" \in nd[h].idx

\* NR,RB on its way was sent by the owner.
Owned(nd, qs) ==
  \A m \in Nodes : \A i \in 1..Len(qs[m]) :
    qs[m][i].raps.req = "NR" /\ "RB" \in qs[m][i].raps.status =>
      \E o \in Nodes : Owner(nd[o]) /\ qs[m][i].from = Id(o)

Knows(nd, u, n, p) == LinkAt(n, p) \in u <=> p \notin nd[n].failed
Well(nd) == \A n \in Nodes : nd[n].failed = {}
Unguarded(nd) == \A n \in Nodes : "guard" \notin nd[n].idx

\* One link at a time is down early on or not known, and a node whose guard
\* timer runs has both of its links.
Linked(nd, u, k) ==
  /\ u \subseteq Links /\ k \in Nat
  /\ k = 0 => u = Links /\ Well(nd) /\ Unguarded(nd)
  /\ \E l \in Links : \A n \in Nodes, p \in Ports :
       LinkAt(n, p) # l => Knows(nd, u, n, p) /\ (k <= 1 => LinkAt(n, p) \in u)
  /\ \A n \in Nodes : "guard" \in nd[n].idx =>
       nd[n].failed = {} /\ \A p \in Ports : LinkAt(n, p) \in u

\* A node that has a port closed, and that calls a frame old if any node does.
Covers(old, h) == \A g, m \in Nodes : old[g][m] <= old[h][m]
Keeps(nd, old, h) == nd[h].blocked # {} /\ Covers(old, h)
Guarding(nd, old) == \E o \in Nodes : GuardsRpl(nd[o]) /\ Covers(old, o)

\* A frame that some node calls old; a frame that opens no port unless another
\* node has one closed.
IsOld(old, m, i) == \E g \in Nodes : i <= old[g][m]
Fine(nd, old, f) ==
  /\ f.raps.req = "NR"
  /\ \/ Guarding(nd, old)
     \/ "RB" \notin f.raps.status /\ \E h \in Nodes : Keeps(nd, old, h) /\ Id(h) >= f.from

Shielded(nd, qs, old) ==
  /\ \E h \in Nodes : Keeps(nd, old, h)
  /\ \A m \in Nodes : \A i \in 1..Len(qs[m]) :
       IsOld(old, m, i) \/ Fine(nd, old, qs[m][i])

RingInv ==
  /\ NodesSane(node) /\ OneOwns(node)
  /\ Lines(rx) /\ Counts(node, rx, older) /\ Owned(node, rx)
  /\ Linked(node, up, fails)
  /\ Well(node) => Shielded(node, rx, older)

-----------------------------------------------------------------------------
(* Queues                                                                  *)

LEMMA WestNode ==
  ASSUME NEW n \in Nodes
  PROVE  West(n, 1) \in Nodes /\ West(n, 1) # n
<1>0. N \in Nat /\ N > 1 /\ n \in Int /\ 0 <= n /\ n <= N - 1
  BY RingAssumption, SMT DEF Nodes
<1>1. CASE n = 0
  <2>1. (n + N - 1) % N = N - 1
    BY <1>0, <1>1, SMT
  <2> QED BY <1>0, <1>1, <2>1, SMT DEF West, Nodes
<1>2. CASE n # 0
  <2>1. (n + N - 1) % N = n - 1
    BY <1>0, <1>2, SMT
  <2> QED BY <1>0, <1>2, <2>1, SMT DEF West, Nodes
<1> QED BY <1>1, <1>2

\* The copies of a message that reach a node are of that message.
LEMMA CopiesAre ==
  ASSUME NEW n, NEW m, NEW msg
  PROVE  Copies(n, m, msg) \in Seq({[from |-> Id(n), raps |-> msg]})
<1>1. PICK f : f = [from |-> Id(n), raps |-> msg]
  OBVIOUS
<1>2. << >> \in Seq({f}) /\ <<f>> \in Seq({f})
  OBVIOUS
<1>3. \A a, b \in Seq({f}) : a \o b \in Seq({f})
  BY SMT
<1> DEFINE Copy(b) == IF b THEN <<[from |-> Id(n), raps |-> msg]>> ELSE << >>
<1>4. \A b : Copy(b) \in Seq({f})
  BY <1>1, <1>2, Zenon
<1> HIDE DEF Copy
<1>5. Copies(n, m, msg) =
        Copy(\E k \in 1..(N - 1) : m = East(n, k) /\ ComesEast(n, k))
          \o Copy(\E k \in 1..(N - 1) : m = West(n, k) /\ ComesWest(n, k))
  BY Zenon DEF Copies, Copy
<1> QED BY <1>1, <1>3, <1>4, <1>5, Zenon

LEMMA SentAre ==
  ASSUME NEW n, NEW m, NEW msg, NEW out, out = Append(<< >>, msg)
  PROVE  Sent(n, m, out) \in Seq({[from |-> Id(n), raps |-> msg]})
<1>1. out # << >> /\ Len(out) = 1 /\ out[1] = msg
  BY SMT
<1>2. Sent(n, m, out) = Copies(n, m, msg)
  BY <1>1, Zenon DEF Sent
<1> QED BY <1>2, CopiesAre, Zenon

\* A queue keeps what it holds, and takes of what comes what has room.
LEMMA EnqueueAdds ==
  ASSUME NEW q \in Seq(Packets), Len(q) <= QLen,
         NEW F \in SUBSET Packets, NEW new \in Seq(F)
  PROVE  LET t == Enqueue(q, new) IN
         /\ t \in Seq(Packets) /\ Len(q) <= Len(t) /\ Len(t) <= QLen
         /\ \A i \in 1..Len(q) : t[i] = q[i]
         /\ \A i \in 1..Len(t) : i > Len(q) => t[i] \in F
<1>1. PICK all : all = q \o new
  OBVIOUS
<1>2. new \in Seq(Packets) /\ \A i \in 1..Len(new) : new[i] \in F
  BY SMT
<1>3. /\ all \in Seq(Packets) /\ Len(all) = Len(q) + Len(new)
      /\ \A i \in 1..Len(q) : all[i] = q[i]
      /\ \A i \in 1..Len(all) : i > Len(q) => all[i] = new[i - Len(q)]
  BY <1>1, <1>2, SMT
<1>4. Len(q) \in Nat /\ Len(new) \in Nat /\ QLen \in Nat
  BY <1>2, RingAssumption, SMT
<1>5. \A i \in 1..Len(all) : i > Len(q) => all[i] \in F
  BY <1>2, <1>3, <1>4, SMT
<1>6. CASE Len(all) <= QLen
  <2>1. Enqueue(q, new) = all
    BY <1>1, <1>6, Zenon DEF Enqueue
  <2> QED BY <1>3, <1>4, <1>5, <1>6, <2>1, SMT
<1>7. CASE ~ Len(all) <= QLen
  <2>1. PICK t : t = SubSeq(all, 1, QLen)
    OBVIOUS
  <2>2. Enqueue(q, new) = t
    BY <1>1, <1>7, <2>1, Zenon DEF Enqueue
  <2>3. t \in Seq(Packets) /\ Len(t) = QLen /\ \A i \in 1..QLen : t[i] = all[i]
    BY <1>3, <1>4, <1>7, <2>1, SMT
  <2> QED BY <1>3, <1>4, <1>5, <1>7, <2>2, <2>3, SMT
<1> QED BY <1>6, <1>7

LEMMA EnqueueNone ==
  ASSUME NEW q \in Seq(Packets), Len(q) <= QLen
  PROVE  Enqueue(q, << >>) = q
<1>1. q \o << >> = q
  BY SMT
<1> QED BY <1>1, Zenon DEF Enqueue

-----------------------------------------------------------------------------
(* What a step of a node changes                                           *)

LEMMA NodesStep ==
  ASSUME NodesSane(node), OneOwns(node), NEW n \in Nodes, NEW s, NEW q, Step(n, s, q),
         Sane(s), s.roles = node[n].roles, s.id = node[n].id
  PROVE  /\ NodesSane(node') /\ OneOwns(node')
         /\ \A m \in Nodes \ {n} : node'[m] = node[m]
         /\ \A m \in Nodes : Owner(node'[m]) = Owner(node[m])
         /\ RplPort(node'[n]) = RplPort(s) /\ Owner(node'[n]) = Owner(s)
         /\ node'[n].failed = s.failed /\ node'[n].blocked = s.blocked
         /\ node'[n].state = s.state /\ node'[n].idx = s.idx
<1>1. PICK t : t = Quiet(s)
  OBVIOUS
<1>2. /\ Sane(t) /\ t.roles = s.roles /\ t.id = s.id /\ t.failed = s.failed
      /\ t.blocked = s.blocked /\ t.state = s.state /\ t.idx = s.idx /\ t.out = << >>
  BY <1>1, QuietSane, Zenon
<1>3. node' = [node EXCEPT ![n] = t] /\ DOMAIN node = Nodes
  BY <1>1, Zenon DEF Step, NodesSane
<1>4. DOMAIN node' = Nodes /\ node'[n] = t /\ \A m \in Nodes \ {n} : node'[m] = node[m]
  BY <1>3, Zenon
<1>5. NodesSane(node')
  BY <1>2, <1>4, SMT DEF NodesSane
<1>6. \A m \in Nodes : node'[m].roles = node[m].roles
  BY <1>2, <1>4, SMT
<1>7. \A m \in Nodes : Owner(node'[m]) = Owner(node[m])
  BY <1>6, RolesDecide, Zenon
<1>8. OneOwns(node')
  BY <1>7, Zenon DEF OneOwns
<1>9. RplPort(t) = RplPort(s) /\ Owner(t) = Owner(s)
  BY <1>2, RolesDecide, Zenon
<1> QED BY <1>2, <1>4, <1>5, <1>7, <1>8, <1>9, Zenon

\* Queues keep their frames, and what is new in them is what the node sent.
Grown(qs, t, F) ==
  \A m \in Nodes :
    /\ Len(qs[m]) <= Len(t[m])
    /\ \A i \in 1..Len(qs[m]) : t[m][i] = qs[m][i]
    /\ \A i \in 1..Len(t[m]) : i > Len(qs[m]) => t[m][i] \in F

LEMMA QueuesGrow ==
  ASSUME NEW n \in Nodes, NEW s, NEW q, Lines(q), Step(n, s, q),
         NEW msg \in OwnMessage, s.out = Append(<< >>, msg)
  PROVE  Lines(rx') /\ Grown(q, rx', {[from |-> Id(n), raps |-> msg]})
<1>1. PICK F : F = {[from |-> Id(n), raps |-> msg]}
  OBVIOUS
<1>2. F \in SUBSET Packets
  BY <1>1, RingAssumption, SMT DEF Packets, Id, Nodes
<1>3. rx' = [m \in Nodes |-> IF m = n THEN q[m] ELSE Enqueue(q[m], Sent(n, m, s.out))]
  BY Zenon DEF Step
<1>4. ASSUME NEW m \in Nodes
      PROVE  /\ rx'[m] \in Seq(Packets) /\ Len(q[m]) <= Len(rx'[m]) /\ Len(rx'[m]) <= QLen
             /\ \A i \in 1..Len(q[m]) : rx'[m][i] = q[m][i]
             /\ \A i \in 1..Len(rx'[m]) : i > Len(q[m]) => rx'[m][i] \in F
  <2>0. q[m] \in Seq(Packets) /\ Len(q[m]) <= QLen
    BY <1>4, SMT DEF Lines
  <2>1. CASE m = n
    <3>1. rx'[m] = q[m]
      BY <1>3, <1>4, <2>1, Zenon
    <3> QED BY <2>0, <3>1, RingAssumption, SMT
  <2>2. CASE m # n
    <3>1. PICK new : new = Sent(n, m, s.out)
      OBVIOUS
    <3>2. new \in Seq(F)
      BY <1>1, <3>1, SentAre, Zenon
    <3>3. PICK c : c = q[m]
      OBVIOUS
    <3>4. rx'[m] = Enqueue(c, new)
      BY <1>3, <1>4, <2>2, <3>1, <3>3, Zenon
    <3>5. c \in Seq(Packets) /\ Len(c) <= QLen
      BY <2>0, <3>3, Zenon
    <3>6. PICK t : t = Enqueue(c, new)
      OBVIOUS
    <3>7. /\ t \in Seq(Packets) /\ Len(c) <= Len(t) /\ Len(t) <= QLen
          /\ \A i \in 1..Len(c) : t[i] = c[i]
          /\ \A i \in 1..Len(t) : i > Len(c) => t[i] \in F
      BY <1>2, <3>2, <3>5, <3>6, EnqueueAdds, Zenon
    <3> QED BY <3>3, <3>4, <3>6, <3>7, Zenon
  <2> QED BY <2>1, <2>2
<1>5. rx' \in [Nodes -> Seq(Packets)]
  BY <1>3, <1>4, SMT
<1> QED BY <1>1, <1>4, <1>5, Zenon DEF Lines, Grown

LEMMA QueuesStay ==
  ASSUME NEW n \in Nodes, NEW s, NEW q, Lines(q), Step(n, s, q), s.out = << >>
  PROVE  rx' = q
<1>1. rx' = [m \in Nodes |-> IF m = n THEN q[m] ELSE Enqueue(q[m], Sent(n, m, s.out))]
  BY Zenon DEF Step
<1>2. ASSUME NEW m \in Nodes
      PROVE  rx'[m] = q[m]
  <2>1. CASE m = n
    BY <1>1, <1>2, <2>1, Zenon
  <2>2. CASE m # n
    <3>1. Sent(n, m, s.out) = << >>
      BY Zenon DEF Sent
    <3>2. PICK c : c = q[m]
      OBVIOUS
    <3>3. c \in Seq(Packets) /\ Len(c) <= QLen
      BY <1>2, <3>2, SMT DEF Lines
    <3>4. Enqueue(c, << >>) = c
      BY <3>3, EnqueueNone, Zenon
    <3> QED BY <1>1, <1>2, <2>2, <3>1, <3>2, <3>4, Zenon
  <2> QED BY <2>1, <2>2
<1>3. q \in [Nodes -> Seq(Packets)]
  BY Zenon DEF Lines
<1> QED BY <1>1, <1>2, <1>3, SMT

LEMMA OlderStay ==
  ASSUME Lines(rx), Counts(node, rx, older), NEW n \in Nodes, NEW s, Step(n, s, rx),
         "guard" \in s.idx => "guard" \in node[n].idx
  PROVE  older' = older
<1>1. older' = [m \in Nodes |->
                  IF m = n /\ "guard" \in s.idx \ node[n].idx
                  THEN [x \in Nodes |-> Len(rx[x])]
                  ELSE [x \in Nodes |-> IF older[m][x] = 0 THEN 0
                                        ELSE older[m][x] - (Len(rx[x]) - Len(rx[x]))]]
  BY Zenon DEF Step
<1>2. older \in [Nodes -> [Nodes -> Nat]] /\ \A x \in Nodes : Len(rx[x]) \in Nat
  BY SMT DEF Counts, Lines
<1>3. ASSUME NEW m \in Nodes
      PROVE  older'[m] = older[m]
  <2>1. older'[m] = [x \in Nodes |-> IF older[m][x] = 0 THEN 0
                                     ELSE older[m][x] - (Len(rx[x]) - Len(rx[x]))]
    BY <1>1, <1>3, Zenon
  <2>2. \A x \in Nodes : older[m][x] - (Len(rx[x]) - Len(rx[x])) = older[m][x]
    BY <1>2, <1>3, SMT
  <2>3. \A x \in Nodes : older'[m][x] = older[m][x]
    BY <2>1, <2>2, Zenon
  <2> QED BY <1>2, <1>3, <2>1, <2>3, SMT
<1> QED BY <1>1, <1>2, <1>3, SMT

\* A node whose guard timer starts calls old all frames that are on their way.
LEMMA OlderStart ==
  ASSUME Lines(rx), Counts(node, rx, older), NEW n \in Nodes, NEW s, Step(n, s, rx),
         "guard" \in s.idx, "guard" \notin node[n].idx
  PROVE  /\ older' \in [Nodes -> [Nodes -> Nat]]
         /\ \A x \in Nodes : older'[n][x] = Len(rx[x])
         /\ \A m \in Nodes \ {n} : older'[m] = older[m]
<1>1. older' = [m \in Nodes |->
                  IF m = n /\ "guard" \in s.idx \ node[n].idx
                  THEN [x \in Nodes |-> Len(rx[x])]
                  ELSE [x \in Nodes |-> IF older[m][x] = 0 THEN 0
                                        ELSE older[m][x] - (Len(rx[x]) - Len(rx[x]))]]
  BY Zenon DEF Step
<1>2. older \in [Nodes -> [Nodes -> Nat]] /\ \A x \in Nodes : Len(rx[x]) \in Nat
  BY SMT DEF Counts, Lines
<1>3. older'[n] = [x \in Nodes |-> Len(rx[x])]
  BY <1>1, Zenon
<1>4. ASSUME NEW m \in Nodes \ {n}
      PROVE  older'[m] = older[m]
  <2>1. older'[m] = [x \in Nodes |-> IF older[m][x] = 0 THEN 0
                                     ELSE older[m][x] - (Len(rx[x]) - Len(rx[x]))]
    BY <1>1, <1>4, Zenon
  <2>2. \A x \in Nodes : older[m][x] - (Len(rx[x]) - Len(rx[x])) = older[m][x]
    BY <1>2, <1>4, SMT
  <2>3. \A x \in Nodes : older'[m][x] = older[m][x]
    BY <2>1, <2>2, Zenon
  <2> QED BY <1>2, <1>4, <2>1, <2>3, SMT
<1>5. \A m \in Nodes : older'[m] \in [Nodes -> Nat]
  <2>1. older'[n] \in [Nodes -> Nat]
    BY <1>2, <1>3, Zenon
  <2>2. \A m \in Nodes \ {n} : older'[m] \in [Nodes -> Nat]
    BY <1>2, <1>4, Zenon
  <2> QED BY <2>1, <2>2, Zenon
<1>6. older' = [m \in Nodes |-> older'[m]]
  BY <1>1, Zenon
<1>7. older' \in [Nodes -> [Nodes -> Nat]]
  BY <1>5, <1>6, Zenon
<1>8. \A x \in Nodes : older'[n][x] = Len(rx[x])
  BY <1>3, Zenon
<1> QED BY <1>4, <1>7, <1>8, Zenon

-----------------------------------------------------------------------------
(* A closed port behind every frame                                        *)

LEMMA FramesAre ==
  ASSUME NEW qs, Lines(qs), NEW m \in Nodes, NEW i \in 1..Len(qs[m])
  PROVE  qs[m][i].from \in Nat /\ qs[m][i].raps \in OwnMessage
<1>1. PICK q : q = qs[m]
  OBVIOUS
<1>2. q \in Seq(Packets) /\ i \in 1..Len(q)
  BY <1>1, SMT DEF Lines
<1>3. PICK f : f = q[i]
  OBVIOUS
<1>4. f \in Packets
  BY <1>2, <1>3, SMT
<1>5. f.from \in Nat /\ f.raps \in OwnMessage
  BY <1>4, SMT DEF Packets
<1> QED BY <1>1, <1>3, <1>5, Zenon

\* Frames stay old or fine while the nodes that hold a port closed keep it, or
\* leave it to one of a higher id.
LEMMA Persist ==
  ASSUME NEW nd, NEW qs, NEW old, NEW nd2, NEW qs2, NEW old2,
         Lines(qs), Shielded(nd, qs, old),
         Guarding(nd, old) => Guarding(nd2, old2),
         \/ Guarding(nd2, old2)
         \/ \A h \in Nodes : Keeps(nd, old, h) =>
              \E k \in Nodes : Keeps(nd2, old2, k) /\ Id(k) >= Id(h),
         \A m \in Nodes : \A i \in 1..Len(qs2[m]) :
           \/ IsOld(old2, m, i)
           \/ \E j \in 1..Len(qs[m]) : qs2[m][i] = qs[m][j] /\ ~ IsOld(old, m, j)
  PROVE  Shielded(nd2, qs2, old2)
<1>1. CASE Guarding(nd2, old2)
  <2>1. PICK o \in Nodes : GuardsRpl(nd2[o]) /\ Covers(old2, o)
    BY <1>1, Zenon DEF Guarding
  <2>2. Keeps(nd2, old2, o)
    BY <2>1, SMT DEF Keeps, GuardsRpl
  <2>3. \A f : Fine(nd, old, f) => Fine(nd2, old2, f)
    BY <1>1, Zenon DEF Fine
  <2> QED BY <2>2, <2>3, Zenon DEF Shielded
<1>2. CASE ~ Guarding(nd2, old2)
  <2>1. \A h \in Nodes : Keeps(nd, old, h) =>
          \E k \in Nodes : Keeps(nd2, old2, k) /\ Id(k) >= Id(h)
    BY <1>2, Zenon
  <2>2. ~ Guarding(nd, old)
    BY <1>2, Zenon
  <2>3. \A h \in Nodes : Id(h) \in Nat
    BY RingAssumption, SMT DEF Id, Nodes
  <2>4. ASSUME NEW f, f.from \in Nat, Fine(nd, old, f)
        PROVE  Fine(nd2, old2, f)
    <3>1. f.raps.req = "NR" /\ "RB" \notin f.raps.status
      BY <2>2, <2>4, Zenon DEF Fine
    <3>2. PICK h \in Nodes : Keeps(nd, old, h) /\ Id(h) >= f.from
      BY <2>2, <2>4, Zenon DEF Fine
    <3>3. PICK k \in Nodes : Keeps(nd2, old2, k) /\ Id(k) >= Id(h)
      BY <2>1, <3>2, Zenon
    <3>4. Id(k) >= f.from
      BY <2>3, <2>4, <3>2, <3>3, SMT
    <3> QED BY <3>1, <3>3, <3>4, Zenon DEF Fine
  <2>5. \E h \in Nodes : Keeps(nd2, old2, h)
    BY <2>1, Zenon DEF Shielded
  <2>6. \A m \in Nodes : \A j \in 1..Len(qs[m]) : qs[m][j].from \in Nat
    BY FramesAre, Zenon
  <2>7. ASSUME NEW m \in Nodes, NEW i \in 1..Len(qs2[m]), ~ IsOld(old2, m, i)
        PROVE  Fine(nd2, old2, qs2[m][i])
    <3>1. PICK j \in 1..Len(qs[m]) : qs2[m][i] = qs[m][j] /\ ~ IsOld(old, m, j)
      BY <2>7, Zenon
    <3>2. PICK f : f = qs[m][j]
      OBVIOUS
    <3>3. Fine(nd, old, f) /\ f.from \in Nat
      BY <2>6, <3>1, <3>2, Zenon DEF Shielded
    <3>4. Fine(nd2, old2, f)
      BY <2>4, <3>3, Zenon
    <3> QED BY <3>1, <3>2, <3>4, Zenon
  <2> QED BY <2>5, <2>7, Zenon DEF Shielded
<1> QED BY <1>1, <1>2

\* A node whose last failure clears calls old what is on its way, and holds the
\* port closed that the NR it sends is about.
LEMMA ClearShields ==
  ASSUME NEW nd2, NEW qs, NEW qs2, NEW old2, NEW n \in Nodes, NEW msg \in OwnMessage,
         Grown(qs, qs2, {[from |-> Id(n), raps |-> msg]}),
         nd2[n].blocked # {},
         \A m \in Nodes : Len(qs[m]) \in Nat /\ Len(qs2[m]) \in Nat,
         \A m \in Nodes : old2[n][m] = Len(qs[m]),
         \A g, m \in Nodes : old2[g][m] <= Len(qs[m]),
         msg.req = "NR", "RB" \notin msg.status
  PROVE  Shielded(nd2, qs2, old2)
<1>1. Covers(old2, n)
  BY Zenon DEF Covers
<1>2. Keeps(nd2, old2, n)
  BY <1>1, Zenon DEF Keeps
<1>3. PICK f : f = [from |-> Id(n), raps |-> msg]
  OBVIOUS
<1>4. f.from = Id(n) /\ f.raps = msg
  BY <1>3, SMT
<1>5. Id(n) >= f.from
  BY <1>4, RingAssumption, SMT DEF Id, Nodes
<1>6. Fine(nd2, old2, f)
  BY <1>2, <1>4, <1>5, Zenon DEF Fine
<1>7. ASSUME NEW m \in Nodes, NEW i \in 1..Len(qs2[m]), ~ IsOld(old2, m, i)
      PROVE  qs2[m][i] = f
  <2>1. ~ i <= Len(qs[m])
    BY <1>7, Zenon DEF IsOld
  <2>2. i > Len(qs[m])
    BY <1>7, <2>1, SMT
  <2> QED BY <1>3, <1>7, <2>2, Zenon DEF Grown
<1> QED BY <1>2, <1>6, <1>7, Zenon DEF Shielded

\* A node that sends into empty queues: the frames are fine if the owner guards
\* the RPL, or if they are NR of a node that has a port closed.
LEMMA CalmShields ==
  ASSUME NEW nd2, NEW qs, NEW qs2, NEW old2, NEW n \in Nodes, NEW msg \in OwnMessage,
         \A m \in Nodes : qs[m] = << >>,
         Grown(qs, qs2, {[from |-> Id(n), raps |-> msg]}),
         \A h \in Nodes : Covers(old2, h),
         nd2[n].blocked # {}, msg.req = "NR", \A m \in Nodes : Len(qs2[m]) \in Nat,
         GuardsRpl(nd2[n]) \/ "RB" \notin msg.status
  PROVE  Shielded(nd2, qs2, old2)
<1>2. Keeps(nd2, old2, n)
  BY Zenon DEF Keeps
<1>3. PICK f : f = [from |-> Id(n), raps |-> msg]
  OBVIOUS
<1>4. f.from = Id(n) /\ f.raps = msg
  BY <1>3, SMT
<1>5. Id(n) >= f.from
  BY <1>4, RingAssumption, SMT DEF Id, Nodes
<1>6. Fine(nd2, old2, f)
  <2>1. CASE GuardsRpl(nd2[n])
    BY <1>4, <2>1, Zenon DEF Fine, Guarding
  <2>2. CASE "RB" \notin msg.status
    BY <1>2, <1>4, <1>5, <2>2, Zenon DEF Fine
  <2> QED BY <2>1, <2>2
<1>7. ASSUME NEW m \in Nodes, NEW i \in 1..Len(qs2[m])
      PROVE  qs2[m][i] = f
  <2>1. i > Len(qs[m])
    BY <1>7, SMT
  <2> QED BY <1>3, <1>7, <2>1, Zenon DEF Grown
<1> QED BY <1>2, <1>6, <1>7, Zenon DEF Shielded

-----------------------------------------------------------------------------
(* Links                                                                   *)

LEMMA EveryLink ==
  ASSUME NEW l \in Links
  PROVE  l \in Nodes /\ "east" \in Ports /\ LinkAt(l, "east") = l
BY SMT DEF Links, LinkAt, Ports

LEMMA TwoLinks ==
  ASSUME NEW n \in Nodes, NEW p \in Ports
  PROVE  /\ LinkAt(n, p) \in Links /\ LinkAt(n, Another(p)) # LinkAt(n, p)
         /\ Another(p) \in Ports /\ Another(p) # p /\ Ports = {p, Another(p)}
<1>1. West(n, 1) \in Nodes /\ West(n, 1) # n
  BY WestNode, Zenon
<1>2. CASE p = "east"
  BY <1>1, <1>2, SMT DEF LinkAt, Another, Ports, Links
<1>3. CASE p = "west"
  BY <1>1, <1>3, SMT DEF LinkAt, Another, Ports, Links
<1> QED BY <1>2, <1>3, SMT DEF Ports

LEMMA CalmKnows ==
  Calm => \A n \in Nodes, p \in Ports : Knows(node, up, n, p)
<1>1. \A n \in Nodes, p \in Ports : Noticed(n, p) => Knows(node, up, n, p)
  BY SMT DEF Noticed, Knows
<1> QED BY <1>1, Zenon DEF Calm

LEMMA LinkedFail ==
  ASSUME Hasty <= 1, Linked(node, up, fails), NEW l \in Links, Fail(l)
  PROVE  Linked(node, up', fails')
<1>0. up' = up \ {l} /\ fails' = fails + 1 /\ l \in up /\ fails \in Nat /\ up \subseteq Links
  BY Zenon DEF Fail, Linked
<1>1. fails = 0 \/ (Calm /\ NoGuard)
  <2>1. fails + 1 <= Hasty \/ (Calm /\ NoGuard)
    BY Zenon DEF Fail, MayChange
  <2> QED BY <1>0, <2>1, RingAssumption, SMT
<1>2. Unguarded(node)
  <2>1. fails = 0 => Unguarded(node)
    BY Zenon DEF Linked
  <2>2. NoGuard => Unguarded(node)
    BY Zenon DEF NoGuard, Unguarded
  <2> QED BY <1>1, <2>1, <2>2, Zenon
<1>3. \A n \in Nodes, p \in Ports : Knows(node, up, n, p)
  <2>1. CASE fails = 0
    <3>1. up = Links /\ Well(node)
      BY <2>1, Zenon DEF Linked
    <3>2. \A n \in Nodes, p \in Ports : LinkAt(n, p) \in up /\ p \notin node[n].failed
      BY <3>1, TwoLinks, SMT DEF Well
    <3> QED BY <3>2, Zenon DEF Knows
  <2>2. CASE Calm
    BY <2>2, CalmKnows, Zenon
  <2> QED BY <1>1, <2>1, <2>2
<1>4. ASSUME NEW n \in Nodes, NEW p \in Ports, LinkAt(n, p) # l
      PROVE  Knows(node, up', n, p) /\ (fails' <= 1 => LinkAt(n, p) \in up')
  <2>1. LinkAt(n, p) \in up' <=> LinkAt(n, p) \in up
    BY <1>0, <1>4, Zenon
  <2>2. Knows(node, up', n, p)
    <3>1. Knows(node, up, n, p)
      BY <1>3, <1>4, Zenon
    <3> QED BY <2>1, <3>1, Zenon DEF Knows
  <2>3. ASSUME fails' <= 1
        PROVE  LinkAt(n, p) \in up
    <3>1. fails = 0
      BY <1>0, <2>3, SMT
    <3>2. up = Links
      BY <3>1, Zenon DEF Linked
    <3> QED BY <1>4, <3>2, TwoLinks, Zenon
  <2> QED BY <2>1, <2>2, <2>3
<1>5. up' \subseteq Links /\ fails' \in Nat /\ fails' # 0
  BY <1>0, SMT
<1> QED BY <1>2, <1>4, <1>5, Zenon DEF Linked, Unguarded

LEMMA LinkedRecover ==
  ASSUME Hasty <= 1, Linked(node, up, fails), NEW l \in Links, Recover(l)
  PROVE  Linked(node, up', fails')
<1>0. /\ up' = up \cup {l} /\ fails' = fails /\ l \notin up /\ fails \in Nat
      /\ up \subseteq Links /\ up' \subseteq Links
  BY Zenon DEF Recover, Linked
<1>1. fails # 0
  BY <1>0, Zenon DEF Linked
<1>2. fails <= 1 \/ Calm
  <2>1. fails <= Hasty \/ Calm
    BY Zenon DEF Recover, MayChange
  <2> QED BY <1>0, <2>1, RingAssumption, SMT
<1>3. PICK l0 \in Links : \A n \in Nodes, p \in Ports :
        LinkAt(n, p) # l0 => Knows(node, up, n, p) /\ (fails <= 1 => LinkAt(n, p) \in up)
  BY Zenon DEF Linked
<1>4. fails <= 1 => l = l0
  BY <1>0, <1>3, EveryLink, Zenon
<1>5. ASSUME NEW n \in Nodes, NEW p \in Ports, LinkAt(n, p) # l
      PROVE  Knows(node, up', n, p) /\ (fails' <= 1 => LinkAt(n, p) \in up')
  <2>1. LinkAt(n, p) \in up' <=> LinkAt(n, p) \in up
    BY <1>0, <1>5, Zenon
  <2>2. Knows(node, up, n, p)
    <3>1. CASE fails <= 1
      BY <1>3, <1>4, <1>5, <3>1, Zenon
    <3>2. CASE Calm
      BY <1>5, <3>2, CalmKnows, Zenon
    <3> QED BY <1>2, <3>1, <3>2
  <2>3. fails' <= 1 => LinkAt(n, p) \in up
    BY <1>0, <1>3, <1>4, <1>5, Zenon
  <2> QED BY <2>1, <2>2, <2>3, Zenon DEF Knows
<1>6. ASSUME NEW n \in Nodes, "guard" \in node[n].idx
      PROVE  node[n].failed = {} /\ \A p \in Ports : LinkAt(n, p) \in up'
  BY <1>0, <1>6, Zenon DEF Linked
<1> QED BY <1>0, <1>1, <1>5, <1>6, Zenon DEF Linked

LEMMA LinkedStay ==
  ASSUME NEW nd, NEW u, NEW k, Linked(nd, u, k), NEW nd2,
         \A n \in Nodes : /\ nd2[n].failed = nd[n].failed
                          /\ "guard" \in nd2[n].idx => "guard" \in nd[n].idx
  PROVE  Linked(nd2, u, k)
<1>1. \A n \in Nodes, p \in Ports : Knows(nd, u, n, p) => Knows(nd2, u, n, p)
  BY Zenon DEF Knows
<1>2. (Well(nd) => Well(nd2)) /\ (Unguarded(nd) => Unguarded(nd2))
  BY Zenon DEF Well, Unguarded
<1> QED BY <1>1, <1>2, Zenon DEF Linked

LEMMA LinkedDetect ==
  ASSUME NEW nd, NEW u, NEW k, Linked(nd, u, k), NEW nd2, NEW n \in Nodes, NEW p \in Ports,
         ~ Knows(nd, u, n, p), \A m \in Nodes \ {n} : nd2[m] = nd[m],
         nd2[n].failed = IF LinkAt(n, p) \in u THEN nd[n].failed \ {p}
                         ELSE nd[n].failed \cup {p},
         "guard" \in nd2[n].idx =>
           \/ "guard" \in nd[n].idx /\ (LinkAt(n, p) \notin u \/ nd[n].failed # {})
           \/ LinkAt(n, p) \in u /\ nd[n].failed = {p}
  PROVE  Linked(nd2, u, k)
<1>1. PICK l0 \in Links : \A m \in Nodes, x \in Ports :
        LinkAt(m, x) # l0 => Knows(nd, u, m, x) /\ (k <= 1 => LinkAt(m, x) \in u)
  BY Zenon DEF Linked
<1>2. LinkAt(n, p) = l0
  BY <1>1, Zenon
<1>3. /\ LinkAt(n, p) \in Links /\ LinkAt(n, Another(p)) # l0
      /\ Another(p) \in Ports /\ Another(p) # p /\ Ports = {p, Another(p)}
  BY <1>2, TwoLinks, Zenon
<1>4. k # 0
  <2>1. SUFFICES ASSUME k = 0
                 PROVE  FALSE
    OBVIOUS
  <2>2. u = Links /\ nd[n].failed = {}
    BY <2>1, Zenon DEF Linked, Well
  <2>3. LinkAt(n, p) \in u /\ p \notin nd[n].failed
    BY <1>3, <2>2, Zenon
  <2> QED BY <2>3, Zenon DEF Knows
<1>5. ASSUME NEW m \in Nodes, NEW x \in Ports, LinkAt(m, x) # l0
      PROVE  Knows(nd2, u, m, x) /\ (k <= 1 => LinkAt(m, x) \in u)
  <2>1. Knows(nd, u, m, x) /\ (k <= 1 => LinkAt(m, x) \in u)
    BY <1>1, <1>5, Zenon
  <2>2. x \in nd2[m].failed <=> x \in nd[m].failed
    <3>1. CASE m = n
      <4>1. x # p
        BY <1>2, <1>5, <3>1, Zenon
      <4> QED BY <3>1, <4>1, SMT
    <3>2. CASE m # n
      BY <3>2, Zenon
    <3> QED BY <3>1, <3>2
  <2> QED BY <2>1, <2>2, Zenon DEF Knows
<1>6. ASSUME NEW m \in Nodes, "guard" \in nd2[m].idx
      PROVE  nd2[m].failed = {} /\ \A x \in Ports : LinkAt(m, x) \in u
  <2>1. CASE m # n
    <3>1. nd2[m] = nd[m]
      BY <2>1, Zenon
    <3> QED BY <1>6, <3>1, Zenon DEF Linked
  <2>2. CASE m = n
    <3>1. "guard" \in nd[n].idx => nd[n].failed = {} /\ LinkAt(n, p) \in u
      BY Zenon DEF Linked
    <3>2. LinkAt(n, p) \in u /\ nd[n].failed = {p}
      BY <1>6, <2>2, <3>1, Zenon
    <3>3. nd2[n].failed = {}
      BY <3>2, SMT
    <3>4. Knows(nd, u, n, Another(p))
      BY <1>1, <1>3, Zenon
    <3>5. LinkAt(n, Another(p)) \in u
      BY <1>3, <3>2, <3>4, SMT DEF Knows
    <3> QED BY <1>3, <2>2, <3>2, <3>3, <3>5, Zenon
  <2> QED BY <2>1, <2>2
<1>7. u \subseteq Links /\ k \in Nat
  BY Zenon DEF Linked
<1> QED BY <1>4, <1>5, <1>6, <1>7, Zenon DEF Linked

-----------------------------------------------------------------------------
(* Steps of the invariant                                                  *)

LEMMA OwnedGrows ==
  ASSUME NEW nd, NEW qs, Owned(nd, qs), NEW nd2, NEW qs2,
         \A m \in Nodes : Owner(nd2[m]) = Owner(nd[m]),
         \A m \in Nodes : Len(qs[m]) \in Nat /\ Len(qs2[m]) \in Nat,
         NEW f, Grown(qs, qs2, {f}),
         f.raps.req = "NR" /\ "RB" \in f.raps.status =>
           \E o \in Nodes : Owner(nd2[o]) /\ f.from = Id(o)
  PROVE  Owned(nd2, qs2)
<1>1. SUFFICES ASSUME NEW m \in Nodes, NEW i \in 1..Len(qs2[m]),
                      qs2[m][i].raps.req = "NR", "RB" \in qs2[m][i].raps.status
               PROVE  \E o \in Nodes : Owner(nd2[o]) /\ qs2[m][i].from = Id(o)
  BY Zenon DEF Owned
<1>2. CASE i > Len(qs[m])
  <2>1. qs2[m][i] = f
    BY <1>1, <1>2, Zenon DEF Grown
  <2> QED BY <1>1, <2>1, Zenon
<1>3. CASE ~ i > Len(qs[m])
  <2>1. i \in 1..Len(qs[m])
    BY <1>1, <1>3, SMT
  <2>2. qs2[m][i] = qs[m][i]
    BY <1>1, <2>1, Zenon DEF Grown
  <2>3. \E o \in Nodes : Owner(nd[o]) /\ qs[m][i].from = Id(o)
    BY <1>1, <2>1, <2>2, Zenon DEF Owned
  <2> QED BY <2>2, <2>3, Zenon
<1> QED BY <1>2, <1>3

LEMMA LineLengths ==
  ASSUME NEW qs, Lines(qs)
  PROVE  \A m \in Nodes : Len(qs[m]) \in Nat
<1>1. ASSUME NEW m \in Nodes
      PROVE  Len(qs[m]) \in Nat
  <2>1. qs[m] \in Seq(Packets)
    BY <1>1, Zenon DEF Lines
  <2> QED BY <2>1, SMT
<1> QED BY <1>1

LEMMA CountsGrow ==
  ASSUME NEW nd, NEW qs, NEW old, Counts(nd, qs, old), NEW nd2, NEW qs2,
         \A m \in Nodes : Len(qs[m]) \in Nat /\ Len(qs2[m]) \in Nat /\ Len(qs[m]) <= Len(qs2[m]),
         \A h \in Nodes : "guard" \in nd[h].idx =>
           "guard" \in nd2[h].idx \/ \A m \in Nodes : old[h][m] = 0
  PROVE  Counts(nd2, qs2, old)
<1>1. old \in [Nodes -> [Nodes -> Nat]]
  BY Zenon DEF Counts
<1>2. ASSUME NEW h \in Nodes, NEW m \in Nodes
      PROVE  old[h][m] <= Len(qs2[m]) /\ (old[h][m] > 0 => "guard" \in nd2[h].idx)
  <2>1. old[h][m] \in Nat
    BY <1>1, <1>2, Zenon
  <2>2. old[h][m] <= Len(qs[m]) /\ (old[h][m] > 0 => "guard" \in nd[h].idx)
    BY <1>2, Zenon DEF Counts
  <2>3. old[h][m] <= Len(qs2[m])
    <3>1. Len(qs[m]) \in Nat /\ Len(qs2[m]) \in Nat /\ Len(qs[m]) <= Len(qs2[m])
      BY <1>2, Zenon
    <3> QED BY <2>1, <2>2, <3>1, SMT
  <2>4. ASSUME old[h][m] > 0
        PROVE  "guard" \in nd2[h].idx
    <3>1. old[h][m] # 0
      BY <2>1, <2>4, SMT
    <3> QED BY <1>2, <2>2, <2>4, <3>1, Zenon
  <2> QED BY <2>3, <2>4, Zenon
<1> QED BY <1>1, <1>2, Zenon DEF Counts

\* A step in which a node sends a message and keeps its guard timer.
LEMMA Sends ==
  ASSUME RingInv, NEW n \in Nodes, NEW s, Step(n, s, rx),
         Sane(s), s.roles = node[n].roles, s.id = node[n].id, SameGuard(node[n], s),
         NEW msg \in OwnMessage, s.out = Append(<< >>, msg),
         msg.req = "NR" /\ "RB" \in msg.status => Owner(s)
  PROVE  /\ NodesSane(node') /\ OneOwns(node')
         /\ Lines(rx') /\ Counts(node', rx', older') /\ Owned(node', rx')
         /\ older' = older /\ Grown(rx, rx', {[from |-> Id(n), raps |-> msg]})
<1>0. /\ NodesSane(node) /\ OneOwns(node) /\ Lines(rx)
      /\ Counts(node, rx, older) /\ Owned(node, rx)
  BY Zenon DEF RingInv
<1>1. /\ NodesSane(node') /\ OneOwns(node')
      /\ \A m \in Nodes \ {n} : node'[m] = node[m]
      /\ \A m \in Nodes : Owner(node'[m]) = Owner(node[m])
      /\ Owner(node'[n]) = Owner(s) /\ node'[n].idx = s.idx
  BY <1>0, NodesStep, Zenon
<1>2. Lines(rx') /\ Grown(rx, rx', {[from |-> Id(n), raps |-> msg]})
  BY <1>0, QueuesGrow, Zenon
<1>3. older' = older
  BY <1>0, OlderStay, Zenon DEF SameGuard
<1>4. \A m \in Nodes : Len(rx[m]) \in Nat /\ Len(rx'[m]) \in Nat
  BY <1>0, <1>2, LineLengths, Zenon
<1>5. Owned(node', rx')
  <2>1. \A m \in Nodes : Owner(node'[m]) = Owner(node[m])
    BY <1>1, Zenon
  <2>f. PICK f : f = [from |-> Id(n), raps |-> msg]
    OBVIOUS
  <2>2. Grown(rx, rx', {f})
    BY <1>2, <2>f, Zenon
  <2>g. f.from = Id(n) /\ f.raps = msg
    BY <2>f, SMT
  <2>3. f.raps.req = "NR" /\ "RB" \in f.raps.status =>
          \E o \in Nodes : Owner(node'[o]) /\ f.from = Id(o)
    BY <1>1, <2>g, Zenon
  <2>4. Owned(node, rx)
    BY <1>0, Zenon
  <2> QED BY <1>4, <2>1, <2>2, <2>3, <2>4, OwnedGrows, Zenon
<1>6. Counts(node', rx', older)
  <2>1. \A m \in Nodes : Len(rx[m]) \in Nat /\ Len(rx'[m]) \in Nat /\ Len(rx[m]) <= Len(rx'[m])
    BY <1>2, <1>4, Zenon DEF Grown
  <2>2. \A h \in Nodes : "guard" \in node[h].idx =>
          "guard" \in node'[h].idx \/ \A m \in Nodes : older[h][m] = 0
    BY <1>1, Zenon DEF SameGuard
  <2> QED BY <1>0, <2>1, <2>2, CountsGrow, Zenon
<1> QED BY <1>1, <1>2, <1>3, <1>5, <1>6, Zenon

\* A step in which a node sends nothing.
LEMMA IsSilent ==
  ASSUME RingInv, NEW n \in Nodes, NEW s, Step(n, s, rx),
         Sane(s), s.roles = node[n].roles, s.id = node[n].id, s.out = << >>,
         "guard" \in s.idx => "guard" \in node[n].idx,
         "guard" \in s.idx \/ \A m \in Nodes : older[n][m] = 0
  PROVE  /\ NodesSane(node') /\ OneOwns(node')
         /\ Lines(rx') /\ Counts(node', rx', older') /\ Owned(node', rx')
         /\ older' = older /\ rx' = rx
<1>0. /\ NodesSane(node) /\ OneOwns(node) /\ Lines(rx)
      /\ Counts(node, rx, older) /\ Owned(node, rx)
  BY Zenon DEF RingInv
<1>1. /\ NodesSane(node') /\ OneOwns(node')
      /\ \A m \in Nodes \ {n} : node'[m] = node[m]
      /\ \A m \in Nodes : Owner(node'[m]) = Owner(node[m])
      /\ node'[n].idx = s.idx
  BY <1>0, NodesStep, Zenon
<1>2. rx' = rx
  BY <1>0, QueuesStay, Zenon
<1>3. older' = older
  BY <1>0, OlderStay, Zenon
<1>5. Owned(node', rx)
  BY <1>0, <1>1, Zenon DEF Owned
<1>6. Counts(node', rx, older)
  <2>1. \A m \in Nodes : Len(rx[m]) \in Nat /\ Len(rx[m]) <= Len(rx[m])
    BY <1>0, LineLengths, SMT
  <2>2. \A h \in Nodes : "guard" \in node[h].idx =>
          "guard" \in node'[h].idx \/ \A m \in Nodes : older[h][m] = 0
    BY <1>1, Zenon
  <2> QED BY <1>0, <2>1, <2>2, CountsGrow, Zenon
<1> QED BY <1>0, <1>1, <1>2, <1>3, <1>5, <1>6, Zenon

\* A node notes that a link of it is down, or that one of two is back.
LEMMA DetectFailure ==
  ASSUME RingInv, NEW n \in Nodes, NEW p \in Ports, ~ Knows(node, up, n, p),
         NEW t, Step(n, t, rx), up' = up, fails' = fails,
         Sane(t), SameGuard(node[n], t), t.roles = node[n].roles, t.id = node[n].id,
         t.failed # {},
         t.failed = IF LinkAt(n, p) \in up THEN node[n].failed \ {p}
                    ELSE node[n].failed \cup {p},
         NEW msg, BprFrame(msg), t.out = Append(<< >>, msg)
  PROVE  RingInv'
<1>0. NodesSane(node) /\ OneOwns(node) /\ Linked(node, up, fails)
  BY Zenon DEF RingInv
<1>1. msg \in OwnMessage /\ ~ (msg.req = "NR" /\ "RB" \in msg.status)
  BY Zenon DEF BprFrame
<1>2. /\ NodesSane(node') /\ OneOwns(node')
      /\ Lines(rx') /\ Counts(node', rx', older') /\ Owned(node', rx')
  BY <1>1, Sends, Zenon
<1>3. /\ \A m \in Nodes \ {n} : node'[m] = node[m]
      /\ node'[n].failed = t.failed /\ node'[n].idx = t.idx
  BY <1>0, NodesStep, Zenon
<1>4. Linked(node', up, fails)
  <2>1. node'[n].failed = IF LinkAt(n, p) \in up THEN node[n].failed \ {p}
                          ELSE node[n].failed \cup {p}
    BY <1>3, Zenon
  <2>2. ASSUME "guard" \in node'[n].idx
        PROVE  "guard" \in node[n].idx /\ (LinkAt(n, p) \notin up \/ node[n].failed # {})
    <3>1. "guard" \in node[n].idx
      BY <1>3, <2>2, Zenon DEF SameGuard
    <3>2. LinkAt(n, p) \in up => p \in node[n].failed
      BY Zenon DEF Knows
    <3> QED BY <3>1, <3>2, Zenon
  <2> QED BY <1>0, <1>3, <2>1, <2>2, LinkedDetect, Zenon
<1>5. ~ Well(node')
  BY <1>3, Zenon DEF Well
<1> QED BY <1>2, <1>4, <1>5, Zenon DEF RingInv

\* A node notes that its last link is back.
LEMMA DetectRepair ==
  ASSUME RingInv, NEW n \in Nodes, NEW p \in Ports, ~ Knows(node, up, n, p),
         LinkAt(n, p) \in up, node[n].failed = {p},
         NEW t, Step(n, t, rx), up' = up, fails' = fails,
         Sane(t), t.roles = node[n].roles, t.id = node[n].id,
         t.failed = {}, t.blocked # {}, "guard" \in t.idx,
         NEW msg \in OwnMessage, t.out = Append(<< >>, msg),
         msg.req = "NR", "RB" \notin msg.status
  PROVE  RingInv'
<1>0. /\ NodesSane(node) /\ OneOwns(node) /\ Linked(node, up, fails)
      /\ Lines(rx) /\ Counts(node, rx, older) /\ Owned(node, rx)
  BY Zenon DEF RingInv
<1>1. "guard" \notin node[n].idx
  <2>1. node[n].failed # {}
    OBVIOUS
  <2> QED BY <1>0, <2>1, Zenon DEF Linked
<1>2. /\ NodesSane(node') /\ OneOwns(node')
      /\ \A m \in Nodes \ {n} : node'[m] = node[m]
      /\ \A m \in Nodes : Owner(node'[m]) = Owner(node[m])
      /\ node'[n].failed = t.failed /\ node'[n].blocked = t.blocked /\ node'[n].idx = t.idx
  BY <1>0, NodesStep, Zenon
<1>f. PICK f : f = [from |-> Id(n), raps |-> msg]
  OBVIOUS
<1>3. Lines(rx') /\ Grown(rx, rx', {f})
  BY <1>0, <1>f, QueuesGrow, Zenon
<1>4. /\ older' \in [Nodes -> [Nodes -> Nat]]
      /\ \A x \in Nodes : older'[n][x] = Len(rx[x])
      /\ \A m \in Nodes \ {n} : older'[m] = older[m]
  BY <1>0, <1>1, OlderStart, Zenon
<1>5. \A m \in Nodes : Len(rx[m]) \in Nat /\ Len(rx'[m]) \in Nat
  BY <1>0, <1>3, LineLengths, Zenon
<1>6. Owned(node', rx')
  <2>1. \A m \in Nodes : Owner(node'[m]) = Owner(node[m])
    BY <1>2, Zenon
  <2>2. Grown(rx, rx', {f})
    BY <1>3, Zenon
  <2>g. f.raps = msg
    BY <1>f, SMT
  <2>3. f.raps.req = "NR" /\ "RB" \in f.raps.status =>
          \E o \in Nodes : Owner(node'[o]) /\ f.from = Id(o)
    BY <2>g, Zenon
  <2>4. Owned(node, rx)
    BY <1>0, Zenon
  <2> QED BY <1>5, <2>1, <2>2, <2>3, <2>4, OwnedGrows, Zenon
<1>7. \A g, m \in Nodes : older'[g][m] <= Len(rx[m])
  <2>1. ASSUME NEW g \in Nodes, NEW m \in Nodes
        PROVE  older'[g][m] <= Len(rx[m])
    <3>1. CASE g = n
      <4>1. older'[g][m] = Len(rx[m]) /\ Len(rx[m]) \in Nat
        BY <1>4, <1>5, <2>1, <3>1, Zenon
      <4> QED BY <4>1, SMT
    <3>2. CASE g # n
      <4>1. older'[g] = older[g]
        BY <1>4, <2>1, <3>2, Zenon
      <4> QED BY <1>0, <2>1, <4>1, Zenon DEF Counts
    <3> QED BY <3>1, <3>2
  <2> QED BY <2>1
<1>8. Counts(node', rx', older')
  <2>1. ASSUME NEW g \in Nodes, NEW m \in Nodes
        PROVE  older'[g][m] <= Len(rx'[m])
    <3>1. Len(rx[m]) <= Len(rx'[m])
      BY <1>3, <2>1, Zenon DEF Grown
    <3>2. older'[g][m] \in Nat /\ older'[g][m] <= Len(rx[m])
      BY <1>4, <1>7, <2>1, Zenon
    <3>3. Len(rx[m]) \in Nat /\ Len(rx'[m]) \in Nat
      BY <1>5, <2>1, Zenon
    <3> QED BY <3>1, <3>2, <3>3, SMT
  <2>2. ASSUME NEW g \in Nodes, NEW m \in Nodes, older'[g][m] > 0
        PROVE  "guard" \in node'[g].idx
    <3>1. CASE g = n
      BY <1>2, <3>1, Zenon
    <3>2. CASE g # n
      <4>1. older'[g] = older[g] /\ node'[g] = node[g]
        BY <1>2, <1>4, <2>2, <3>2, Zenon
      <4> QED BY <1>0, <2>2, <4>1, Zenon DEF Counts
    <3> QED BY <3>1, <3>2
  <2> QED BY <1>4, <2>1, <2>2, Zenon DEF Counts
<1>9. Linked(node', up, fails)
  <2>1. node'[n].failed = IF LinkAt(n, p) \in up THEN node[n].failed \ {p}
                          ELSE node[n].failed \cup {p}
    BY <1>2, SMT
  <2> QED BY <1>0, <1>2, <2>1, LinkedDetect, Zenon
<1>10. Shielded(node', rx', older')
  <2>1. node'[n].blocked # {}
    BY <1>2, Zenon
  <2>2. Grown(rx, rx', {[from |-> Id(n), raps |-> msg]})
    BY <1>3, <1>f, Zenon
  <2>3. \A m \in Nodes : older'[n][m] = Len(rx[m])
    BY <1>4, Zenon
  <2> QED BY <1>5, <1>7, <2>1, <2>2, <2>3, ClearShields, Zenon
<1> QED BY <1>2, <1>3, <1>6, <1>8, <1>9, <1>10, Zenon DEF RingInv

LEMMA DetectSteps ==
  ASSUME Enough, RingInv, NEW n \in Nodes, NEW p \in Ports, Detect(n, p)
  PROVE  RingInv'
<1>s. PICK s : s = node[n]
  OBVIOUS
<1>0. Sane(s) /\ s.out = << >> /\ s.failed \subseteq Ports
  BY <1>s, Zenon DEF RingInv, NodesSane, Sane, Modest
<1>1. ~ Knows(node, up, n, p) /\ up' = up /\ fails' = fails
  <2>1. ~ Noticed(n, p) /\ up' = up /\ fails' = fails
    BY Zenon DEF Detect
  <2>2. Knows(node, up, n, p) => Noticed(n, p)
    BY SMT DEF Noticed, Knows
  <2> QED BY <2>1, <2>2, Zenon
<1>2. Step(n, LinkChange(s, p, LinkAt(n, p) \in up), rx)
  BY <1>s, Zenon DEF Detect
<1>3. CASE LinkAt(n, p) \notin up
  <2>1. PICK t : t = LinkChange(s, p, FALSE)
    OBVIOUS
  <2>2. t = LinkChange(s, p, LinkAt(n, p) \in up)
    BY <1>3, <2>1, Zenon DEF LinkChange
  <2>3. /\ Sane(t) /\ SameGuard(s, t) /\ t.roles = s.roles /\ t.id = s.id
        /\ t.failed = s.failed \cup {p}
        /\ \E m : t.out = Append(s.out, m) /\ BprFrame(m)
    BY <1>0, <2>1, LinkDown, Zenon
  <2>4. PICK m : t.out = Append(<< >>, m) /\ BprFrame(m)
    BY <1>0, <2>3, Zenon
  <2>5. Step(n, t, rx)
    BY <1>2, <2>2, Zenon
  <2>6. t.failed # {}
    BY <2>3, SMT
  <2>7. t.failed = IF LinkAt(n, p) \in up THEN node[n].failed \ {p}
                   ELSE node[n].failed \cup {p}
    BY <1>3, <1>s, <2>3, Zenon
  <2>8. SameGuard(node[n], t) /\ t.roles = node[n].roles /\ t.id = node[n].id
    BY <1>s, <2>3, Zenon
  <2> QED BY <1>1, <2>3, <2>4, <2>5, <2>6, <2>7, <2>8, DetectFailure, Zenon
<1>4. CASE LinkAt(n, p) \in up
  <2>0. p \in s.failed
    BY <1>1, <1>4, <1>s, Zenon DEF Knows
  <2>1. PICK t : t = LinkChange(s, p, TRUE)
    OBVIOUS
  <2>2. t = LinkChange(s, p, LinkAt(n, p) \in up)
    BY <1>4, <2>1, Zenon DEF LinkChange
  <2>5. Step(n, t, rx)
    BY <1>2, <2>2, Zenon
  <2>6. CASE Another(p) \in s.failed
    <3>3. /\ Sane(t) /\ SameGuard(s, t) /\ t.roles = s.roles /\ t.id = s.id
          /\ t.failed = s.failed \ {p} /\ t.failed # {}
          /\ \E m : t.out = Append(s.out, m) /\ BprFrame(m)
      BY <1>0, <2>1, <2>6, LinkUpOther, Zenon
    <3>4. PICK m : t.out = Append(<< >>, m) /\ BprFrame(m)
      BY <1>0, <3>3, Zenon
    <3>7. t.failed = IF LinkAt(n, p) \in up THEN node[n].failed \ {p}
                     ELSE node[n].failed \cup {p}
      BY <1>4, <1>s, <3>3, Zenon
    <3>8. SameGuard(node[n], t) /\ t.roles = node[n].roles /\ t.id = node[n].id
      BY <1>s, <3>3, Zenon
    <3> QED BY <1>1, <2>5, <3>3, <3>4, <3>7, <3>8, DetectFailure, Zenon
  <2>7. CASE Another(p) \notin s.failed
    <3>1. s.failed = {p}
      <4>1. Ports = {p, Another(p)}
        BY TwoLinks, Zenon
      <4> QED BY <1>0, <2>0, <2>7, <4>1, SMT
    <3>3. /\ Sane(t) /\ t.roles = s.roles /\ t.id = s.id
          /\ "guard" \in t.idx /\ t.failed = {} /\ t.blocked # {}
          /\ \E m \in OwnMessage : t.out = Append(s.out, m) /\ m.req = "NR" /\ "RB" \notin m.status
      BY <1>0, <2>1, <3>1, LinkUpLast, Zenon
    <3>4. PICK m \in OwnMessage : t.out = Append(<< >>, m) /\ m.req = "NR" /\ "RB" \notin m.status
      BY <1>0, <3>3, Zenon
    <3>8. t.roles = node[n].roles /\ t.id = node[n].id /\ node[n].failed = {p}
      BY <1>s, <3>1, <3>3, Zenon
    <3> QED BY <1>1, <1>4, <2>5, <3>3, <3>4, <3>8, DetectRepair, Zenon
  <2> QED BY <2>6, <2>7
<1> QED BY <1>3, <1>4

\* A node that changes nothing but its timers keeps what it guards.
LEMMA GuardExpireSteps ==
  ASSUME Enough, RingInv, NEW n \in Nodes, GuardExpire(n)
  PROVE  RingInv'
<1>s. PICK s : s = node[n]
  OBVIOUS
<1>0. /\ Sane(s) /\ s.out = << >> /\ "guard" \in s.idx /\ "guard" \in Timers
      /\ NodesSane(node) /\ OneOwns(node) /\ Linked(node, up, fails) /\ Lines(rx)
      /\ up' = up /\ fails' = fails /\ \A m \in Nodes : older[n][m] = 0
  BY <1>s, TimerNames, SMT DEF RingInv, NodesSane, GuardExpire
<1>1. PICK t : t = Expired(s, "guard")
  OBVIOUS
<1>2. Sane(t) /\ But(s, t, ClockFields) /\ t.idx = s.idx \ {"guard"}
  BY <1>0, <1>1, FreeSane, Zenon
<1>3. Step(n, t, rx)
  BY <1>s, <1>1, Zenon DEF GuardExpire, GuardTimerExpire
<1>4. /\ t.roles = s.roles /\ t.id = s.id /\ t.failed = s.failed
      /\ t.blocked = s.blocked /\ t.state = s.state /\ t.out = s.out
  <2>1. \A f \in {"roles", "id", "failed", "blocked", "state", "out"} : f \in Fields \ ClockFields
    BY SMT DEF Fields, ClockFields
  <2>2. \A f \in {"roles", "id", "failed", "blocked", "state", "out"} : t[f] = s[f]
    BY <1>2, <2>1, Zenon DEF But
  <2> QED BY <2>2, SMT
<1>5. "guard" \notin t.idx
  BY <1>2, SMT
<1>6. /\ t.roles = node[n].roles /\ t.id = node[n].id /\ t.out = << >>
  BY <1>0, <1>4, <1>s, Zenon
<1>7. /\ NodesSane(node') /\ OneOwns(node')
      /\ Lines(rx') /\ Counts(node', rx', older') /\ Owned(node', rx')
      /\ older' = older /\ rx' = rx
  BY <1>0, <1>2, <1>3, <1>5, <1>6, IsSilent, Zenon
<1>8. /\ \A m \in Nodes \ {n} : node'[m] = node[m]
      /\ \A m \in Nodes : Owner(node'[m]) = Owner(node[m])
      /\ RplPort(node'[n]) = RplPort(t)
      /\ node'[n].failed = t.failed /\ node'[n].blocked = t.blocked
      /\ node'[n].state = t.state /\ node'[n].idx = t.idx
  BY <1>0, <1>2, <1>3, <1>6, NodesStep, Zenon
<1>9. RplPort(t) = RplPort(s)
  BY <1>4, RolesDecide, Zenon
<1>10. \A m \in Nodes :
         /\ node'[m].failed = node[m].failed /\ node'[m].blocked = node[m].blocked
         /\ "guard" \in node'[m].idx => "guard" \in node[m].idx
         /\ GuardsRpl(node[m]) => GuardsRpl(node'[m])
  BY <1>4, <1>5, <1>8, <1>9, <1>s, Zenon DEF GuardsRpl
<1>11. Linked(node', up, fails)
  BY <1>0, <1>10, LinkedStay, Zenon
<1>12. ASSUME Well(node')
       PROVE  Shielded(node', rx, older)
  <2>1. Well(node)
    BY <1>10, <1>12, Zenon DEF Well
  <2>2. Shielded(node, rx, older)
    BY <2>1, Zenon DEF RingInv
  <2>3. Guarding(node, older) => Guarding(node', older)
    BY <1>10, Zenon DEF Guarding
  <2>4. \A h \in Nodes : Keeps(node, older, h) => Keeps(node', older, h)
    BY <1>10, Zenon DEF Keeps
  <2>5. \A m \in Nodes : \A f : Fine(node, older, f) => Fine(node', older, f)
    BY <2>3, <2>4, Zenon DEF Fine
  <2> QED BY <2>2, <2>4, <2>5, Zenon DEF Shielded
<1> QED BY <1>0, <1>7, <1>11, <1>12, Zenon DEF RingInv

\* With empty queues no frame is old.
LEMMA CalmCovers ==
  ASSUME NEW nd, NEW qs, NEW old, Counts(nd, qs, old), \A m \in Nodes : qs[m] = << >>
  PROVE  (\A h, m \in Nodes : old[h][m] = 0) /\ \A h \in Nodes : Covers(old, h)
<1>1. \A h, m \in Nodes : old[h][m] \in Nat /\ old[h][m] <= Len(qs[m]) /\ Len(qs[m]) = 0
  BY SMT DEF Counts
<1>2. \A h, m \in Nodes : old[h][m] = 0
  BY <1>1, SMT
<1>3. \A g, h, m \in Nodes : old[g][m] <= old[h][m]
  BY <1>1, <1>2, SMT
<1> QED BY <1>2, <1>3, Zenon DEF Covers

\* A node that sends while the ring is calm.
LEMMA CalmSends ==
  ASSUME RingInv, NEW n \in Nodes, NEW t, Step(n, t, rx), up' = up, fails' = fails,
         \A m \in Nodes : rx[m] = << >>,
         Sane(t), t.roles = node[n].roles, t.id = node[n].id, t.failed = node[n].failed,
         SameGuard(node[n], t), NEW msg \in OwnMessage, t.out = Append(<< >>, msg),
         msg.req = "NR" /\ "RB" \in msg.status => GuardsRpl(t),
         t.failed = {} => msg.req = "NR" /\ t.blocked # {}
  PROVE  RingInv'
<1>0. /\ NodesSane(node) /\ OneOwns(node) /\ Linked(node, up, fails)
      /\ Lines(rx) /\ Counts(node, rx, older)
  BY Zenon DEF RingInv
<1>1. msg.req = "NR" /\ "RB" \in msg.status => Owner(t)
  BY Zenon DEF GuardsRpl
<1>2. /\ NodesSane(node') /\ OneOwns(node')
      /\ Lines(rx') /\ Counts(node', rx', older') /\ Owned(node', rx')
      /\ older' = older /\ Grown(rx, rx', {[from |-> Id(n), raps |-> msg]})
  BY <1>1, Sends, Zenon
<1>3. /\ \A m \in Nodes \ {n} : node'[m] = node[m]
      /\ RplPort(node'[n]) = RplPort(t) /\ Owner(node'[n]) = Owner(t)
      /\ node'[n].failed = t.failed /\ node'[n].blocked = t.blocked
      /\ node'[n].state = t.state /\ node'[n].idx = t.idx
  BY <1>0, NodesStep, Zenon
<1>4. Linked(node', up, fails)
  <2>1. \A m \in Nodes : /\ node'[m].failed = node[m].failed
                         /\ "guard" \in node'[m].idx => "guard" \in node[m].idx
    BY <1>3, Zenon DEF SameGuard
  <2> QED BY <1>0, <2>1, LinkedStay, Zenon
<1>5. ASSUME Well(node')
      PROVE  Shielded(node', rx', older')
  <2>1. msg.req = "NR" /\ node'[n].blocked # {}
    BY <1>3, <1>5, Zenon DEF Well
  <2>2. GuardsRpl(node'[n]) \/ "RB" \notin msg.status
    BY <1>3, <2>1, Zenon DEF GuardsRpl
  <2>3. \A h \in Nodes : Covers(older', h)
    BY <1>0, <1>2, CalmCovers, Zenon
  <2>4. \A m \in Nodes : Len(rx'[m]) \in Nat
    BY <1>2, LineLengths, Zenon
  <2>5. Grown(rx, rx', {[from |-> Id(n), raps |-> msg]})
    BY <1>2, Zenon
  <2> QED BY <2>1, <2>2, <2>3, <2>4, <2>5, CalmShields, Zenon
<1> QED BY <1>2, <1>4, <1>5, Zenon DEF RingInv

LEMMA RetransmitSteps ==
  ASSUME RingInv, NEW n \in Nodes, Retransmit(n)
  PROVE  RingInv'
<1>s. PICK s : s = node[n]
  OBVIOUS
<1>0. /\ Sane(s) /\ Truthful(s) /\ s.out = << >> /\ s.sending
      /\ up' = up /\ fails' = fails /\ \A m \in Nodes : rx[m] = << >>
  BY <1>s, Zenon DEF RingInv, NodesSane, Sane, Retransmit, Calm
<1>1. PICK t : t = Resend(s)
  OBVIOUS
<1>2. Step(n, t, rx)
  BY <1>1, <1>s, Zenon DEF Retransmit
<1>3. /\ Sane(t) /\ t.roles = s.roles /\ t.id = s.id /\ t.failed = s.failed
      /\ t.blocked = s.blocked /\ t.state = s.state /\ t.idx = s.idx
      /\ \E m \in OwnMessage : /\ t.out = Append(s.out, m)
                               /\ m.req = s.raps.req /\ m.status = s.raps.status
  BY <1>0, <1>1, ResendSane, Zenon
<1>4. PICK m \in OwnMessage : /\ t.out = Append(<< >>, m)
                              /\ m.req = s.raps.req /\ m.status = s.raps.status
  BY <1>0, <1>3, Zenon
<1>5. SameGuard(node[n], t) /\ t.roles = node[n].roles /\ t.id = node[n].id
      /\ t.failed = node[n].failed
  BY <1>3, <1>s, Zenon DEF SameGuard
<1>6. m.req \in {"NR", "SF"}
  BY SMT DEF OwnMessage
<1>7. GuardsRpl(s) => GuardsRpl(t) /\ s.blocked # {}
  <2>1. Owner(t) = Owner(s) /\ RplPort(t) = RplPort(s)
    BY <1>3, RolesDecide, Zenon
  <2> QED BY <1>3, <2>1, SMT DEF GuardsRpl
<1>8. m.req = "NR" /\ "RB" \in m.status => GuardsRpl(t)
  BY <1>0, <1>4, <1>7, SMT DEF Truthful
<1>9. t.failed = {} => m.req = "NR" /\ t.blocked # {}
  BY <1>0, <1>3, <1>4, <1>6, <1>7, SMT DEF Truthful
<1> QED BY <1>0, <1>2, <1>3, <1>4, <1>5, <1>8, <1>9, CalmSends, Zenon

LEMMA WtrExpireSteps ==
  ASSUME RingInv, NEW n \in Nodes, WtrExpire(n)
  PROVE  RingInv'
<1>s. PICK s : s = node[n]
  OBVIOUS
<1>0. /\ Sane(s) /\ s.out = << >> /\ "wtr" \in s.idx
      /\ NodesSane(node) /\ OneOwns(node) /\ Linked(node, up, fails)
      /\ Lines(rx) /\ Counts(node, rx, older)
      /\ up' = up /\ fails' = fails /\ \A m \in Nodes : rx[m] = << >>
  BY <1>s, Zenon DEF RingInv, NodesSane, WtrExpire, Calm
<1>1. PICK t : t = WtrTimerExpire(s)
  OBVIOUS
<1>2. Step(n, t, rx)
  BY <1>1, <1>s, Zenon DEF WtrExpire
<1>3. /\ Sane(t) /\ SameGuard(s, t) /\ t.roles = s.roles /\ t.id = s.id
      /\ t.failed = s.failed
      /\ \/ t.blocked = s.blocked /\ t.out = s.out
         \/ GuardsRpl(t) /\ \E m \in OwnMessage : t.out = Append(s.out, m) /\ m.req = "NR"
  BY <1>0, <1>1, WtrExpired, Zenon
<1>4. SameGuard(node[n], t) /\ t.roles = node[n].roles /\ t.id = node[n].id
      /\ t.failed = node[n].failed
  BY <1>3, <1>s, Zenon
<1>5. CASE GuardsRpl(t) /\ \E m \in OwnMessage : t.out = Append(s.out, m) /\ m.req = "NR"
  <2>1. PICK m \in OwnMessage : t.out = Append(<< >>, m) /\ m.req = "NR"
    BY <1>0, <1>5, Zenon
  <2>2. t.blocked # {}
    BY <1>5, SMT DEF GuardsRpl
  <2> QED BY <1>0, <1>2, <1>3, <1>4, <1>5, <2>1, <2>2, CalmSends, Zenon
<1>6. CASE t.blocked = s.blocked /\ t.out = s.out
  <2>1. (\A h, m \in Nodes : older[h][m] = 0) /\ \A h \in Nodes : Covers(older, h)
    BY <1>0, CalmCovers, Zenon
  <2>2. t.out = << >> /\ \A m \in Nodes : older[n][m] = 0
    BY <1>0, <1>6, <2>1, Zenon
  <2>3. /\ NodesSane(node') /\ OneOwns(node')
        /\ Lines(rx') /\ Counts(node', rx', older') /\ Owned(node', rx')
        /\ older' = older /\ rx' = rx
    <3>1. "guard" \in t.idx => "guard" \in node[n].idx
      BY <1>4, Zenon DEF SameGuard
    <3> QED BY <1>2, <1>3, <1>4, <2>2, <3>1, IsSilent, Zenon
  <2>4. /\ \A m \in Nodes \ {n} : node'[m] = node[m]
        /\ node'[n].failed = t.failed /\ node'[n].blocked = t.blocked
        /\ node'[n].idx = t.idx
    BY <1>0, <1>2, <1>3, <1>4, NodesStep, Zenon
  <2>5. \A m \in Nodes :
          /\ node'[m].failed = node[m].failed /\ node'[m].blocked = node[m].blocked
          /\ "guard" \in node'[m].idx => "guard" \in node[m].idx
    BY <1>4, <1>6, <1>s, <2>4, Zenon DEF SameGuard
  <2>6. Linked(node', up, fails)
    BY <1>0, <2>5, LinkedStay, Zenon
  <2>7. ASSUME Well(node')
        PROVE  Shielded(node', rx, older)
    <3>1. Well(node)
      BY <2>5, <2>7, Zenon DEF Well
    <3>2. \E h \in Nodes : Keeps(node, older, h)
      BY <3>1, Zenon DEF RingInv, Shielded
    <3>3. \E h \in Nodes : Keeps(node', older, h)
      BY <2>5, <3>2, Zenon DEF Keeps
    <3>4. \A m \in Nodes : 1..Len(rx[m]) = {}
      BY <1>0, SMT
    <3> QED BY <3>3, <3>4, Zenon DEF Shielded
  <2> QED BY <1>0, <2>3, <2>6, <2>7, Zenon DEF RingInv
<1> QED BY <1>3, <1>5, <1>6

\* The head of a queue leaves it, and each count of old frames with it.
Without(qs, n) == [qs EXCEPT ![n] = Tail(@)]
Aged(qs, q, old) ==
  [m \in Nodes |-> [x \in Nodes |->
     IF old[m][x] = 0 THEN 0 ELSE old[m][x] - (Len(qs[x]) - Len(q[x]))]]

Taken(qs, q, old, old2, n) ==
  /\ \A m \in Nodes \ {n} : q[m] = qs[m]
  /\ \A h \in Nodes, m \in Nodes \ {n} : old2[h][m] = old[h][m]
  /\ \A i \in 1..Len(q[n]) : i + 1 \in 1..Len(qs[n]) /\ q[n][i] = qs[n][i + 1]
  /\ \A h \in Nodes : old2[h][n] = IF old[h][n] = 0 THEN 0 ELSE old[h][n] - 1

LEMMA HeadLeaves ==
  ASSUME NEW nd, NEW qs, NEW old, Lines(qs), Counts(nd, qs, old), NEW n \in Nodes, qs[n] # << >>,
         NEW q, q = Without(qs, n), NEW old2, old2 = Aged(qs, q, old)
  PROVE  /\ Lines(q) /\ Counts(nd, q, old2)
         /\ 1 \in 1..Len(qs[n]) /\ Head(qs[n]) = qs[n][1]
         /\ Taken(qs, q, old, old2, n)
<1>1. /\ qs \in [Nodes -> Seq(Packets)] /\ (\A m \in Nodes : Len(qs[m]) <= QLen)
      /\ old \in [Nodes -> [Nodes -> Nat]]
      /\ \A h, m \in Nodes : /\ old[h][m] <= Len(qs[m])
                             /\ old[h][m] > 0 => "guard" \in nd[h].idx
  BY Zenon DEF Lines, Counts
<1>2. PICK c : c = qs[n]
  OBVIOUS
<1>3. PICK d : d = Tail(c)
  OBVIOUS
<1>4. c \in Seq(Packets) /\ c # << >> /\ Len(c) <= QLen
  BY <1>1, <1>2, SMT
<1>5. /\ d \in Seq(Packets) /\ Len(d) = Len(c) - 1 /\ Len(c) \in Nat /\ Len(c) >= 1
      /\ Head(c) = c[1] /\ \A i \in 1..Len(d) : d[i] = c[i + 1]
  BY <1>3, <1>4, SMT
<1>6. q[n] = d /\ DOMAIN q = Nodes /\ \A m \in Nodes \ {n} : q[m] = qs[m]
  BY <1>1, <1>2, <1>3, Zenon DEF Without
<1>7. \A m \in Nodes : q[m] \in Seq(Packets) /\ Len(q[m]) <= QLen
  <2>1. Len(d) <= QLen
    BY <1>4, <1>5, RingAssumption, SMT
  <2> QED BY <1>1, <1>5, <1>6, <2>1, Zenon
<1>8. q = [qs EXCEPT ![n] = d]
  BY <1>2, <1>3, Zenon DEF Without
<1>9. Lines(q)
  <2>1. q \in [Nodes -> Seq(Packets)]
    BY <1>1, <1>5, <1>8, Zenon
  <2> QED BY <1>7, <2>1, Zenon DEF Lines
<1>10. \A h, x \in Nodes : old2[h][x] = IF old[h][x] = 0 THEN 0
                                        ELSE old[h][x] - (Len(qs[x]) - Len(q[x]))
  BY Zenon DEF Aged
<1>11. ASSUME NEW h \in Nodes
       PROVE  old2[h][n] = IF old[h][n] = 0 THEN 0 ELSE old[h][n] - 1
  <2>1. old2[h][n] = IF old[h][n] = 0 THEN 0 ELSE old[h][n] - (Len(c) - Len(d))
    BY <1>2, <1>6, <1>10, <1>11, Zenon
  <2> QED BY <1>5, <2>1, SMT
<1>12. ASSUME NEW h \in Nodes, NEW m \in Nodes \ {n}
       PROVE  old2[h][m] = old[h][m]
  <2>1. old2[h][m] = IF old[h][m] = 0 THEN 0 ELSE old[h][m] - (Len(qs[m]) - Len(qs[m]))
    <3>1. q[m] = qs[m] /\ m \in Nodes
      BY <1>6, <1>12, Zenon
    <3>2. old2[h][m] = IF old[h][m] = 0 THEN 0 ELSE old[h][m] - (Len(qs[m]) - Len(q[m]))
      BY <1>10, <1>12, <3>1, Zenon
    <3> QED BY <3>1, <3>2, Zenon
  <2>2. old[h][m] \in Nat /\ Len(qs[m]) \in Nat
    BY <1>1, <1>12, SMT
  <2> QED BY <2>1, <2>2, SMT
<1>13. ASSUME NEW h \in Nodes, NEW m \in Nodes
       PROVE  /\ old2[h][m] \in Nat /\ old2[h][m] <= Len(q[m])
              /\ old2[h][m] > 0 => "guard" \in nd[h].idx
  <2>0. old[h][m] \in Nat /\ old[h][m] <= Len(qs[m]) /\ (old[h][m] > 0 => "guard" \in nd[h].idx)
    BY <1>1, <1>13, Zenon
  <2>1. CASE m = n
    <3>1. old[h][n] \in Nat /\ old[h][n] <= Len(c) /\ (old[h][n] > 0 => "guard" \in nd[h].idx)
      BY <1>2, <2>0, <2>1, Zenon
    <3>2. old2[h][n] = IF old[h][n] = 0 THEN 0 ELSE old[h][n] - 1
      BY <1>11, <1>13, Zenon
    <3>3. /\ old2[h][n] \in Nat /\ old2[h][n] <= Len(d)
          /\ old2[h][n] > 0 => "guard" \in nd[h].idx
      BY <1>5, <3>1, <3>2, SMT
    <3> QED BY <1>6, <2>1, <3>3, Zenon
  <2>2. CASE m # n
    <3>1. q[m] = qs[m] /\ old2[h][m] = old[h][m]
      BY <1>6, <1>12, <1>13, <2>2, Zenon
    <3> QED BY <2>0, <3>1, Zenon
  <2> QED BY <2>1, <2>2
<1>14. Counts(nd, q, old2)
  <2>1. \A h \in Nodes : old2[h] = [x \in Nodes |-> old2[h][x]]
    BY SMT DEF Aged
  <2>2. \A h \in Nodes : old2[h] \in [Nodes -> Nat]
    BY <1>13, <2>1, Zenon
  <2>3. old2 = [h \in Nodes |-> old2[h]]
    BY SMT DEF Aged
  <2>4. old2 \in [Nodes -> [Nodes -> Nat]]
    BY <2>2, <2>3, Zenon
  <2> QED BY <1>13, <2>4, Zenon DEF Counts
<1>15. 1 \in 1..Len(c) /\ \A i \in 1..Len(d) : i + 1 \in 1..Len(c)
  BY <1>5, SMT
<1>16. 1 \in 1..Len(qs[n]) /\ Head(qs[n]) = qs[n][1]
  BY <1>2, <1>5, <1>15, Zenon
<1>17. \A i \in 1..Len(q[n]) : i + 1 \in 1..Len(qs[n]) /\ q[n][i] = qs[n][i + 1]
  BY <1>2, <1>5, <1>6, <1>15, Zenon
<1>18. Taken(qs, q, old, old2, n)
  BY <1>6, <1>11, <1>12, <1>17, Zenon DEF Taken
<1> QED BY <1>9, <1>14, <1>16, <1>18, Zenon

\* A node whose closed ports and guard over the RPL stay as they are.
Gist(t, s) == t.blocked = s.blocked /\ (GuardsRpl(s) => GuardsRpl(t))

\* What frame f makes of node n: its own, or one that comes while its guard
\* timer runs, does nothing, and NR opens a port only if it has a higher id.
Takes(n, f, s, t) ==
  /\ f.from = Id(n) \/ "guard" \in s.idx => Gist(t, s)
  /\ f.raps.req = "NR" /\ "RB" \notin f.raps.status =>
       /\ t.blocked = s.blocked \/ Id(n) < f.from
       /\ GuardsRpl(s) => GuardsRpl(t)

\* A frame that a node takes leaves the others old or fine: an old frame meets
\* no node that holds a port closed for it, NR,RB meets no owner, and NR opens
\* no port that no node of a higher id holds instead.
LEMMA ReceiveShields ==
  ASSUME NEW nd, NEW qs, NEW old, NEW n \in Nodes,
         Lines(qs), Counts(nd, qs, old), Owned(nd, qs), OneOwns(nd), Shielded(nd, qs, old),
         NEW f, f = qs[n][1], 1 \in 1..Len(qs[n]), f.from \in Nat,
         NEW nd2, \A m \in Nodes \ {n} : nd2[m] = nd[m],
         Takes(n, f, nd[n], nd2[n]),
         NEW q, NEW old2, Taken(qs, q, old, old2, n)
  PROVE  Shielded(nd2, q, old2)
<1> DEFINE Passes(h) == \E k \in Nodes : Keeps(nd2, old2, k) /\ Id(k) >= Id(h)
           Same == Gist(nd2[n], nd[n])
<1>t. /\ f.from = Id(n) \/ "guard" \in nd[n].idx => Gist(nd2[n], nd[n])
      /\ f.raps.req = "NR" /\ "RB" \notin f.raps.status =>
           /\ nd2[n].blocked = nd[n].blocked \/ Id(n) < f.from
           /\ GuardsRpl(nd[n]) => GuardsRpl(nd2[n])
  BY Zenon DEF Takes
<1>h. /\ \A m \in Nodes \ {n} : q[m] = qs[m]
      /\ \A h \in Nodes, m \in Nodes \ {n} : old2[h][m] = old[h][m]
      /\ \A i \in 1..Len(q[n]) : i + 1 \in 1..Len(qs[n]) /\ q[n][i] = qs[n][i + 1]
      /\ \A h \in Nodes : old2[h][n] = IF old[h][n] = 0 THEN 0 ELSE old[h][n] - 1
  BY Zenon DEF Taken
<1>0. /\ \A h, m \in Nodes : old[h][m] \in Nat
      /\ \A h \in Nodes : Id(h) \in Nat
  <2>1. \A h, m \in Nodes : old[h][m] \in Nat
    BY SMT DEF Counts
  <2>2. \A h \in Nodes : Id(h) \in Nat
    BY RingAssumption, SMT DEF Id, Nodes
  <2> QED BY <2>1, <2>2, Zenon
<1>1. ASSUME NEW h \in Nodes, Covers(old, h)
      PROVE  Covers(old2, h)
  <2>1. ASSUME NEW g \in Nodes, NEW m \in Nodes
        PROVE  old2[g][m] <= old2[h][m]
    <3>0. old[g][m] <= old[h][m]
      BY <1>1, <2>1, Zenon DEF Covers
    <3>1. CASE m = n
      <4>1. /\ old2[g][m] = IF old[g][m] = 0 THEN 0 ELSE old[g][m] - 1
            /\ old2[h][m] = IF old[h][m] = 0 THEN 0 ELSE old[h][m] - 1
        BY <1>1, <1>h, <2>1, <3>1, Zenon
      <4>2. old[g][m] \in Nat /\ old[h][m] \in Nat
        BY <1>0, <1>1, <2>1, Zenon
      <4> QED BY <3>0, <4>1, <4>2, SMT
    <3>2. CASE m # n
      <4>1. old2[g][m] = old[g][m] /\ old2[h][m] = old[h][m]
        BY <1>1, <1>h, <2>1, <3>2, Zenon
      <4> QED BY <3>0, <4>1, Zenon
    <3> QED BY <3>1, <3>2
  <2> QED BY <2>1, Zenon DEF Covers
<1>2. \A h \in Nodes : Keeps(nd2, old2, h) => Passes(h)
  <2>1. \A h \in Nodes : Id(h) >= Id(h)
    BY <1>0, SMT
  <2> QED BY <2>1, Zenon
<1>3. \A h \in Nodes \ {n} : Keeps(nd, old, h) => Keeps(nd2, old2, h)
  BY <1>1, Zenon DEF Keeps
<1>4. \A h \in Nodes \ {n} : GuardsRpl(nd[h]) /\ Covers(old, h) => Guarding(nd2, old2)
  BY <1>1, Zenon DEF Guarding
<1>5. ASSUME Same
      PROVE  /\ \A h \in Nodes : Keeps(nd, old, h) => Keeps(nd2, old2, h)
             /\ Guarding(nd, old) => Guarding(nd2, old2)
  <2>1. Keeps(nd, old, n) => Keeps(nd2, old2, n)
    BY <1>1, <1>5, Zenon DEF Keeps, Gist
  <2>2. GuardsRpl(nd[n]) /\ Covers(old, n) => Guarding(nd2, old2)
    BY <1>1, <1>5, Zenon DEF Guarding, Gist
  <2>3. ASSUME NEW h \in Nodes, Keeps(nd, old, h)
        PROVE  Keeps(nd2, old2, h)
    BY <1>3, <2>1, <2>3, Zenon
  <2>4. ASSUME Guarding(nd, old)
        PROVE  Guarding(nd2, old2)
    <3>1. PICK o \in Nodes : GuardsRpl(nd[o]) /\ Covers(old, o)
      BY <2>4, Zenon DEF Guarding
    <3>2. o = n \/ o \in Nodes \ {n}
      OBVIOUS
    <3> QED BY <1>4, <2>2, <3>1, <3>2, Zenon
  <2> QED BY <2>3, <2>4, Zenon
<1> DEFINE Hands ==
      /\ Guarding(nd, old) => Guarding(nd2, old2)
      /\ Guarding(nd2, old2) \/ \A h \in Nodes : Keeps(nd, old, h) => Passes(h)
<1>6. ASSUME Same
      PROVE  Hands
  <2> HIDE DEF Same, Passes
  <2> QED BY <1>2, <1>5, <1>6, Zenon
<1>7. ASSUME ~ Same
      PROVE  f.from # Id(n) /\ "guard" \notin nd[n].idx
  BY <1>7, <1>t, Zenon
<1>8. ASSUME ~ Same, IsOld(old, n, 1)
      PROVE  Hands
  <2>1. PICK g \in Nodes : 1 <= old[g][n]
    BY <1>8, Zenon DEF IsOld
  <2>2. ~ Covers(old, n)
    <3>1. SUFFICES ASSUME Covers(old, n)
                   PROVE  FALSE
      OBVIOUS
    <3>2. old[g][n] <= old[n][n]
      BY <3>1, Zenon DEF Covers
    <3>3. old[g][n] \in Nat /\ old[n][n] \in Nat
      BY <1>0, Zenon
    <3>4. old[n][n] > 0
      BY <2>1, <3>2, <3>3, SMT
    <3>5. "guard" \in nd[n].idx
      BY <3>4, Zenon DEF Counts
    <3> QED BY <1>7, <1>8, <3>5, Zenon
  <2>3. ASSUME NEW h \in Nodes, Keeps(nd, old, h)
        PROVE  Passes(h)
    <3>1. h \in Nodes \ {n}
      BY <2>2, <2>3, Zenon DEF Keeps
    <3> HIDE DEF Passes
    <3> QED BY <1>2, <1>3, <2>3, <3>1, Zenon
  <2>4. ASSUME Guarding(nd, old)
        PROVE  Guarding(nd2, old2)
    <3>1. PICK o \in Nodes : GuardsRpl(nd[o]) /\ Covers(old, o)
      BY <2>4, Zenon DEF Guarding
    <3>2. o \in Nodes \ {n}
      BY <2>2, <3>1, Zenon
    <3> QED BY <1>4, <3>1, <3>2, Zenon
  <2> HIDE DEF Passes
  <2> QED BY <2>3, <2>4, Zenon
<1>9. ASSUME ~ Same, Fine(nd, old, f)
      PROVE  Hands
  <2>1. f.raps.req = "NR"
    BY <1>9, Zenon DEF Fine
  <2>2. CASE "RB" \in f.raps.status
    <3>1. PICK o \in Nodes : GuardsRpl(nd[o]) /\ Covers(old, o)
      BY <1>9, <2>2, Zenon DEF Fine, Guarding
    <3>2. PICK x \in Nodes : Owner(nd[x]) /\ f.from = Id(x)
      BY <2>1, <2>2, Zenon DEF Owned
    <3>3. x = o
      BY <3>1, <3>2, Zenon DEF OneOwns, GuardsRpl
    <3>4. o \in Nodes \ {n}
      BY <1>7, <1>9, <3>2, <3>3, Zenon
    <3>5. Guarding(nd2, old2)
      BY <1>4, <3>1, <3>4, Zenon
    <3> QED BY <3>5, Zenon
  <2>3. CASE "RB" \notin f.raps.status
    <3>1. GuardsRpl(nd[n]) => GuardsRpl(nd2[n])
      BY <1>t, <2>1, <2>3, Zenon
    <3>2. Id(n) < f.from
      BY <1>9, <1>t, <2>1, <2>3, <3>1, Zenon DEF Gist
    <3>3. ASSUME Guarding(nd, old)
          PROVE  Guarding(nd2, old2)
      <4>1. PICK o \in Nodes : GuardsRpl(nd[o]) /\ Covers(old, o)
        BY <3>3, Zenon DEF Guarding
      <4>2. CASE o = n
        BY <1>1, <3>1, <4>1, <4>2, Zenon DEF Guarding
      <4>3. CASE o # n
        BY <1>4, <4>1, <4>3, Zenon
      <4> QED BY <4>2, <4>3
    <3>4. ASSUME ~ Guarding(nd, old), NEW h \in Nodes, Keeps(nd, old, h)
          PROVE  Passes(h)
      <4>1. PICK k \in Nodes : Keeps(nd, old, k) /\ Id(k) >= f.from
        BY <1>9, <3>4, Zenon DEF Fine
      <4>2. Id(k) > Id(n) /\ Id(k) >= Id(n)
        BY <1>0, <3>2, <4>1, SMT
      <4>3. k # n
        BY <1>0, <4>2, SMT
      <4>4. Keeps(nd2, old2, k)
        BY <1>3, <4>1, <4>3, Zenon
      <4>5. CASE h = n
        BY <4>2, <4>4, <4>5, Zenon
      <4>6. CASE h # n
        <5> HIDE DEF Passes
        <5> QED BY <1>2, <1>3, <3>4, <4>6, Zenon
      <4> QED BY <4>5, <4>6
    <3> HIDE DEF Passes
    <3> QED BY <3>3, <3>4, Zenon
  <2> QED BY <2>2, <2>3
<1>10. Hands
  <2>1. IsOld(old, n, 1) \/ Fine(nd, old, f)
    BY Zenon DEF Shielded
  <2> HIDE DEF Same, Hands
  <2> QED BY <1>6, <1>8, <1>9, <2>1, Zenon
<1>11. ASSUME NEW m \in Nodes, NEW i \in 1..Len(q[m])
       PROVE  \/ IsOld(old2, m, i)
              \/ \E j \in 1..Len(qs[m]) : q[m][i] = qs[m][j] /\ ~ IsOld(old, m, j)
  <2>1. CASE m # n
    <3>1. q[m] = qs[m] /\ \A h \in Nodes : old2[h][m] = old[h][m]
      BY <1>11, <1>h, <2>1, Zenon
    <3>2. IsOld(old, m, i) => IsOld(old2, m, i)
      BY <3>1, Zenon DEF IsOld
    <3> QED BY <1>11, <3>1, <3>2, Zenon
  <2>2. CASE m = n
    <3>1. i + 1 \in 1..Len(qs[m]) /\ q[m][i] = qs[m][i + 1]
      BY <1>11, <1>h, <2>2, Zenon
    <3>2. ASSUME IsOld(old, m, i + 1)
          PROVE  IsOld(old2, m, i)
      <4>1. PICK g \in Nodes : i + 1 <= old[g][m]
        BY <3>2, Zenon DEF IsOld
      <4>2. old[g][m] \in Nat /\ old2[g][m] = IF old[g][m] = 0 THEN 0 ELSE old[g][m] - 1
        BY <1>0, <1>11, <1>h, <2>2, Zenon
      <4>3. i \in Nat /\ i >= 1
        BY <1>11, SMT
      <4>4. i <= old2[g][m]
        BY <4>1, <4>2, <4>3, SMT
      <4> QED BY <4>4, Zenon DEF IsOld
    <3> QED BY <3>1, <3>2, Zenon
  <2> QED BY <2>1, <2>2
<1>12. Guarding(nd, old) => Guarding(nd2, old2)
  BY <1>10, Zenon
<1>13. \/ Guarding(nd2, old2)
       \/ \A h \in Nodes : Keeps(nd, old, h) =>
            \E k \in Nodes : Keeps(nd2, old2, k) /\ Id(k) >= Id(h)
  BY <1>10, Zenon
<1> HIDE DEF Same, Hands, Passes
<1> QED BY <1>11, <1>12, <1>13, Persist, Zenon

LEMMA ReceiveSteps ==
  ASSUME Enough, RingInv, NEW n \in Nodes, Receive(n)
  PROVE  RingInv'
<1>s. PICK s : s = node[n]
  OBVIOUS
<1>q. PICK q : q = Without(rx, n)
  OBVIOUS
<1>f. PICK f : f = Head(rx[n])
  OBVIOUS
<1>t. PICK t : t = ToPriorityLogic(s, f.raps, f.from)
  OBVIOUS
<1>0. /\ NodesSane(node) /\ OneOwns(node) /\ Linked(node, up, fails)
      /\ Lines(rx) /\ Counts(node, rx, older) /\ Owned(node, rx)
      /\ Sane(s) /\ s.out = << >> /\ s.id = Id(n)
  BY <1>s, Zenon DEF RingInv, NodesSane
<1>1. rx[n] # << >> /\ Step(n, t, q) /\ up' = up /\ fails' = fails
  BY <1>s, <1>q, <1>f, <1>t, Zenon DEF Receive, Without
<1>o. PICK old2 : old2 = Aged(rx, q, older)
  OBVIOUS
<1>2. /\ Lines(q) /\ Counts(node, q, old2)
      /\ 1 \in 1..Len(rx[n]) /\ Head(rx[n]) = rx[n][1]
      /\ Taken(rx, q, older, old2, n)
  BY <1>0, <1>1, <1>q, <1>o, HeadLeaves, SMT
<1>3. f = rx[n][1] /\ f.from \in Nat /\ f.raps \in OwnMessage
  <2>1. rx[n][1].from \in Nat /\ rx[n][1].raps \in OwnMessage
    BY <1>0, <1>2, FramesAre, Zenon
  <2> QED BY <1>f, <1>2, <2>1, Zenon
<1>4. f.raps.req \in {"NR", "SF"}
  BY <1>3, SMT DEF OwnMessage
<1>5. f.raps.req = "NR" /\ "RB" \in f.raps.status /\ f.from # s.id => ~ Owner(s)
  <2>1. SUFFICES ASSUME f.raps.req = "NR", "RB" \in f.raps.status, f.from # s.id, Owner(s)
                 PROVE  FALSE
    OBVIOUS
  <2>2. PICK o \in Nodes : Owner(node[o]) /\ f.from = Id(o)
    BY <1>0, <1>2, <1>3, <2>1, Zenon DEF Owned
  <2>3. o = n
    BY <1>0, <1>s, <2>1, <2>2, Zenon DEF OneOwns
  <2> QED BY <1>0, <2>1, <2>2, <2>3, Zenon
<1>m. PICK m : m = f.raps
  OBVIOUS
<1>g. PICK g : g = f.from
  OBVIOUS
<1>6. /\ FrameDone(s, t)
      /\ g = s.id \/ "guard" \in s.idx => t = s
      /\ m.req = "NR" /\ "RB" \notin m.status =>
           /\ t.blocked = s.blocked \/ s.id < g
           /\ GuardsRpl(s) => GuardsRpl(t)
  <2>1. m.req = "NR" /\ "RB" \in m.status /\ g # s.id => ~ Owner(s)
    BY <1>5, <1>m, <1>g, Zenon
  <2>2. m.req \in {"NR", "SF"} /\ t = ToPriorityLogic(s, m, g)
    BY <1>4, <1>m, <1>g, <1>t, Zenon
  <2> QED BY <1>0, <2>1, <2>2, MessageKeeps, SMT
<1>7. /\ Sane(t) /\ SameGuard(s, t) /\ t.out = << >>
      /\ t.roles = s.roles /\ t.id = s.id /\ t.failed = s.failed
  BY <1>0, <1>6, SetupStays, Zenon DEF FrameDone
<1>8. t.roles = node[n].roles /\ t.id = node[n].id
  BY <1>7, <1>s, Zenon
<1>9. /\ NodesSane(node') /\ OneOwns(node')
      /\ \A x \in Nodes \ {n} : node'[x] = node[x]
      /\ \A x \in Nodes : Owner(node'[x]) = Owner(node[x])
      /\ RplPort(node'[n]) = RplPort(t) /\ Owner(node'[n]) = Owner(t)
      /\ node'[n].failed = t.failed /\ node'[n].blocked = t.blocked
      /\ node'[n].state = t.state /\ node'[n].idx = t.idx
  BY <1>0, <1>1, <1>7, <1>8, NodesStep, Zenon
<1>10. rx' = q
  BY <1>1, <1>2, <1>7, QueuesStay, Zenon
<1>11. older' = old2
  <2>1. older' = [x \in Nodes |->
                   IF x = n /\ "guard" \in t.idx \ node[n].idx
                   THEN [y \in Nodes |-> Len(q[y])]
                   ELSE [y \in Nodes |-> IF older[x][y] = 0 THEN 0
                                         ELSE older[x][y] - (Len(rx[y]) - Len(q[y]))]]
    BY <1>1, Zenon DEF Step
  <2>2. "guard" \notin t.idx \ node[n].idx
    BY <1>7, <1>s, Zenon DEF SameGuard
  <2> QED BY <1>o, <2>1, <2>2, Zenon DEF Aged
<1>12. \A x \in Nodes :
         /\ node'[x].failed = node[x].failed
         /\ "guard" \in node'[x].idx <=> "guard" \in node[x].idx
  BY <1>7, <1>9, <1>s, Zenon DEF SameGuard
<1>13. Counts(node', q, old2)
  BY <1>2, <1>12, Zenon DEF Counts
<1>14. Owned(node', q)
  <2>1. ASSUME NEW x \in Nodes, NEW i \in 1..Len(q[x])
        PROVE  \E j \in 1..Len(rx[x]) : q[x][i] = rx[x][j]
    <3>1. CASE x = n
      BY <1>2, <2>1, <3>1, Zenon DEF Taken
    <3>2. CASE x # n
      <4>1. q[x] = rx[x]
        BY <1>2, <2>1, <3>2, Zenon DEF Taken
      <4> QED BY <2>1, <4>1, Zenon
    <3> QED BY <3>1, <3>2
  <2>2. ASSUME NEW x \in Nodes, NEW i \in 1..Len(q[x]),
               q[x][i].raps.req = "NR", "RB" \in q[x][i].raps.status
        PROVE  \E o \in Nodes : Owner(node'[o]) /\ q[x][i].from = Id(o)
    <3>1. PICK j \in 1..Len(rx[x]) : q[x][i] = rx[x][j]
      BY <2>1, <2>2, Zenon
    <3>2. \E o \in Nodes : Owner(node[o]) /\ rx[x][j].from = Id(o)
      BY <1>0, <2>2, <3>1, Zenon DEF Owned
    <3> QED BY <1>9, <3>1, <3>2, Zenon
  <2> QED BY <2>2, Zenon DEF Owned
<1>15. Linked(node', up, fails)
  BY <1>0, <1>12, LinkedStay, Zenon
<1>16. ASSUME Well(node')
       PROVE  Shielded(node', q, old2)
  <2>1. Shielded(node, rx, older)
    <3>1. Well(node)
      BY <1>12, <1>16, Zenon DEF Well
    <3> QED BY <3>1, Zenon DEF RingInv
  <2>2. f.from = Id(n) \/ "guard" \in node[n].idx => Gist(node'[n], node[n])
    <3>1. f.from = Id(n) \/ "guard" \in node[n].idx => t = s
      BY <1>0, <1>6, <1>g, <1>s, Zenon
    <3> QED BY <1>9, <1>s, <3>1, Zenon DEF Gist, GuardsRpl
  <2>3. f.raps.req = "NR" /\ "RB" \notin f.raps.status =>
           /\ node'[n].blocked = node[n].blocked \/ Id(n) < f.from
           /\ GuardsRpl(node[n]) => GuardsRpl(node'[n])
    BY <1>0, <1>6, <1>9, <1>g, <1>m, <1>s, Zenon DEF GuardsRpl
  <2>4. Lines(rx) /\ Counts(node, rx, older) /\ Owned(node, rx) /\ OneOwns(node)
    BY <1>0, Zenon
  <2>5. f = rx[n][1] /\ 1 \in 1..Len(rx[n]) /\ f.from \in Nat
    BY <1>2, <1>3, Zenon
  <2>6. \A x \in Nodes \ {n} : node'[x] = node[x]
    BY <1>9, Zenon
  <2>7. Takes(n, f, node[n], node'[n])
    BY <2>2, <2>3, Zenon DEF Takes
  <2> QED BY <1>2, <2>1, <2>4, <2>5, <2>6, <2>7, ReceiveShields, Zenon
<1> QED BY <1>1, <1>2, <1>9, <1>10, <1>11, <1>13, <1>14, <1>15, <1>16, Zenon DEF RingInv

-----------------------------------------------------------------------------
(* The theorem                                                             *)

\* The rings of the model: no two nodes own the RPL.
OneOwner ==
  \A layout \in Layouts, m, n \in Nodes :
    (\E p \in Ports : layout[m][p] = "OWNER") /\ (\E p \in Ports : layout[n][p] = "OWNER")
      => m = n

LEMMA OwnerRole ==
  ASSUME NEW s, Owner(s)
  PROVE  \E p \in Ports : s.roles[p] = "OWNER"
<1>1. HasRole(s, "OWNER") \/ NodeType(s) # "OWNER"
  BY SMT DEF NodeType
<1> QED BY <1>1, Zenon DEF HasRole, Owner

LEMMA RingStarts ==
  ASSUME Enough, OneOwner, Init
  PROVE  RingInv
<1>1. PICK layout \in Layouts : node = [n \in Nodes |-> Created(n, layout)]
  BY Zenon DEF Init
<1>2. layout \in [Nodes -> [Ports -> Roles]]
  BY RingAssumption, Zenon
<1>3. /\ up = Links /\ fails = 0 /\ rx = [n \in Nodes |-> << >>]
      /\ older = [n \in Nodes |-> [m \in Nodes |-> 0]]
  BY Zenon DEF Init
<1>4. DOMAIN node = Nodes /\ \A n \in Nodes : node[n] = Created(n, layout)
  BY <1>1, Zenon
<1>5. ASSUME NEW n \in Nodes
      PROVE  /\ Sane(node[n]) /\ node[n].roles = layout[n] /\ node[n].id = Id(n)
             /\ node[n].failed = {} /\ node[n].blocked # {}
             /\ "guard" \notin node[n].idx /\ node[n].out = << >>
  <2>1. PICK t : t = Created(n, layout)
    OBVIOUS
  <2>2. /\ Sane(t) /\ t.roles = layout[n] /\ t.id = Id(n)
        /\ t.failed = {} /\ t.blocked # {} /\ "guard" \notin t.idx /\ t.out = << >>
    BY <1>2, <1>5, <2>1, IsCreated, Zenon
  <2> QED BY <1>4, <1>5, <2>1, <2>2, Zenon
<1>6. NodesSane(node)
  BY <1>4, <1>5, Zenon DEF NodesSane
<1>7. OneOwns(node)
  <2>1. ASSUME NEW m \in Nodes, NEW n \in Nodes, Owner(node[m]), Owner(node[n])
        PROVE  m = n
    <3>1. \E p \in Ports : layout[m][p] = "OWNER"
      BY <1>5, <2>1, OwnerRole, Zenon
    <3>2. \E p \in Ports : layout[n][p] = "OWNER"
      BY <1>5, <2>1, OwnerRole, ZenonT(60)
    <3> QED BY <3>1, <3>2, Zenon DEF OneOwner
  <2> QED BY <2>1, Zenon DEF OneOwns
<1>8. \A n \in Nodes : rx[n] = << >> /\ \A m \in Nodes : older[n][m] = 0
  BY <1>3, Zenon
<1>9. Lines(rx)
  <2>1. << >> \in Seq(Packets) /\ Len(<< >>) <= QLen
    BY RingAssumption, SMT
  <2>2. rx \in [Nodes -> Seq(Packets)]
    BY <1>3, <2>1, Zenon
  <2> QED BY <1>8, <2>1, <2>2, Zenon DEF Lines
<1>10. Counts(node, rx, older)
  <2>1. older \in [Nodes -> [Nodes -> Nat]]
    BY <1>3, SMT
  <2>2. Len(<< >>) = 0
    BY SMT
  <2>3. 0 <= 0 /\ ~ 0 > 0
    BY SMT
  <2> QED BY <1>8, <2>1, <2>2, <2>3, Zenon DEF Counts
<1>11. \A n \in Nodes : 1..Len(rx[n]) = {}
  BY <1>8, SMT
<1>12. Owned(node, rx)
  BY <1>11, Zenon DEF Owned
<1>13. Linked(node, up, fails)
  <2>1. Well(node) /\ Unguarded(node)
    BY <1>5, Zenon DEF Well, Unguarded
  <2>2. \A n \in Nodes, p \in Ports : LinkAt(n, p) \in up
    BY <1>3, TwoLinks, Zenon
  <2>3. \A n \in Nodes, p \in Ports : Knows(node, up, n, p)
    BY <1>5, <2>2, SMT DEF Knows
  <2>4. 0 \in Links
    BY RingAssumption, SMT DEF Links, Nodes
  <2>5. up \subseteq Links /\ fails \in Nat
    BY <1>3, SMT
  <2> QED BY <1>3, <1>5, <2>1, <2>2, <2>3, <2>4, <2>5, Zenon DEF Linked
<1>14. Shielded(node, rx, older)
  <2>1. \A h \in Nodes : Covers(older, h)
    BY <1>8, <1>10, CalmCovers, Zenon
  <2>2. 0 \in Nodes
    BY RingAssumption, SMT DEF Nodes
  <2>3. Keeps(node, older, 0)
    BY <1>5, <2>1, <2>2, Zenon DEF Keeps
  <2> QED BY <1>11, <2>2, <2>3, Zenon DEF Shielded
<1> QED BY <1>6, <1>7, <1>9, <1>10, <1>12, <1>13, <1>14, Zenon DEF RingInv

\* A change of a link that no node has seen yet.
LEMMA LinkSteps ==
  ASSUME Hasty <= 1, RingInv, NEW l \in Links, Fail(l) \/ Recover(l)
  PROVE  RingInv'
<1>1. node' = node /\ rx' = rx /\ older' = older
  BY Zenon DEF Fail, Recover
<1>2. Linked(node, up, fails)
  BY Zenon DEF RingInv
<1>3. Linked(node, up', fails')
  BY <1>2, LinkedFail, LinkedRecover, Zenon
<1> QED BY <1>1, <1>3, Zenon DEF RingInv

LEMMA RingSteps ==
  ASSUME Enough, Hasty <= 1, RingInv, [Next]_vars
  PROVE  RingInv'
<1>1. ASSUME NEW l \in Links, Fail(l) \/ Recover(l)
      PROVE  RingInv'
  BY <1>1, LinkSteps, Zenon
<1>2. ASSUME NEW n \in Nodes, NEW p \in Ports, Detect(n, p)
      PROVE  RingInv'
  BY <1>2, DetectSteps, Zenon
<1>3. ASSUME NEW n \in Nodes, Receive(n)
      PROVE  RingInv'
  BY <1>3, ReceiveSteps, Zenon
<1>4. ASSUME NEW n \in Nodes, GuardExpire(n)
      PROVE  RingInv'
  BY <1>4, GuardExpireSteps, Zenon
<1>5. ASSUME NEW n \in Nodes, WtrExpire(n)
      PROVE  RingInv'
  BY <1>5, WtrExpireSteps, Zenon
<1>6. ASSUME NEW n \in Nodes, Retransmit(n)
      PROVE  RingInv'
  BY <1>6, RetransmitSteps, Zenon
<1>7. CASE UNCHANGED vars
  <2>1. node' = node /\ rx' = rx /\ older' = older /\ up' = up /\ fails' = fails
    BY <1>7, Zenon DEF vars
  <2> QED BY <2>1, Zenon DEF RingInv
<1> QED BY <1>1, <1>2, <1>3, <1>4, <1>5, <1>6, <1>7, Zenon DEF Next

LEMMA RingGuards == RingInv => NoLoop
<1> SUFFICES ASSUME RingInv, \A n \in Nodes : node[n].blocked = {}
             PROVE  FALSE
  BY Zenon DEF NoLoop
<1>1. Well(node)
  <2>1. ASSUME NEW n \in Nodes
        PROVE  node[n].failed = {}
    <3>1. Sane(node[n]) /\ node[n].blocked = {}
      BY <2>1, Zenon DEF RingInv, NodesSane
    <3> QED BY <3>1, SMT DEF Sane, Protected
  <2> QED BY <2>1, Zenon DEF Well
<1>2. \E h \in Nodes : Keeps(node, older, h)
  BY <1>1, Zenon DEF RingInv, Shielded
<1> QED BY <1>2, Zenon DEF Keeps

\* A ring of any number of nodes with one owner, whose links change at any
\* moment only in the first failure and its recovery, has no loop, whatever the
\* order in which its nodes learn of failures and of each other.
THEOREM DataDoesNotCircle ==
  ASSUME Slots >= 4, Hasty <= 1, OneOwner
  PROVE  Spec => []NoLoop
<1>0. Enough
  BY Zenon DEF Enough
<1>1. Init => RingInv
  BY <1>0, RingStarts, Zenon
<1>2. RingInv /\ [Next]_vars => RingInv'
  BY <1>0, RingSteps, Zenon
<1> QED BY <1>1, <1>2, RingGuards, PTL DEF Spec
=============================================================================
