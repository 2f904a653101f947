---------------------------- MODULE ErpsNode_proofs ----------------------------
(***************************************************************************)
(* A ring node: what it blocks, announces and waits for, for any switch,   *)
(* any configurations, any length of the event queue and any messages.     *)
(***************************************************************************)
EXTENDS ErpsNode, Integers, TLAPS, SequenceTheorems

-----------------------------------------------------------------------------
(* The inductive invariant                                                 *)

States == {"IDLE", "PENDING", "PROTECTION", "MANUAL_SWITCH", "FORCED_SWITCH"}
Locals == {"CLEAR", "SF", "LAST", "WTR_RUNNING", "WTB_RUNNING"}
RoleMaps == [Ports -> Roles]
PortMaps == [Ports -> Phys]
RunMaps == [Timers -> Int]
PortSets == SUBSET Ports
PhysSets == SUBSET Phys
TimerSets == SUBSET Timers
Outputs == Seq(Message)
Ring ==
  [roles : RoleMaps, pid : PortMaps, revertive : BOOLEAN, holds : BOOLEAN,
   id : Nat, state : States, local : Locals, failed : PortSets,
   blocked : PortSets, fw : BOOLEAN, stp : PhysSets, idx : TimerSets,
   run : RunMaps, sending : BOOLEAN, raps : Message, out : Outputs,
   flush : BOOLEAN, cleared : BOOLEAN]

\* The ports of the switch are as the ring has its ports.
Wired(s) ==
  /\ s.pid["west"] # s.pid["east"]
  /\ s.fw <=> s.blocked = {}
  /\ s.stp = {s.pid[p] : p \in s.blocked}

\* A local failure is protected, and RB is sent only by the idle owner.
Failing(s) ==
  s.local = "SF" =>
    /\ s.state = "PROTECTION" /\ s.sending /\ s.raps.req = "SF"
    /\ s.blocked # {} /\ s.blocked \subseteq s.failed

Blocking(s) ==
  s.sending /\ "RB" \in s.raps.status =>
    Owner(s) /\ s.state = "IDLE" /\ s.blocked = {RplPort(s)}

Good(s) == s \in Ring /\ Wired(s) /\ Failing(s) /\ Blocking(s)

\* Before the instance exists no port is closed, and nothing is requested or
\* sent.
IInv ==
  /\ r \in Ring
  /\ IF ring THEN Good(r) ELSE r.local = "CLEAR" /\ r.stp = {} /\ ~r.sending

\* The slots that run are those that the ring has the index of.
Own(s) == \A k \in Timers : s.run[k] = IF k \in s.idx THEN 1 ELSE 0

Waiting(s) ==
  /\ "wtr" \in s.idx \/ "wtb" \in s.idx => Revertive(s) /\ s.state = "PENDING"
  /\ s.local = "WTR_RUNNING" => "wtr" \in s.idx
  /\ s.local = "WTB_RUNNING" => "wtb" \in s.idx

\* With one configuration message the slots are never orphaned.
TimerInv ==
  /\ left \in Nat /\ left <= 1 /\ (ring => left = 0)
  /\ IF ring THEN Own(r) /\ Waiting(r) ELSE r.idx = {} /\ r.run = NoneRuns

-----------------------------------------------------------------------------
(* What a primitive operation leaves as it is.                             *)

SameSetup(s, t) ==
  /\ t.roles = s.roles /\ t.pid = s.pid /\ t.revertive = s.revertive
  /\ t.holds = s.holds /\ t.id = s.id /\ t.failed = s.failed
SamePorts(s, t) == t.blocked = s.blocked /\ t.fw = s.fw /\ t.stp = s.stp
SameTimers(s, t) == t.idx = s.idx /\ t.run = s.run
SameSent(s, t) == t.sending = s.sending /\ t.raps = s.raps
SameMode(s, t) == t.state = s.state /\ t.local = s.local

Alike(s, t) ==
  /\ t \in Ring /\ SameSetup(s, t) /\ SamePorts(s, t) /\ SameTimers(s, t)
  /\ SameSent(s, t) /\ SameMode(s, t)
PortsOnly(s, t) ==
  /\ t \in Ring /\ SameSetup(s, t)
  /\ SameTimers(s, t) /\ SameSent(s, t) /\ SameMode(s, t)
TimersOnly(s, t) ==
  /\ t \in Ring /\ SameSetup(s, t)
  /\ SamePorts(s, t) /\ SameSent(s, t) /\ SameMode(s, t)
SentOnly(s, t) ==
  /\ t \in Ring /\ SameSetup(s, t)
  /\ SamePorts(s, t) /\ SameTimers(s, t) /\ SameMode(s, t)
ModeOnly(s, t) ==
  /\ t \in Ring /\ SameSetup(s, t)
  /\ SamePorts(s, t) /\ SameTimers(s, t) /\ SameSent(s, t)
SetupOnly(s, t) ==
  /\ t \in Ring /\ SamePorts(s, t)
  /\ SameTimers(s, t) /\ SameSent(s, t) /\ SameMode(s, t)

(* A ring with one field set, and what that leaves as it is.               *)
PutBlocked(s, v) == [s EXCEPT !.blocked = v]
LEMMA BlockedPut ==
  ASSUME NEW s \in Ring, NEW v \in PortSets
  PROVE  LET t == PutBlocked(s, v) IN
         /\ PortsOnly(s, t)
         /\ t.blocked = v /\ t.fw = s.fw /\ t.stp = s.stp
<1>1. PutBlocked(s, v) \in Ring
  BY SMT DEF Ring, PutBlocked
<1>2. LET t == PutBlocked(s, v) IN
      /\ SameSetup(s, t) /\ SameTimers(s, t) /\ SameSent(s, t) /\ SameMode(s, t)
      /\ t.blocked = v /\ t.fw = s.fw /\ t.stp = s.stp
  BY SMT DEF Ring, PutBlocked, SameSetup, SameTimers, SameSent, SameMode
<1> QED BY <1>1, <1>2, Zenon DEF PortsOnly

PutStp(s, v) == [s EXCEPT !.stp = v]
LEMMA StpPut ==
  ASSUME NEW s \in Ring, NEW v \in PhysSets
  PROVE  LET t == PutStp(s, v) IN
         /\ PortsOnly(s, t)
         /\ t.stp = v /\ t.blocked = s.blocked /\ t.fw = s.fw
<1>1. PutStp(s, v) \in Ring
  BY SMT DEF Ring, PutStp
<1>2. LET t == PutStp(s, v) IN
      /\ SameSetup(s, t) /\ SameTimers(s, t) /\ SameSent(s, t) /\ SameMode(s, t)
      /\ t.stp = v /\ t.blocked = s.blocked /\ t.fw = s.fw
  BY SMT DEF Ring, PutStp, SameSetup, SameTimers, SameSent, SameMode
<1> QED BY <1>1, <1>2, Zenon DEF PortsOnly

PutFw(s, v) == [s EXCEPT !.fw = v]
LEMMA FwPut ==
  ASSUME NEW s \in Ring, NEW v \in BOOLEAN
  PROVE  LET t == PutFw(s, v) IN
         /\ PortsOnly(s, t)
         /\ t.fw = v /\ t.blocked = s.blocked /\ t.stp = s.stp
<1>1. PutFw(s, v) \in Ring
  BY SMT DEF Ring, PutFw
<1>2. LET t == PutFw(s, v) IN
      /\ SameSetup(s, t) /\ SameTimers(s, t) /\ SameSent(s, t) /\ SameMode(s, t)
      /\ t.fw = v /\ t.blocked = s.blocked /\ t.stp = s.stp
  BY SMT DEF Ring, PutFw, SameSetup, SameTimers, SameSent, SameMode
<1> QED BY <1>1, <1>2, Zenon DEF PortsOnly

PutIdx(s, v) == [s EXCEPT !.idx = v]
LEMMA IdxPut ==
  ASSUME NEW s \in Ring, NEW v \in TimerSets
  PROVE  LET t == PutIdx(s, v) IN
         /\ TimersOnly(s, t)
         /\ t.idx = v /\ t.run = s.run
<1>1. PutIdx(s, v) \in Ring
  BY SMT DEF Ring, PutIdx
<1>2. LET t == PutIdx(s, v) IN
      /\ SameSetup(s, t) /\ SamePorts(s, t) /\ SameSent(s, t) /\ SameMode(s, t)
      /\ t.idx = v /\ t.run = s.run
  BY SMT DEF Ring, PutIdx, SameSetup, SamePorts, SameSent, SameMode
<1> QED BY <1>1, <1>2, Zenon DEF TimersOnly

PutRun(s, v) == [s EXCEPT !.run = v]
LEMMA RunPut ==
  ASSUME NEW s \in Ring, NEW v \in RunMaps
  PROVE  LET t == PutRun(s, v) IN
         /\ TimersOnly(s, t)
         /\ t.run = v /\ t.idx = s.idx
<1>1. PutRun(s, v) \in Ring
  BY SMT DEF Ring, PutRun
<1>2. LET t == PutRun(s, v) IN
      /\ SameSetup(s, t) /\ SamePorts(s, t) /\ SameSent(s, t) /\ SameMode(s, t)
      /\ t.run = v /\ t.idx = s.idx
  BY SMT DEF Ring, PutRun, SameSetup, SamePorts, SameSent, SameMode
<1> QED BY <1>1, <1>2, Zenon DEF TimersOnly

PutSending(s, v) == [s EXCEPT !.sending = v]
LEMMA SendingPut ==
  ASSUME NEW s \in Ring, NEW v \in BOOLEAN
  PROVE  LET t == PutSending(s, v) IN
         /\ SentOnly(s, t)
         /\ t.sending = v /\ t.raps = s.raps
<1>1. PutSending(s, v) \in Ring
  BY SMT DEF Ring, PutSending
<1>2. LET t == PutSending(s, v) IN
      /\ SameSetup(s, t) /\ SamePorts(s, t) /\ SameTimers(s, t) /\ SameMode(s, t)
      /\ t.sending = v /\ t.raps = s.raps
  BY SMT DEF Ring, PutSending, SameSetup, SamePorts, SameTimers, SameMode
<1> QED BY <1>1, <1>2, Zenon DEF SentOnly

PutRaps(s, v) == [s EXCEPT !.raps = v]
LEMMA RapsPut ==
  ASSUME NEW s \in Ring, NEW v \in Message
  PROVE  LET t == PutRaps(s, v) IN
         /\ SentOnly(s, t)
         /\ t.raps = v /\ t.sending = s.sending
<1>1. PutRaps(s, v) \in Ring
  BY SMT DEF Ring, PutRaps
<1>2. LET t == PutRaps(s, v) IN
      /\ SameSetup(s, t) /\ SamePorts(s, t) /\ SameTimers(s, t) /\ SameMode(s, t)
      /\ t.raps = v /\ t.sending = s.sending
  BY SMT DEF Ring, PutRaps, SameSetup, SamePorts, SameTimers, SameMode
<1> QED BY <1>1, <1>2, Zenon DEF SentOnly

PutState(s, v) == [s EXCEPT !.state = v]
LEMMA StatePut ==
  ASSUME NEW s \in Ring, NEW v \in States
  PROVE  LET t == PutState(s, v) IN
         /\ ModeOnly(s, t)
         /\ t.state = v /\ t.local = s.local
<1>1. PutState(s, v) \in Ring
  BY SMT DEF Ring, PutState
<1>2. LET t == PutState(s, v) IN
      /\ SameSetup(s, t) /\ SamePorts(s, t) /\ SameTimers(s, t) /\ SameSent(s, t)
      /\ t.state = v /\ t.local = s.local
  BY SMT DEF Ring, PutState, SameSetup, SamePorts, SameTimers, SameSent
<1> QED BY <1>1, <1>2, Zenon DEF ModeOnly

PutLocal(s, v) == [s EXCEPT !.local = v]
LEMMA LocalPut ==
  ASSUME NEW s \in Ring, NEW v \in Locals
  PROVE  LET t == PutLocal(s, v) IN
         /\ ModeOnly(s, t)
         /\ t.local = v /\ t.state = s.state
<1>1. PutLocal(s, v) \in Ring
  BY SMT DEF Ring, PutLocal
<1>2. LET t == PutLocal(s, v) IN
      /\ SameSetup(s, t) /\ SamePorts(s, t) /\ SameTimers(s, t) /\ SameSent(s, t)
      /\ t.local = v /\ t.state = s.state
  BY SMT DEF Ring, PutLocal, SameSetup, SamePorts, SameTimers, SameSent
<1> QED BY <1>1, <1>2, Zenon DEF ModeOnly

PutOut(s, v) == [s EXCEPT !.out = v]
LEMMA OutPut ==
  ASSUME NEW s \in Ring, NEW v \in Outputs
  PROVE  Alike(s, PutOut(s, v))
<1>1. PutOut(s, v) \in Ring
  BY SMT DEF Ring, PutOut
<1>2. LET t == PutOut(s, v) IN
      /\ SameSetup(s, t) /\ SamePorts(s, t) /\ SameTimers(s, t)
      /\ SameSent(s, t) /\ SameMode(s, t)
  BY SMT DEF Ring, PutOut, SameSetup, SamePorts, SameTimers, SameSent, SameMode
<1> QED BY <1>1, <1>2, Zenon DEF Alike

PutFlush(s, v) == [s EXCEPT !.flush = v]
LEMMA FlushPut ==
  ASSUME NEW s \in Ring, NEW v \in BOOLEAN
  PROVE  Alike(s, PutFlush(s, v))
<1>1. PutFlush(s, v) \in Ring
  BY SMT DEF Ring, PutFlush
<1>2. LET t == PutFlush(s, v) IN
      /\ SameSetup(s, t) /\ SamePorts(s, t) /\ SameTimers(s, t)
      /\ SameSent(s, t) /\ SameMode(s, t)
  BY SMT DEF Ring, PutFlush, SameSetup, SamePorts, SameTimers, SameSent, SameMode
<1> QED BY <1>1, <1>2, Zenon DEF Alike

PutCleared(s, v) == [s EXCEPT !.cleared = v]
LEMMA ClearedPut ==
  ASSUME NEW s \in Ring, NEW v \in BOOLEAN
  PROVE  Alike(s, PutCleared(s, v))
<1>1. PutCleared(s, v) \in Ring
  BY SMT DEF Ring, PutCleared
<1>2. LET t == PutCleared(s, v) IN
      /\ SameSetup(s, t) /\ SamePorts(s, t) /\ SameTimers(s, t)
      /\ SameSent(s, t) /\ SameMode(s, t)
  BY SMT DEF Ring, PutCleared, SameSetup, SamePorts, SameTimers, SameSent, SameMode
<1> QED BY <1>1, <1>2, Zenon DEF Alike

PutRoles(s, v) == [s EXCEPT !.roles = v]
LEMMA RolesPut ==
  ASSUME NEW s \in Ring, NEW v \in RoleMaps
  PROVE  LET t == PutRoles(s, v) IN
         /\ SetupOnly(s, t)
         /\ t.roles = v /\ t.pid = s.pid /\ t.revertive = s.revertive
         /\ t.holds = s.holds /\ t.id = s.id /\ t.failed = s.failed
<1>1. PutRoles(s, v) \in Ring
  BY SMT DEF Ring, PutRoles
<1>2. LET t == PutRoles(s, v) IN
      /\ SamePorts(s, t) /\ SameTimers(s, t) /\ SameSent(s, t) /\ SameMode(s, t)
      /\ t.roles = v /\ t.pid = s.pid /\ t.revertive = s.revertive
      /\ t.holds = s.holds /\ t.id = s.id /\ t.failed = s.failed
  BY SMT DEF Ring, PutRoles, SamePorts, SameTimers, SameSent, SameMode
<1> QED BY <1>1, <1>2, Zenon DEF SetupOnly

PutPid(s, v) == [s EXCEPT !.pid = v]
LEMMA PidPut ==
  ASSUME NEW s \in Ring, NEW v \in PortMaps
  PROVE  LET t == PutPid(s, v) IN
         /\ SetupOnly(s, t)
         /\ t.pid = v /\ t.roles = s.roles /\ t.revertive = s.revertive
         /\ t.holds = s.holds /\ t.id = s.id /\ t.failed = s.failed
<1>1. PutPid(s, v) \in Ring
  BY SMT DEF Ring, PutPid
<1>2. LET t == PutPid(s, v) IN
      /\ SamePorts(s, t) /\ SameTimers(s, t) /\ SameSent(s, t) /\ SameMode(s, t)
      /\ t.pid = v /\ t.roles = s.roles /\ t.revertive = s.revertive
      /\ t.holds = s.holds /\ t.id = s.id /\ t.failed = s.failed
  BY SMT DEF Ring, PutPid, SamePorts, SameTimers, SameSent, SameMode
<1> QED BY <1>1, <1>2, Zenon DEF SetupOnly

PutRevertive(s, v) == [s EXCEPT !.revertive = v]
LEMMA RevertivePut ==
  ASSUME NEW s \in Ring, NEW v \in BOOLEAN
  PROVE  LET t == PutRevertive(s, v) IN
         /\ SetupOnly(s, t)
         /\ t.revertive = v /\ t.roles = s.roles /\ t.pid = s.pid
         /\ t.holds = s.holds /\ t.id = s.id /\ t.failed = s.failed
<1>1. PutRevertive(s, v) \in Ring
  BY SMT DEF Ring, PutRevertive
<1>2. LET t == PutRevertive(s, v) IN
      /\ SamePorts(s, t) /\ SameTimers(s, t) /\ SameSent(s, t) /\ SameMode(s, t)
      /\ t.revertive = v /\ t.roles = s.roles /\ t.pid = s.pid
      /\ t.holds = s.holds /\ t.id = s.id /\ t.failed = s.failed
  BY SMT DEF Ring, PutRevertive, SamePorts, SameTimers, SameSent, SameMode
<1> QED BY <1>1, <1>2, Zenon DEF SetupOnly

PutHolds(s, v) == [s EXCEPT !.holds = v]
LEMMA HoldsPut ==
  ASSUME NEW s \in Ring, NEW v \in BOOLEAN
  PROVE  LET t == PutHolds(s, v) IN
         /\ SetupOnly(s, t)
         /\ t.holds = v /\ t.roles = s.roles /\ t.pid = s.pid
         /\ t.revertive = s.revertive /\ t.id = s.id /\ t.failed = s.failed
<1>1. PutHolds(s, v) \in Ring
  BY SMT DEF Ring, PutHolds
<1>2. LET t == PutHolds(s, v) IN
      /\ SamePorts(s, t) /\ SameTimers(s, t) /\ SameSent(s, t) /\ SameMode(s, t)
      /\ t.holds = v /\ t.roles = s.roles /\ t.pid = s.pid
      /\ t.revertive = s.revertive /\ t.id = s.id /\ t.failed = s.failed
  BY SMT DEF Ring, PutHolds, SamePorts, SameTimers, SameSent, SameMode
<1> QED BY <1>1, <1>2, Zenon DEF SetupOnly

PutId(s, v) == [s EXCEPT !.id = v]
LEMMA IdPut ==
  ASSUME NEW s \in Ring, NEW v \in Nat
  PROVE  LET t == PutId(s, v) IN
         /\ SetupOnly(s, t)
         /\ t.id = v /\ t.roles = s.roles /\ t.pid = s.pid
         /\ t.revertive = s.revertive /\ t.holds = s.holds /\ t.failed = s.failed
<1>1. PutId(s, v) \in Ring
  BY SMT DEF Ring, PutId
<1>2. LET t == PutId(s, v) IN
      /\ SamePorts(s, t) /\ SameTimers(s, t) /\ SameSent(s, t) /\ SameMode(s, t)
      /\ t.id = v /\ t.roles = s.roles /\ t.pid = s.pid
      /\ t.revertive = s.revertive /\ t.holds = s.holds /\ t.failed = s.failed
  BY SMT DEF Ring, PutId, SamePorts, SameTimers, SameSent, SameMode
<1> QED BY <1>1, <1>2, Zenon DEF SetupOnly

PutFailed(s, v) == [s EXCEPT !.failed = v]
LEMMA FailedPut ==
  ASSUME NEW s \in Ring, NEW v \in PortSets
  PROVE  LET t == PutFailed(s, v) IN
         /\ SetupOnly(s, t)
         /\ t.failed = v /\ t.roles = s.roles /\ t.pid = s.pid
         /\ t.revertive = s.revertive /\ t.holds = s.holds /\ t.id = s.id
<1>1. PutFailed(s, v) \in Ring
  BY SMT DEF Ring, PutFailed
<1>2. LET t == PutFailed(s, v) IN
      /\ SamePorts(s, t) /\ SameTimers(s, t) /\ SameSent(s, t) /\ SameMode(s, t)
      /\ t.failed = v /\ t.roles = s.roles /\ t.pid = s.pid
      /\ t.revertive = s.revertive /\ t.holds = s.holds /\ t.id = s.id
  BY SMT DEF Ring, PutFailed, SamePorts, SameTimers, SameSent, SameMode
<1> QED BY <1>1, <1>2, Zenon DEF SetupOnly

LEMMA Types ==
  ASSUME NEW s \in Ring
  PROVE  /\ s.roles \in [Ports -> Roles] /\ s.pid \in [Ports -> Phys] /\ s.id \in Nat
         /\ s.failed \subseteq Ports /\ s.blocked \subseteq Ports /\ s.stp \subseteq Phys
         /\ s.idx \subseteq Timers /\ s.run \in [Timers -> Int] /\ s.raps \in Message
         /\ s.out \in Seq(Message) /\ s.state \in States /\ s.local \in Locals
         /\ s.fw \in BOOLEAN /\ s.sending \in BOOLEAN
         /\ s.revertive \in BOOLEAN /\ s.holds \in BOOLEAN
BY SMT DEF Ring, RoleMaps, PortMaps, RunMaps, PortSets, PhysSets, TimerSets, Outputs

LEMMA AlikeSelf ==
  ASSUME NEW s \in Ring
  PROVE  Alike(s, s)
BY Zenon DEF Alike, SameSetup, SamePorts, SameTimers, SameSent, SameMode

-----------------------------------------------------------------------------
(* Ports                                                                   *)

\* A port that is blocked discards and lets nothing pass to the other one.
LEMMA BlockPort ==
  ASSUME NEW s \in Ring, NEW p \in Ports
  PROVE  LET t == Block(s, p) IN
         /\ PortsOnly(s, t)
         /\ t.blocked = s.blocked \cup {p}
         /\ p \in s.blocked => t = s
         /\ p \notin s.blocked => t.stp = s.stp \cup {s.pid[p]} /\ ~ t.fw
<1>1. CASE p \in s.blocked
  <2>1. Block(s, p) = s
    BY <1>1, Zenon DEF Block
  <2>2. s.blocked = s.blocked \cup {p}
    BY <1>1, SMT
  <2> QED BY <2>1, <2>2, <1>1, AlikeSelf, Zenon DEF PortsOnly, Alike
<1>2. CASE p \notin s.blocked
  <2> DEFINE B == s.blocked \cup {p}
             S == s.stp \cup {s.pid[p]}
             a == PutBlocked(s, B)
             b == PutStp(a, S)
             c == PutFw(b, FALSE)
             d == PutCleared(c, TRUE)
  <2>1. B \in PortSets /\ S \in PhysSets /\ FALSE \in BOOLEAN /\ TRUE \in BOOLEAN
    BY Types, SMT DEF PortSets, PhysSets
  <2>2. Block(s, p) = d
    BY <1>2, SMT DEF Block, PutBlocked, PutStp, PutFw, PutCleared
  <2> HIDE DEF B, S
  <2>3. PortsOnly(s, a) /\ a.blocked = B /\ a.stp = s.stp
    BY <2>1, BlockedPut, Zenon
  <2> HIDE DEF a
  <2>4. PortsOnly(a, b) /\ b.blocked = B /\ b.stp = S
    BY <2>1, <2>3, StpPut, Zenon DEF PortsOnly
  <2> HIDE DEF b
  <2>5. PortsOnly(b, c) /\ c.blocked = B /\ c.stp = S /\ c.fw = FALSE
    BY <2>1, <2>4, FwPut, Zenon DEF PortsOnly
  <2> HIDE DEF c
  <2>6. Alike(c, d)
    BY <2>1, <2>5, ClearedPut, Zenon DEF PortsOnly
  <2> HIDE DEF d
  <2>7. PortsOnly(s, d)
    BY <2>3, <2>4, <2>5, <2>6, Zenon
       DEF PortsOnly, Alike, SameSetup, SameTimers, SameSent, SameMode
  <2>8. d.blocked = B /\ d.stp = S /\ d.fw = FALSE
    BY <2>5, <2>6, Zenon DEF Alike, SamePorts
  <2> QED BY <1>2, <2>2, <2>7, <2>8, Zenon DEF B, S
<1> QED BY <1>1, <1>2

\* Opening a port.
LEMMA UnblockPort ==
  ASSUME NEW s \in Ring, NEW p \in Ports
  PROVE  LET t == Unblock(s, p) IN
         /\ PortsOnly(s, t)
         /\ t.blocked = s.blocked \ {p}
         /\ p \notin s.blocked => t = s
         /\ p \in s.blocked =>
              /\ t.stp = s.stp \ {s.pid[p]}
              /\ t.fw <=> Another(p) \notin s.blocked
<1>1. CASE p \notin s.blocked
  <2>1. Unblock(s, p) = s
    BY <1>1, Zenon DEF Unblock
  <2>2. s.blocked = s.blocked \ {p}
    BY <1>1, SMT
  <2> QED BY <2>1, <2>2, <1>1, AlikeSelf, Zenon DEF PortsOnly, Alike
<1>2. CASE p \in s.blocked
  <2> DEFINE B == s.blocked \ {p}
             S == s.stp \ {s.pid[p]}
             f == Another(p) \notin s.blocked
             a == PutBlocked(s, B)
             b == PutStp(a, S)
             c == PutFw(b, f)
  <2>1. B \in PortSets /\ S \in PhysSets /\ f \in BOOLEAN
    BY Types, SMT DEF PortSets, PhysSets
  <2>2. Unblock(s, p) = c
    BY <1>2, SMT DEF Unblock, PutBlocked, PutStp, PutFw
  <2> HIDE DEF B, S, f
  <2>3. PortsOnly(s, a) /\ a.blocked = B /\ a.stp = s.stp
    BY <2>1, BlockedPut, Zenon
  <2> HIDE DEF a
  <2>4. PortsOnly(a, b) /\ b.blocked = B /\ b.stp = S
    BY <2>1, <2>3, StpPut, Zenon DEF PortsOnly
  <2> HIDE DEF b
  <2>5. PortsOnly(b, c) /\ c.blocked = B /\ c.stp = S /\ c.fw = f
    BY <2>1, <2>4, FwPut, Zenon DEF PortsOnly
  <2> HIDE DEF c
  <2>6. PortsOnly(s, c)
    BY <2>3, <2>4, <2>5, Zenon
       DEF PortsOnly, SameSetup, SameTimers, SameSent, SameMode
  <2> QED BY <1>2, <2>2, <2>5, <2>6, Zenon DEF B, S, f
<1> QED BY <1>1, <1>2

\* The ports of the switch are right, except perhaps for the forwarding of
\* frames between open ports.
Plugged(s) ==
  /\ s.pid["west"] # s.pid["east"]
  /\ s.fw => s.blocked = {}
  /\ s.stp = {s.pid[p] : p \in s.blocked}

LEMMA WiredIsPlugged ==
  ASSUME NEW s \in Ring, Wired(s)
  PROVE  Plugged(s)
BY Zenon DEF Wired, Plugged

LEMMA BlockWires ==
  ASSUME NEW s \in Ring, NEW p \in Ports, Plugged(s)
  PROVE  /\ Plugged(Block(s, p))
         /\ Wired(s) \/ s.blocked = {} => Wired(Block(s, p))
<1> DEFINE t == Block(s, p)
<1>1. /\ t.pid = s.pid /\ t.blocked = s.blocked \cup {p}
      /\ p \in s.blocked => t = s
      /\ p \notin s.blocked => t.stp = s.stp \cup {s.pid[p]} /\ ~ t.fw
  BY BlockPort, Zenon DEF PortsOnly, SameSetup
<1> HIDE DEF t
<1>2. CASE p \in s.blocked
  BY <1>1, <1>2, Zenon DEF t
<1>3. CASE p \notin s.blocked
  <2>1. t.stp = {t.pid[x] : x \in t.blocked}
    BY <1>1, <1>3, SMT DEF Plugged
  <2>2. ~ t.fw /\ t.blocked # {}
    BY <1>1, <1>3, SMT
  <2>3. t.pid["west"] # t.pid["east"]
    BY <1>1, Zenon DEF Plugged
  <2> QED BY <2>1, <2>2, <2>3, Zenon DEF Plugged, Wired, t
<1> QED BY <1>2, <1>3

LEMMA UnblockWires ==
  ASSUME NEW s \in Ring, NEW p \in Ports, Plugged(s)
  PROVE  /\ Plugged(Unblock(s, p))
         /\ Wired(s) => Wired(Unblock(s, p))
<1> DEFINE t == Unblock(s, p)
<1>1. /\ t.pid = s.pid /\ t.blocked = s.blocked \ {p}
      /\ p \notin s.blocked => t = s
      /\ p \in s.blocked =>
              /\ t.stp = s.stp \ {s.pid[p]}
              /\ t.fw <=> Another(p) \notin s.blocked
  BY UnblockPort, ZenonT(60) DEF PortsOnly, SameSetup
<1> HIDE DEF t
<1>2. CASE p \notin s.blocked
  BY <1>1, <1>2, Zenon DEF t
<1>3. CASE p \in s.blocked
  <2>0. s.blocked \subseteq Ports
    BY Types, Zenon
  <2>1. \A x \in s.blocked : x # p => s.pid[x] # s.pid[p]
    BY <2>0, SMT DEF Plugged, Ports
  <2>2. t.stp = {t.pid[x] : x \in t.blocked}
    BY <1>1, <1>3, <2>1, SMT DEF Plugged
  <2>3. t.fw <=> t.blocked = {}
    BY <1>1, <1>3, <2>0, SMT DEF Ports, Another
  <2>4. t.pid["west"] # t.pid["east"]
    BY <1>1, Zenon DEF Plugged
  <2> QED BY <2>2, <2>3, <2>4, Zenon DEF Plugged, Wired, t
<1> QED BY <1>2, <1>3

LEMMA PortsChain ==
  ASSUME NEW s, NEW t, NEW u, PortsOnly(s, t), PortsOnly(t, u)
  PROVE  PortsOnly(s, u)
BY Zenon DEF PortsOnly, SameSetup, SameTimers, SameSent, SameMode

LEMMA PortsSelf ==
  ASSUME NEW s \in Ring
  PROVE  PortsOnly(s, s)
BY Zenon DEF PortsOnly, SameSetup, SameTimers, SameSent, SameMode

LEMMA AllOpen ==
  ASSUME NEW s \in Ring, Plugged(s)
  PROVE  LET t == RingPortUnblock(s) IN
         PortsOnly(s, t) /\ Plugged(t) /\ t.blocked = {} /\ t.stp = {}
           /\ (Wired(s) => Wired(t))
<1> DEFINE a == Unblock(s, "west")
           b == Unblock(a, "east")
<1>1. "west" \in Ports /\ "east" \in Ports
  BY SMT DEF Ports
<1>2. PortsOnly(s, a) /\ a.blocked = s.blocked \ {"west"}
  BY <1>1, UnblockPort, Zenon
<1>3. Plugged(a) /\ (Wired(s) => Wired(a))
  BY <1>1, UnblockWires, Zenon
<1>4. a \in Ring
  BY <1>2, Zenon DEF PortsOnly
<1>b. RingPortUnblock(s) = b
  BY Zenon DEF RingPortUnblock
<1> HIDE DEF a
<1>5. PortsOnly(a, b) /\ b.blocked = a.blocked \ {"east"}
  BY <1>1, <1>4, UnblockPort, Zenon
<1>6. Plugged(b) /\ (Wired(a) => Wired(b))
  BY <1>1, <1>3, <1>4, UnblockWires, Zenon
<1> HIDE DEF b
<1>7. b.blocked = {}
  BY <1>2, <1>5, Types, SMT DEF Ports
<1>8. b.stp = {}
  BY <1>6, <1>7, SMT DEF Plugged
<1>9. PortsOnly(s, b)
  BY <1>2, <1>5, PortsChain, Zenon
<1> QED BY <1>b, <1>3, <1>6, <1>7, <1>8, <1>9, Zenon

LEMMA FailedStay ==
  ASSUME NEW s \in Ring, Wired(s)
  PROVE  LET t == NonFailPortUnblock(s) IN
         PortsOnly(s, t) /\ Wired(t) /\ t.blocked = s.blocked \cap s.failed
<1> DEFINE a == IF "west" \in s.failed THEN s ELSE Unblock(s, "west")
           b == IF "east" \in s.failed THEN a ELSE Unblock(a, "east")
<1>1. "west" \in Ports /\ "east" \in Ports
  BY SMT DEF Ports
<1>2. PortsOnly(s, a) /\ Wired(a)
  BY <1>1, UnblockPort, UnblockWires, WiredIsPlugged, PortsSelf, Zenon
<1>3. a.blocked = IF "west" \in s.failed THEN s.blocked ELSE s.blocked \ {"west"}
  BY <1>1, UnblockPort, Zenon
<1>4. a \in Ring
  BY <1>2, Zenon DEF PortsOnly
<1>b. NonFailPortUnblock(s) = b
  BY Zenon DEF NonFailPortUnblock
<1> HIDE DEF a
<1>5. PortsOnly(a, b) /\ Wired(b)
  BY <1>1, <1>2, <1>4, UnblockPort, UnblockWires, WiredIsPlugged, PortsSelf, Zenon
<1>6. b.blocked = IF "east" \in s.failed THEN a.blocked ELSE a.blocked \ {"east"}
  BY <1>1, <1>4, UnblockPort, Zenon
<1> HIDE DEF b
<1>7. b.blocked = s.blocked \cap s.failed
  BY <1>3, <1>6, Types, SMT DEF Ports
<1>9. PortsOnly(s, b)
  BY <1>2, <1>5, PortsChain, Zenon
<1> QED BY <1>b, <1>5, <1>7, <1>9, Zenon

LEMMA AnotherPort ==
  ASSUME NEW p \in Ports
  PROVE  Another(p) \in Ports /\ Another(p) # p /\ Ports = {p, Another(p)}
BY SMT DEF Ports, Another

\* One port is blocked, the other one opened.
LEMMA OneBlocked ==
  ASSUME NEW s \in Ring, NEW p \in Ports, Plugged(s), Wired(s) \/ s.blocked = {}
  PROVE  LET t == Unblock(Block(s, p), Another(p)) IN
         PortsOnly(s, t) /\ Wired(t) /\ t.blocked = {p}
<1> DEFINE a == Block(s, p)
           b == Unblock(a, Another(p))
<1>1. PortsOnly(s, a) /\ a.blocked = s.blocked \cup {p}
  BY BlockPort, Zenon
<1>2. Plugged(a) /\ Wired(a)
  BY BlockWires, Zenon
<1>3. a \in Ring
  BY <1>1, Zenon DEF PortsOnly
<1> HIDE DEF a
<1>4. PortsOnly(a, b) /\ b.blocked = a.blocked \ {Another(p)}
  BY <1>3, AnotherPort, UnblockPort, Zenon
<1>5. Wired(b)
  BY <1>2, <1>3, AnotherPort, UnblockWires, Zenon
<1> HIDE DEF b
<1>6. b.blocked = {p}
  BY <1>1, <1>4, Types, AnotherPort, SMT
<1> QED BY <1>1, <1>4, <1>5, <1>6, PortsChain, Zenon DEF a, b

-----------------------------------------------------------------------------
(* Timers                                                                  *)

LEMMA TimersChain ==
  ASSUME NEW s, NEW t, NEW u, TimersOnly(s, t), TimersOnly(t, u)
  PROVE  TimersOnly(s, u)
BY Zenon DEF TimersOnly, SameSetup, SamePorts, SameSent, SameMode

LEMMA TimersSelf ==
  ASSUME NEW s \in Ring
  PROVE  TimersOnly(s, s)
BY Zenon DEF TimersOnly, SameSetup, SamePorts, SameSent, SameMode

LEMMA TimerStarts ==
  ASSUME NEW s \in Ring, NEW k \in Timers
  PROVE  LET t == StartTimer(s, k) IN
         /\ TimersOnly(s, t)
         /\ IF k \in s.idx \/ InUse(s) >= Slots THEN t = s
            ELSE /\ t.idx = s.idx \cup {k}
                 /\ t.run = [s.run EXCEPT ![k] = s.run[k] + 1]
<1>1. CASE k \in s.idx \/ InUse(s) >= Slots
  BY <1>1, TimersSelf, Zenon DEF StartTimer
<1>2. CASE ~ (k \in s.idx \/ InUse(s) >= Slots)
  <2> DEFINE I == s.idx \cup {k}
             R == [s.run EXCEPT ![k] = s.run[k] + 1]
             a == PutIdx(s, I)
             b == PutRun(a, R)
  <2>1. I \in TimerSets
    BY Types, SMT DEF TimerSets
  <2>2. R \in RunMaps
    BY Types, SMT DEF RunMaps
  <2>3. StartTimer(s, k) = b
    BY <1>2, SMT DEF StartTimer, PutIdx, PutRun
  <2> HIDE DEF I, R
  <2>4. TimersOnly(s, a) /\ a.idx = I /\ a.run = s.run
    BY <2>1, IdxPut, Zenon
  <2> HIDE DEF a
  <2>5. TimersOnly(a, b) /\ b.idx = I /\ b.run = R
    BY <2>2, <2>4, RunPut, Zenon DEF TimersOnly
  <2> HIDE DEF b
  <2> QED BY <1>2, <2>3, <2>4, <2>5, TimersChain, Zenon DEF I, R
<1> QED BY <1>1, <1>2

\* The slot is freed and the index is no longer valid.
LEMMA TimerFreed ==
  ASSUME NEW s \in Ring, NEW k \in Timers
  PROVE  LET t == Expired(s, k) IN
         /\ TimersOnly(s, t)
         /\ t.idx = s.idx \ {k}
         /\ t.run = [s.run EXCEPT ![k] = s.run[k] - 1]
<1> DEFINE I == s.idx \ {k}
           R == [s.run EXCEPT ![k] = s.run[k] - 1]
           a == PutIdx(s, I)
           b == PutRun(a, R)
<1>1. I \in TimerSets
  BY Types, SMT DEF TimerSets
<1>2. R \in RunMaps
  BY Types, SMT DEF RunMaps
<1>3. Expired(s, k) = b
  BY SMT DEF Expired, PutIdx, PutRun
<1> HIDE DEF I, R
<1>4. TimersOnly(s, a) /\ a.idx = I /\ a.run = s.run
  BY <1>1, IdxPut, Zenon
<1> HIDE DEF a
<1>5. TimersOnly(a, b) /\ b.idx = I /\ b.run = R
  BY <1>2, <1>4, RunPut, Zenon DEF TimersOnly
<1> HIDE DEF b
<1> QED BY <1>3, <1>4, <1>5, TimersChain, Zenon DEF I, R

LEMMA TimerStops ==
  ASSUME NEW s \in Ring, NEW k \in Timers
  PROVE  LET t == StopTimer(s, k) IN
         /\ TimersOnly(s, t)
         /\ t.idx = s.idx \ {k}
         /\ k \notin s.idx => t = s
         /\ k \in s.idx => t.run = [s.run EXCEPT ![k] = s.run[k] - 1]
<1>1. CASE k \notin s.idx
  <2>1. s.idx \ {k} = s.idx
    BY <1>1, SMT
  <2> QED BY <1>1, <2>1, TimersSelf, Zenon DEF StopTimer
<1>2. CASE k \in s.idx
  <2>1. StopTimer(s, k) = Expired(s, k)
    BY <1>2, Zenon DEF StopTimer, Expired
  <2> QED BY <1>2, <2>1, TimerFreed, Zenon
<1> QED BY <1>1, <1>2

\* Four slots are enough for the timers of one ring.
Enough == Slots >= 4

LEMMA StartOwned ==
  ASSUME NEW s \in Ring, NEW k \in Timers, Enough, Own(s)
  PROVE  Own(StartTimer(s, k)) /\ StartTimer(s, k).idx = s.idx \cup {k}
<1> DEFINE t == StartTimer(s, k)
<1>1. CASE k \in s.idx
  <2>1. t = s
    BY <1>1, TimerStarts, Zenon
  <2>2. s.idx \cup {k} = s.idx
    BY <1>1, SMT
  <2> QED BY <2>1, <2>2, Zenon
<1>2. CASE k \notin s.idx
  <2>1. s.run[k] = 0
    BY <1>2, Zenon DEF Own
  <2>2. \A x \in Timers : s.run[x] \in {0, 1}
    BY SMT DEF Own
  <2>3. InUse(s) \in Int /\ InUse(s) <= 3
    BY <2>1, <2>2, SMT DEF InUse, Timers
  <2>4. ~ (InUse(s) >= Slots)
    BY <2>3, SlotsAssumption, SMT DEF Enough
  <2>5. t.idx = s.idx \cup {k} /\ t.run = [s.run EXCEPT ![k] = s.run[k] + 1]
    BY <1>2, <2>4, TimerStarts, Zenon
  <2> HIDE DEF t
  <2>6. \A x \in Timers : t.run[x] = IF x \in t.idx THEN 1 ELSE 0
    BY <2>1, <2>5, Types, SMT DEF Own
  <2> QED BY <2>5, <2>6, Zenon DEF Own, t
<1> QED BY <1>1, <1>2

LEMMA FreeOwned ==
  ASSUME NEW s \in Ring, NEW k \in Timers, Own(s), k \in s.idx
  PROVE  Own(Expired(s, k))
<1> DEFINE t == Expired(s, k)
<1>1. t.idx = s.idx \ {k} /\ t.run = [s.run EXCEPT ![k] = s.run[k] - 1]
  BY TimerFreed, Zenon
<1>2. s.run[k] = 1
  BY Zenon DEF Own
<1> HIDE DEF t
<1>3. \A x \in Timers : t.run[x] = IF x \in t.idx THEN 1 ELSE 0
  BY <1>1, <1>2, Types, SMT DEF Own
<1> QED BY <1>3, Zenon DEF Own, t

LEMMA StopOwned ==
  ASSUME NEW s \in Ring, NEW k \in Timers, Own(s)
  PROVE  Own(StopTimer(s, k))
BY FreeOwned, Zenon DEF StopTimer, Expired

LEMMA TimerNames ==
  "wtr" \in Timers /\ "wtb" \in Timers /\ "guard" \in Timers /\ "hold_off" \in Timers
BY SMT DEF Timers

\* An owner stops both timers it waits with.
LEMMA WaitStops ==
  ASSUME NEW s \in Ring
  PROVE  LET t == OwnerStopsWait(s) IN
         /\ TimersOnly(s, t)
         /\ t.idx = IF Owner(s) THEN s.idx \ {"wtr", "wtb"} ELSE s.idx
         /\ Own(s) => Own(t)
<1>1. CASE ~ Owner(s)
  BY <1>1, TimersSelf, Zenon DEF OwnerStopsWait
<1>2. CASE Owner(s)
  <2> DEFINE a == StopTimer(s, "wtr")
             b == StopTimer(a, "wtb")
  <2>1. OwnerStopsWait(s) = b
    BY <1>2, Zenon DEF OwnerStopsWait, WtrTimerStop, WtbTimerStop
  <2>2. TimersOnly(s, a) /\ a.idx = s.idx \ {"wtr"} /\ (Own(s) => Own(a))
    BY TimerNames, TimerStops, StopOwned, Zenon
  <2>3. a \in Ring
    BY <2>2, Zenon DEF TimersOnly
  <2> HIDE DEF a
  <2>4. TimersOnly(a, b) /\ b.idx = a.idx \ {"wtb"} /\ (Own(a) => Own(b))
    BY <2>3, TimerNames, TimerStops, StopOwned, Zenon
  <2> HIDE DEF b
  <2>5. b.idx = s.idx \ {"wtr", "wtb"}
    BY <2>2, <2>4, SMT
  <2> QED BY <1>2, <2>1, <2>2, <2>4, <2>5, TimersChain, Zenon
<1> QED BY <1>1, <1>2

WaitOnly(s, t) ==
  /\ t \in Ring /\ SameSetup(s, t) /\ SamePorts(s, t) /\ SameSent(s, t)
  /\ t.state = s.state

StartWait(s, k, l) == [StartTimer(s, k) EXCEPT !.local = l]
LEMMA WaitStarts ==
  ASSUME NEW s \in Ring, NEW k \in {"wtr", "wtb"}, NEW l \in Locals
  PROVE  LET t == StartWait(s, k, l) IN
         /\ WaitOnly(s, t) /\ t.local = l
         /\ Enough /\ Own(s) => Own(t) /\ t.idx = s.idx \cup {k}
<1> DEFINE a == StartTimer(s, k)
           b == PutLocal(a, l)
<1>0. k \in Timers
  BY SMT DEF Timers
<1>1. TimersOnly(s, a) /\ (Enough /\ Own(s) => Own(a) /\ a.idx = s.idx \cup {k})
  BY <1>0, TimerStarts, StartOwned, Zenon
<1>2. StartWait(s, k, l) = b
  BY Zenon DEF StartWait, PutLocal
<1> HIDE DEF a
<1>3. ModeOnly(a, b) /\ b.local = l /\ b.state = a.state
  BY <1>1, LocalPut, Zenon DEF TimersOnly
<1> HIDE DEF b
<1>4. WaitOnly(s, b)
  BY <1>1, <1>3, Zenon
     DEF WaitOnly, TimersOnly, ModeOnly, SameSetup, SamePorts, SameSent, SameMode
<1>5. b.idx = a.idx /\ b.run = a.run
  BY <1>3, Zenon DEF ModeOnly, SameTimers
<1>6. Own(a) => Own(b)
  BY <1>5, SMT DEF Own
<1> QED BY <1>1, <1>2, <1>3, <1>4, <1>5, <1>6, Zenon

LEMMA WtrStarts ==
  ASSUME NEW s \in Ring
  PROVE  LET t == WtrTimerStart(s) IN
         /\ WaitOnly(s, t) /\ t.local \in {s.local, "WTR_RUNNING"}
         /\ Enough /\ Own(s) => Own(t) /\ t.idx = s.idx \cup {"wtr"}
<1>1. CASE "wtr" \in s.idx
  <2>1. s.idx = s.idx \cup {"wtr"}
    BY <1>1, SMT
  <2>2. WaitOnly(s, s)
    BY Zenon DEF WaitOnly, SameSetup, SamePorts, SameSent
  <2>3. WtrTimerStart(s) = s
    BY <1>1, Zenon DEF WtrTimerStart
  <2> QED BY <2>1, <2>2, <2>3, Zenon
<1>2. CASE "wtr" \notin s.idx
  <2>1. WtrTimerStart(s) = StartWait(s, "wtr", "WTR_RUNNING")
    BY <1>2, Zenon DEF WtrTimerStart, StartWait
  <2>2. "wtr" \in {"wtr", "wtb"} /\ "WTR_RUNNING" \in Locals
    BY Zenon DEF Locals
  <2> DEFINE t == StartWait(s, "wtr", "WTR_RUNNING")
  <2>3. /\ WaitOnly(s, t) /\ t.local = "WTR_RUNNING"
        /\ Enough /\ Own(s) => Own(t) /\ t.idx = s.idx \cup {"wtr"}
    BY <2>2, WaitStarts, Zenon
  <2> HIDE DEF t
  <2> QED BY <2>1, <2>3, Zenon DEF t
<1> QED BY <1>1, <1>2

LEMMA WtbStarts ==
  ASSUME NEW s \in Ring
  PROVE  LET t == WtbTimerStart(s) IN
         /\ WaitOnly(s, t) /\ t.local \in {s.local, "WTB_RUNNING"}
         /\ Enough /\ Own(s) => Own(t) /\ t.idx = s.idx \cup {"wtb"}
<1>1. CASE "wtb" \in s.idx
  <2>1. s.idx = s.idx \cup {"wtb"}
    BY <1>1, SMT
  <2>2. WaitOnly(s, s)
    BY Zenon DEF WaitOnly, SameSetup, SamePorts, SameSent
  <2>3. WtbTimerStart(s) = s
    BY <1>1, Zenon DEF WtbTimerStart
  <2> QED BY <2>1, <2>2, <2>3, Zenon
<1>2. CASE "wtb" \notin s.idx
  <2>1. WtbTimerStart(s) = StartWait(s, "wtb", "WTB_RUNNING")
    BY <1>2, Zenon DEF WtbTimerStart, StartWait
  <2>2. "wtb" \in {"wtr", "wtb"} /\ "WTB_RUNNING" \in Locals
    BY Zenon DEF Locals
  <2> DEFINE t == StartWait(s, "wtb", "WTB_RUNNING")
  <2>3. /\ WaitOnly(s, t) /\ t.local = "WTB_RUNNING"
        /\ Enough /\ Own(s) => Own(t) /\ t.idx = s.idx \cup {"wtb"}
    BY <2>2, WaitStarts, Zenon
  <2> HIDE DEF t
  <2> QED BY <2>1, <2>3, Zenon DEF t
<1> QED BY <1>1, <1>2

-----------------------------------------------------------------------------
(* Transmission and states                                                 *)

LEMMA SentChain ==
  ASSUME NEW s, NEW t, NEW u, SentOnly(s, t), SentOnly(t, u)
  PROVE  SentOnly(s, u)
BY Zenon DEF SentOnly, SameSetup, SamePorts, SameTimers, SameMode

LEMMA TxStopped ==
  ASSUME NEW s \in Ring
  PROVE  SentOnly(s, TxStop(s)) /\ ~ TxStop(s).sending
<1>1. CASE ~ s.sending
  BY <1>1, Zenon DEF TxStop, SentOnly, SameSetup, SamePorts, SameTimers, SameMode
<1>2. CASE s.sending
  <2> DEFINE a == PutSending(s, FALSE)
             b == PutRaps(a, Nothing)
  <2>1. TxStop(s) = b
    BY <1>2, SMT DEF TxStop, PutSending, PutRaps
  <2>2. Nothing \in Message
    BY SMT DEF Nothing, Message
  <2>3. SentOnly(s, a) /\ a.sending = FALSE
    BY SendingPut, Zenon
  <2> HIDE DEF a
  <2>4. SentOnly(a, b) /\ b.sending = a.sending
    BY <2>2, <2>3, RapsPut, Zenon DEF SentOnly
  <2> HIDE DEF b
  <2> QED BY <2>1, <2>3, <2>4, SentChain, Zenon
<1> QED BY <1>1, <1>2

Requests == {"NR", "MS", "SF", "FS"}

LEMMA Sends ==
  ASSUME NEW s \in Ring, NEW req \in Requests, NEW status \in SUBSET Flags
  PROVE  LET t == RapsMsgSend(s, req, status) IN
         /\ SentOnly(s, t) /\ t.sending = s.sending
         /\ t.raps.req = req /\ t.raps.status = status
<1> DEFINE m == [req |-> req, status |-> status]
           o == Append(s.out, m)
           a == PutRaps(s, m)
           b == PutOut(a, o)
<1>1. m \in Message
  BY SMT DEF Message, Requests
<1>2. o \in Outputs
  BY <1>1, Types, AppendProperties, SMT DEF Outputs
<1>3. RapsMsgSend(s, req, status) = b
  BY SMT DEF RapsMsgSend, PutRaps, PutOut
<1>4. m.req = req /\ m.status = status
  BY SMT
<1> HIDE DEF m, o
<1>5. SentOnly(s, a) /\ a.raps = m /\ a.sending = s.sending
  BY <1>1, RapsPut, Zenon
<1> HIDE DEF a
<1>6. Alike(a, b)
  BY <1>2, <1>5, OutPut, Zenon DEF SentOnly
<1> HIDE DEF b
<1>7. SentOnly(s, b) /\ b.raps = m /\ b.sending = s.sending
  BY <1>5, <1>6, Zenon
     DEF SentOnly, Alike, SameSetup, SamePorts, SameTimers, SameMode, SameSent
<1> QED BY <1>3, <1>4, <1>7, Zenon

LEMMA Announces ==
  ASSUME NEW s \in Ring, NEW req \in Requests, NEW status \in SUBSET Flags
  PROVE  LET t == Announce(s, req, status) IN
         /\ SentOnly(s, t) /\ t.sending
         /\ t.raps.req = req /\ t.raps.status = status
<1> DEFINE a == RapsMsgSend(s, req, status)
           b == PutSending(a, TRUE)
<1>1. Announce(s, req, status) = b
  BY Zenon DEF Announce, TxStart, PutSending
<1>2. SentOnly(s, a) /\ a.raps.req = req /\ a.raps.status = status
  BY Sends, ZenonT(60)
<1> HIDE DEF a
<1>3. SentOnly(a, b) /\ b.sending = TRUE /\ b.raps = a.raps
  BY <1>2, SendingPut, Zenon DEF SentOnly
<1> HIDE DEF b
<1> QED BY <1>1, <1>2, <1>3, SentChain, Zenon

LEMMA BprFlags ==
  ASSUME NEW p
  PROVE  /\ Bpr(p) \in SUBSET Flags /\ Bpr(p) \cup {"DNF"} \in SUBSET Flags
         /\ Bpr(p) \cup {"RB"} \in SUBSET Flags /\ Bpr(p) \cup {"DNF", "RB"} \in SUBSET Flags
         /\ "RB" \notin Bpr(p) /\ "RB" \notin Bpr(p) \cup {"DNF"}
BY SMT DEF Bpr, Flags

LEMMA Goes ==
  ASSUME NEW s \in Ring, NEW state \in States
  PROVE  LET t == Goto(s, state) IN
         ModeOnly(s, t) /\ t.state = state /\ t.local = s.local
BY StatePut, Zenon DEF Goto, PutState

LEMMA Flushes ==
  ASSUME NEW s \in Ring
  PROVE  Alike(s, Flush(s))
BY FlushPut, Zenon DEF Flush, PutFlush

LEMMA Quiets ==
  ASSUME NEW s \in Ring
  PROVE  Alike(s, Quiet(s))
<1> DEFINE a == PutOut(s, << >>)
           b == PutFlush(a, FALSE)
           c == PutCleared(b, FALSE)
<1>1. Quiet(s) = c
  BY SMT DEF Quiet, PutOut, PutFlush, PutCleared
<1>2. << >> \in Outputs
  BY SMT DEF Outputs
<1>3. Alike(s, a)
  BY <1>2, OutPut, Zenon
<1> HIDE DEF a
<1>4. Alike(a, b)
  BY <1>3, FlushPut, Zenon DEF Alike
<1> HIDE DEF b
<1>5. Alike(b, c)
  BY <1>4, ClearedPut, Zenon DEF Alike
<1> HIDE DEF c
<1> QED BY <1>1, <1>3, <1>4, <1>5, Zenon
       DEF Alike, SameSetup, SamePorts, SameTimers, SameMode, SameSent

-----------------------------------------------------------------------------
(* What the parts of the invariant depend on.                              *)

\* The first part of Waiting.
InPending(s) == "wtr" \in s.idx \/ "wtb" \in s.idx => Revertive(s) /\ s.state = "PENDING"
Held(s, t) == "hold_off" \in t.idx <=> "hold_off" \in s.idx
NoWait(s) == "wtr" \notin s.idx /\ "wtb" \notin s.idx

LEMMA SetupMoves ==
  ASSUME NEW s \in Ring, NEW t \in Ring, SameSetup(s, t)
  PROVE  /\ NodeType(t) = NodeType(s) /\ RplPort(t) = RplPort(s)
         /\ Owner(t) <=> Owner(s)
         /\ Revertive(t) <=> Revertive(s)
BY Zenon DEF SameSetup, NodeType, HasRole, RplPort, Owner, Revertive

LEMMA WiredMoves ==
  ASSUME NEW s \in Ring, NEW t \in Ring, SameSetup(s, t), SamePorts(s, t), Wired(s)
  PROVE  Wired(t)
BY Zenon DEF SameSetup, SamePorts, Wired

LEMMA OwnMoves ==
  ASSUME NEW s \in Ring, NEW t \in Ring, SameTimers(s, t)
  PROVE  (Own(s) => Own(t)) /\ Held(s, t) /\ (NoWait(s) => NoWait(t))
<1>1. t.idx = s.idx /\ t.run = s.run
  BY Zenon DEF SameTimers
<1> QED BY <1>1, SMT DEF Own, Held, NoWait

LEMMA PendingMoves ==
  ASSUME NEW s \in Ring, NEW t \in Ring, SameSetup(s, t), SameTimers(s, t),
         t.state = s.state, InPending(s)
  PROVE  InPending(t)
BY SetupMoves, Zenon DEF SameTimers, InPending

LEMMA WaitingMoves ==
  ASSUME NEW s \in Ring, NEW t \in Ring, SameSetup(s, t), SameTimers(s, t),
         SameMode(s, t), Waiting(s)
  PROVE  Waiting(t)
BY SetupMoves, Zenon DEF SameTimers, SameMode, Waiting

\* A node with no local request that does not send RB is as it should be.
LEMMA CalmIsGood ==
  ASSUME NEW t \in Ring, Wired(t), t.local # "SF",
         ~ t.sending \/ "RB" \notin t.raps.status
  PROVE  Good(t)
BY Zenon DEF Good, Failing, Blocking

LEMMA GoodMoves ==
  ASSUME NEW s, NEW t \in Ring, SameSetup(s, t), SamePorts(s, t), SameSent(s, t),
         SameMode(s, t), Good(s)
  PROVE  Good(t)
<1>1. s \in Ring /\ Wired(s)
  BY Zenon DEF Good
<1>2. Wired(t)
  BY <1>1, WiredMoves, Zenon
<1>3. (Owner(t) <=> Owner(s)) /\ RplPort(t) = RplPort(s)
  BY <1>1, SetupMoves, Zenon
<1>4. Failing(t) /\ Blocking(t)
  BY <1>3, Zenon
     DEF Good, Failing, Blocking, SameSetup, SamePorts, SameSent, SameMode
<1> QED BY <1>2, <1>4, Zenon DEF Good

LEMMA NoWaitIsWaiting ==
  ASSUME NEW t \in Ring, NoWait(t), t.local \in {"LAST", "SF"}
  PROVE  Waiting(t)
BY SMT DEF NoWait, Waiting

Timed(s) == Own(s) /\ Waiting(s)
Sane(s) == s \in Ring /\ Wired(s) /\ Blocking(s)
Kept(s, t) ==
  /\ Good(t) /\ SameSetup(s, t)
  /\ Enough /\ Timed(s) => Timed(t) /\ Held(s, t)

LEMMA PendingLeft ==
  ASSUME NEW s \in Ring
  PROVE  LET t == LeavePending(s) IN
         /\ TimersOnly(s, t) /\ Held(s, t)
         /\ Own(s) => Own(t)
         /\ InPending(s) => NoWait(t)
<1>1. CASE s.state = "PENDING"
  <2> DEFINE t == OwnerStopsWait(s)
  <2>1. LeavePending(s) = t
    BY <1>1, Zenon DEF LeavePending
  <2>2. /\ TimersOnly(s, t) /\ (Own(s) => Own(t))
        /\ t.idx = IF Owner(s) THEN s.idx \ {"wtr", "wtb"} ELSE s.idx
    BY WaitStops, Zenon
  <2> HIDE DEF t
  <2>3. Held(s, t)
    BY <2>2, SMT DEF Held
  <2>4. CASE Owner(s)
    <3>1. NoWait(t)
      BY <2>2, <2>4, SMT DEF NoWait
    <3> QED BY <2>1, <2>2, <2>3, <3>1
  <2>5. CASE ~ Owner(s)
    <3>1. t.idx = s.idx
      BY <2>2, <2>5, Zenon
    <3>2. InPending(s) => NoWait(t)
      BY <2>5, <3>1, Zenon DEF InPending, NoWait, Revertive
    <3> QED BY <2>1, <2>2, <2>3, <3>2
  <2> QED BY <2>4, <2>5
<1>2. CASE s.state # "PENDING"
  <2>1. LeavePending(s) = s
    BY <1>2, Zenon DEF LeavePending
  <2>2. Held(s, s) /\ (InPending(s) => NoWait(s))
    BY <1>2, Zenon DEF Held, InPending, NoWait
  <2> QED BY <2>1, <2>2, TimersSelf, Zenon
<1> QED BY <1>1, <1>2

\* The end of a request: the node leaves the Pending state for another one.
LEMMA Leaves ==
  ASSUME NEW s \in Ring, NEW state \in States
  PROVE  LET t == Goto(LeavePending(s), state) IN
         /\ t \in Ring /\ SameSetup(s, t) /\ SamePorts(s, t) /\ SameSent(s, t)
         /\ t.state = state /\ t.local = s.local /\ Held(s, t)
         /\ Own(s) => Own(t)
         /\ InPending(s) => NoWait(t)
<1> DEFINE a == LeavePending(s)
           b == Goto(a, state)
<1>1. /\ TimersOnly(s, a) /\ Held(s, a)
      /\ Own(s) => Own(a)
      /\ InPending(s) => NoWait(a)
  BY PendingLeft, Zenon
<1>2. a \in Ring
  BY <1>1, Zenon DEF TimersOnly
<1> HIDE DEF a
<1>3. ModeOnly(a, b) /\ b.state = state /\ b.local = a.local
  BY <1>2, Goes, Zenon
<1> HIDE DEF b
<1>4. SameTimers(a, b) /\ b \in Ring
  BY <1>3, Zenon DEF ModeOnly
<1>5. (Own(a) => Own(b)) /\ Held(a, b) /\ (NoWait(a) => NoWait(b))
  BY <1>2, <1>4, OwnMoves, Zenon
<1>6. SameSetup(s, b) /\ SamePorts(s, b) /\ SameSent(s, b) /\ b.local = s.local
  BY <1>1, <1>3, Zenon DEF ModeOnly, TimersOnly, SameSetup, SamePorts, SameSent, SameMode
<1>7. Held(s, b)
  BY <1>1, <1>5, Zenon DEF Held
<1> QED BY <1>1, <1>3, <1>4, <1>5, <1>6, <1>7, Zenon DEF a, b

\* The node yields to a request: it stops sending.
LEMMA Yields ==
  ASSUME NEW s \in Ring, NEW a, NEW state \in States,
         PortsOnly(s, a), Wired(a), s.local = "LAST"
  PROVE  Kept(s, Goto(LeavePending(TxStop(a)), state))
<1> DEFINE b == TxStop(a)
           c == Goto(LeavePending(b), state)
<1>1. a \in Ring
  BY Zenon DEF PortsOnly
<1>2. SentOnly(a, b) /\ ~ b.sending
  BY <1>1, TxStopped, Zenon
<1>3. b \in Ring
  BY <1>2, Zenon DEF SentOnly
<1> HIDE DEF b
<1>4. /\ c \in Ring /\ SameSetup(b, c) /\ SamePorts(b, c) /\ SameSent(b, c)
      /\ c.local = b.local /\ Held(b, c)
      /\ Own(b) => Own(c)
      /\ InPending(b) => NoWait(c)
  BY <1>3, Leaves, Zenon
<1> HIDE DEF c
<1>5. /\ SameSetup(s, b) /\ SameTimers(s, b) /\ b.state = s.state /\ b.local = "LAST"
  BY <1>2, Zenon DEF PortsOnly, SentOnly, SameSetup, SameTimers, SameMode
<1>6. SameSetup(s, c)
  BY <1>4, <1>5, Zenon DEF SameSetup
<1>7. Wired(c)
  <2>1. SameSetup(a, b) /\ SamePorts(a, b)
    BY <1>2, Zenon DEF SentOnly
  <2>2. Wired(b)
    BY <1>1, <1>3, <2>1, WiredMoves, Zenon
  <2> QED BY <1>3, <1>4, <2>2, WiredMoves, Zenon
<1>8. ~ c.sending /\ c.local = "LAST"
  BY <1>2, <1>4, <1>5, Zenon DEF SameSent
<1>9. Good(c)
  BY <1>4, <1>7, <1>8, CalmIsGood, SMT
<1>10. Held(s, c)
  BY <1>3, <1>4, <1>5, OwnMoves, Zenon DEF Held
<1>11. Timed(s) => Timed(c)
  <2>1. Own(s) => Own(c)
    BY <1>3, <1>4, <1>5, OwnMoves, Zenon
  <2>2. InPending(s) => NoWait(c)
    BY <1>3, <1>4, <1>5, PendingMoves, Zenon
  <2>3. NoWait(c) => Waiting(c)
    BY <1>4, <1>8, NoWaitIsWaiting, SMT
  <2> QED BY <2>1, <2>2, <2>3, Zenon DEF Timed, Waiting, InPending
<1> QED BY <1>6, <1>9, <1>10, <1>11, Zenon DEF Kept, c, b

\* The owner of a revertive ring starts a timer to wait with.
LEMMA MayWait ==
  ASSUME NEW a \in Ring, a.local = "LAST",
         NEW b \in {WtrTimerStart(a), WtbTimerStart(a)},
         NEW c, c = IF Revertive(a) THEN b ELSE a
  PROVE  /\ WaitOnly(a, c) /\ c.local \in {"LAST", "WTR_RUNNING", "WTB_RUNNING"}
         /\ Enough /\ Own(a) /\ InPending(a) =>
              /\ Own(c) /\ Held(a, c)
              /\ ~ Revertive(a) => NoWait(c)
              /\ c.local = "WTR_RUNNING" => "wtr" \in c.idx
              /\ c.local = "WTB_RUNNING" => "wtb" \in c.idx
<1>1. CASE ~ Revertive(a)
  <2>1. c = a /\ WaitOnly(a, a) /\ Held(a, a)
    BY <1>1, Zenon DEF WaitOnly, SameSetup, SamePorts, SameSent, Held
  <2>2. InPending(a) => NoWait(a)
    BY <1>1, Zenon DEF InPending, NoWait
  <2> QED BY <1>1, <2>1, <2>2, SMT
<1>2. CASE Revertive(a) /\ b = WtrTimerStart(a)
  <2>1. c = b
    BY <1>2, Zenon
  <2>2. /\ WaitOnly(a, b) /\ b.local \in {"LAST", "WTR_RUNNING"}
        /\ Enough /\ Own(a) => Own(b) /\ b.idx = a.idx \cup {"wtr"}
    BY <1>2, WtrStarts, Zenon
  <2>3. b.idx = a.idx \cup {"wtr"} => Held(a, b) /\ "wtr" \in b.idx
    BY SMT DEF Held
  <2> QED BY <1>2, <2>1, <2>2, <2>3, SMT
<1>3. CASE Revertive(a) /\ b = WtbTimerStart(a)
  <2>1. c = b
    BY <1>3, Zenon
  <2>2. /\ WaitOnly(a, b) /\ b.local \in {"LAST", "WTB_RUNNING"}
        /\ Enough /\ Own(a) => Own(b) /\ b.idx = a.idx \cup {"wtb"}
    BY <1>3, WtbStarts, Zenon
  <2>3. b.idx = a.idx \cup {"wtb"} => Held(a, b) /\ "wtb" \in b.idx
    BY SMT DEF Held
  <2> QED BY <1>3, <2>1, <2>2, <2>3, SMT
<1> QED BY <1>1, <1>2, <1>3, Zenon

\* The end of a request after which the node waits to revert.
LEMMA Waits ==
  ASSUME NEW a \in Ring, a.local = "LAST",
         NEW b \in {WtrTimerStart(a), WtbTimerStart(a)},
         NEW c, c = IF Revertive(a) THEN b ELSE a
  PROVE  LET t == Goto(c, "PENDING") IN
         /\ t \in Ring /\ SameSetup(a, t) /\ SamePorts(a, t) /\ SameSent(a, t)
         /\ t.state = "PENDING" /\ t.local # "SF"
         /\ Enough /\ Own(a) /\ InPending(a) => Timed(t) /\ Held(a, t)
<1> DEFINE t == Goto(c, "PENDING")
<1>1. /\ WaitOnly(a, c) /\ c.local \in {"LAST", "WTR_RUNNING", "WTB_RUNNING"}
      /\ Enough /\ Own(a) /\ InPending(a) =>
           /\ Own(c) /\ Held(a, c)
           /\ ~ Revertive(a) => NoWait(c)
           /\ c.local = "WTR_RUNNING" => "wtr" \in c.idx
           /\ c.local = "WTB_RUNNING" => "wtb" \in c.idx
  BY MayWait, Zenon
<1>2. c \in Ring
  BY <1>1, Zenon DEF WaitOnly
<1>s. "PENDING" \in States
  BY Zenon DEF States
<1>3. ModeOnly(c, t) /\ t.state = "PENDING" /\ t.local = c.local
  BY <1>2, <1>s, Goes, Zenon
<1> HIDE DEF t
<1>4. t \in Ring /\ SameSetup(a, t) /\ SamePorts(a, t) /\ SameSent(a, t)
  BY <1>1, <1>3, Zenon DEF WaitOnly, ModeOnly, SameSetup, SamePorts, SameSent
<1>5. t.local # "SF"
  BY <1>1, <1>3, SMT
<1>6. ASSUME Enough, Own(a), InPending(a)
      PROVE  Timed(t) /\ Held(a, t)
  <2>1. t.idx = c.idx /\ t.run = c.run /\ SameTimers(c, t)
    BY <1>3, Zenon DEF ModeOnly, SameTimers
  <2>2. Own(t) /\ Held(a, t)
    BY <1>1, <1>2, <1>4, <1>6, <2>1, OwnMoves, Zenon DEF Held
  <2>3. ~ Revertive(a) => NoWait(t)
    BY <1>1, <1>6, <2>1, Zenon DEF NoWait
  <2>4. Revertive(t) <=> Revertive(a)
    BY <1>4, SetupMoves, Zenon
  <2>5. Waiting(t)
    BY <1>1, <1>3, <1>6, <2>1, <2>3, <2>4, Zenon DEF Waiting, NoWait
  <2> QED BY <2>2, <2>5, Zenon DEF Timed
<1> QED BY <1>3, <1>4, <1>5, <1>6, Zenon DEF t

-----------------------------------------------------------------------------
(* The state table: every request keeps the node as it should be.          *)

LEMMA SameIsKept ==
  ASSUME NEW s \in Ring, Sane(s), s.local = "LAST"
  PROVE  Kept(s, s)
<1>1. s.local # "SF"
  BY SMT
<1> QED BY <1>1, Zenon DEF Kept, Good, Failing, Sane, SameSetup, Held

LEMMA RapsFsKeeps ==
  ASSUME NEW s, Sane(s), s.local = "LAST"
  PROVE  Kept(s, RapsFs(s))
<1>1. s \in Ring /\ Wired(s) /\ Plugged(s)
  BY WiredIsPlugged, Zenon DEF Sane
<1>2. CASE s.state = "FORCED_SWITCH"
  BY <1>1, <1>2, SameIsKept, Zenon DEF RapsFs
<1>3. CASE s.state # "FORCED_SWITCH"
  <2> DEFINE a == RingPortUnblock(s)
  <2>1. PortsOnly(s, a) /\ Wired(a)
    BY <1>1, AllOpen, Zenon
  <2>2. "FORCED_SWITCH" \in States
    BY Zenon DEF States
  <2>3. RapsFs(s) = Goto(LeavePending(TxStop(a)), "FORCED_SWITCH")
    BY <1>3, Zenon DEF RapsFs
  <2> HIDE DEF a
  <2> QED BY <1>1, <2>1, <2>2, <2>3, Yields, Zenon
<1> QED BY <1>2, <1>3

LEMMA RapsSfKeeps ==
  ASSUME NEW s, Sane(s), s.local = "LAST"
  PROVE  Kept(s, RapsSf(s))
<1>1. s \in Ring /\ Wired(s)
  BY Zenon DEF Sane
<1>2. CASE s.state \in {"PROTECTION", "FORCED_SWITCH"}
  BY <1>1, <1>2, SameIsKept, Zenon DEF RapsSf
<1>3. CASE s.state \notin {"PROTECTION", "FORCED_SWITCH"}
  <2> DEFINE a == NonFailPortUnblock(s)
  <2>1. PortsOnly(s, a) /\ Wired(a)
    BY <1>1, FailedStay, Zenon
  <2>2. "PROTECTION" \in States
    BY Zenon DEF States
  <2>3. RapsSf(s) = Goto(LeavePending(TxStop(a)), "PROTECTION")
    BY <1>3, Zenon DEF RapsSf
  <2> HIDE DEF a
  <2> QED BY <1>1, <2>1, <2>2, <2>3, Yields, Zenon
<1> QED BY <1>2, <1>3

\* The guard timer starts and the node says that it has no request.
LEMMA GuardedNr ==
  ASSUME NEW s, Sane(s), NEW status \in SUBSET Flags, "RB" \notin status
  PROVE  LET a == Announce(GuardTimerStart(s), "NR", status) IN
         /\ a \in Ring /\ SameSetup(s, a) /\ Wired(a) /\ SameMode(s, a)
         /\ "RB" \notin a.raps.status
         /\ Enough /\ Timed(s) => Own(a) /\ InPending(a) /\ Held(s, a)
<1> DEFINE g == StartTimer(s, "guard")
           a == Announce(g, "NR", status)
<1>0. s \in Ring /\ Wired(s) /\ "guard" \in Timers
  BY TimerNames, Zenon DEF Sane
<1>1. TimersOnly(s, g)
  BY <1>0, TimerStarts, Zenon
<1>2. Enough /\ Own(s) => Own(g) /\ g.idx = s.idx \cup {"guard"}
  BY <1>0, StartOwned, Zenon
<1>3. g \in Ring
  BY <1>1, Zenon DEF TimersOnly
<1>d. Announce(GuardTimerStart(s), "NR", status) = a
  BY Zenon DEF GuardTimerStart
<1> HIDE DEF g
<1>r. "NR" \in Requests
  BY Zenon DEF Requests
<1>4. SentOnly(g, a) /\ a.raps.status = status
  BY <1>3, <1>r, Announces, SMT
<1> HIDE DEF a
<1>5. a \in Ring /\ SameSetup(s, a) /\ SamePorts(s, a) /\ SameMode(s, a)
  BY <1>1, <1>4, Zenon DEF TimersOnly, SentOnly, SameSetup, SamePorts, SameMode
<1>6. Wired(a)
  BY <1>0, <1>5, WiredMoves, Zenon
<1>7. a.idx = g.idx /\ SameTimers(g, a)
  BY <1>4, Zenon DEF SentOnly, SameTimers
<1>8. ASSUME Enough, Timed(s)
      PROVE  Own(a) /\ InPending(a) /\ Held(s, a)
  <2>1. Own(g) /\ a.idx = s.idx \cup {"guard"}
    BY <1>2, <1>7, <1>8, Zenon DEF Timed
  <2>2. Own(a)
    BY <1>3, <1>5, <1>7, <2>1, OwnMoves, Zenon
  <2>3. Held(s, a) /\ ("wtr" \in a.idx <=> "wtr" \in s.idx)
          /\ ("wtb" \in a.idx <=> "wtb" \in s.idx)
    BY <2>1, SMT DEF Held
  <2>4. a.state = s.state /\ (Revertive(a) <=> Revertive(s))
    BY <1>0, <1>5, SetupMoves, Zenon DEF SameMode
  <2>5. InPending(a)
    BY <1>8, <2>3, <2>4, Zenon DEF InPending, Timed, Waiting
  <2> QED BY <2>2, <2>3, <2>5
<1> QED BY <1>d, <1>4, <1>5, <1>6, <1>8, Zenon

LEMMA WaitsKept ==
  ASSUME NEW s \in Ring, NEW a \in Ring, SameSetup(s, a), Wired(a), a.local = "LAST",
         ~ a.sending \/ "RB" \notin a.raps.status,
         Enough /\ Timed(s) => Own(a) /\ InPending(a) /\ Held(s, a),
         NEW b \in {WtrTimerStart(a), WtbTimerStart(a)}
  PROVE  Kept(s, Goto(IF Revertive(s) THEN b ELSE a, "PENDING"))
<1> DEFINE c == IF Revertive(a) THEN b ELSE a
           t == Goto(c, "PENDING")
<1>1. Goto(IF Revertive(s) THEN b ELSE a, "PENDING") = t
  BY SetupMoves, Zenon
<1>2. PICK d : d = c
  OBVIOUS
<1>3. /\ t \in Ring /\ SameSetup(a, t) /\ SamePorts(a, t) /\ SameSent(a, t)
      /\ t.local # "SF"
      /\ Enough /\ Own(a) /\ InPending(a) => Timed(t) /\ Held(a, t)
  <2>1. d = IF Revertive(a) THEN b ELSE a
    BY <1>2
  <2>2. LET u == Goto(d, "PENDING") IN
        /\ u \in Ring /\ SameSetup(a, u) /\ SamePorts(a, u) /\ SameSent(a, u)
        /\ u.local # "SF"
        /\ Enough /\ Own(a) /\ InPending(a) => Timed(u) /\ Held(a, u)
    BY <2>1, Waits, Zenon
  <2>3. t = Goto(d, "PENDING")
    BY <1>2, Zenon
  <2> QED BY <2>2, <2>3, Zenon
<1> HIDE DEF t, c
<1>4. SameSetup(s, t) /\ Wired(t)
  BY <1>3, WiredMoves, Zenon DEF SameSetup
<1>5. ~ t.sending \/ "RB" \notin t.raps.status
  BY <1>3, Zenon DEF SameSent
<1>6. Good(t)
  BY <1>3, <1>4, <1>5, CalmIsGood, Zenon
<1> QED BY <1>1, <1>3, <1>4, <1>6, Zenon DEF Kept, Held

LEMMA ClearSfKeeps ==
  ASSUME NEW s, Sane(s), s.local = "LAST", NEW p
  PROVE  Kept(s, ClearSf(s, p))
<1>1. s \in Ring /\ Wired(s)
  BY Zenon DEF Sane
<1>2. CASE s.state # "PROTECTION"
  BY <1>1, <1>2, SameIsKept, Zenon DEF ClearSf
<1>3. CASE s.state = "PROTECTION"
  <2> DEFINE a == Announce(GuardTimerStart(s), "NR", Bpr(p))
             b == WtrTimerStart(a)
  <2>1. /\ a \in Ring /\ SameSetup(s, a) /\ Wired(a) /\ a.local = "LAST"
        /\ "RB" \notin a.raps.status
        /\ Enough /\ Timed(s) => Own(a) /\ InPending(a) /\ Held(s, a)
    BY BprFlags, GuardedNr, Zenon DEF SameMode
  <2>2. ClearSf(s, p) = Goto(IF Revertive(s) THEN b ELSE a, "PENDING")
    BY <1>3, Zenon DEF ClearSf
  <2> HIDE DEF a
  <2> QED BY <1>1, <2>1, <2>2, WaitsKept, Zenon
<1> QED BY <1>2, <1>3

LEMMA RapsMsKeeps ==
  ASSUME NEW s, Sane(s), s.local = "LAST"
  PROVE  Kept(s, RapsMs(s))
<1>1. s \in Ring /\ Wired(s)
  BY Zenon DEF Sane
<1>2. CASE s.state \in {"IDLE", "PENDING"}
  <2> DEFINE a == NonFailPortUnblock(s)
  <2>1. PortsOnly(s, a) /\ Wired(a)
    BY <1>1, FailedStay, Zenon
  <2>2. "MANUAL_SWITCH" \in States
    BY Zenon DEF States
  <2>3. RapsMs(s) = Goto(LeavePending(TxStop(a)), "MANUAL_SWITCH")
    BY <1>2, Zenon DEF RapsMs
  <2> HIDE DEF a
  <2> QED BY <1>1, <2>1, <2>2, <2>3, Yields, Zenon
<1>3. CASE s.state = "MANUAL_SWITCH" /\ s.blocked # {}
  <2> DEFINE a == Announce(GuardTimerStart(s), "NR", {})
             b == WtbTimerStart(a)
  <2>1. {} \in SUBSET Flags /\ "RB" \notin {}
    BY SMT
  <2>2. /\ a \in Ring /\ SameSetup(s, a) /\ Wired(a) /\ a.local = "LAST"
        /\ "RB" \notin a.raps.status
        /\ Enough /\ Timed(s) => Own(a) /\ InPending(a) /\ Held(s, a)
    BY <2>1, GuardedNr, Zenon DEF SameMode
  <2>3. s.state \notin {"IDLE", "PENDING"}
    BY <1>3, SMT
  <2>4. RapsMs(s) = Goto(IF Revertive(s) THEN b ELSE a, "PENDING")
    BY <1>3, <2>3, SMT DEF RapsMs
  <2> HIDE DEF a
  <2> QED BY <1>1, <2>2, <2>4, WaitsKept, Zenon
<1>4. CASE s.state \notin {"IDLE", "PENDING"} /\ ~ (s.state = "MANUAL_SWITCH" /\ s.blocked # {})
  <2>1. RapsMs(s) = s
    BY <1>4, SMT DEF RapsMs
  <2> QED BY <1>1, <2>1, SameIsKept, Zenon
<1> QED BY <1>2, <1>3, <1>4

LEMMA BusyIsSilent ==
  ASSUME NEW s, Sane(s), s.state # "IDLE"
  PROVE  ~ s.sending \/ "RB" \notin s.raps.status
BY Zenon DEF Sane, Blocking

LEMMA TimedIsPending ==
  ASSUME NEW s, Timed(s)
  PROVE  Own(s) /\ InPending(s) /\ Held(s, s)
BY Zenon DEF Timed, Waiting, InPending, Held

\* A node that opens ports and stops sending, in its state.
LEMMA Opens ==
  ASSUME NEW s, Sane(s), s.local = "LAST", NEW a, PortsOnly(s, a), Wired(a)
  PROVE  Kept(s, TxStop(a))
<1> DEFINE b == TxStop(a)
<1>1. a \in Ring /\ s \in Ring
  BY Zenon DEF PortsOnly, Sane
<1>2. SentOnly(a, b) /\ ~ b.sending
  BY <1>1, TxStopped, Zenon
<1> HIDE DEF b
<1>3. /\ b \in Ring /\ SameSetup(s, b) /\ SameTimers(s, b) /\ SameMode(s, b)
      /\ SameSetup(a, b) /\ SamePorts(a, b)
  BY <1>2, Zenon DEF PortsOnly, SentOnly, SameSetup, SameTimers, SameMode
<1>4. Wired(b)
  BY <1>1, <1>3, WiredMoves, Zenon
<1>5. b.local # "SF"
  BY <1>3, SMT DEF SameMode
<1>6. Good(b)
  BY <1>2, <1>3, <1>4, <1>5, CalmIsGood, Zenon
<1>7. Timed(s) => Timed(b) /\ Held(s, b)
  BY <1>1, <1>3, OwnMoves, WaitingMoves, Zenon DEF Timed
<1> QED BY <1>3, <1>6, <1>7, Zenon DEF Kept, b

LEMMA RapsNrKeeps ==
  ASSUME NEW s, Sane(s), s.local = "LAST", NEW node
  PROVE  Kept(s, RapsNr(s, node))
<1> DEFINE opened == TxStop(NonFailPortUnblock(s))
<1>1. s \in Ring /\ Wired(s)
  BY Zenon DEF Sane
<1>2. Kept(s, opened) /\ Kept(s, s)
  BY <1>1, FailedStay, Opens, SameIsKept, Zenon
<1> HIDE DEF opened
<1>3. CASE s.state \in {"IDLE", "PENDING"}
  <2>1. RapsNr(s, node) \in {s, opened}
    BY <1>3, SMT DEF RapsNr, opened
  <2> QED BY <1>2, <2>1, SMT
<1>4. CASE s.state \notin {"IDLE", "PENDING"}
  <2>1. ~ s.sending \/ "RB" \notin s.raps.status
    BY <1>4, BusyIsSilent, SMT
  <2>2. SameSetup(s, s) /\ (Timed(s) => Own(s) /\ InPending(s) /\ Held(s, s))
    BY TimedIsPending, Zenon DEF SameSetup
  <2>3. CASE s.state = "PROTECTION"
    <3> DEFINE b == WtrTimerStart(s)
    <3>1. RapsNr(s, node) = Goto(IF Revertive(s) THEN b ELSE s, "PENDING")
      BY <2>3, SMT DEF RapsNr
    <3> QED BY <1>1, <2>1, <2>2, <3>1, WaitsKept, Zenon
  <2>4. CASE s.state # "PROTECTION"
    <3> DEFINE b == WtbTimerStart(s)
    <3>1. RapsNr(s, node) = Goto(IF Revertive(s) THEN b ELSE s, "PENDING")
      BY <1>4, <2>4, SMT DEF RapsNr
    <3> QED BY <1>1, <2>1, <2>2, <3>1, WaitsKept, Zenon
  <2> QED BY <2>3, <2>4
<1> QED BY <1>3, <1>4

LEMMA RplIsAPort ==
  ASSUME NEW s \in Ring
  PROVE  RplPort(s) \in Ports /\ s.roles[RplPort(s)] = NodeType(s)
<1>1. s.roles \in [Ports -> Roles]
  BY Types, Zenon
<1> QED BY <1>1, SMT DEF RplPort, NodeType, HasRole, Ports, Roles

\* What RB in the idle state opens: the ports with no role in the ring.
Opened(s, t, p) == IF s.roles[p] = "TRANSFER" THEN Unblock(t, p) ELSE t
LEMMA PlainOpens ==
  ASSUME NEW s \in Ring, Wired(s)
  PROVE  LET t == Opened(s, Opened(s, s, "west"), "east") IN
         /\ PortsOnly(s, t) /\ Wired(t)
         /\ t.blocked = s.blocked \ {p \in Ports : s.roles[p] = "TRANSFER"}
<1> DEFINE a == Opened(s, s, "west")
           b == Opened(s, a, "east")
<1>1. "west" \in Ports /\ "east" \in Ports
  BY SMT DEF Ports
<1>2. PortsOnly(s, a) /\ Wired(a)
  BY <1>1, UnblockPort, UnblockWires, WiredIsPlugged, PortsSelf, Zenon DEF Opened
<1>3. a.blocked = IF s.roles["west"] = "TRANSFER" THEN s.blocked \ {"west"} ELSE s.blocked
  BY <1>1, UnblockPort, Zenon DEF Opened
<1>4. a \in Ring /\ a.roles = s.roles
  BY <1>2, Zenon DEF PortsOnly, SameSetup
<1> HIDE DEF a
<1>5. PortsOnly(a, b) /\ Wired(b)
  BY <1>1, <1>2, <1>4, UnblockPort, UnblockWires, WiredIsPlugged, PortsSelf, Zenon DEF Opened
<1>6. b.blocked = IF s.roles["east"] = "TRANSFER" THEN a.blocked \ {"east"} ELSE a.blocked
  BY <1>1, <1>4, UnblockPort, Zenon DEF Opened
<1> HIDE DEF b
<1>7. b.blocked = s.blocked \ {p \in Ports : s.roles[p] = "TRANSFER"}
  BY <1>3, <1>6, Types, SMT DEF Ports
<1> QED BY <1>2, <1>5, <1>7, PortsChain, Zenon DEF b, a

LEMMA RbIdleKeeps ==
  ASSUME NEW s, Sane(s), s.local = "LAST", s.state = "IDLE"
  PROVE  Kept(s, RapsNrRb(s))
<1> DEFINE o == Opened(s, Opened(s, s, "west"), "east")
<1>1. s \in Ring /\ Wired(s)
  BY Zenon DEF Sane
<1>2. RapsNrRb(s) = IF Owner(s) THEN o ELSE TxStop(o)
  BY SMT DEF RapsNrRb, Opened
<1>3. PortsOnly(s, o) /\ Wired(o) /\ o.blocked = s.blocked \ {p \in Ports : s.roles[p] = "TRANSFER"}
  BY <1>1, PlainOpens, Zenon
<1> HIDE DEF o
<1>4. CASE ~ Owner(s)
  BY <1>2, <1>3, <1>4, Opens, Zenon
<1>5. CASE Owner(s)
  <2>1. /\ o \in Ring /\ SameSetup(s, o) /\ SameTimers(s, o) /\ SameSent(s, o)
        /\ SameMode(s, o)
    BY <1>3, Zenon DEF PortsOnly
  <2>2. Blocking(o)
    <3>1. SUFFICES ASSUME o.sending, "RB" \in o.raps.status
                   PROVE  Owner(o) /\ o.state = "IDLE" /\ o.blocked = {RplPort(o)}
      BY Zenon DEF Blocking
    <3>2. s.blocked = {RplPort(s)}
      BY <2>1, <3>1, Zenon DEF Sane, Blocking, SameSent
    <3>3. s.roles[RplPort(s)] = "OWNER"
      BY <1>1, <1>5, RplIsAPort, Zenon DEF Owner
    <3>4. RplPort(s) \notin {p \in Ports : s.roles[p] = "TRANSFER"}
      BY <3>3, SMT
    <3>5. o.blocked = {RplPort(s)}
      BY <1>3, <3>2, <3>4, SMT
    <3> QED BY <1>1, <1>5, <2>1, <3>5, SetupMoves, Zenon DEF SameMode
  <2>3. o.local # "SF"
    BY <2>1, SMT DEF SameMode
  <2>4. Good(o)
    BY <1>3, <2>1, <2>2, <2>3, Zenon DEF Good, Failing
  <2>5. Timed(s) => Timed(o) /\ Held(s, o)
    BY <1>1, <2>1, OwnMoves, WaitingMoves, Zenon DEF Timed
  <2> QED BY <1>2, <1>5, <2>1, <2>4, <2>5, Zenon DEF Kept
<1> QED BY <1>4, <1>5

LEMMA RbPendingKeeps ==
  ASSUME NEW s, Sane(s), s.local = "LAST", s.state = "PENDING"
  PROVE  Kept(s, RapsNrRb(s))
<1>1. s \in Ring /\ Wired(s) /\ Plugged(s) /\ "IDLE" \in States
  BY WiredIsPlugged, Zenon DEF Sane, States
<1>2. CASE Owner(s)
  <2> DEFINE t == Goto(LeavePending(s), "IDLE")
  <2>1. RapsNrRb(s) = t
    BY <1>2, SMT DEF RapsNrRb, LeavePending, Owner
  <2>2. /\ t \in Ring /\ SameSetup(s, t) /\ SamePorts(s, t) /\ SameSent(s, t)
        /\ t.local = s.local /\ Held(s, t)
        /\ Own(s) => Own(t)
        /\ InPending(s) => NoWait(t)
    BY <1>1, Leaves, Zenon
  <2> HIDE DEF t
  <2>3. Wired(t)
    BY <1>1, <2>2, WiredMoves, Zenon
  <2>4. s.state # "IDLE" /\ t.local # "SF" /\ t.local \in {"LAST", "SF"}
    BY <2>2, SMT
  <2>5. ~ t.sending \/ "RB" \notin t.raps.status
    BY <2>2, <2>4, BusyIsSilent, Zenon DEF SameSent
  <2>6. Good(t)
    BY <2>2, <2>3, <2>4, <2>5, CalmIsGood, Zenon
  <2>7. Timed(s) => Timed(t)
    BY <2>2, <2>4, TimedIsPending, NoWaitIsWaiting, Zenon DEF Timed
  <2> QED BY <2>1, <2>2, <2>6, <2>7, Zenon DEF Kept
<1>3. CASE ~ Owner(s)
  <2> DEFINE a == IF NodeType(s) = "NEIGHBOR" THEN BlockRpl(s) ELSE RingPortUnblock(s)
  <2>1. PortsOnly(s, a) /\ Wired(a)
    BY <1>1, RplIsAPort, OneBlocked, AllOpen, Zenon DEF BlockRpl
  <2>2. RapsNrRb(s) = Goto(TxStop(a), "IDLE")
    BY <1>3, SMT DEF RapsNrRb, Owner
  <2> HIDE DEF a
  <2>3. LeavePending(TxStop(a)) = TxStop(a)
    <3>1. a \in Ring /\ SameSetup(s, a)
      BY <2>1, Zenon DEF PortsOnly
    <3>2. TxStop(a) \in Ring /\ SameSetup(a, TxStop(a))
      BY <3>1, TxStopped, Zenon DEF SentOnly
    <3>3. ~ Owner(TxStop(a))
      BY <1>1, <1>3, <3>1, <3>2, SetupMoves, Zenon
    <3> QED BY <3>3, Zenon DEF LeavePending, OwnerStopsWait
  <2>4. Kept(s, Goto(LeavePending(TxStop(a)), "IDLE"))
    BY <1>1, <2>1, Yields, Zenon
  <2> QED BY <2>2, <2>3, <2>4, Zenon
<1> QED BY <1>2, <1>3

LEMMA RapsNrRbKeeps ==
  ASSUME NEW s, Sane(s), s.local = "LAST"
  PROVE  Kept(s, RapsNrRb(s))
<1>1. CASE s.state \in {"IDLE", "PENDING"}
  BY <1>1, RbIdleKeeps, RbPendingKeeps, SMT
<1>2. CASE s.state \notin {"IDLE", "PENDING"}
  <2> DEFINE t == Goto(s, "PENDING")
  <2>1. RapsNrRb(s) = t
    BY <1>2, SMT DEF RapsNrRb
  <2>2. s \in Ring /\ Wired(s) /\ "PENDING" \in States
    BY Zenon DEF Sane, States
  <2>3. ModeOnly(s, t) /\ t.state = "PENDING" /\ t.local = s.local
    BY <2>2, Goes, Zenon
  <2> HIDE DEF t
  <2>4. /\ t \in Ring /\ SameSetup(s, t) /\ SamePorts(s, t) /\ SameTimers(s, t)
        /\ SameSent(s, t)
    BY <2>3, Zenon DEF ModeOnly
  <2>5. Wired(t)
    BY <2>2, <2>4, WiredMoves, Zenon
  <2>6. s.state # "IDLE" /\ s.state # "PENDING" /\ t.local # "SF" /\ t.local \in {"LAST", "SF"}
    BY <1>2, <2>3, SMT
  <2>7. ~ t.sending \/ "RB" \notin t.raps.status
    BY <2>4, <2>6, BusyIsSilent, Zenon DEF SameSent
  <2>8. Good(t)
    BY <2>4, <2>5, <2>6, <2>7, CalmIsGood, Zenon
  <2>9. InPending(s) => NoWait(s)
    BY <2>6, Zenon DEF InPending, NoWait
  <2>10. Timed(s) => Timed(t) /\ Held(s, t)
    BY <2>2, <2>4, <2>6, <2>9, OwnMoves, TimedIsPending, NoWaitIsWaiting, Zenon DEF Timed
  <2> QED BY <2>1, <2>4, <2>8, <2>10, Zenon DEF Kept
<1> QED BY <1>1, <1>2

\* What the node does when a port failed, before it leaves its state.
Fails(s, p) ==
  LET a == PutLocal(s, "SF")
  IN  IF p \in s.blocked THEN NonFailPortUnblock(Announce(a, "SF", Bpr(p) \cup {"DNF"}))
      ELSE Flush(NonFailPortUnblock(Announce(Block(a, p), "SF", Bpr(p))))

LEMMA SfProtects ==
  ASSUME NEW s, Sane(s), NEW p \in s.failed
  PROVE  LET u == Fails(s, p) IN
         /\ u \in Ring /\ SameSetup(s, u) /\ SameTimers(s, u) /\ u.state = s.state
         /\ u.local = "SF" /\ Wired(u)
         /\ u.sending /\ u.raps.req = "SF" /\ "RB" \notin u.raps.status
         /\ u.blocked # {} /\ u.blocked \subseteq u.failed
<1> DEFINE a == PutLocal(s, "SF")
           b == Block(a, p)
           status == IF p \in s.blocked THEN Bpr(p) \cup {"DNF"} ELSE Bpr(p)
           c == Announce(b, "SF", status)
           d == NonFailPortUnblock(c)
           u == IF p \in s.blocked THEN d ELSE Flush(d)
<1>1. s \in Ring /\ Wired(s) /\ p \in Ports /\ "SF" \in Locals
  BY Types, SMT DEF Sane, Locals
<1>2. ModeOnly(s, a) /\ a.local = "SF" /\ a.state = s.state
  BY <1>1, LocalPut, Zenon
<1> HIDE DEF a
<1>3. a \in Ring /\ SameSetup(s, a) /\ SamePorts(s, a) /\ SameTimers(s, a)
  BY <1>2, Zenon DEF ModeOnly
<1>4. Wired(a) /\ Plugged(a)
  BY <1>1, <1>3, WiredMoves, WiredIsPlugged, Zenon
<1>5. PortsOnly(a, b) /\ b.blocked = a.blocked \cup {p} /\ Wired(b)
        /\ (p \in a.blocked => b = a)
  BY <1>1, <1>3, <1>4, BlockPort, BlockWires, Zenon
<1>6. Fails(s, p) = u
  <2>1. p \in a.blocked <=> p \in s.blocked
    BY <1>3, Zenon DEF SamePorts
  <2> QED BY <1>5, <2>1, Zenon DEF Fails, a
<1> HIDE DEF b
<1>7. b \in Ring
  BY <1>5, Zenon DEF PortsOnly
<1>8. status \in SUBSET Flags /\ "RB" \notin status /\ "SF" \in Requests
  BY BprFlags, Zenon DEF Requests
<1> HIDE DEF status
<1>9. SentOnly(b, c) /\ c.sending /\ c.raps.req = "SF" /\ c.raps.status = status
  BY <1>7, <1>8, Announces, SMT
<1> HIDE DEF c
<1>10. c \in Ring /\ Wired(c)
  BY <1>5, <1>7, <1>9, WiredMoves, Zenon DEF SentOnly
<1>11. PortsOnly(c, d) /\ Wired(d) /\ d.blocked = c.blocked \cap c.failed
  BY <1>10, FailedStay, Zenon
<1> HIDE DEF d
<1>12. d \in Ring
  BY <1>11, Zenon DEF PortsOnly
<1>13. Alike(d, u)
  BY <1>12, AlikeSelf, Flushes, Zenon
<1> HIDE DEF u
<1>14. u \in Ring /\ Wired(u)
  BY <1>11, <1>12, <1>13, WiredMoves, Zenon DEF Alike
<1>15. SameSetup(s, u) /\ SameTimers(s, u)
  <2>1. SameSetup(s, c) /\ SameTimers(s, c)
    BY <1>3, <1>5, <1>9, Zenon DEF PortsOnly, SentOnly, SameSetup, SameTimers
  <2> QED BY <1>11, <1>13, <2>1, Zenon DEF Alike, PortsOnly, SameSetup, SameTimers
<1>16. u.state = s.state /\ u.local = "SF"
  BY <1>2, <1>5, <1>9, <1>11, <1>13, Zenon DEF Alike, PortsOnly, SentOnly, SameMode
<1>17. u.sending /\ u.raps.req = "SF" /\ "RB" \notin u.raps.status
  BY <1>8, <1>9, <1>11, <1>13, Zenon DEF Alike, PortsOnly, SameSent
<1>18. u.blocked = (s.blocked \cup {p}) \cap s.failed
  <2>1. c.blocked = s.blocked \cup {p}
    BY <1>3, <1>5, <1>9, Zenon DEF SamePorts, SentOnly
  <2>2. c.failed = s.failed
    BY <1>3, <1>5, <1>9, Zenon DEF SameSetup, PortsOnly, SentOnly
  <2>3. u.blocked = d.blocked
    BY <1>13, Zenon DEF Alike, SamePorts
  <2> QED BY <1>11, <2>1, <2>2, <2>3, Zenon
<1>19. u.failed = s.failed
  BY <1>15, Zenon DEF SameSetup
<1>20. u.blocked # {} /\ u.blocked \subseteq u.failed
  BY <1>18, <1>19, SMT
<1> QED BY <1>6, <1>14, <1>15, <1>16, <1>17, <1>20, Zenon

LEMMA SfKeeps ==
  ASSUME NEW s, Sane(s), s.local = "LAST", NEW p \in s.failed
  PROVE  Kept(s, Sf(s, p))
<1>1. s \in Ring /\ "PROTECTION" \in States
  BY Zenon DEF Sane, States
<1>2. CASE s.state = "FORCED_SWITCH"
  BY <1>1, <1>2, SameIsKept, Zenon DEF Sf
<1>3. CASE s.state # "FORCED_SWITCH"
  <2> DEFINE u == Fails(s, p)
             t == Goto(LeavePending(u), "PROTECTION")
  <2>1. Sf(s, p) = t
    BY <1>3, Zenon DEF Sf, Fails, PutLocal
  <2>2. /\ u \in Ring /\ SameSetup(s, u) /\ SameTimers(s, u) /\ u.state = s.state
        /\ u.local = "SF" /\ Wired(u)
        /\ u.sending /\ u.raps.req = "SF" /\ "RB" \notin u.raps.status
        /\ u.blocked # {} /\ u.blocked \subseteq u.failed
    BY SfProtects, Zenon
  <2> HIDE DEF u
  <2>3. /\ t \in Ring /\ SameSetup(u, t) /\ SamePorts(u, t) /\ SameSent(u, t)
        /\ t.state = "PROTECTION" /\ t.local = u.local /\ Held(u, t)
        /\ Own(u) => Own(t)
        /\ InPending(u) => NoWait(t)
    BY <1>1, <2>2, Leaves, Zenon
  <2> HIDE DEF t
  <2>4. Wired(t)
    BY <2>2, <2>3, WiredMoves, Zenon
  <2>5. Failing(t) /\ Blocking(t)
    BY <2>2, <2>3, Zenon DEF Failing, Blocking, SameSent, SamePorts, SameSetup
  <2>6. SameSetup(s, t)
    BY <2>2, <2>3, Zenon DEF SameSetup
  <2>7. ASSUME Timed(s) PROVE Timed(t) /\ Held(s, t)
    <3>1. InPending(u)
      BY <1>1, <2>2, <2>7, TimedIsPending, PendingMoves, Zenon
    <3>2. Own(t)
      BY <1>1, <2>2, <2>3, <2>7, OwnMoves, Zenon DEF Timed
    <3>3. Held(s, t)
      BY <1>1, <2>2, <2>3, OwnMoves, Zenon DEF Held
    <3>4. t.local \in {"LAST", "SF"}
      BY <2>2, <2>3, SMT
    <3>5. Waiting(t)
      BY <2>3, <3>1, <3>4, NoWaitIsWaiting, Zenon
    <3> QED BY <3>2, <3>3, <3>5, Zenon DEF Timed
  <2> QED BY <2>1, <2>3, <2>4, <2>5, <2>6, <2>7, Zenon DEF Kept, Good
<1> QED BY <1>2, <1>3

\* The node reverts: the owner blocks its RPL port and says so.
Reverts(s, p) ==
  IF p \in s.blocked THEN Announce(s, "NR", Bpr(p) \cup {"DNF", "RB"})
  ELSE Flush(Announce(Block(s, p), "NR", Bpr(p) \cup {"RB"}))

LEMMA RplIsBlocked ==
  ASSUME NEW s, Sane(s), NEW p \in Ports
  PROVE  LET u == Unblock(Reverts(s, p), Another(p)) IN
         /\ u \in Ring /\ SameSetup(s, u) /\ SameTimers(s, u) /\ SameMode(s, u)
         /\ Wired(u) /\ u.blocked = {p}
<1> DEFINE b == Block(s, p)
           status == IF p \in s.blocked THEN Bpr(p) \cup {"DNF", "RB"} ELSE Bpr(p) \cup {"RB"}
           c == Announce(b, "NR", status)
           d == IF p \in s.blocked THEN c ELSE Flush(c)
           u == Unblock(d, Another(p))
<1>1. s \in Ring /\ Wired(s) /\ Plugged(s)
  BY WiredIsPlugged, Zenon DEF Sane
<1>2. PortsOnly(s, b) /\ b.blocked = s.blocked \cup {p} /\ Wired(b)
        /\ (p \in s.blocked => b = s)
  BY <1>1, BlockPort, BlockWires, Zenon
<1>3. Reverts(s, p) = d
  BY <1>2, Zenon DEF Reverts
<1> HIDE DEF b
<1>4. b \in Ring
  BY <1>2, Zenon DEF PortsOnly
<1>5. status \in SUBSET Flags /\ "NR" \in Requests
  BY BprFlags, Zenon DEF Requests
<1> HIDE DEF status
<1>6. SentOnly(b, c)
  BY <1>4, <1>5, Announces, SMT
<1> HIDE DEF c
<1>7. c \in Ring /\ Wired(c)
  BY <1>2, <1>4, <1>6, WiredMoves, Zenon DEF SentOnly
<1>8. Alike(c, d)
  BY <1>7, AlikeSelf, Flushes, Zenon
<1> HIDE DEF d
<1>9. d \in Ring /\ Wired(d) /\ Plugged(d)
  BY <1>7, <1>8, WiredMoves, WiredIsPlugged, Zenon DEF Alike
<1>10. PortsOnly(d, u) /\ u.blocked = d.blocked \ {Another(p)} /\ Wired(u)
  BY <1>9, AnotherPort, UnblockPort, UnblockWires, Zenon
<1> HIDE DEF u
<1>11. u \in Ring
  BY <1>10, Zenon DEF PortsOnly
<1>12. SameSetup(s, u) /\ SameTimers(s, u) /\ SameMode(s, u)
  <2>1. SameSetup(s, c) /\ SameTimers(s, c) /\ SameMode(s, c)
    BY <1>2, <1>6, Zenon DEF PortsOnly, SentOnly, SameSetup, SameTimers, SameMode
  <2> QED BY <1>8, <1>10, <2>1, Zenon
          DEF Alike, PortsOnly, SameSetup, SameTimers, SameMode
<1>13. d.blocked = s.blocked \cup {p}
  BY <1>2, <1>6, <1>8, Zenon DEF Alike, SentOnly, SamePorts
<1>14. u.blocked = {p}
  BY <1>1, <1>10, <1>13, Types, AnotherPort, SMT
<1> QED BY <1>3, <1>10, <1>11, <1>12, <1>14, Zenon DEF u

LEMMA RevertKeeps ==
  ASSUME NEW s, Sane(s), s.local = "LAST", NEW k \in Timers
  PROVE  LET t == Revert(s, k) IN
         /\ Good(t) /\ SameSetup(s, t) /\ t.local = "LAST" /\ (Own(s) => Own(t))
         /\ t.idx = IF s.state = "PENDING" /\ Owner(s) THEN s.idx \ {k} ELSE s.idx
<1>1. s \in Ring /\ Wired(s) /\ "IDLE" \in States
  BY Zenon DEF Sane, States
<1>2. CASE s.state # "PENDING"
  <2>1. Revert(s, k) = s
    BY <1>2, Zenon DEF Revert
  <2>2. Good(s) /\ SameSetup(s, s)
    BY <1>1, SameIsKept, Zenon DEF Kept
  <2> QED BY <1>2, <2>1, <2>2, SMT
<1>3. CASE s.state = "PENDING" /\ ~ Owner(s)
  <2> DEFINE t == Goto(s, "IDLE")
  <2>1. Revert(s, k) = t
    BY <1>3, Zenon DEF Revert
  <2>2. ModeOnly(s, t) /\ t.local = s.local
    BY <1>1, Goes, Zenon
  <2> HIDE DEF t
  <2>3. /\ t \in Ring /\ SameSetup(s, t) /\ SamePorts(s, t) /\ SameTimers(s, t)
        /\ SameSent(s, t)
    BY <2>2, Zenon DEF ModeOnly
  <2>4. Wired(t) /\ (Own(s) => Own(t))
    BY <1>1, <2>3, WiredMoves, OwnMoves, Zenon
  <2>5. s.state # "IDLE" /\ t.local # "SF"
    BY <1>3, <2>2, SMT
  <2>6. ~ t.sending \/ "RB" \notin t.raps.status
    BY <2>3, <2>5, BusyIsSilent, Zenon DEF SameSent
  <2>7. Good(t)
    BY <2>3, <2>4, <2>5, <2>6, CalmIsGood, Zenon
  <2> QED BY <1>3, <2>1, <2>2, <2>3, <2>4, <2>7, Zenon DEF SameTimers
<1>4. CASE s.state = "PENDING" /\ Owner(s)
  <2> DEFINE p == RplPort(s)
             a == StopTimer(s, k)
             u == Unblock(Reverts(a, p), Another(p))
             t == Goto(u, "IDLE")
  <2>1. TimersOnly(s, a) /\ a.idx = s.idx \ {k} /\ (Own(s) => Own(a))
          /\ (k \notin s.idx => a = s)
    BY <1>1, TimerStops, StopOwned, Zenon
  <2>2. a \in Ring /\ SameSetup(s, a) /\ SamePorts(s, a)
    BY <2>1, Zenon DEF TimersOnly
  <2>3. Sane(a)
    <3>1. Wired(a)
      BY <1>1, <2>2, WiredMoves, Zenon
    <3>2. ~ s.sending \/ "RB" \notin s.raps.status
      BY <1>4, BusyIsSilent, SMT
    <3>3. Blocking(a)
      BY <2>1, <3>2, Zenon DEF TimersOnly, SameSent, Blocking
    <3> QED BY <2>2, <3>1, <3>3, Zenon DEF Sane
  <2>4. p \in a.blocked <=> p \in s.blocked
    BY <2>2, Zenon DEF SamePorts
  <2>5. Revert(s, k) = t
    BY <1>4, <2>4, Zenon DEF Revert, Reverts
  <2>6. p \in Ports
    BY <1>1, RplIsAPort, Zenon
  <2> HIDE DEF a, p
  <2>7. /\ u \in Ring /\ SameSetup(a, u) /\ SameTimers(a, u) /\ SameMode(a, u)
        /\ Wired(u) /\ u.blocked = {p}
    BY <2>3, <2>6, RplIsBlocked, Zenon
  <2> HIDE DEF u
  <2>8. ModeOnly(u, t) /\ t.state = "IDLE" /\ t.local = u.local
    BY <1>1, <2>7, Goes, Zenon
  <2> HIDE DEF t
  <2>9. /\ t \in Ring /\ SameSetup(u, t) /\ SamePorts(u, t) /\ SameTimers(u, t)
    BY <2>8, Zenon DEF ModeOnly
  <2>10. SameSetup(s, t) /\ t.local = "LAST"
    BY <2>1, <2>7, <2>8, <2>9, Zenon DEF TimersOnly, SameSetup, SameMode
  <2>11. Wired(t) /\ (Own(s) => Own(t))
    BY <2>1, <2>2, <2>7, <2>9, WiredMoves, OwnMoves, Zenon
  <2>12. Blocking(t)
    <3>1. Owner(t) /\ RplPort(t) = p
      BY <1>1, <1>4, <2>9, <2>10, SetupMoves, Zenon DEF p
    <3> QED BY <2>7, <2>8, <2>9, <3>1, Zenon DEF Blocking, SamePorts
  <2>13. Good(t)
    <3>1. t.local # "SF"
      BY <2>10, SMT
    <3> QED BY <2>9, <2>11, <2>12, <3>1, Zenon DEF Good, Failing
  <2>14. t.idx = s.idx \ {k}
    BY <2>1, <2>7, <2>9, Zenon DEF SameTimers
  <2> QED BY <1>4, <2>5, <2>10, <2>11, <2>13, <2>14, Zenon
<1> QED BY <1>2, <1>3, <1>4

-----------------------------------------------------------------------------
(* The priority logic.                                                     *)

\* No local request: what the state table starts from.
LEMMA Forgets ==
  ASSUME NEW s, Sane(s)
  PROVE  LET d == PutLocal(s, "LAST") IN
         /\ Sane(d) /\ d.local = "LAST" /\ d.state = s.state /\ SameSetup(s, d)
         /\ Held(s, d) /\ d.idx = s.idx
         /\ Own(s) => Own(d)
         /\ Timed(s) => Timed(d)
<1> DEFINE d == PutLocal(s, "LAST")
<1>1. s \in Ring /\ Wired(s) /\ Blocking(s) /\ "LAST" \in Locals
  BY Zenon DEF Sane, Locals
<1>2. ModeOnly(s, d) /\ d.local = "LAST" /\ d.state = s.state
  BY <1>1, LocalPut, Zenon
<1> HIDE DEF d
<1>3. /\ d \in Ring /\ SameSetup(s, d) /\ SamePorts(s, d) /\ SameTimers(s, d)
      /\ SameSent(s, d)
  BY <1>2, Zenon DEF ModeOnly
<1>4. Wired(d) /\ Held(s, d) /\ (Own(s) => Own(d))
  BY <1>1, <1>3, WiredMoves, OwnMoves, Zenon
<1>5. Blocking(d)
  <2>1. (Owner(d) <=> Owner(s)) /\ RplPort(d) = RplPort(s)
    BY <1>1, <1>3, SetupMoves, Zenon
  <2> QED BY <1>1, <1>2, <1>3, <2>1, Zenon DEF Blocking, SameSent, SamePorts
<1>6. Timed(s) => Timed(d)
  <2>1. InPending(s) => InPending(d)
    BY <1>1, <1>2, <1>3, PendingMoves, Zenon
  <2>2. d.local # "WTR_RUNNING" /\ d.local # "WTB_RUNNING"
    BY <1>2, SMT
  <2> QED BY <1>4, <2>1, <2>2, Zenon DEF Timed, Waiting, InPending
<1> QED BY <1>2, <1>3, <1>4, <1>5, <1>6, Zenon DEF Sane, SameTimers, d

Asked == {"RAPS_FS", "SF", "CLEAR_SF", "RAPS_SF", "RAPS_MS", "RAPS_NR_RB", "RAPS_NR"}

LEMMA ActKeeps ==
  ASSUME NEW s, Sane(s), s.local = "LAST", NEW request \in Asked, NEW arg,
         request = "SF" => arg \in s.failed
  PROVE  Kept(s, Act(s, request, arg))
<1>1. CASE request = "RAPS_FS"
  <2>1. Act(s, request, arg) = RapsFs(s)
    BY <1>1, SMT DEF Act
  <2> QED BY <2>1, RapsFsKeeps, Zenon
<1>2. CASE request = "SF"
  <2>1. Act(s, request, arg) = Sf(s, arg)
    BY <1>2, SMT DEF Act
  <2> QED BY <1>2, <2>1, SfKeeps, Zenon
<1>3. CASE request = "CLEAR_SF"
  <2>1. Act(s, request, arg) = ClearSf(s, arg)
    BY <1>3, SMT DEF Act
  <2> QED BY <2>1, ClearSfKeeps, Zenon
<1>4. CASE request = "RAPS_SF"
  <2>1. Act(s, request, arg) = RapsSf(s)
    BY <1>4, SMT DEF Act
  <2> QED BY <2>1, RapsSfKeeps, Zenon
<1>5. CASE request = "RAPS_MS"
  <2>1. Act(s, request, arg) = RapsMs(s)
    BY <1>5, SMT DEF Act
  <2> QED BY <2>1, RapsMsKeeps, Zenon
<1>6. CASE request = "RAPS_NR_RB"
  <2>1. Act(s, request, arg) = RapsNrRb(s)
    BY <1>6, SMT DEF Act
  <2> QED BY <2>1, RapsNrRbKeeps, Zenon
<1>7. CASE request = "RAPS_NR"
  <2>1. Act(s, request, arg) = RapsNr(s, arg)
    BY <1>7, SMT DEF Act
  <2> QED BY <2>1, RapsNrKeeps, Zenon
<1> QED BY <1>1, <1>2, <1>3, <1>4, <1>5, <1>6, <1>7, SMT DEF Asked

LEMMA LocalStays ==
  ASSUME NEW d \in Ring
  PROVE  PutLocal(d, d.local) = d
<1>1. DOMAIN PutLocal(d, d.local) = DOMAIN d
  BY SMT DEF PutLocal
<1>2. \A x \in DOMAIN d : PutLocal(d, d.local)[x] = d[x]
  BY SMT DEF PutLocal, Ring
<1> QED BY <1>1, <1>2, SMT DEF PutLocal, Ring

\* What the priority logic makes of a request: it acts without the local
\* request, or drops the one of lower priority.
LEMMA HandleCases ==
  ASSUME NEW s \in Ring, NEW request, NEW arg
  PROVE  LET d == PutLocal(s, "LAST") IN
         \/ Handle(s, request, arg) = Act(d, request, arg)
         \/ /\ Handle(s, request, arg) = s
            /\ Priority[request] > Priority[s.local]
            /\ ~ (request = "CLEAR_SF" /\ s.local = "SF")
         \/ /\ request = "CLEAR_SF" /\ Priority["CLEAR_SF"] > Priority["LAST"]
            /\ s.local = "SF"
<1> DEFINE d == PutLocal(s, "LAST")
<1>1. CASE request = "CLEAR_SF" /\ s.local = "SF"
  <2>1. "LAST" \in Locals
    BY Zenon DEF Locals
  <2>2. d \in Ring /\ d.local = "LAST"
    BY <2>1, LocalPut, Zenon DEF ModeOnly
  <2>3. PutLocal(d, "LAST") = d
    BY <2>2, LocalStays, Zenon
  <2>4. Handle(s, request, arg) =
          IF Priority[request] > Priority[d.local] THEN d
          ELSE Act(PutLocal(d, "LAST"), request, arg)
    BY <1>1, Zenon DEF Handle, PutLocal
  <2> HIDE DEF d
  <2> QED BY <1>1, <2>2, <2>3, <2>4, Zenon DEF d
<1>2. CASE ~ (request = "CLEAR_SF" /\ s.local = "SF")
  BY <1>2, Zenon DEF Handle, PutLocal
<1> QED BY <1>1, <1>2

LEMMA PriorityKeeps ==
  ASSUME NEW s, Sane(s), NEW request \in Asked, NEW arg,
         request = "SF" => arg \in s.failed,
         Failing(s) \/ request \in {"SF", "CLEAR_SF"}
  PROVE  Kept(s, Handle(s, request, arg))
<1> DEFINE d == PutLocal(s, "LAST")
<1>1. s \in Ring /\ s.local \in Locals
  BY Types, Zenon DEF Sane
<1>2. CASE Handle(s, request, arg) = Act(d, request, arg)
  <2>1. /\ Sane(d) /\ d.local = "LAST" /\ SameSetup(s, d) /\ Held(s, d)
        /\ Timed(s) => Timed(d)
    BY Forgets, Zenon
  <2>2. d.failed = s.failed
    BY <2>1, Zenon DEF SameSetup
  <2> HIDE DEF d
  <2>3. Kept(d, Act(d, request, arg))
    BY <2>1, <2>2, ActKeeps, Zenon
  <2> QED BY <1>2, <2>1, <2>3, Zenon DEF Kept, SameSetup, Held
<1>3. CASE /\ Handle(s, request, arg) = s
           /\ Priority[request] > Priority[s.local]
           /\ ~ (request = "CLEAR_SF" /\ s.local = "SF")
  <2>1. ~ (request = "SF" /\ s.local = "SF")
    BY <1>3, SMT DEF Priority
  <2>2. Failing(s)
    BY <1>3, <2>1, SMT DEF Failing
  <2>3. Good(s)
    BY <2>2, Zenon DEF Sane, Good
  <2> QED BY <1>3, <2>3, Zenon DEF Kept, SameSetup, Held
<1>4. CASE Priority["CLEAR_SF"] > Priority["LAST"]
  BY <1>4, SMT DEF Priority
<1>5. \/ Handle(s, request, arg) = Act(d, request, arg)
      \/ /\ Handle(s, request, arg) = s
         /\ Priority[request] > Priority[s.local]
         /\ ~ (request = "CLEAR_SF" /\ s.local = "SF")
      \/ Priority["CLEAR_SF"] > Priority["LAST"]
  BY <1>1, HandleCases, Zenon
<1> HIDE DEF d
<1> QED BY <1>2, <1>3, <1>4, <1>5, Zenon

\* A timer the node waits with expires: it reverts, whatever the priority
\* logic says, and the other timer no longer runs.
LEMMA WaitExpires ==
  ASSUME NEW s, Good(s), NEW k \in {"wtr", "wtb"},
         NEW t, t = IF k = "wtr" THEN WtrTimerExpire(s) ELSE WtbTimerExpire(s)
  PROVE  /\ Good(t) /\ SameSetup(s, t)
         /\ Timed(s) /\ s.run[k] > 0 => Timed(t)
<1> DEFINE request == IF k = "wtr" THEN "WTR_EXPIRES" ELSE "WTB_EXPIRES"
           other == IF k = "wtr" THEN "wtb" ELSE "wtr"
           d == PutLocal(s, "LAST")
           h == Handle(s, request, 0)
           e == Expired(h, k)
<1>1. s \in Ring /\ Sane(s) /\ Failing(s) /\ k \in Timers /\ other \in Timers /\ k # other
  BY SMT DEF Good, Sane, Timers
<1>2. t = e
  BY Zenon DEF WtrTimerExpire, WtbTimerExpire
<1>3. \/ h = Revert(d, other)
      \/ h = s /\ (s.local = "WTR_RUNNING" => k # "wtr") /\ (s.local = "WTB_RUNNING" => k # "wtb")
  <2>1. Act(d, request, 0) = Revert(d, other)
    <3>1. CASE k = "wtr"
      BY <3>1, SMT DEF Act, WtrExpires
    <3>2. CASE k # "wtr"
      BY <3>2, SMT DEF Act, WtbExpires
    <3> QED BY <3>1, <3>2
  <2>2. request # "CLEAR_SF"
    BY SMT
  <2> HIDE DEF d, h
  <2>3. h = Revert(d, other) \/ (h = s /\ Priority[request] > Priority[s.local])
    BY <1>1, <2>1, <2>2, HandleCases, Zenon DEF d, h
  <2>4. Priority[request] > Priority[s.local] =>
          (s.local = "WTR_RUNNING" => k # "wtr") /\ (s.local = "WTB_RUNNING" => k # "wtb")
    BY SMT DEF Priority
  <2> QED BY <2>3, <2>4, Zenon
<1>4. Good(h) /\ SameSetup(s, h) /\ (Own(s) => Own(h))
  <2>1. /\ Sane(d) /\ d.local = "LAST" /\ SameSetup(s, d)
        /\ Own(s) => Own(d)
    BY <1>1, Forgets, Zenon
  <2> HIDE DEF d, h
  <2>2. Good(Revert(d, other)) /\ SameSetup(d, Revert(d, other))
          /\ (Own(d) => Own(Revert(d, other)))
    BY <1>1, <2>1, RevertKeeps, Zenon
  <2> QED BY <1>3, <2>1, <2>2, Zenon DEF SameSetup
<1>5. h \in Ring
  BY <1>4, Zenon DEF Good
<1>6. ASSUME Timed(s), s.run[k] > 0
      PROVE  /\ k \in h.idx
             /\ \/ h.local = "LAST" /\ other \notin h.idx
                \/ /\ h = s
                   /\ s.local = "WTR_RUNNING" => k # "wtr"
                   /\ s.local = "WTB_RUNNING" => k # "wtb"
  <2>1. k \in s.idx
    BY <1>1, <1>6, SMT DEF Timed, Own
  <2>2. Revertive(s) /\ s.state = "PENDING"
    BY <1>6, <2>1, Zenon DEF Timed, Waiting
  <2>3. CASE /\ h = s
             /\ s.local = "WTR_RUNNING" => k # "wtr"
             /\ s.local = "WTB_RUNNING" => k # "wtb"
    BY <2>1, <2>3
  <2>4. CASE h = Revert(d, other)
    <3>1. Sane(d) /\ d.local = "LAST" /\ SameSetup(s, d) /\ d.state = s.state /\ d.idx = s.idx
      BY <1>1, Forgets, Zenon
    <3> HIDE DEF d, h
    <3>2. Owner(d)
      BY <1>1, <2>2, <3>1, SetupMoves, Zenon DEF Sane, Revertive
    <3>3. h.local = "LAST" /\ h.idx = s.idx \ {other}
      BY <1>1, <2>2, <2>4, <3>1, <3>2, RevertKeeps, Zenon
    <3> QED BY <1>1, <2>1, <3>3, SMT
  <2> QED BY <1>3, <2>3, <2>4
<1> HIDE DEF d, h
<1>7. TimersOnly(h, e) /\ e.idx = h.idx \ {k}
  BY <1>1, <1>5, TimerFreed, Zenon
<1>8. Own(h) /\ k \in h.idx => Own(e)
  BY <1>1, <1>5, FreeOwned, Zenon
<1> HIDE DEF e
<1>9. Good(e) /\ SameSetup(s, e)
  BY <1>4, <1>7, GoodMoves, Zenon DEF TimersOnly, SameSetup
<1>10. ASSUME Timed(s), s.run[k] > 0
       PROVE  Timed(e)
  <2>1. Own(e)
    BY <1>4, <1>6, <1>8, <1>10, Zenon DEF Timed
  <2>2. CASE h.local = "LAST" /\ other \notin h.idx
    <3>1. e.local = "LAST" /\ NoWait(e)
      BY <1>7, <2>2, SMT DEF TimersOnly, SameMode, NoWait
    <3>2. e \in Ring /\ e.local \in {"LAST", "SF"}
      BY <1>7, <3>1, Zenon DEF TimersOnly
    <3> QED BY <2>1, <3>1, <3>2, NoWaitIsWaiting, Zenon DEF Timed
  <2>3. CASE /\ h = s
             /\ s.local = "WTR_RUNNING" => k # "wtr"
             /\ s.local = "WTB_RUNNING" => k # "wtb"
    <3>1. /\ e.local = s.local /\ e.state = s.state /\ e.idx = s.idx \ {k}
          /\ e \in Ring
      BY <1>7, <2>3, Zenon DEF TimersOnly, SameMode
    <3>2. Revertive(e) <=> Revertive(s)
      BY <1>1, <1>9, <3>1, SetupMoves, Zenon
    <3>4. Waiting(e)
      BY <1>10, <2>3, <3>1, <3>2, SMT DEF Timed, Waiting
    <3> QED BY <2>1, <3>4, Zenon DEF Timed
  <2> QED BY <1>6, <1>10, <2>2, <2>3
<1> QED BY <1>2, <1>9, <1>10, Zenon

-----------------------------------------------------------------------------
(* Links, messages and the other timers.                                   *)

Keeps(s, t) == Good(t) /\ (Enough /\ Timed(s) => Timed(t))

LEMMA KeepsChain ==
  ASSUME NEW s, NEW t, NEW u, Keeps(s, t), Keeps(t, u)
  PROVE  Keeps(s, u)
BY Zenon DEF Keeps

LEMMA KeepsSelf ==
  ASSUME NEW s, Good(s)
  PROVE  Keeps(s, s)
BY Zenon DEF Keeps

LEMMA GoodIsSane ==
  ASSUME NEW s, Good(s)
  PROVE  s \in Ring /\ Sane(s) /\ Failing(s)
BY Zenon DEF Good, Sane

\* What is known of the links changes.
LEMMA FailedMoves ==
  ASSUME NEW s, Sane(s), NEW F \in PortSets
  PROVE  LET t == PutFailed(s, F) IN
         /\ Sane(t) /\ t.failed = F /\ t.local = s.local
         /\ Failing(s) /\ s.failed \subseteq F => Failing(t)
         /\ Timed(s) => Timed(t)
<1> DEFINE t == PutFailed(s, F)
<1>1. s \in Ring /\ Wired(s) /\ Blocking(s)
  BY Zenon DEF Sane
<1>2. /\ SetupOnly(s, t)
      /\ t.failed = F /\ t.roles = s.roles /\ t.pid = s.pid
      /\ t.revertive = s.revertive
  BY <1>1, FailedPut, Zenon
<1> HIDE DEF t
<1>3. /\ t \in Ring /\ SamePorts(s, t) /\ SameTimers(s, t) /\ SameSent(s, t)
      /\ SameMode(s, t)
  BY <1>2, Zenon DEF SetupOnly
<1>4. Wired(t)
  BY <1>1, <1>2, <1>3, Zenon DEF Wired, SamePorts
<1>5. /\ Owner(t) <=> Owner(s)
      /\ Revertive(t) <=> Revertive(s)
      /\ RplPort(t) = RplPort(s)
  BY <1>2, Zenon DEF NodeType, HasRole, RplPort, Owner, Revertive
<1>6. Blocking(t)
  BY <1>1, <1>3, <1>5, Zenon DEF Blocking, SameSent, SameMode, SamePorts
<1>7. Failing(s) /\ s.failed \subseteq F => Failing(t)
  BY <1>2, <1>3, SMT DEF Failing, SameSent, SameMode, SamePorts
<1>8. Timed(s) => Timed(t)
  BY <1>1, <1>3, <1>5, OwnMoves, Zenon DEF Timed, Waiting, SameTimers, SameMode
<1> QED BY <1>2, <1>3, <1>4, <1>6, <1>7, <1>8, Zenon DEF Sane, SameMode, t

\* A timer the node does not wait with is started, stopped or has expired.
LEMMA TimersKeep ==
  ASSUME NEW s, Good(s), NEW t, TimersOnly(s, t)
  PROVE  /\ Good(t) /\ SameSetup(s, t)
         /\ /\ Own(t)
            /\ "wtr" \in t.idx <=> "wtr" \in s.idx
            /\ "wtb" \in t.idx <=> "wtb" \in s.idx
            => (Timed(s) => Timed(t))
<1>1. Good(t) /\ SameSetup(s, t) /\ t \in Ring /\ s \in Ring /\ SameMode(s, t)
  BY GoodMoves, Zenon DEF TimersOnly, Good
<1>2. Revertive(t) <=> Revertive(s)
  BY <1>1, SetupMoves, Zenon
<1> QED BY <1>1, <1>2, Zenon DEF Timed, Waiting, SameMode

LEMMA StopKeeps ==
  ASSUME NEW s, Good(s)
  PROVE  Keeps(s, HoldOffTimerStop(s)) /\ SameSetup(s, HoldOffTimerStop(s))
<1> DEFINE t == HoldOffTimerStop(s)
<1>1. s \in Ring
  BY Zenon DEF Good
<1>2. TimersOnly(s, t) /\ t.idx = s.idx \ {"hold_off"} /\ (Own(s) => Own(t))
  BY <1>1, TimerNames, TimerStops, StopOwned, Zenon DEF HoldOffTimerStop
<1> HIDE DEF t
<1>3. ("wtr" \in t.idx <=> "wtr" \in s.idx) /\ ("wtb" \in t.idx <=> "wtb" \in s.idx)
  BY <1>2, SMT
<1> QED BY <1>2, <1>3, TimersKeep, Zenon DEF Keeps, Timed, t

LEMMA StartKeeps ==
  ASSUME NEW s, Good(s)
  PROVE  Keeps(s, HoldOffTimerStart(s))
<1> DEFINE t == HoldOffTimerStart(s)
<1>1. s \in Ring
  BY Zenon DEF Good
<1>2. TimersOnly(s, t)
  BY <1>1, TimerNames, TimerStarts, Zenon DEF HoldOffTimerStart
<1>3. Enough /\ Own(s) => Own(t) /\ t.idx = s.idx \cup {"hold_off"}
  BY <1>1, TimerNames, StartOwned, Zenon DEF HoldOffTimerStart
<1> HIDE DEF t
<1>4. t.idx = s.idx \cup {"hold_off"} =>
        ("wtr" \in t.idx <=> "wtr" \in s.idx) /\ ("wtb" \in t.idx <=> "wtb" \in s.idx)
  BY SMT
<1> QED BY <1>2, <1>3, <1>4, TimersKeep, Zenon DEF Keeps, Timed, t

LEMMA FreeKeeps ==
  ASSUME NEW s, Good(s), NEW k \in {"guard", "hold_off"}
  PROVE  /\ Good(Expired(s, k))
         /\ Timed(s) /\ k \in s.idx => Timed(Expired(s, k))
<1> DEFINE t == Expired(s, k)
<1>1. s \in Ring /\ k \in Timers
  BY SMT DEF Good, Timers
<1>2. TimersOnly(s, t) /\ t.idx = s.idx \ {k}
  BY <1>1, TimerFreed, Zenon
<1>3. Own(s) /\ k \in s.idx => Own(t)
  BY <1>1, FreeOwned, Zenon
<1> HIDE DEF t
<1>4. ("wtr" \in t.idx <=> "wtr" \in s.idx) /\ ("wtb" \in t.idx <=> "wtb" \in s.idx)
  BY <1>2, SMT
<1> QED BY <1>2, <1>3, <1>4, TimersKeep, Zenon DEF Timed, t

\* A ring port fails or comes back.
LEMMA LinkKeeps ==
  ASSUME NEW s, Good(s), NEW p \in Ports, NEW up
  PROVE  Keeps(s, LinkChange(s, p, up))
<1>1. s \in Ring /\ Sane(s) /\ Failing(s) /\ s.failed \subseteq Ports
  BY GoodIsSane, Types, Zenon
<1>2. CASE ~ up
  <2> DEFINE d == PutFailed(s, s.failed \cup {p})
  <2>1. s.failed \cup {p} \in PortSets /\ s.failed \subseteq s.failed \cup {p}
    BY <1>1, SMT DEF PortSets
  <2>2. /\ Sane(d) /\ d.failed = s.failed \cup {p} /\ Failing(d)
        /\ Timed(s) => Timed(d)
    BY <1>1, <2>1, FailedMoves, Zenon
  <2>3. LinkChange(s, p, up) = IF s.holds THEN HoldOffTimerStart(HoldOffTimerStop(d))
                               ELSE Handle(d, "SF", p)
    BY <1>2, Zenon DEF LinkChange, PutFailed
  <2> HIDE DEF d
  <2>4. Good(d) /\ Keeps(s, d)
    BY <2>2, Zenon DEF Good, Sane, Keeps
  <2>5. Keeps(d, HoldOffTimerStart(HoldOffTimerStop(d)))
    BY <2>4, StopKeeps, StartKeeps, KeepsChain, Zenon DEF Keeps
  <2>6. "SF" \in Asked /\ p \in d.failed
    BY <2>2, SMT DEF Asked
  <2>7. Keeps(d, Handle(d, "SF", p))
    BY <2>2, <2>6, PriorityKeeps, Zenon DEF Kept, Keeps
  <2> QED BY <2>3, <2>4, <2>5, <2>7, KeepsChain, Zenon
<1>3. CASE up
  <2> DEFINE a == HoldOffTimerStop(s)
             u == PutFailed(a, a.failed \ {p})
             q == Another(p)
  <2>1. Keeps(s, a) /\ SameSetup(s, a)
    BY StopKeeps, Zenon
  <2>2. LinkChange(s, p, up) = IF q \in s.failed THEN Handle(u, "SF", q)
                               ELSE Handle(u, "CLEAR_SF", p)
    BY <1>3, Zenon DEF LinkChange, PutFailed
  <2> HIDE DEF a
  <2>3. Sane(a) /\ a \in Ring /\ a.failed \subseteq Ports /\ a.failed = s.failed
    BY <2>1, GoodIsSane, Types, Zenon DEF Keeps, SameSetup
  <2>4. a.failed \ {p} \in PortSets
    BY <2>3, SMT DEF PortSets
  <2>5. /\ Sane(u) /\ u.failed = a.failed \ {p}
        /\ Timed(a) => Timed(u)
    BY <2>3, <2>4, FailedMoves, Zenon
  <2> HIDE DEF u
  <2>6. q # p
    BY AnotherPort, Zenon
  <2>7. "SF" \in Asked /\ "CLEAR_SF" \in Asked
          /\ "SF" \in {"SF", "CLEAR_SF"} /\ "CLEAR_SF" \in {"SF", "CLEAR_SF"}
          /\ "CLEAR_SF" # "SF"
    BY SMT DEF Asked
  <2>8. CASE q \in s.failed
    <3>1. q \in u.failed
      BY <2>3, <2>5, <2>6, <2>8, SMT
    <3>2. Kept(u, Handle(u, "SF", q))
      BY <2>5, <2>7, <3>1, PriorityKeeps, Zenon
    <3> QED BY <2>1, <2>2, <2>5, <2>8, <3>2, Zenon DEF Keeps, Kept
  <2>9. CASE q \notin s.failed
    <3>1. Kept(u, Handle(u, "CLEAR_SF", p))
      BY <2>5, <2>7, PriorityKeeps, Zenon
    <3> QED BY <2>1, <2>2, <2>5, <2>9, <3>1, Zenon DEF Keeps, Kept
  <2> QED BY <2>8, <2>9
<1> QED BY <1>2, <1>3

LEMMA MessageKeeps ==
  ASSUME NEW s, Good(s), NEW m \in Message, NEW node
  PROVE  Keeps(s, ToPriorityLogic(s, m, node))
<1>1. CASE node = s.id \/ "guard" \in s.idx
  BY <1>1, KeepsSelf, Zenon DEF ToPriorityLogic
<1>2. CASE ~ (node = s.id \/ "guard" \in s.idx)
  <2>1. ToPriorityLogic(s, m, node) = Handle(s, RequestOf(m), node)
    BY <1>2, Zenon DEF ToPriorityLogic
  <2>2. RequestOf(m) \in Asked /\ RequestOf(m) # "SF"
    BY SMT DEF RequestOf, Asked, Message
  <2>3. Kept(s, Handle(s, RequestOf(m), node))
    BY <2>2, GoodIsSane, PriorityKeeps, Zenon
  <2> QED BY <2>1, <2>3, Zenon DEF Kept, Keeps
<1> QED BY <1>1, <1>2

\* The hold-off timer has expired: what is still failed is protected now.
LEMMA HoldOffKeeps ==
  ASSUME NEW s, Good(s)
  PROVE  /\ Good(HoldOffTimerExpire(s))
         /\ Enough /\ Timed(s) /\ s.run["hold_off"] > 0 => Timed(HoldOffTimerExpire(s))
<1> DEFINE w == IF "west" \in s.failed THEN Handle(s, "SF", "west") ELSE s
           e == IF "east" \in s.failed THEN Handle(w, "SF", "east") ELSE w
<1>1. "SF" \in Asked /\ "hold_off" \in Timers /\ "hold_off" \in {"guard", "hold_off"}
  BY SMT DEF Asked, Timers
<1>2. Good(w) /\ SameSetup(s, w) /\ (Enough /\ Timed(s) => Timed(w) /\ Held(s, w))
  <2>1. CASE "west" \in s.failed
    BY <1>1, <2>1, GoodIsSane, PriorityKeeps, Zenon DEF Kept
  <2>2. CASE "west" \notin s.failed
    BY <2>2, Zenon DEF SameSetup, Held
  <2> QED BY <2>1, <2>2
<1>3. HoldOffTimerExpire(s) = Expired(e, "hold_off")
  BY Zenon DEF HoldOffTimerExpire
<1> HIDE DEF w
<1>4. Good(e) /\ (Enough /\ Timed(w) => Timed(e) /\ Held(w, e))
  <2>1. CASE "east" \in s.failed
    <3>1. "east" \in w.failed
      BY <1>2, <2>1, Zenon DEF SameSetup
    <3>2. Kept(w, Handle(w, "SF", "east"))
      BY <1>1, <1>2, <3>1, GoodIsSane, PriorityKeeps, Zenon
    <3> QED BY <2>1, <3>2, Zenon DEF Kept
  <2>2. CASE "east" \notin s.failed
    BY <1>2, <2>2, Zenon DEF Held
  <2> QED BY <2>1, <2>2
<1> HIDE DEF e
<1>5. Timed(s) /\ s.run["hold_off"] > 0 => "hold_off" \in s.idx
  BY <1>1, SMT DEF Timed, Own
<1>6. Good(Expired(e, "hold_off"))
        /\ (Timed(e) /\ "hold_off" \in e.idx => Timed(Expired(e, "hold_off")))
  BY <1>1, <1>4, FreeKeeps, Zenon
<1> QED BY <1>2, <1>3, <1>4, <1>5, <1>6, Zenon DEF Held

LEMMA GuardKeeps ==
  ASSUME NEW s, Good(s)
  PROVE  /\ Good(GuardTimerExpire(s))
         /\ Timed(s) /\ s.run["guard"] > 0 => Timed(GuardTimerExpire(s))
<1>1. "guard" \in Timers /\ "guard" \in {"guard", "hold_off"}
  BY SMT DEF Timers
<1>2. Timed(s) /\ s.run["guard"] > 0 => "guard" \in s.idx
  BY <1>1, SMT DEF Timed, Own
<1> QED BY <1>1, <1>2, FreeKeeps, Zenon DEF GuardTimerExpire

-----------------------------------------------------------------------------
(* Initialisation.                                                         *)

LEMMA NothingStops ==
  ASSUME NEW s, s.idx = {}
  PROVE  HoldOffTimerStop(GuardTimerStop(WtbTimerStop(WtrTimerStop(s)))) = s
<1>1. \A k : k \notin s.idx
  BY SMT
<1>2. WtrTimerStop(s) = s /\ WtbTimerStop(s) = s /\ GuardTimerStop(s) = s
        /\ HoldOffTimerStop(s) = s
  BY <1>1, Zenon
     DEF WtrTimerStop, WtbTimerStop, GuardTimerStop, HoldOffTimerStop, StopTimer
<1> QED BY <1>2, Zenon

\* The state machine starts with one port blocked, when no timer is known
\* and no port of the switch discards.
LEMMA StartsGood ==
  ASSUME NEW s \in Ring, s.idx = {}, s.stp = {}, s.pid["west"] # s.pid["east"]
  PROVE  LET t == StateMachineInit(s) IN
         /\ Good(t)
         /\ Enough /\ Own(s) => Timed(t)
<1> DEFINE l == PutLocal(s, "LAST")
           f == PutBlocked(l, {})
           p == IF NodeType(s) = "TRANSFER" THEN "west" ELSE RplPort(s)
           b == Unblock(Block(f, p), Another(p))
           w == IF Revertive(b) THEN WtrTimerStart(b) ELSE b
           a == Announce(w, "NR", {})
           t == Goto(a, "PENDING")
<1>1. "LAST" \in Locals /\ {} \in PortSets /\ "NR" \in Requests /\ {} \in SUBSET Flags
        /\ "PENDING" \in States /\ "RB" \notin {}
  BY SMT DEF Locals, PortSets, Requests, States
<1>2. p \in Ports
  BY RplIsAPort, SMT DEF Ports
<1>3. ModeOnly(s, l) /\ l.local = "LAST"
  BY <1>1, LocalPut, Zenon
<1>4. PortsOnly(l, f) /\ f.blocked = {} /\ f.fw = l.fw /\ f.stp = l.stp
  <2> HIDE DEF l
  <2> QED BY <1>1, <1>3, BlockedPut, Zenon DEF ModeOnly
<1>5. /\ f \in Ring /\ SameSetup(s, f) /\ SameTimers(s, f) /\ f.local = "LAST"
      /\ f.stp = {}
  <2> HIDE DEF f, l
  <2> QED BY <1>3, <1>4, Zenon
          DEF ModeOnly, PortsOnly, SameSetup, SamePorts, SameTimers, SameMode
<1>6. StateMachineInit(s) = Goto(Announce(IF Revertive(s) THEN WtrTimerStart(b) ELSE b, "NR", {}), "PENDING")
  <2>1. [s EXCEPT !.local = "LAST", !.blocked = {}] = f
    BY SMT DEF PutLocal, PutBlocked
  <2> HIDE DEF f
  <2>2. HoldOffTimerStop(GuardTimerStop(WtbTimerStop(WtrTimerStop(f)))) = f
    BY <1>5, NothingStops, Zenon DEF SameTimers
  <2>3. RplPort(f) = RplPort(s)
    BY <1>5, SetupMoves, Zenon
  <2>4. b = IF NodeType(s) = "TRANSFER" THEN Unblock(Block(f, "west"), "east") ELSE BlockRpl(f)
    BY <2>3, SMT DEF BlockRpl, Another
  <2> HIDE DEF b
  <2> QED BY <2>1, <2>2, <2>4, Zenon DEF StateMachineInit
<1> HIDE DEF l, f, p
<1>7. PortsOnly(f, b) /\ Wired(b)
  <2>1. f.pid["west"] # f.pid["east"]
    BY <1>5, Zenon DEF SameSetup
  <2>2. Plugged(f)
    BY <1>4, <1>5, <2>1, SMT DEF Plugged
  <2> QED BY <1>2, <1>4, <1>5, <2>2, OneBlocked, Zenon
<1> HIDE DEF b
<1>8. /\ b \in Ring /\ SameSetup(s, b) /\ SameTimers(s, b) /\ b.local = "LAST"
  BY <1>5, <1>7, Zenon DEF PortsOnly, SameSetup, SameTimers, SameMode
<1>9. StateMachineInit(s) = t
  BY <1>6, <1>8, SetupMoves, Zenon
<1>10. (Own(s) => Own(b)) /\ NoWait(b) /\ InPending(b)
  <2>1. NoWait(b)
    BY <1>8, SMT DEF SameTimers, NoWait
  <2> QED BY <1>8, <2>1, OwnMoves, Zenon DEF NoWait, InPending
<1>11. /\ WaitOnly(b, w) /\ w.local \in {"LAST", "WTR_RUNNING", "WTB_RUNNING"}
       /\ Enough /\ Own(b) /\ InPending(b) =>
            /\ Own(w) /\ Held(b, w)
            /\ ~ Revertive(b) => NoWait(w)
            /\ w.local = "WTR_RUNNING" => "wtr" \in w.idx
            /\ w.local = "WTB_RUNNING" => "wtb" \in w.idx
  <2>1. WtrTimerStart(b) \in {WtrTimerStart(b), WtbTimerStart(b)}
    BY Zenon
  <2> QED BY <1>8, <2>1, MayWait, Zenon
<1> HIDE DEF w
<1>12. w \in Ring
  BY <1>11, Zenon DEF WaitOnly
<1>13. SentOnly(w, a) /\ a.raps.status = {}
  BY <1>1, <1>12, Announces, SMT
<1> HIDE DEF a
<1>14. a \in Ring
  BY <1>13, Zenon DEF SentOnly
<1>15. ModeOnly(a, t) /\ t.state = "PENDING" /\ t.local = a.local
  BY <1>1, <1>14, Goes, Zenon
<1> HIDE DEF t
<1>16. /\ t \in Ring /\ SameSetup(b, t) /\ SamePorts(b, t) /\ t.raps.status = {}
       /\ t.local = w.local /\ SameTimers(w, t)
  BY <1>11, <1>13, <1>15, Zenon
     DEF ModeOnly, SentOnly, WaitOnly, SameSetup, SamePorts, SameTimers, SameMode, SameSent
<1>17. Wired(t)
  BY <1>7, <1>8, <1>16, WiredMoves, Zenon
<1>18. t.local # "SF" /\ "RB" \notin t.raps.status
  BY <1>11, <1>16, SMT
<1>19. Good(t)
  BY <1>16, <1>17, <1>18, CalmIsGood, Zenon
<1>20. ASSUME Enough, Own(s) PROVE Timed(t)
  <2>1. Own(t)
    BY <1>10, <1>11, <1>12, <1>16, <1>20, OwnMoves, Zenon
  <2>2. Revertive(t) <=> Revertive(b)
    BY <1>8, <1>16, SetupMoves, Zenon
  <2>3. Waiting(t)
    BY <1>10, <1>11, <1>15, <1>16, <1>20, <2>2, Zenon DEF Waiting, NoWait, SameTimers
  <2> QED BY <2>1, <2>3, Zenon DEF Timed
<1> QED BY <1>9, <1>19, <1>20, Zenon

LEMMA CheckKeeps ==
  ASSUME NEW s, Good(s), NEW p \in Ports
  PROVE  Keeps(s, CheckLink(s, p))
<1>1. CASE s.pid[p] \in link
  BY <1>1, KeepsSelf, Zenon DEF CheckLink
<1>2. CASE s.pid[p] \notin link
  <2> DEFINE d == PutFailed(s, s.failed \cup {p})
  <2>1. s.failed \cup {p} \in PortSets /\ s.failed \subseteq s.failed \cup {p}
          /\ p \in s.failed \cup {p} /\ "SF" \in Asked
    BY GoodIsSane, Types, SMT DEF PortSets, Asked
  <2>2. /\ Sane(d) /\ d.failed = s.failed \cup {p} /\ Failing(d)
        /\ Timed(s) => Timed(d)
    BY <2>1, GoodIsSane, FailedMoves, Zenon
  <2>3. CheckLink(s, p) = Handle(d, "SF", p)
    BY <1>2, Zenon DEF CheckLink, PutFailed
  <2> HIDE DEF d
  <2>4. Kept(d, Handle(d, "SF", p))
    BY <2>1, <2>2, PriorityKeeps, Zenon
  <2> QED BY <2>2, <2>3, <2>4, Zenon DEF Kept, Keeps
<1> QED BY <1>1, <1>2

LEMMA ChecksKeep ==
  ASSUME NEW s, Good(s)
  PROVE  Keeps(s, CheckLinks(s))
<1>1. "west" \in Ports /\ "east" \in Ports
  BY SMT DEF Ports
<1>2. Keeps(s, CheckLink(s, "west"))
  BY <1>1, CheckKeeps, Zenon
<1>3. Keeps(CheckLink(s, "west"), CheckLink(CheckLink(s, "west"), "east"))
  BY <1>1, <1>2, CheckKeeps, Zenon DEF Keeps
<1> QED BY <1>2, <1>3, KeepsChain, Zenon DEF CheckLinks

LEMMA InitKeeps ==
  ASSUME NEW s \in Ring, s.stp = {}, s.pid["west"] # s.pid["east"]
  PROVE  /\ Good(InstanceInit(s))
         /\ Enough /\ Own(PutIdx(s, {})) => Timed(InstanceInit(s))
<1> DEFINE i == PutIdx(s, {})
           t == StateMachineInit(i)
<1>1. {} \in TimerSets
  BY SMT DEF TimerSets
<1>2. TimersOnly(s, i) /\ i.idx = {}
  BY <1>1, IdxPut, Zenon
<1>3. InstanceInit(s) = CheckLinks(t)
  BY Zenon DEF InstanceInit, PutIdx
<1> HIDE DEF i
<1>4. i \in Ring /\ i.stp = {} /\ i.pid["west"] # i.pid["east"]
  BY <1>2, Zenon DEF TimersOnly, SamePorts, SameSetup
<1>5. Good(t) /\ (Enough /\ Own(i) => Timed(t))
  BY <1>2, <1>4, StartsGood, Zenon
<1> HIDE DEF t
<1>6. Keeps(t, CheckLinks(t))
  BY <1>5, ChecksKeep, Zenon
<1> QED BY <1>3, <1>5, <1>6, Zenon DEF Keeps, i

\* A ring of zeros.
LEMMA ZeroIsRing ==
  ASSUME NEW stp \in PhysSets, NEW run \in RunMaps
  PROVE  LET z == Zero(stp, run) IN
         /\ z \in Ring /\ z.stp = stp /\ z.run = run /\ z.idx = {}
         /\ z.local = "CLEAR" /\ ~ z.sending
<1>1. PICK c \in Configs : c = SomeConfig
  BY NodeAssumption, Zenon DEF SomeConfig
<1>2. c.pid \in PortMaps
  BY NodeAssumption, SMT DEF Config, PortMaps
<1> DEFINE roles == [p \in Ports |-> "TRANSFER"]
<1>m. /\ roles \in RoleMaps /\ {} \in PortSets /\ {} \in TimerSets
      /\ Nothing \in Message /\ << >> \in Outputs
  <2>1. roles \in RoleMaps
    BY SMT DEF RoleMaps, Roles
  <2>2. {} \in PortSets /\ {} \in TimerSets
    BY SMT DEF PortSets, TimerSets
  <2>3. Nothing \in Message
    BY SMT DEF Nothing, Message
  <2>4. << >> \in Outputs
    BY SMT DEF Outputs
  <2> QED BY <2>1, <2>2, <2>3, <2>4
<1>3. PICK R \in RoleMaps : R = roles
  BY <1>m, Zenon
<1>4. PICK no \in BOOLEAN : no = FALSE
  OBVIOUS
<1>5. PICK zero \in Nat : zero = 0
  BY SMT
<1>6. PICK idle \in States : idle = "IDLE"
  BY Zenon DEF States
<1>7. PICK clear \in Locals : clear = "CLEAR"
  BY Zenon DEF Locals
<1>8. PICK none \in PortSets : none = {}
  BY <1>m, Zenon
<1>9. PICK off \in TimerSets : off = {}
  BY <1>m, Zenon
<1>10. PICK m \in Message : m = Nothing
  BY <1>m, Zenon
<1>11. PICK o \in Outputs : o = << >>
  BY <1>m, Zenon
<1> DEFINE x == c.pid
<1>12. PICK pid \in PortMaps : pid = x
  BY <1>2, Zenon
<1> DEFINE z == [roles |-> R, pid |-> pid, revertive |-> no, holds |-> no, id |-> zero,
                 state |-> idle, local |-> clear, failed |-> none, blocked |-> none,
                 fw |-> no, stp |-> stp, idx |-> off, run |-> run,
                 sending |-> no, raps |-> m, out |-> o, flush |-> no, cleared |-> no]
<1>13. Zero(stp, run) = z
  BY <1>1, <1>3, <1>4, <1>5, <1>6, <1>7, <1>8, <1>9, <1>10, <1>11, <1>12, Zenon
     DEF Zero, ZeroRing
<1>14. z \in Ring
  BY SMT DEF Ring
<1>15. z.stp = stp /\ z.run = run /\ z.idx = off /\ z.local = clear /\ z.sending = no
  BY SMT
<1> HIDE DEF z
<1> QED BY <1>4, <1>7, <1>9, <1>13, <1>14, <1>15, Zenon

-----------------------------------------------------------------------------
(* The task of the node.                                                   *)

LEMMA OnRing ==
  ASSUME ring, ring', left' = left, NEW h, Good(h), r' = Quiet(h),
         Enough /\ Timed(r) => Timed(h)
  PROVE  IInv' /\ (Enough /\ TimerInv => TimerInv')
<1> DEFINE t == Quiet(h)
<1>1. h \in Ring
  BY Zenon DEF Good
<1>2. Alike(h, t)
  BY <1>1, Quiets, Zenon
<1> HIDE DEF t
<1>3. Good(t) /\ t \in Ring
  BY <1>2, GoodMoves, Zenon DEF Alike
<1>4. Timed(h) => Timed(t)
  BY <1>1, <1>2, OwnMoves, WaitingMoves, Zenon DEF Alike, Timed
<1>5. r' = t
  BY Zenon DEF t
<1>6. IInv'
  BY <1>3, <1>5, Zenon DEF IInv
<1>7. Enough /\ TimerInv => TimerInv'
  BY <1>4, <1>5, Zenon DEF TimerInv, Timed
<1> QED BY <1>6, <1>7

\* Without an instance only slots of a former one may still run.
LEMMA OffRing ==
  ASSUME IInv, ~ ring, ~ ring', NEW t, t \in Ring, r' = t, SamePorts(r, t),
         t.local = r.local, t.sending = r.sending
  PROVE  IInv'
BY Zenon DEF IInv, SamePorts

LEMMA OffQuiet ==
  ASSUME IInv, ~ ring, ~ ring', left' = left, NEW h \in Ring, Alike(r, h), r' = Quiet(h)
  PROVE  IInv' /\ (Enough /\ TimerInv => TimerInv')
<1> DEFINE t == Quiet(h)
<1>1. Alike(h, t)
  BY Quiets, Zenon
<1> HIDE DEF t
<1>2. /\ t \in Ring /\ SamePorts(r, t) /\ t.local = r.local /\ t.sending = r.sending
      /\ t.idx = r.idx /\ t.run = r.run
  BY <1>1, Zenon DEF Alike, SamePorts, SameMode, SameSent, SameTimers
<1>3. r' = t
  BY Zenon DEF t
<1>4. IInv'
  BY <1>2, <1>3, OffRing, Zenon
<1>5. Enough /\ TimerInv => TimerInv'
  BY <1>2, <1>3, Zenon DEF TimerInv
<1> QED BY <1>4, <1>5

LEMMA UnchangedKeeps ==
  ASSUME IInv, UNCHANGED <<r, ring, left>>
  PROVE  IInv' /\ (Enough /\ TimerInv => TimerInv')
<1>1. r' = r /\ (ring' <=> ring) /\ left' = left
  BY Zenon
<1>2. IInv'
  BY <1>1, Zenon DEF IInv
<1>3. TimerInv => TimerInv'
  BY <1>1, SMT DEF TimerInv, Own, Waiting, Revertive, Owner, NodeType, HasRole
<1> QED BY <1>2, <1>3

LEMMA PollKeeps ==
  ASSUME IInv, Poll
  PROVE  IInv' /\ (Enough /\ TimerInv => TimerInv')
<1>1. ring /\ ring' /\ left' = left /\ Good(r)
  BY Zenon DEF Poll, IInv
<1>2. PICK w : w = PollPort(r, "west")
  OBVIOUS
<1>3. PICK h : h = PollPort(w, "east")
  OBVIOUS
<1>4. "west" \in Ports /\ "east" \in Ports
  BY SMT DEF Ports
<1>5. Keeps(r, w)
  <2>1. PICK up : up = (r.pid["west"] \in link)
    OBVIOUS
  <2>2. PICK g : g = r
    OBVIOUS
  <2>3. w \in {g, LinkChange(g, "west", up)}
    BY <1>2, <2>1, <2>2, Zenon DEF PollPort
  <2> QED BY <1>1, <1>4, <2>2, <2>3, LinkKeeps, KeepsSelf, SMT
<1>6. Keeps(w, h)
  <2>1. PICK up : up = (w.pid["east"] \in link)
    OBVIOUS
  <2>2. h \in {w, LinkChange(w, "east", up)}
    BY <1>3, <2>1, Zenon DEF PollPort
  <2> QED BY <1>4, <1>5, <2>2, LinkKeeps, KeepsSelf, SMT DEF Keeps
<1>7. r' = Quiet(h)
  BY <1>2, <1>3, Zenon DEF Poll, Step
<1>8. Good(h) /\ (Enough /\ Timed(r) => Timed(h))
  BY <1>5, <1>6, Zenon DEF Keeps
<1> QED BY <1>1, <1>7, <1>8, OnRing, Zenon

LEMMA LinkEventKeeps ==
  ASSUME IInv, LinkEvent
  PROVE  IInv' /\ (Enough /\ TimerInv => TimerInv')
<1>1. (ring' <=> ring) /\ left' = left
  BY Zenon DEF LinkEvent
<1>2. PICK ports : ports = Head(evts).ports
  OBVIOUS
<1>3. PICK p : p = FirstPort
  OBVIOUS
<1>4. PICK g : g = r
  OBVIOUS
<1>5. PICK w : w = NewLink(g, p, ports)
  OBVIOUS
<1>6. PICK h : h = NewLink(w, Another(p), ports)
  OBVIOUS
<1>7. r' = Quiet(h)
  BY <1>2, <1>3, <1>4, <1>5, <1>6, Zenon DEF LinkEvent, Step
<1>8. CASE ~ ring
  <2>1. h = r
    BY <1>4, <1>5, <1>6, <1>8, Zenon DEF NewLink
  <2>2. h \in Ring /\ Alike(r, h)
    BY <2>1, AlikeSelf, Zenon DEF IInv
  <2> QED BY <1>1, <1>7, <1>8, <2>2, OffQuiet, Zenon
<1>9. CASE ring
  <2>1. Good(g) /\ p \in Ports /\ Another(p) \in Ports
    BY <1>3, <1>4, <1>9, SMT DEF IInv, FirstPort, Ports, Another
  <2>2. Keeps(g, w)
    <3>1. PICK up : up = (g.pid[p] \in link)
      OBVIOUS
    <3>2. w \in {g, LinkChange(g, p, up)}
      BY <1>5, <3>1, Zenon DEF NewLink
    <3> QED BY <2>1, <3>2, LinkKeeps, KeepsSelf, SMT
  <2>3. Keeps(w, h)
    <3>1. PICK up : up = (w.pid[Another(p)] \in link)
      OBVIOUS
    <3>2. PICK q : q = Another(p)
      OBVIOUS
    <3>3. h \in {w, LinkChange(w, q, up)}
      BY <1>6, <3>1, <3>2, Zenon DEF NewLink
    <3>4. Keeps(w, w) /\ Keeps(w, LinkChange(w, q, up))
      BY <2>1, <2>2, <3>2, LinkKeeps, KeepsSelf, Zenon DEF Keeps
    <3> QED BY <3>3, <3>4, SMT
  <2>4. Good(h) /\ (Enough /\ Timed(r) => Timed(h))
    BY <1>4, <2>2, <2>3, Zenon DEF Keeps
  <2> QED BY <1>1, <1>7, <1>9, <2>4, OnRing, Zenon
<1> QED BY <1>8, <1>9

LEMMA DownEventKeeps ==
  ASSUME IInv, DownEvent
  PROVE  IInv' /\ (Enough /\ TimerInv => TimerInv')
<1>1. (ring' <=> ring) /\ left' = left
  BY Zenon DEF DownEvent
<1>2. PICK ports : ports = Head(evts).ports
  OBVIOUS
<1>3. PICK g : g = r
  OBVIOUS
<1>4. PICK w : w = Lost(g, "west", ports)
  OBVIOUS
<1>5. PICK h : h = Lost(w, "east", ports)
  OBVIOUS
<1>6. r' = Quiet(h)
  BY <1>2, <1>3, <1>4, <1>5, Zenon DEF DownEvent, Step
<1>7. CASE ~ ring
  <2>1. h = r
    BY <1>3, <1>4, <1>5, <1>7, Zenon DEF Lost
  <2>2. h \in Ring /\ Alike(r, h)
    BY <2>1, AlikeSelf, Zenon DEF IInv
  <2> QED BY <1>1, <1>6, <1>7, <2>2, OffQuiet, Zenon
<1>8. CASE ring
  <2>1. Good(g) /\ "west" \in Ports /\ "east" \in Ports
    BY <1>3, <1>8, SMT DEF IInv, Ports
  <2>2. Keeps(g, w)
    <3>1. Keeps(g, g) /\ Keeps(g, LinkChange(g, "west", FALSE))
      BY <2>1, LinkKeeps, KeepsSelf, Zenon
    <3> QED BY <1>4, <3>1, Zenon DEF Lost
  <2>3. Keeps(w, h)
    <3>1. Keeps(w, w) /\ Keeps(w, LinkChange(w, "east", FALSE))
      BY <2>1, <2>2, LinkKeeps, KeepsSelf, Zenon DEF Keeps
    <3> QED BY <1>5, <3>1, Zenon DEF Lost
  <2>4. Good(h) /\ (Enough /\ Timed(r) => Timed(h))
    BY <1>3, <2>2, <2>3, Zenon DEF Keeps
  <2> QED BY <1>1, <1>6, <1>8, <2>4, OnRing, Zenon
<1> QED BY <1>7, <1>8

LEMMA RapsInputKeeps ==
  ASSUME IInv, NEW p \in Ports, NEW m \in Inputs, NEW node \in Remotes, RapsInput(p, m, node)
  PROVE  IInv' /\ (Enough /\ TimerInv => TimerInv')
<1>1. ring /\ ring' /\ left' = left /\ Good(r)
  BY Zenon DEF RapsInput, IInv
<1>2. m \in Message
  BY NodeAssumption, Zenon
<1>3. PICK g : g = r
  OBVIOUS
<1>4. PICK w : w = IF NeedFlush(p, m, node) THEN Flush(g) ELSE g
  OBVIOUS
<1>5. PICK h : h = ToPriorityLogic(w, m, node)
  OBVIOUS
<1>6. r' = Quiet(h)
  BY <1>3, <1>4, <1>5, Zenon DEF RapsInput, Step
<1>7. g \in Ring /\ Good(g)
  BY <1>1, <1>3, Zenon DEF Good
<1>8. Alike(g, w)
  BY <1>4, <1>7, Flushes, AlikeSelf, Zenon
<1>9. Good(w) /\ (Timed(g) => Timed(w))
  BY <1>7, <1>8, GoodMoves, OwnMoves, WaitingMoves, Zenon DEF Alike, Timed
<1>10. Keeps(w, h)
  BY <1>2, <1>5, <1>9, MessageKeeps, Zenon
<1>11. Good(h) /\ (Enough /\ Timed(r) => Timed(h))
  BY <1>3, <1>9, <1>10, Zenon DEF Keeps
<1> QED BY <1>1, <1>6, <1>11, OnRing, Zenon

\* A slot of a former instance finds a ring of zeros: every request is dropped.
LEMMA ZerosDrop ==
  ASSUME NEW s, s.local = "CLEAR", NEW request \in {"WTR_EXPIRES", "WTB_EXPIRES", "SF"},
         NEW arg
  PROVE  Handle(s, request, arg) = s
<1>1. Priority[request] > Priority[s.local]
  BY SMT DEF Priority
<1>2. ~ (request = "CLEAR_SF" /\ s.local = "SF")
  BY SMT
<1> QED BY <1>1, <1>2, Zenon DEF Handle

TimerDone(s, k) ==
  CASE k = "wtr" -> WtrTimerExpire(s)
    [] k = "wtb" -> WtbTimerExpire(s)
    [] k = "guard" -> GuardTimerExpire(s)
    [] k = "hold_off" -> HoldOffTimerExpire(s)

LEMMA ZerosExpire ==
  ASSUME NEW s \in Ring, s.local = "CLEAR", NEW k \in Timers
  PROVE  TimerDone(s, k) = Expired(s, k)
<1>1. CASE k = "wtr"
  BY <1>1, ZerosDrop, SMT DEF TimerDone, WtrTimerExpire
<1>2. CASE k = "wtb"
  BY <1>2, ZerosDrop, SMT DEF TimerDone, WtbTimerExpire
<1>3. CASE k = "guard"
  BY <1>3, SMT DEF TimerDone, GuardTimerExpire
<1>4. CASE k = "hold_off"
  <2>1. "SF" \in {"WTR_EXPIRES", "WTB_EXPIRES", "SF"}
    BY Zenon
  <2>2. Handle(s, "SF", "west") = s /\ Handle(s, "SF", "east") = s
    BY <2>1, ZerosDrop, Zenon
  <2>3. HoldOffTimerExpire(s) = Expired(s, "hold_off")
    BY <2>2, Zenon DEF HoldOffTimerExpire
  <2> QED BY <1>4, <2>3, SMT DEF TimerDone
<1> QED BY <1>1, <1>2, <1>3, <1>4, SMT DEF Timers

LEMMA DoneKeeps ==
  ASSUME NEW s, Good(s), NEW k \in Timers, s.run[k] > 0
  PROVE  Keeps(s, TimerDone(s, k))
<1>1. CASE k = "wtr"
  <2>1. PICK t : t = WtrTimerExpire(s)
    OBVIOUS
  <2>2. "wtr" \in {"wtr", "wtb"} /\ t = IF "wtr" = "wtr" THEN WtrTimerExpire(s) ELSE WtbTimerExpire(s)
    BY <2>1, Zenon
  <2>3. Good(t) /\ (Timed(s) => Timed(t))
    BY <1>1, <2>2, WaitExpires, Zenon
  <2>4. TimerDone(s, k) = t
    BY <1>1, <2>1, SMT DEF TimerDone
  <2> QED BY <2>3, <2>4, Zenon DEF Keeps
<1>2. CASE k = "wtb"
  <2>1. PICK t : t = WtbTimerExpire(s)
    OBVIOUS
  <2>2. "wtb" \in {"wtr", "wtb"} /\ t = IF "wtb" = "wtr" THEN WtrTimerExpire(s) ELSE WtbTimerExpire(s)
    BY <2>1, SMT
  <2>3. Good(t) /\ (Timed(s) => Timed(t))
    BY <1>2, <2>2, WaitExpires, Zenon
  <2>4. TimerDone(s, k) = t
    BY <1>2, <2>1, SMT DEF TimerDone
  <2> QED BY <2>3, <2>4, Zenon DEF Keeps
<1>3. CASE k = "guard"
  <2>1. TimerDone(s, k) = GuardTimerExpire(s)
    BY <1>3, SMT DEF TimerDone
  <2> QED BY <1>3, <2>1, GuardKeeps, Zenon DEF Keeps
<1>4. CASE k = "hold_off"
  <2>1. TimerDone(s, k) = HoldOffTimerExpire(s)
    BY <1>4, SMT DEF TimerDone
  <2> QED BY <1>4, <2>1, HoldOffKeeps, Zenon DEF Keeps
<1> QED BY <1>1, <1>2, <1>3, <1>4, SMT DEF Timers

LEMMA TimerExpireKeeps ==
  ASSUME IInv, NEW k \in Timers, TimerExpire(k)
  PROVE  IInv' /\ (Enough /\ TimerInv => TimerInv')
<1>1. (ring' <=> ring) /\ left' = left /\ r.run[k] > 0
  BY Zenon DEF TimerExpire
<1>2. PICK g : g = r
  OBVIOUS
<1>3. PICK h : h = TimerDone(g, k)
  OBVIOUS
<1>4. r' = Quiet(h)
  BY <1>2, <1>3, Zenon DEF TimerExpire, Step, TimerDone
<1>5. CASE ring
  <2>1. Keeps(g, h)
    BY <1>1, <1>2, <1>3, <1>5, DoneKeeps, Zenon DEF IInv
  <2>2. Good(h) /\ (Enough /\ Timed(r) => Timed(h))
    BY <1>2, <2>1, Zenon DEF Keeps
  <2> QED BY <1>1, <1>4, <1>5, <2>2, OnRing, Zenon
<1>6. CASE ~ ring
  <2>1. g \in Ring /\ g.local = "CLEAR"
    BY <1>2, <1>6, Zenon DEF IInv
  <2>2. h = Expired(g, k)
    BY <1>3, <2>1, ZerosExpire, Zenon
  <2>3. TimersOnly(g, h)
    BY <2>1, <2>2, TimerFreed, Zenon
  <2>4. PICK t : t = Quiet(h)
    OBVIOUS
  <2>5. Alike(h, t)
    BY <2>3, <2>4, Quiets, Zenon DEF TimersOnly
  <2>6. t \in Ring /\ SamePorts(r, t) /\ t.local = r.local /\ t.sending = r.sending
    BY <1>2, <2>3, <2>5, Zenon DEF TimersOnly, Alike, SamePorts, SameMode, SameSent
  <2>7. r' = t
    BY <1>4, <2>4
  <2>8. IInv'
    BY <1>1, <1>6, <2>6, <2>7, OffRing, Zenon
  <2>9. ~ TimerInv
    BY <1>1, <1>6, SMT DEF TimerInv, NoneRuns
  <2> QED BY <2>8, <2>9
<1> QED BY <1>5, <1>6

-----------------------------------------------------------------------------
(* Configuration.                                                          *)

LEMMA ConfigTypes ==
  ASSUME NEW c \in Configs
  PROVE  /\ c.roles \in RoleMaps /\ c.pid \in PortMaps
         /\ c.revertive \in BOOLEAN /\ c.holds \in BOOLEAN
         /\ c.pid["west"] # c.pid["east"]
BY NodeAssumption, SMT DEF Config, RoleMaps, PortMaps

LEMMA CreateKeeps ==
  ASSUME IInv, NEW c \in Configs, Create(c)
  PROVE  IInv' /\ (Enough /\ TimerInv => TimerInv')
<1>1. CASE ring
  <2>1. r' = r /\ (ring' <=> ring) /\ left > 0 /\ left' = left - 1
    BY <1>1, Zenon DEF Create
  <2>2. IInv'
    BY <1>1, <2>1, Zenon DEF IInv
  <2>3. ~ TimerInv
    BY <1>1, <2>1, SMT DEF TimerInv
  <2> QED BY <2>2, <2>3
<1>2. CASE ~ ring
  <2>1. PICK stp : stp = r.stp
    OBVIOUS
  <2>2. PICK run : run = r.run
    OBVIOUS
  <2>3. stp \in PhysSets /\ run \in RunMaps /\ stp = {}
    BY <1>2, <2>1, <2>2, Types, SMT DEF IInv, PhysSets, RunMaps
  <2> DEFINE z == Zero(stp, run)
             s1 == PutRoles(z, c.roles)
             s2 == PutPid(s1, c.pid)
             s3 == PutId(s2, Id)
             s4 == PutRevertive(s3, c.revertive)
             s == PutHolds(s4, c.holds)
             i == PutIdx(s, {})
             h == InstanceInit(s)
  <2>4. ring' /\ left > 0 /\ left' = left - 1
    BY <1>2, Zenon DEF Create
  <2>5. r' = Quiet(h)
    BY <1>2, <2>1, <2>2, SMT
       DEF Create, Step, PutRoles, PutPid, PutId, PutRevertive, PutHolds
  <2>6. /\ c.roles \in RoleMaps /\ c.pid \in PortMaps /\ Id \in Nat
        /\ c.revertive \in BOOLEAN /\ c.holds \in BOOLEAN
        /\ c.pid["west"] # c.pid["east"]
    BY ConfigTypes, NodeAssumption, Zenon
  <2>7. z \in Ring /\ z.stp = {} /\ z.run = run
    BY <2>3, ZeroIsRing, Zenon
  <2> HIDE DEF z
  <2>8. SetupOnly(z, s1)
    BY <2>6, <2>7, RolesPut, Zenon
  <2> HIDE DEF s1
  <2>9. SetupOnly(s1, s2) /\ s2.pid = c.pid
    BY <2>6, <2>8, PidPut, Zenon DEF SetupOnly
  <2> HIDE DEF s2
  <2>10. SetupOnly(s2, s3) /\ s3.pid = s2.pid
    BY <2>6, <2>9, IdPut, Zenon DEF SetupOnly
  <2> HIDE DEF s3
  <2>11. SetupOnly(s3, s4) /\ s4.pid = s3.pid
    BY <2>6, <2>10, RevertivePut, Zenon DEF SetupOnly
  <2> HIDE DEF s4
  <2>12. SetupOnly(s4, s) /\ s.pid = s4.pid
    BY <2>6, <2>11, HoldsPut, Zenon DEF SetupOnly
  <2>13. s \in Ring /\ s.pid["west"] # s.pid["east"] /\ s.stp = {} /\ s.run = run
    BY <2>6, <2>7, <2>8, <2>9, <2>10, <2>11, <2>12, ZenonT(60)
       DEF SetupOnly, SamePorts, SameTimers
  <2> HIDE DEF s
  <2>14. Good(h) /\ (Enough /\ Own(i) => Timed(h))
    BY <2>13, InitKeeps, Zenon
  <2> HIDE DEF h
  <2>15. run = NoneRuns => Own(i)
    <3>1. {} \in TimerSets
      BY SMT DEF TimerSets
    <3>2. i.idx = {} /\ i.run = run
      BY <2>13, <3>1, IdxPut, Zenon
    <3> HIDE DEF i
    <3> QED BY <3>2, SMT DEF Own, NoneRuns
  <2> HIDE DEF i
  <2> DEFINE t == Quiet(h)
  <2>16. h \in Ring /\ Alike(h, t)
    BY <2>14, Quiets, Zenon DEF Good
  <2>17. r' = t
    BY <2>5
  <2> HIDE DEF t
  <2>18. Good(t) /\ t \in Ring
    BY <2>14, <2>16, GoodMoves, Zenon DEF Alike
  <2>19. IInv'
    BY <2>4, <2>17, <2>18, Zenon DEF IInv
  <2>20. Timed(h) => Timed(t)
    BY <2>16, OwnMoves, WaitingMoves, Zenon DEF Alike, Timed
  <2>21. TimerInv => run = NoneRuns /\ left \in Nat /\ left <= 1
    BY <1>2, <2>2, Zenon DEF TimerInv
  <2>22. TimerInv => left' \in Nat /\ left' <= 1 /\ left' = 0
    BY <2>4, <2>21, SMT
  <2>23. Enough /\ TimerInv => TimerInv'
    BY <2>4, <2>14, <2>15, <2>17, <2>20, <2>21, <2>22, Zenon DEF TimerInv, Timed
  <2> QED BY <2>19, <2>23
<1> QED BY <1>1, <1>2

LEMMA AllStop ==
  ASSUME NEW s \in Ring
  PROVE  TimersOnly(s, StopAll(s))
<1> DEFINE a == StopTimer(s, "wtr")
           b == StopTimer(a, "wtb")
           c == GuardTimerStop(b)
           d == StopTimer(c, "hold_off")
<1>1. StopAll(s) = d
  BY Zenon DEF StopAll, WtrTimerStop, WtbTimerStop, HoldOffTimerStop
<1>2. TimersOnly(s, a)
  BY TimerNames, TimerStops, Zenon
<1> HIDE DEF a
<1>3. TimersOnly(a, b)
  BY <1>2, TimerNames, TimerStops, Zenon DEF TimersOnly
<1> HIDE DEF b
<1>4. TimersOnly(b, c)
  BY <1>3, TimerNames, TimerStops, TimersSelf, Zenon DEF TimersOnly, GuardTimerStop
<1> HIDE DEF c
<1>5. TimersOnly(c, d)
  BY <1>4, TimerNames, TimerStops, Zenon DEF TimersOnly
<1> HIDE DEF d
<1> QED BY <1>1, <1>2, <1>3, <1>4, <1>5, TimersChain, Zenon

LEMMA DeleteKeeps ==
  ASSUME IInv, Delete
  PROVE  IInv' /\ (TimerInv => TimerInv')
<1>1. ~ ring' /\ left > 0 /\ left' = left - 1
  BY Zenon DEF Delete
<1>2. CASE ring
  <2>1. PICK g : g = r
    OBVIOUS
  <2>2. PICK s : s = RingPortUnblock(StopAll(g))
    OBVIOUS
  <2>3. r' = Zero(s.stp, s.run)
    BY <1>2, <2>1, <2>2, Zenon DEF Delete
  <2>4. g \in Ring /\ Wired(g)
    BY <1>2, <2>1, Zenon DEF IInv, Good
  <2>5. TimersOnly(g, StopAll(g))
    BY <2>4, AllStop, Zenon
  <2>6. StopAll(g) \in Ring /\ Plugged(StopAll(g))
    BY <2>4, <2>5, WiredMoves, WiredIsPlugged, Zenon DEF TimersOnly
  <2>7. s \in Ring /\ s.stp = {}
    BY <2>2, <2>6, AllOpen, Zenon DEF PortsOnly
  <2>8. PICK stp \in PhysSets : stp = s.stp
    <3>1. s.stp \in PhysSets
      BY <2>7, Types, SMT DEF PhysSets
    <3> QED BY <3>1
  <2>9. PICK run \in RunMaps : run = s.run
    <3>1. s.run \in RunMaps
      BY <2>7, Types, SMT DEF RunMaps
    <3> QED BY <3>1
  <2>10. PICK t : t = Zero(stp, run)
    OBVIOUS
  <2>11. t \in Ring /\ t.stp = stp /\ t.local = "CLEAR" /\ ~ t.sending
    BY <2>10, ZeroIsRing, ZenonT(60)
  <2>12. r' = t /\ t.stp = {}
    BY <2>3, <2>7, <2>8, <2>9, <2>10, <2>11, Zenon
  <2>13. IInv'
    BY <1>1, <2>11, <2>12, Zenon DEF IInv
  <2>14. ~ TimerInv
    BY <1>1, <1>2, SMT DEF TimerInv
  <2> QED BY <2>13, <2>14
<1>3. CASE ~ ring
  <2>1. CASE r' = r
    <3>1. IInv'
      BY <1>1, <1>3, <2>1, Zenon DEF IInv
    <3>2. TimerInv => left' \in Nat /\ left' <= 1
      BY <1>1, SMT DEF TimerInv
    <3>3. TimerInv => TimerInv'
      BY <1>1, <1>3, <2>1, <3>2, Zenon DEF TimerInv
    <3> QED BY <3>1, <3>3
  <2>2. ASSUME NEW k \in Timers, r.run[k] > 0, r' = [r EXCEPT !.run[k] = @ - 1]
        PROVE  IInv' /\ ~ TimerInv
    <3>1. PICK g : g = r
      OBVIOUS
    <3>2. PICK run : run = [g.run EXCEPT ![k] = g.run[k] - 1]
      OBVIOUS
    <3>3. g \in Ring
      BY <3>1, Zenon DEF IInv
    <3>4. run \in RunMaps
      BY <3>2, <3>3, Types, SMT DEF RunMaps
    <3>5. PICK t : t = PutRun(g, run)
      OBVIOUS
    <3>6. r' = t
      BY <2>2, <3>1, <3>2, <3>5, SMT DEF PutRun
    <3>7. TimersOnly(g, t)
      BY <3>3, <3>4, <3>5, RunPut, Zenon
    <3>8. t \in Ring /\ SamePorts(r, t) /\ t.local = r.local /\ t.sending = r.sending
      BY <3>1, <3>7, Zenon DEF TimersOnly, SameMode, SameSent
    <3>9. IInv'
      BY <1>1, <1>3, <3>6, <3>8, OffRing, Zenon
    <3>10. ~ TimerInv
      BY <1>3, <2>2, SMT DEF TimerInv, NoneRuns
    <3> QED BY <3>9, <3>10
  <2> QED BY <1>3, <2>1, <2>2, Zenon DEF Delete
<1> QED BY <1>2, <1>3

\* The ports of the switch follow the ring while its ports are moved.
Follows(s) == (s.fw <=> s.blocked = {}) /\ s.stp = {s.pid[x] : x \in s.blocked}

\* What the move of port p to its place in configuration c changes.
Moved(s, t, p, c) ==
  /\ t \in Ring /\ SameTimers(s, t) /\ SameSent(s, t) /\ SameMode(s, t)
  /\ Follows(t)
  /\ t.pid[p] = c.pid[p] /\ t.roles[p] = c.roles[p]
  /\ \A x \in Ports : x # p => t.pid[x] = s.pid[x] /\ t.roles[x] = s.roles[x]
  /\ t.revertive = s.revertive /\ t.failed = s.failed
  /\ t.blocked = IF s.pid[p] # c.pid[p] THEN s.blocked \ {p} ELSE s.blocked
  /\ s.pid[p] = c.pid[p] => SamePorts(s, t)

LEMMA PortMoves ==
  ASSUME NEW s \in Ring, Follows(s), NEW p \in Ports, NEW c \in Configs,
         Another(p) \in s.blocked => s.pid[p] # s.pid[Another(p)]
  PROVE  Moved(s, MovePort(s, p, c), p, c)
<1> DEFINE u == IF s.pid[p] # c.pid[p] THEN Unblock(s, p) ELSE s
           P == [s.pid EXCEPT ![p] = c.pid[p]]
           R == [s.roles EXCEPT ![p] = c.roles[p]]
           a == PutPid(u, P)
           t == PutRoles(a, R)
<1>1. /\ PortsOnly(s, u)
      /\ u.blocked = IF s.pid[p] # c.pid[p] THEN s.blocked \ {p} ELSE s.blocked
      /\ s.pid[p] = c.pid[p] => u = s
  BY UnblockPort, PortsSelf, Zenon
<1>2. Follows(u) /\ (s.pid[p] # c.pid[p] => p \notin u.blocked)
  <2>1. CASE s.pid[p] = c.pid[p] \/ p \notin s.blocked
    BY <1>1, <2>1, UnblockPort, SMT
  <2>2. CASE s.pid[p] # c.pid[p] /\ p \in s.blocked
    <3>1. /\ u.blocked = s.blocked \ {p} /\ u.stp = s.stp \ {s.pid[p]}
          /\ u.fw <=> Another(p) \notin s.blocked
      BY <2>2, UnblockPort, Zenon
    <3>2. u.pid = s.pid
      BY <1>1, Zenon DEF PortsOnly, SameSetup
    <3>3. s.blocked \subseteq {p, Another(p)} /\ Another(p) # p
      BY Types, AnotherPort, Zenon
    <3> HIDE DEF u
    <3>4. u.stp = {u.pid[x] : x \in u.blocked}
      BY <2>2, <3>1, <3>2, <3>3, SMT DEF Follows
    <3>5. u.fw <=> u.blocked = {}
      BY <3>1, <3>3, SMT
    <3> QED BY <3>1, <3>4, <3>5, SMT DEF Follows
  <2> QED BY <2>1, <2>2
<1>3. u \in Ring /\ u.pid = s.pid /\ u.roles = s.roles
  BY <1>1, Zenon DEF PortsOnly, SameSetup
<1>4. MovePort(s, p, c) = t
  <2>1. MovePort(s, p, c) = [u EXCEPT !.pid[p] = c.pid[p], !.roles[p] = c.roles[p]]
    BY Zenon DEF MovePort
  <2> HIDE DEF u
  <2>2. P = [u.pid EXCEPT ![p] = c.pid[p]] /\ R = [u.roles EXCEPT ![p] = c.roles[p]]
    BY <1>3, Zenon
  <2> HIDE DEF P, R
  <2>3. [u EXCEPT !.pid[p] = c.pid[p], !.roles[p] = c.roles[p]] = t
    BY <2>2, SMT DEF PutRoles, PutPid
  <2> QED BY <2>1, <2>3, Zenon
<1> HIDE DEF u
<1>5. P \in PortMaps /\ R \in RoleMaps
  <2>1. s.pid \in [Ports -> Phys] /\ s.roles \in [Ports -> Roles]
    BY Types, Zenon
  <2>2. c.pid \in [Ports -> Phys] /\ c.roles \in [Ports -> Roles]
    BY ConfigTypes, Zenon DEF PortMaps, RoleMaps
  <2> QED BY <2>1, <2>2, SMT DEF PortMaps, RoleMaps
<1>6. /\ P[p] = c.pid[p] /\ R[p] = c.roles[p]
      /\ \A x \in Ports : x # p => P[x] = s.pid[x] /\ R[x] = s.roles[x]
  BY Types, SMT
<1> HIDE DEF P, R
<1>7. SetupOnly(u, a) /\ a.pid = P /\ a.roles = u.roles /\ a.revertive = u.revertive
        /\ a.failed = u.failed
  BY <1>3, <1>5, PidPut, Zenon
<1> HIDE DEF a
<1>8. SetupOnly(a, t) /\ t.roles = R /\ t.pid = a.pid /\ t.revertive = a.revertive
        /\ t.failed = a.failed
  BY <1>5, <1>7, RolesPut, Zenon DEF SetupOnly
<1> HIDE DEF t
<1>9. /\ t \in Ring /\ SameTimers(s, t) /\ SameSent(s, t) /\ SameMode(s, t)
      /\ t.revertive = s.revertive /\ t.failed = s.failed /\ SamePorts(u, t)
  BY <1>1, <1>7, <1>8, Zenon
     DEF PortsOnly, SetupOnly, SameTimers, SameSent, SameMode, SamePorts, SameSetup
<1>10. Follows(t)
  <2>1. u.blocked \subseteq Ports
    BY <1>3, Types, Zenon
  <2>2. \A x \in u.blocked : t.pid[x] = u.pid[x]
    BY <1>2, <1>3, <1>6, <1>7, <1>8, <2>1, SMT
  <2>3. t.blocked = u.blocked /\ t.stp = u.stp /\ (t.fw <=> u.fw)
    BY <1>9, Zenon DEF SamePorts
  <2>4. t.stp = {t.pid[x] : x \in t.blocked}
    BY <1>2, <2>2, <2>3, SMT DEF Follows
  <2> QED BY <1>2, <2>3, <2>4, Zenon DEF Follows
<1>11. /\ t.pid[p] = c.pid[p] /\ t.roles[p] = c.roles[p]
       /\ \A x \in Ports : x # p => t.pid[x] = s.pid[x] /\ t.roles[x] = s.roles[x]
  BY <1>6, <1>7, <1>8, Zenon
<1>12. t.blocked = IF s.pid[p] # c.pid[p] THEN s.blocked \ {p} ELSE s.blocked
  BY <1>1, <1>9, Zenon DEF SamePorts
<1>13. s.pid[p] = c.pid[p] => SamePorts(s, t)
  BY <1>1, <1>9, Zenon
<1>14. Moved(s, t, p, c)
  BY <1>9, <1>10, <1>11, <1>12, <1>13, Zenon DEF Moved
<1> QED BY <1>4, <1>14, Zenon

LEMMA UpdateKeeps ==
  ASSUME IInv, NEW c \in Configs, Update(c)
  PROVE  IInv' /\ ~ TimerInv
<1>1. ring /\ ring' /\ left > 0 /\ left' = left - 1 /\ Good(r)
  BY Zenon DEF Update, IInv
<1>2. ~ TimerInv
  BY <1>1, SMT DEF TimerInv
<1>3. PICK g : g = r
  OBVIOUS
<1> DEFINE v == PutRevertive(g, c.revertive)
           w == MovePort(v, "west", c)
           e == MovePort(w, "east", c)
           h == PutHolds(e, c.holds)
           same == g.revertive = c.revertive /\ g.pid = c.pid /\ g.roles = c.roles
<1>4. r' = IF same THEN Quiet(h) ELSE Quiet(Flush(InstanceUpdate(h)))
  BY <1>3, Zenon DEF Update, Step, PutRevertive, PutHolds
<1>5. /\ c.roles \in RoleMaps /\ c.pid \in PortMaps
      /\ c.revertive \in BOOLEAN /\ c.holds \in BOOLEAN
      /\ c.pid["west"] # c.pid["east"]
  BY ConfigTypes, Zenon
<1>6. g \in Ring /\ Wired(g) /\ Good(g)
  BY <1>1, <1>3, Zenon DEF Good
<1>7. SetupOnly(g, v) /\ v.pid = g.pid /\ v.roles = g.roles /\ v.revertive = c.revertive
        /\ v.failed = g.failed
  BY <1>5, <1>6, RevertivePut, Zenon
<1> HIDE DEF v
<1>8. /\ v \in Ring /\ SamePorts(g, v) /\ SameTimers(g, v) /\ SameSent(g, v)
      /\ SameMode(g, v)
  BY <1>7, Zenon DEF SetupOnly
<1>9. Follows(v) /\ v.pid["west"] # v.pid["east"]
  BY <1>6, <1>7, <1>8, Zenon DEF Wired, Follows, SamePorts
<1>10. /\ "west" \in Ports /\ "east" \in Ports
       /\ Another("west") = "east" /\ Another("east") = "west" /\ "west" # "east"
  BY SMT DEF Ports, Another
<1>11. Moved(v, w, "west", c)
  <2>1. Another("west") \in v.blocked => v.pid["west"] # v.pid[Another("west")]
    BY <1>9, <1>10, Zenon
  <2> QED BY <1>8, <1>9, <1>10, <2>1, PortMoves, SMT
<1> HIDE DEF w
<1>12. /\ w \in Ring /\ Follows(w)
       /\ w.pid["west"] = c.pid["west"] /\ w.roles["west"] = c.roles["west"]
       /\ w.pid["east"] = v.pid["east"] /\ w.roles["east"] = v.roles["east"]
       /\ v.pid["west"] # c.pid["west"] => "west" \notin w.blocked
  BY <1>10, <1>11, SMT DEF Moved
<1>13. "west" \in w.blocked => w.pid["east"] # w.pid["west"]
  BY <1>9, <1>12, Zenon
<1>14. Moved(w, e, "east", c)
  <2>1. Another("east") \in w.blocked => w.pid["east"] # w.pid[Another("east")]
    BY <1>10, <1>13, Zenon
  <2> QED BY <1>10, <1>12, <2>1, PortMoves, SMT
<1>15. /\ e \in Ring /\ Follows(e)
       /\ e.pid["east"] = c.pid["east"] /\ e.roles["east"] = c.roles["east"]
       /\ e.pid["west"] = c.pid["west"] /\ e.roles["west"] = c.roles["west"]
  BY <1>10, <1>12, <1>14, SMT DEF Moved
<1> HIDE DEF e
<1>16. /\ SetupOnly(e, h) /\ h.pid = e.pid /\ h.roles = e.roles
       /\ h.revertive = e.revertive /\ h.failed = e.failed
  BY <1>5, <1>15, HoldsPut, Zenon
<1> HIDE DEF h
<1>17. /\ h \in Ring /\ SamePorts(e, h) /\ SameTimers(e, h) /\ SameSent(e, h)
       /\ SameMode(e, h)
  BY <1>16, Zenon DEF SetupOnly
<1>18. e.roles = c.roles
  <2>1. e.roles \in [Ports -> Roles] /\ c.roles \in [Ports -> Roles]
    BY <1>15, ConfigTypes, Types, Zenon DEF RoleMaps
  <2> QED BY <1>15, <2>1, SMT DEF Ports
<1>19. Wired(h)
  <2>1. h.pid["west"] # h.pid["east"]
    BY <1>5, <1>15, <1>16, Zenon
  <2>2. (h.fw <=> h.blocked = {}) /\ h.stp = {h.pid[x] : x \in h.blocked}
    BY <1>15, <1>16, <1>17, SMT DEF Follows, SamePorts
  <2> QED BY <2>1, <2>2, SMT DEF Wired
<1>20. CASE same
  <2>1. SamePorts(g, h)
    <3>1. v.pid["west"] = c.pid["west"] /\ w.pid["east"] = c.pid["east"]
      BY <1>7, <1>12, <1>20, Zenon
    <3> QED BY <1>8, <1>11, <1>14, <1>17, <3>1, Zenon DEF Moved, SamePorts
  <2>2. SameSent(g, h) /\ SameMode(g, h)
    BY <1>8, <1>11, <1>14, <1>17, Zenon DEF Moved, SameSent, SameMode
  <2>4. h.roles = g.roles /\ h.failed = g.failed
    BY <1>7, <1>11, <1>14, <1>16, <1>18, <1>20, Zenon DEF Moved
  <2>5. (Owner(h) <=> Owner(g)) /\ RplPort(h) = RplPort(g)
    BY <2>4, Zenon DEF Owner, NodeType, HasRole, RplPort
  <2>6. Good(h)
    BY <1>6, <1>17, <1>19, <2>1, <2>2, <2>4, <2>5, Zenon
       DEF Good, Failing, Blocking, SameSent, SameMode, SamePorts
  <2> DEFINE t == Quiet(h)
  <2>7. Alike(h, t)
    BY <1>17, Quiets, Zenon
  <2>8. r' = t
    BY <1>4, <1>20, Zenon
  <2> HIDE DEF t
  <2>9. Good(t) /\ t \in Ring
    BY <2>6, <2>7, GoodMoves, Zenon DEF Alike
  <2> QED BY <1>1, <1>2, <2>8, <2>9, Zenon DEF IInv
<1>21. CASE ~ same
  <2> DEFINE i == PutIdx(h, {})
             o == RingPortUnblock(i)
             m == StateMachineInit(o)
             k == CheckLinks(m)
             f == Flush(k)
             t == Quiet(f)
  <2>1. r' = t
    BY <1>4, <1>21, Zenon DEF InstanceUpdate, PutIdx
  <2>2. {} \in TimerSets
    BY SMT DEF TimerSets
  <2>3. TimersOnly(h, i) /\ i.idx = {}
    BY <1>17, <2>2, IdxPut, Zenon
  <2> HIDE DEF i
  <2>4. i \in Ring /\ Plugged(i)
    BY <1>17, <1>19, <2>3, WiredMoves, WiredIsPlugged, Zenon DEF TimersOnly
  <2>5. PortsOnly(i, o) /\ Plugged(o) /\ o.stp = {}
    BY <2>4, AllOpen, Zenon
  <2> HIDE DEF o
  <2>6. o \in Ring /\ o.idx = {} /\ o.pid["west"] # o.pid["east"]
    BY <2>3, <2>5, Zenon DEF PortsOnly, Plugged, SameTimers
  <2>7. Good(m)
    BY <2>5, <2>6, StartsGood, Zenon
  <2> HIDE DEF m
  <2>8. Good(k)
    BY <2>7, ChecksKeep, Zenon DEF Keeps
  <2> HIDE DEF k
  <2>9. k \in Ring /\ Alike(k, f)
    BY <2>8, Flushes, Zenon DEF Good
  <2> HIDE DEF f
  <2>10. f \in Ring /\ Good(f)
    BY <2>8, <2>9, GoodMoves, Zenon DEF Alike
  <2>11. Alike(f, t)
    BY <2>10, Quiets, Zenon
  <2> HIDE DEF t
  <2>12. t \in Ring /\ Good(t)
    BY <2>10, <2>11, GoodMoves, Zenon DEF Alike
  <2> QED BY <1>1, <1>2, <2>1, <2>12, Zenon DEF IInv
<1> QED BY <1>20, <1>21

-----------------------------------------------------------------------------
(* The theorems.                                                           *)

LEMMA StartKeepsAll ==
  ASSUME Init
  PROVE  IInv /\ (MaxConfig <= 1 => TimerInv)
<1>1. PICK stp \in PhysSets : stp = {}
  <2>1. {} \in PhysSets
    BY SMT DEF PhysSets
  <2> QED BY <2>1
<1>2. PICK run \in RunMaps : run = NoneRuns
  <2>1. NoneRuns \in RunMaps
    BY SMT DEF RunMaps, NoneRuns
  <2> QED BY <2>1
<1>3. r = Zero(stp, run) /\ ~ ring /\ left = MaxConfig
  BY <1>1, <1>2, Zenon DEF Init
<1>4. /\ r \in Ring /\ r.stp = stp /\ r.run = run /\ r.idx = {}
      /\ r.local = "CLEAR" /\ ~ r.sending
  BY <1>3, ZeroIsRing, ZenonT(60)
<1>5. IInv
  BY <1>1, <1>3, <1>4, Zenon DEF IInv
<1>6. MaxConfig \in Nat
  BY NodeAssumption, Zenon
<1>7. MaxConfig <= 1 => TimerInv
  BY <1>2, <1>3, <1>4, <1>6, Zenon DEF TimerInv
<1> QED BY <1>5, <1>7

LEMMA StepKeepsAll ==
  ASSUME IInv, [Next]_vars
  PROVE  IInv' /\ (Enough /\ TimerInv => TimerInv')
<1>1. ASSUME NEW c \in Configs, Create(c) \/ Update(c)
      PROVE  IInv' /\ (Enough /\ TimerInv => TimerInv')
  BY <1>1, CreateKeeps, UpdateKeeps, Zenon
<1>2. CASE Delete
  BY <1>2, DeleteKeeps, Zenon
<1>3. ASSUME NEW q \in Phys, LinkToggle(q)
      PROVE  IInv' /\ (Enough /\ TimerInv => TimerInv')
  <2>1. UNCHANGED <<r, ring, left>>
    BY <1>3, Zenon DEF LinkToggle
  <2> QED BY <2>1, UnchangedKeeps, Zenon
<1>4. CASE GswIsr
  <2>1. UNCHANGED <<r, ring, left>>
    BY <1>4, Zenon DEF GswIsr
  <2> QED BY <2>1, UnchangedKeeps, Zenon
<1>5. CASE LinkEvent
  BY <1>5, LinkEventKeeps, Zenon
<1>6. CASE DownEvent
  BY <1>6, DownEventKeeps, Zenon
<1>7. CASE Poll
  BY <1>7, PollKeeps, Zenon
<1>8. ASSUME NEW p \in Ports, NEW m \in Inputs, NEW node \in Remotes, RapsInput(p, m, node)
      PROVE  IInv' /\ (Enough /\ TimerInv => TimerInv')
  BY <1>8, RapsInputKeeps, Zenon
<1>9. ASSUME NEW k \in Timers, TimerExpire(k)
      PROVE  IInv' /\ (Enough /\ TimerInv => TimerInv')
  BY <1>9, TimerExpireKeeps, Zenon
<1>10. CASE UNCHANGED vars
  <2>1. UNCHANGED <<r, ring, left>>
    BY <1>10, Zenon DEF vars
  <2> QED BY <2>1, UnchangedKeeps, Zenon
<1> QED BY <1>1, <1>2, <1>3, <1>4, <1>5, <1>6, <1>7, <1>8, <1>9, <1>10, Zenon DEF Next

\* In every state the ports of the switch are as the ring has them, a local
\* failure is protected, and RB is sent only over a blocked RPL; before the
\* instance exists no port is closed, and nothing is requested or sent.
THEOREM Inductive == Spec => []IInv
<1>1. Init => IInv
  BY StartKeepsAll, Zenon
<1>2. IInv /\ [Next]_vars => IInv'
  BY StepKeepsAll, Zenon
<1> QED BY <1>1, <1>2, PTL DEF Spec

\* While a local failure is the top request (erps_state_machine.c) the node is
\* in the Protection state, sends SF, and blocks failed ports and no other,
\* whatever is configured, fails, arrives or expires in between.
THEOREM FailuresAreProtected == Spec => []FailureIsProtected
<1>1. IInv => FailureIsProtected
  <2>1. Failing(r) => FailureIsProtected
    BY Zenon DEF Failing, FailureIsProtected
  <2>2. r.local = "CLEAR" => FailureIsProtected
    BY SMT DEF FailureIsProtected
  <2> QED BY <2>1, <2>2, Zenon DEF IInv, Good
<1> QED BY <1>1, Inductive, PTL

\* A node that sends RB is the idle owner of the ring and blocks its RPL port
\* and no other, also after updates that change its role or its ports.
THEOREM RbIsTrue == Spec => []RbMeansBlocked
<1>1. IInv => RbMeansBlocked
  BY Zenon DEF IInv, Good, Blocking, RbMeansBlocked
<1> QED BY <1>1, Inductive, PTL

\* The R-APS forwarding and the STP states of the switch follow the ring: no
\* port stays closed that left it, by an update or with the instance.
THEOREM HardwareIsRight == Spec => []HardwareFollows
<1>1. IInv => HardwareFollows
  BY Zenon DEF IInv, Good, Wired, HardwareFollows
<1> QED BY <1>1, Inductive, PTL

LEMMA TimersInductive ==
  ASSUME Enough, MaxConfig <= 1
  PROVE  Spec => [](IInv /\ TimerInv)
<1>1. Init => IInv /\ TimerInv
  BY StartKeepsAll, Zenon
<1>2. IInv /\ TimerInv /\ [Next]_vars => (IInv /\ TimerInv)'
  BY StepKeepsAll, Zenon
<1> QED BY <1>1, <1>2, PTL DEF Spec

\* With four slots (ERPS_MAX_TIMER_NUM) a configured ring whose configuration
\* does not change has each timer in at most one slot and knows its index.
THEOREM TimersAreKnown ==
  ASSUME Enough, MaxConfig <= 1
  PROVE  Spec => []TimersAreOwn
<1>1. IInv /\ TimerInv => TimersAreOwn
  <2>1. NoneRuns = [k \in Timers |-> 0]
    BY Zenon DEF NoneRuns
  <2> QED BY <2>1, SMT DEF TimerInv, Own, TimersAreOwn
<1> QED BY <1>1, TimersInductive, PTL

\* The same ring waits to revert only as the owner of a revertive ring in the
\* Pending state, and never gives way to a timer that does not run.
THEOREM WaitingEnds ==
  ASSUME Enough, MaxConfig <= 1
  PROVE  Spec => []WaitIsPending
<1>1. IInv /\ TimerInv => WaitIsPending
  <2>1. Waiting(r) => WaitIsPending
    BY SMT DEF Waiting, WaitIsPending
  <2>2. r.idx = {} /\ r.local = "CLEAR" => WaitIsPending
    BY SMT DEF WaitIsPending
  <2> QED BY <2>1, <2>2, Zenon DEF IInv, TimerInv
<1> QED BY <1>1, TimersInductive, PTL
===============================================================================
