------------------------------ MODULE LoopPrev ------------------------------
(***************************************************************************)
(* Loop prevention: every second the task sends a detection frame from     *)
(* each port, one from each trunk, and blocks a port when such a frame     *)
(* comes back.  Around it: the ports that are wired together outside, the  *)
(* links, the frames on their way, and the notifications of the database.  *)
(*                                                                         *)
(* The build with frames sent by software and without the detection mode;  *)
(* LEDs and ACL entries are left out.                                      *)
(***************************************************************************)
EXTENDS Integers, FiniteSets, FiniteSetsExt

CONSTANTS
  Ports,
  Groups,     \* trunks: MAX_TRUNK_NUM
  Members,    \* what a trunk may consist of
  Wirings,    \* the ports that may be wired together
  Period,     \* LP_BLOCK_PERIOD / LP_TIMER_PERIOD
  Resume,     \* LP_FLOW_CONTROL_RESUME_TIME
  MaxMiss,    \* seconds in a row in which frames are lost
  MaxChange   \* changes of configuration, links and wiring

ASSUME LoopAssumption ==
  /\ Ports \subseteq Nat \ {0} /\ Groups \subseteq Nat \ {0}
  /\ Members \subseteq SUBSET Ports /\ {} \in Members
  /\ Wirings \subseteq SUBSET Ports
  /\ Period \in Nat \ {0} /\ Resume \in Nat \ {0}
  /\ MaxMiss \in Nat /\ MaxChange \in Nat

None == 0
Modes == {"DISABLE", "PREVENTION"}

VARIABLES
  mode,       \* lp_admin
  blocked, looped,          \* blocked_pbmp, looped_pbmp
  blockTimer, loopTimer,
  group,      \* trunk_info
  forced,     \* the ports whose flow control is off: ref_cnt of record_mcr
  resume,     \* ptr_fc_resume_timer
  told,       \* PORT_LOOP_STATE as it was last sent to the database
  up,         \* links
  news,       \* ports whose notification of link up is in the queue
  joined,     \* the ports that are wired together
  wire,       \* frames on their way and in the queue
  missed, lost, changes     \* bounds on losses and changes

lp == <<mode, blocked, looped, blockTimer, loopTimer, forced, resume, told>>
env == <<up, news, joined>>
bounds == <<missed, lost, changes>>
vars == <<lp, group, env, wire, bounds>>

(* The trunk of a port as a set of at most one.                            *)
GroupOf(p) == {i \in Groups : p \in group[i]}
Unit(p) == {p} \cup UNION {group[i] : i \in GroupOf(p)}
Alive(p) == Unit(p) \cap up # {}

Init ==
  /\ mode = "PREVENTION" /\ blocked = {} /\ looped = {}
  /\ blockTimer = [p \in Ports |-> 0] /\ loopTimer = [p \in Ports |-> 0]
  /\ group \in {g \in [Groups -> Members] : \A i, j \in Groups : i # j => g[i] \cap g[j] = {}}
  /\ forced = {} /\ resume = [p \in Ports |-> 0]
  /\ told = [p \in Ports |-> "NORMAL"]
  /\ up = Ports /\ news = {} /\ wire = {}
  /\ joined \in Wirings
  /\ missed = 0 /\ lost = FALSE /\ changes = 0

-----------------------------------------------------------------------------
(* A function changed to value v on the ports of S.                        *)
Set(f, S, v) == [p \in Ports |-> IF p \in S THEN v ELSE f[p]]

(* Frames name the port they left and its trunk, and come in at every      *)
(* other port that is wired to it, those of its trunk excepted.            *)
Senders ==
  {<<p, None>> : p \in {q \in Ports : GroupOf(q) = {}}}
    \cup {<<Min(group[i]), i>> : i \in {j \in Groups : group[j] # {}}}
Frames ==
  {[tx |-> s[1], trunk |-> s[2], rx |-> q] :
     s \in {x \in Senders : x[1] \in joined \cap up}, q \in joined \cap up}
Sent == {f \in Frames : f.rx \notin Unit(f.tx)}

Ended(timer) == {p \in Ports : timer[p] > 0 /\ (timer[p] = 1 \/ ~ Alive(p))}

Less(timer) == [p \in Ports |-> IF timer[p] = 0 \/ p \in Ended(timer) THEN 0 ELSE timer[p] - 1]

\* Mutant: a port that is released keeps its flow control off.
TickForced ==
  /\ mode = "PREVENTION" /\ wire = {}
  /\ wire' = Sent
  /\ loopTimer' = Less(loopTimer) /\ blockTimer' = Less(blockTimer)
  /\ looped' = looped \ Ended(loopTimer) /\ blocked' = blocked \ Ended(blockTimer)
  /\ told' = [p \in Ports |->
       IF p \in Ended(blockTimer) \/ (p \in Ended(loopTimer) \ blocked)
       THEN IF p \in looped' THEN "LOOP" ELSE "NORMAL" ELSE told[p]]
  /\ resume' = [p \in Ports |-> IF resume[p] = 0 THEN 0 ELSE resume[p] - 1]
  /\ forced' = forced \ {p \in Ports : resume[p] = 1 /\ p \notin blocked}
  /\ missed' = IF lost THEN missed + 1 ELSE 0
  /\ lost' = FALSE
  /\ UNCHANGED <<mode, group, env, changes>>

(* The timer.  Ports whose time is over, or whose link is down, are no     *)
(* longer looped or blocked.  The frames of a second are handled within it.*)
Tick ==
  /\ mode = "PREVENTION" /\ wire = {}
  /\ wire' = Sent
  /\ loopTimer' = Less(loopTimer) /\ blockTimer' = Less(blockTimer)
  /\ looped' = looped \ Ended(loopTimer) /\ blocked' = blocked \ Ended(blockTimer)
  /\ told' = [p \in Ports |->
       IF p \in (blocked \cap Ended(blockTimer)) \cup (Ended(loopTimer) \ blocked)
       THEN IF p \in looped' THEN "LOOP" ELSE "NORMAL" ELSE told[p]]
  /\ resume' = [p \in Ports |-> IF resume[p] = 0 THEN 0 ELSE resume[p] - 1]
  /\ forced' = forced \ ({p \in Ports : resume[p] = 1 /\ p \notin blocked}
                           \cup (blocked \cap Ended(blockTimer)))
  /\ missed' = IF lost THEN missed + 1 ELSE 0
  /\ lost' = FALSE
  /\ UNCHANGED <<mode, group, env, changes>>

-----------------------------------------------------------------------------
(* Which of two ports is to be blocked: the one that is no trunk, or of    *)
(* two ports or two trunks the higher.  True if it is the sender.          *)

\* Mutant: a frame of a port does not ask whether the receiver is in a trunk.
BlocksSenderBoth(f) ==
  IF f.trunk = None THEN f.tx >= f.rx
  ELSE /\ GroupOf(f.rx) # {}
       /\ \E i \in GroupOf(f.tx) : Min(Unit(f.rx)) <= Min(group[i])

BlocksSender(f) ==
  IF f.trunk = None THEN GroupOf(f.rx) # {} \/ f.tx >= f.rx
  ELSE /\ GroupOf(f.rx) # {}
       /\ \E i \in GroupOf(f.tx) : Min(Unit(f.rx)) <= Min(group[i])

SenderPorts(f) == IF f.trunk = None THEN Unit(f.tx) ELSE group[f.trunk]

(* A detection frame came back.                                            *)
Receive(f) ==
  /\ f \in wire /\ wire' = wire \ {f}
  /\ IF mode = "DISABLE" THEN UNCHANGED lp
     ELSE LET block == {p \in IF BlocksSender(f) THEN SenderPorts(f) ELSE Unit(f.rx) : Alive(p)}
              other == IF BlocksSender(f) THEN Unit(f.rx) ELSE SenderPorts(f)
              loop  == {p \in other \ (block \cup blocked) : Alive(p)}
          IN  /\ blockTimer' = Set(blockTimer, block, Period)
              /\ loopTimer' = Set(loopTimer, loop, Period)
              /\ blocked' = blocked \cup block
              /\ looped' = (looped \ block) \cup loop
              /\ told' = Set(Set(told, block \ blocked, "BLOCK"), loop \ looped, "LOOP")
              /\ forced' = forced \cup ((block \ blocked) \cap up)
              /\ UNCHANGED <<mode, resume>>
  /\ UNCHANGED <<group, env, bounds>>

Lose(f) ==
  /\ f \in wire /\ wire' = wire \ {f}
  /\ missed < MaxMiss /\ lost' = TRUE
  /\ UNCHANGED <<lp, group, env, missed, changes>>

-----------------------------------------------------------------------------
(* Notifications.                                                          *)

Change == changes < MaxChange /\ changes' = changes + 1

\* Mutant: ports that are only looped are not reported.
SetModeQuiet(m) ==
  /\ m # mode /\ mode' = m
  /\ blocked' = {} /\ looped' = {}
  /\ blockTimer' = Set(blockTimer, blocked, 0)
  /\ loopTimer' = Set(loopTimer, looped, 0)
  /\ told' = Set(told, blocked, "NORMAL")
  /\ forced' = forced \ blocked
  /\ Change /\ UNCHANGED <<resume, group, env, wire, missed, lost>>

(* LOOP_PREVEN_ENABLE: nothing is looped or blocked afterwards.            *)
SetMode(m) ==
  /\ m # mode /\ mode' = m
  /\ blocked' = {} /\ looped' = {}
  /\ blockTimer' = Set(blockTimer, blocked, 0)
  /\ loopTimer' = Set(loopTimer, looped, 0)
  /\ told' = Set(told, blocked \cup looped, "NORMAL")
  /\ forced' = forced \ blocked
  /\ Change /\ UNCHANGED <<resume, group, env, wire, missed, lost>>

\* Mutant: the ports of a trunk keep their own states.
SetTrunkOnly(i, S) ==
  /\ group[i] # S /\ \A j \in Groups \ {i} : group[j] \cap S = {}
  /\ group' = [group EXCEPT ![i] = S]
  /\ Change /\ UNCHANGED <<lp, env, wire, missed, lost>>

\* Mutant: ports that follow their trunk are blocked without a timer.
SetTrunkUntimed(i, S) ==
  LET g == [group EXCEPT ![i] = S]
      Hit(P) == UNION {g[j] : j \in {k \in Groups : g[k] \cap P # {}}}
      loop == Hit(looped) \ Hit(blocked)
  IN  /\ group[i] # S /\ \A j \in Groups \ {i} : group[j] \cap S = {}
      /\ group' = g
      /\ blocked' = blocked \cup Hit(blocked)
      /\ looped' = (looped \ Hit(blocked)) \cup loop
      /\ told' = Set(Set(told, Hit(blocked), "BLOCK"), loop, "LOOP")
      /\ forced' = forced \cup (Hit(blocked) \cap up)
      /\ Change /\ UNCHANGED <<mode, blockTimer, loopTimer, resume, env, wire, missed, lost>>

(* TRUNK_MEMBERS: the ports of every trunk with a blocked port are blocked,*)
(* those of another with a looped port are looped, for a whole period.     *)
SetTrunk(i, S) ==
  LET g == [group EXCEPT ![i] = S]
      Hit(P) == UNION {g[j] : j \in {k \in Groups : g[k] \cap P # {}}}
      loop == Hit(looped) \ Hit(blocked)
  IN  /\ group[i] # S /\ \A j \in Groups \ {i} : group[j] \cap S = {}
      /\ group' = g
      /\ blocked' = blocked \cup Hit(blocked)
      /\ looped' = (looped \ Hit(blocked)) \cup loop
      /\ blockTimer' = Set(blockTimer, Hit(blocked), Period)
      /\ loopTimer' = Set(loopTimer, loop, Period)
      /\ told' = Set(Set(told, Hit(blocked), "BLOCK"), loop, "LOOP")
      /\ forced' = forced \cup (Hit(blocked) \cap up)
      /\ Change /\ UNCHANGED <<mode, resume, env, wire, missed, lost>>

(* PORT_OPER_STATUS: a port that comes up starts without flow control.     *)
LinkNews(p) ==
  /\ p \in news /\ news' = news \ {p}
  /\ IF mode = "DISABLE" THEN UNCHANGED <<forced, resume>>
     ELSE forced' = forced \cup ({p} \cap up) /\ resume' = Set(resume, {p}, Resume)
  /\ UNCHANGED <<mode, blocked, looped, blockTimer, loopTimer, told,
                 group, up, joined, wire, bounds>>

(* Outside: a link changes, cables are moved.                              *)
Link(p) ==
  /\ up' = (up \ {p}) \cup ({p} \ up)
  /\ news' = IF p \in up THEN news ELSE news \cup {p}
  /\ Change /\ UNCHANGED <<lp, group, joined, wire, missed, lost>>

Rewire(S) ==
  /\ joined # S /\ joined' = S
  /\ Change /\ UNCHANGED <<lp, group, up, news, wire, missed, lost>>

Next ==
  \/ Tick
  \/ \E f \in wire : Receive(f) \/ Lose(f)
  \/ \E m \in Modes : SetMode(m)
  \/ \E i \in Groups, S \in Members : SetTrunk(i, S)
  \/ \E p \in Ports : LinkNews(p) \/ Link(p)
  \/ \E S \in Wirings : Rewire(S)

Spec == Init /\ [][Next]_vars

(* The timer is periodic and the task handles its queue.                   *)
FairSpec ==
  /\ Spec /\ WF_vars(Tick) /\ WF_vars(\E f \in wire : Receive(f))
  /\ WF_vars(\E p \in Ports : LinkNews(p))

-----------------------------------------------------------------------------
(* What the database was told is what the task holds: syncd blocks and     *)
(* opens ports by PORT_LOOP_STATE alone, on every path of frames, timers,  *)
(* trunk changes and mode changes.                                         *)
ToldRight ==
  \A p \in Ports :
    told[p] = IF p \in blocked THEN "BLOCK" ELSE IF p \in looped THEN "LOOP" ELSE "NORMAL"

(* Nothing stays blocked or looped for good: who is has a timer running,   *)
(* and is not both (rx, lp_updatePortLoopState, lp_updateAdminMode).       *)
Timed ==
  /\ blocked = {p \in Ports : blockTimer[p] > 0}
  /\ \A p \in looped : loopTimer[p] > 0
  /\ blocked \cap looped = {}

(* A trunk is blocked and opened as one port, also while its members       *)
(* change between two frames.                                              *)
TrunkWhole == \A i \in Groups : group[i] \cap blocked \in {{}, group[i]}

(* Flow control is off only at a blocked port or until the resume timer    *)
(* ends, which takes the port's own settings back (lp_port_setFlowControl).*)
FlowReturns == \A p \in forced : p \in blocked \/ resume[p] > 0

(* Of the ports wired together one unit is open and the others blocked;    *)
(* no other port is.                                                       *)
Units == {Unit(p) : p \in joined \cap up}
Broken ==
  /\ Cardinality(Units) > 0 => Cardinality({u \in Units : u \cap blocked = {}}) = 1
  /\ blocked \subseteq UNION Units

(* Once prevention stays on and nothing changes outside, the loop is broken*)
(* and stays so, although frames are lost in between.                      *)
Breaks == <>[](mode = "PREVENTION") => <>[] Broken
=============================================================================
