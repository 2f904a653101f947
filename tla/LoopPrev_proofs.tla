--------------------------- MODULE LoopPrev_proofs ---------------------------
(***************************************************************************)
(* The safety of LoopPrev for every number of ports and trunks, all        *)
(* wirings and all periods.                                                *)
(***************************************************************************)
EXTENDS LoopPrev, TLAPS

States == {"NORMAL", "LOOP", "BLOCK"}

(* A frame names its port, or the trunk that it left.                      *)
Typed ==
  /\ mode \in Modes
  /\ blocked \subseteq Ports /\ looped \subseteq Ports /\ forced \subseteq Ports
  /\ blockTimer \in [Ports -> Nat] /\ loopTimer \in [Ports -> Nat]
  /\ resume \in [Ports -> Nat]
  /\ told \in [Ports -> States]
  /\ group \in [Groups -> SUBSET Ports]
  /\ up \subseteq Ports
  /\ \A f \in wire :
       f.rx \in Ports /\ IF f.trunk = None THEN f.tx \in Ports ELSE f.trunk \in Groups

(* A port is in one trunk at most.                                         *)
Apart == \A i, j \in Groups : i # j => group[i] \cap group[j] = {}

(* The ports of a trunk have the same time left.                           *)
Even == \A i \in Groups : \A p, q \in group[i] : blockTimer[p] = blockTimer[q]

IInv == Typed /\ Apart /\ Even /\ Timed /\ ToldRight /\ FlowReturns

-----------------------------------------------------------------------------
(* Trunks.                                                                 *)

\* The unit of a port is its trunk, or the port alone.
LEMMA UnitIsTrunk ==
  ASSUME Typed, Apart, NEW p \in Ports
  PROVE  /\ p \in Unit(p) /\ Unit(p) \subseteq Ports
         /\ \A i \in Groups : p \in group[i] => Unit(p) = group[i]
         /\ (\A i \in Groups : p \notin group[i]) => Unit(p) = {p}
BY DEF Typed, Apart, Unit, GroupOf

\* The ports of a trunk are alive together.
LEMMA AliveTogether ==
  ASSUME Typed, Apart, NEW i \in Groups, NEW p \in group[i], NEW q \in group[i]
  PROVE  Alive(p) <=> Alive(q)
<1>1. p \in Ports /\ q \in Ports
  BY DEF Typed
<1> QED BY <1>1, UnitIsTrunk DEF Alive

\* A port that is its own unit, or a whole trunk.
Whole(S) == S \subseteq Ports /\ \A i \in Groups : group[i] \cap S \in {{}, group[i]}

LEMMA UnitWhole ==
  ASSUME Typed, Apart, NEW p \in Ports
  PROVE  Whole(Unit(p))
<1>1. CASE \E i \in Groups : p \in group[i]
  <2>1. PICK i \in Groups : p \in group[i]
    BY <1>1
  <2>2. Unit(p) = group[i]
    BY <2>1, UnitIsTrunk
  <2> QED BY <2>2 DEF Whole, Typed, Apart
<1>2. CASE \A i \in Groups : p \notin group[i]
  <2>1. Unit(p) = {p}
    BY <1>2, UnitIsTrunk
  <2> QED BY <1>2, <2>1 DEF Whole
<1> QED BY <1>1, <1>2

\* What is alive of whole trunks is whole trunks.
LEMMA AliveWhole ==
  ASSUME Typed, Apart, NEW S, Whole(S)
  PROVE  Whole({p \in S : Alive(p)})
<1> SUFFICES ASSUME NEW i \in Groups
             PROVE  group[i] \cap {p \in S : Alive(p)} \in {{}, group[i]}
  BY DEF Whole
<1>1. \A p, q \in group[i] : Alive(p) <=> Alive(q)
  BY AliveTogether
<1>2. group[i] \cap S = {} \/ group[i] \cap S = group[i]
  BY DEF Whole
<1> QED BY <1>1, <1>2

\* Times stay even when whole trunks are set to one time.
LEMMA SetEven ==
  ASSUME Typed, Even, NEW S, Whole(S), NEW v \in Nat,
         blockTimer' = Set(blockTimer, S, v), UNCHANGED group
  PROVE  Even'
<1> SUFFICES ASSUME NEW i \in Groups, NEW p \in group[i], NEW q \in group[i]
             PROVE  blockTimer'[p] = blockTimer'[q]
  BY DEF Even
<1>1. p \in Ports /\ q \in Ports /\ (p \in S <=> q \in S)
  BY DEF Typed, Whole
<1>2. blockTimer[p] = blockTimer[q]
  BY DEF Even
<1> QED BY <1>1, <1>2 DEF Set

\* Whole trunks are blocked.
LEMMA EvenIsWhole ==
  ASSUME Typed, Even, Timed
  PROVE  TrunkWhole /\ Whole(blocked)
<1>1. \A i \in Groups : \A p, q \in group[i] : p \in blocked <=> q \in blocked
  BY DEF Typed, Even, Timed
<1> QED BY <1>1 DEF TrunkWhole, Whole, Typed

-----------------------------------------------------------------------------
(* The initial state and each step.                                        *)

LEMMA InitIInv == Init => IInv
<1> SUFFICES ASSUME Init PROVE IInv
  OBVIOUS
<1>1. Typed
  BY LoopAssumption DEF Init, Typed, Modes, States
<1>2. Apart
  BY DEF Init, Apart
<1>3. Even
  BY <1>1 DEF Init, Even, Typed
<1>4. Timed /\ ToldRight /\ FlowReturns
  BY DEF Init, Timed, ToldRight, FlowReturns
<1> QED BY <1>1, <1>2, <1>3, <1>4 DEF IInv

\* A detection frame names a port or a trunk.
LEMMA SentTyped ==
  ASSUME Typed
  PROVE  \A f \in Sent :
           f.rx \in Ports /\ IF f.trunk = None THEN f.tx \in Ports ELSE f.trunk \in Groups
<1> SUFFICES ASSUME NEW f \in Sent
             PROVE  f.rx \in Ports /\ IF f.trunk = None THEN f.tx \in Ports ELSE f.trunk \in Groups
  OBVIOUS
<1>1. PICK s \in Senders, q \in up : f = [tx |-> s[1], trunk |-> s[2], rx |-> q]
  BY DEF Sent, Frames
<1>2. CASE \E p \in Ports : s = <<p, None>>
  BY <1>1, <1>2 DEF Typed
<1>3. CASE \E i \in Groups : s = <<Min(group[i]), i>>
  <2>1. None \notin Groups
    BY LoopAssumption DEF None
  <2> QED BY <1>1, <1>3, <2>1 DEF Typed
<1> QED BY <1>1, <1>2, <1>3 DEF Senders

LEMMA LessType ==
  ASSUME NEW t \in [Ports -> Nat]
  PROVE  /\ Less(t) \in [Ports -> Nat]
         /\ \A p \in Ports : Less(t)[p] > 0 <=> t[p] > 0 /\ p \notin Ended(t)
BY DEF Less, Ended

LEMMA TickIInv == IInv /\ Tick => IInv'
<1> SUFFICES ASSUME IInv, Tick PROVE IInv'
  OBVIOUS
<1> USE DEF IInv
<1>1. /\ Less(loopTimer) \in [Ports -> Nat] /\ Less(blockTimer) \in [Ports -> Nat]
      /\ \A p \in Ports : blockTimer'[p] > 0 <=> blockTimer[p] > 0 /\ p \notin Ended(blockTimer)
      /\ \A p \in Ports : loopTimer'[p] > 0 <=> loopTimer[p] > 0 /\ p \notin Ended(loopTimer)
  BY LessType DEF Typed, Tick
<1>2. Typed'
  <2>1. told' \in [Ports -> States]
    BY DEF Tick, Typed, States
  <2>2. resume' \in [Ports -> Nat]
    BY DEF Tick, Typed
  <2>3. \A f \in wire' :
           f.rx \in Ports /\ IF f.trunk = None THEN f.tx \in Ports ELSE f.trunk \in Groups
    BY SentTyped DEF Tick
  <2> QED BY <1>1, <2>1, <2>2, <2>3 DEF Tick, Typed, env
<1>3. Apart'
  BY DEF Tick, Apart
<1>4. Even'
  <2> SUFFICES ASSUME NEW i \in Groups, NEW p \in group[i], NEW q \in group[i]
               PROVE  blockTimer'[p] = blockTimer'[q]
    BY DEF Even, Tick
  <2>1. p \in Ports /\ q \in Ports /\ blockTimer[p] = blockTimer[q]
    BY DEF Typed, Even
  <2>2. Alive(p) <=> Alive(q)
    BY AliveTogether
  <2> QED BY <2>1, <2>2 DEF Tick, Less, Ended
<1>5. Timed'
  BY <1>1 DEF Timed, Tick, Typed
<1>6. ToldRight'
  <2> SUFFICES ASSUME NEW p \in Ports
               PROVE  told'[p] = IF p \in blocked' THEN "BLOCK"
                                 ELSE IF p \in looped' THEN "LOOP" ELSE "NORMAL"
    BY DEF ToldRight
  <2>1. told[p] = IF p \in blocked THEN "BLOCK" ELSE IF p \in looped THEN "LOOP" ELSE "NORMAL"
    BY DEF ToldRight
  <2>2. ~(p \in blocked /\ p \in looped)
    BY DEF Timed
  <2> QED BY <2>1, <2>2 DEF Tick
<1>7. FlowReturns'
  <2> SUFFICES ASSUME NEW p \in forced' PROVE p \in blocked' \/ resume'[p] > 0
    BY DEF FlowReturns
  <2>1. p \in forced /\ p \in Ports /\ resume[p] \in Nat
    BY DEF Tick, Typed
  <2>2. CASE p \in blocked
    BY <2>1, <2>2 DEF Tick
  <2>3. CASE p \notin blocked
    <3>1. resume[p] > 0 /\ resume[p] # 1
      BY <2>1, <2>3 DEF FlowReturns, Tick
    <3> QED BY <2>1, <3>1 DEF Tick
  <2> QED BY <2>2, <2>3
<1> QED BY <1>2, <1>3, <1>4, <1>5, <1>6, <1>7

\* A frame blocks the ports of one side and loops those of the other.
LEMMA ReceiveIInv == \A f \in wire : IInv /\ Receive(f) => IInv'
<1> SUFFICES ASSUME NEW f \in wire, IInv, Receive(f) PROVE IInv'
  OBVIOUS
<1> USE DEF IInv
<1>1. CASE mode = "DISABLE"
  <2>1. UNCHANGED <<lp, group, env>> /\ wire' \subseteq wire
    BY <1>1 DEF Receive
  <2> QED BY <2>1 DEF Typed, Apart, Even, Timed, ToldRight, FlowReturns, lp, env
<1>2. CASE mode # "DISABLE"
  <2> DEFINE side  == IF BlocksSender(f) THEN SenderPorts(f) ELSE Unit(f.rx)
             other == IF BlocksSender(f) THEN Unit(f.rx) ELSE SenderPorts(f)
             block == {p \in side : Alive(p)}
             loop  == {p \in other \ (block \cup blocked) : Alive(p)}
  <2>1. Whole(side) /\ other \subseteq Ports
    <3>1. Whole(Unit(f.rx)) /\ Unit(f.rx) \subseteq Ports
      BY UnitWhole DEF Typed, Whole
    <3>2. Whole(SenderPorts(f)) /\ SenderPorts(f) \subseteq Ports
      <4>1. CASE f.trunk = None
        <5>1. f.tx \in Ports
          BY <4>1 DEF Typed
        <5> QED BY <4>1, <5>1, UnitWhole DEF SenderPorts, Whole
      <4>2. CASE f.trunk # None
        <5>1. f.trunk \in Groups
          BY <4>2 DEF Typed
        <5> QED BY <4>2, <5>1 DEF SenderPorts, Whole, Typed, Apart
      <4> QED BY <4>1, <4>2
    <3> QED BY <3>1, <3>2
  <2>2. Whole(block)
    BY <2>1, AliveWhole
  <2>3. block \subseteq Ports /\ loop \subseteq Ports
    BY <2>1 DEF Whole
  <2>4. /\ blockTimer' = Set(blockTimer, block, Period)
        /\ loopTimer' = Set(loopTimer, loop, Period)
        /\ blocked' = blocked \cup block
        /\ looped' = (looped \ block) \cup loop
        /\ told' = Set(Set(told, block \ blocked, "BLOCK"), loop \ looped, "LOOP")
        /\ forced' = forced \cup ((block \ blocked) \cap up)
        /\ UNCHANGED <<mode, resume, group, up>> /\ wire' \subseteq wire
    BY <1>2 DEF Receive, env
  <2>5. loop \cap (block \cup blocked) = {}
    OBVIOUS
  <2> HIDE DEF block, loop, side, other
  <2>6. Period \in Nat /\ Period > 0
    BY LoopAssumption
  <2>7. Typed'
    <3>1. blockTimer' \in [Ports -> Nat] /\ loopTimer' \in [Ports -> Nat]
      BY <2>4, <2>6 DEF Set, Typed
    <3>2. told' \in [Ports -> States]
      BY <2>4 DEF Set, Typed, States
    <3> QED BY <2>3, <2>4, <3>1, <3>2 DEF Typed
  <2>8. Apart'
    BY <2>4 DEF Apart
  <2>9. Even'
    BY <2>2, <2>4, <2>6, SetEven
  <2>10. Timed'
    BY <2>3, <2>4, <2>5, <2>6 DEF Timed, Set, Typed
  <2>11. ToldRight'
    BY <2>3, <2>4, <2>5 DEF ToldRight, Set, Timed
  <2>12. FlowReturns'
    BY <2>4 DEF FlowReturns
  <2> QED BY <2>7, <2>8, <2>9, <2>10, <2>11, <2>12
<1> QED BY <1>1, <1>2

LEMMA LoseIInv == \A f \in wire : IInv /\ Lose(f) => IInv'
<1> SUFFICES ASSUME NEW f \in wire, IInv, Lose(f) PROVE IInv'
  OBVIOUS
<1>1. UNCHANGED <<lp, group, env>> /\ wire' \subseteq wire
  BY DEF Lose
<1> QED BY <1>1 DEF IInv, Typed, Apart, Even, Timed, ToldRight, FlowReturns, lp, env

\* Whole trunks are released with the mode.
LEMMA SetModeIInv == \A m \in Modes : IInv /\ SetMode(m) => IInv'
<1> SUFFICES ASSUME NEW m \in Modes, IInv, SetMode(m) PROVE IInv'
  OBVIOUS
<1> USE DEF IInv
<1>1. Typed'
  <2>1. blockTimer' \in [Ports -> Nat] /\ loopTimer' \in [Ports -> Nat]
    BY DEF SetMode, Set, Typed
  <2>2. told' \in [Ports -> States]
    BY DEF SetMode, Set, Typed, States
  <2> QED BY <2>1, <2>2 DEF SetMode, Typed, env
<1>2. Apart'
  BY DEF SetMode, Apart
<1>3. Even'
  BY EvenIsWhole, SetEven, 0 \in Nat DEF SetMode
<1>4. Timed'
  BY DEF SetMode, Timed, Set, Typed
<1>5. ToldRight'
  BY DEF SetMode, ToldRight, Set
<1>6. FlowReturns'
  BY DEF SetMode, FlowReturns
<1> QED BY <1>1, <1>2, <1>3, <1>4, <1>5, <1>6

\* A trunk with a blocked port is blocked as a whole when a trunk changes.
LEMMA SetTrunkIInv ==
  \A i \in Groups, S \in Members : IInv /\ SetTrunk(i, S) => IInv'
<1> SUFFICES ASSUME NEW i \in Groups, NEW S \in Members, IInv, SetTrunk(i, S)
             PROVE  IInv'
  OBVIOUS
<1> USE DEF IInv
<1> DEFINE Hit(P) == UNION {group'[j] : j \in {k \in Groups : group'[k] \cap P # {}}}
           loop == Hit(looped) \ Hit(blocked)
<1>1. S \subseteq Ports /\ Period \in Nat /\ Period > 0
  BY LoopAssumption
<1>2. group' = [group EXCEPT ![i] = S] /\ group' \in [Groups -> SUBSET Ports]
  BY <1>1 DEF SetTrunk, Typed
<1>3. Apart'
  BY <1>2 DEF SetTrunk, Apart, Typed
<1>4. /\ blocked' = blocked \cup Hit(blocked)
      /\ looped' = (looped \ Hit(blocked)) \cup loop
      /\ blockTimer' = Set(blockTimer, Hit(blocked), Period)
      /\ loopTimer' = Set(loopTimer, loop, Period)
      /\ told' = Set(Set(told, Hit(blocked), "BLOCK"), loop, "LOOP")
      /\ forced' = forced \cup (Hit(blocked) \cap up)
      /\ UNCHANGED <<mode, resume, up, wire>>
  BY DEF SetTrunk, env
<1>5. Hit(blocked) \subseteq Ports /\ Hit(looped) \subseteq Ports
  BY <1>2
<1>6. ASSUME NEW j \in Groups PROVE group'[j] \subseteq Hit(blocked) \/ group'[j] \cap blocked = {}
  OBVIOUS
<1>7. ASSUME NEW j \in Groups, group'[j] \cap blocked = {}
      PROVE  group'[j] \cap Hit(blocked) = {}
  BY <1>3, <1>7 DEF Apart
<1>8. loop \cap blocked = {}
  <2> SUFFICES ASSUME NEW p \in loop, p \in blocked PROVE FALSE
    OBVIOUS
  <2>1. PICK j \in Groups : p \in group'[j]
    OBVIOUS
  <2> QED BY <2>1, <1>6
<1>9. loop \cap Hit(blocked) = {} /\ loop \subseteq Ports
  BY <1>5
<1> DEFINE H == Hit(blocked)
<1>10. H = Hit(blocked)
  OBVIOUS
<1> HIDE DEF Hit, loop, H
<1>11. Typed'
  <2>1. blockTimer' \in [Ports -> Nat] /\ loopTimer' \in [Ports -> Nat]
    BY <1>4, <1>1 DEF Set, Typed
  <2>2. told' \in [Ports -> States]
    BY <1>4 DEF Set, Typed, States
  <2> QED BY <1>2, <1>4, <1>5, <1>9, <2>1, <2>2 DEF Typed
<1>12. Even'
  <2> SUFFICES ASSUME NEW j \in Groups, NEW p \in group'[j], NEW q \in group'[j]
               PROVE  blockTimer'[p] = blockTimer'[q]
    BY DEF Even
  <2>1. p \in Ports /\ q \in Ports
    BY <1>2
  <2>2. CASE group'[j] \subseteq H
    BY <1>4, <1>10, <2>1, <2>2 DEF Set
  <2>3. CASE group'[j] \cap blocked = {}
    <3>1. blockTimer[p] = 0 /\ blockTimer[q] = 0
      BY <2>1, <2>3 DEF Timed, Typed
    <3>2. p \notin H /\ q \notin H
      BY <1>7, <1>10, <2>3
    <3> QED BY <1>4, <1>10, <2>1, <3>1, <3>2 DEF Set
  <2> QED BY <1>6, <1>10, <2>2, <2>3
<1>13. Timed'
  BY <1>1, <1>4, <1>5, <1>8, <1>9, <1>10 DEF Timed, Set, Typed
<1>14. ToldRight'
  BY <1>4, <1>8, <1>9, <1>10 DEF ToldRight, Set, Timed
<1>15. FlowReturns'
  BY <1>4 DEF FlowReturns
<1> QED BY <1>3, <1>11, <1>12, <1>13, <1>14, <1>15

LEMMA LinkNewsIInv == \A p \in Ports : IInv /\ LinkNews(p) => IInv'
<1> SUFFICES ASSUME NEW p \in Ports, IInv, LinkNews(p) PROVE IInv'
  OBVIOUS
<1> USE DEF IInv
<1>1. resume' \in [Ports -> Nat] /\ \A q \in Ports : resume'[q] >= 0 /\ (resume[q] > 0 => resume'[q] > 0)
  BY LoopAssumption DEF LinkNews, Set, Typed
<1>2. Typed'
  BY <1>1 DEF LinkNews, Typed
<1>3. FlowReturns'
  <2> SUFFICES ASSUME NEW q \in forced' PROVE q \in blocked' \/ resume'[q] > 0
    BY DEF FlowReturns
  <2>1. CASE q \in forced
    BY <1>1, <2>1 DEF FlowReturns, LinkNews, Typed
  <2>2. CASE q \notin forced
    BY <2>2, LoopAssumption DEF LinkNews, Set
  <2> QED BY <2>1, <2>2
<1> QED BY <1>2, <1>3 DEF LinkNews, Apart, Even, Timed, ToldRight

LEMMA OutsideIInv ==
  ASSUME IInv, (\E p \in Ports : Link(p)) \/ (\E S \in Wirings : Rewire(S))
  PROVE  IInv'
<1>1. UNCHANGED <<lp, group, wire>> /\ up' \subseteq Ports
  BY DEF Link, Rewire, IInv, Typed
<1> QED BY <1>1 DEF IInv, Typed, Apart, Even, Timed, ToldRight, FlowReturns, lp

-----------------------------------------------------------------------------
(* The invariant holds in every state.                                     *)
THEOREM Inductive == Spec => []IInv
<1>1. IInv /\ [Next]_vars => IInv'
  <2> SUFFICES ASSUME IInv, [Next]_vars PROVE IInv'
    OBVIOUS
  <2>1. CASE UNCHANGED vars
    BY <2>1 DEF vars, IInv, Typed, Apart, Even, Timed, ToldRight, FlowReturns, lp, env
  <2>2. CASE Next
    BY <2>2, TickIInv, ReceiveIInv, LoseIInv, SetModeIInv, SetTrunkIInv,
       LinkNewsIInv, OutsideIInv DEF Next
  <2> QED BY <2>1, <2>2
<1> QED BY InitIInv, <1>1, PTL DEF Spec

(* Whatever frames, timers, trunk and mode changes come in whatever order, *)
(* the database was told of each port what the task holds: syncd blocks    *)
(* just the blocked ports.                                                 *)
THEOREM DatabaseIsTold == Spec => []ToldRight
BY Inductive, PTL DEF IInv

(* No port is blocked or looped without a timer that ends it.              *)
THEOREM NothingBlockedForGood == Spec => []Timed
BY Inductive, PTL DEF IInv

(* Trunks are blocked and opened as a whole: their ports have the same     *)
(* time left, also after members were exchanged.                           *)
THEOREM TrunksAreWhole == Spec => []TrunkWhole
<1>1. IInv => TrunkWhole
  BY EvenIsWhole DEF IInv
<1> QED BY Inductive, <1>1, PTL

(* Flow control that was turned off is on again when the port is neither   *)
(* blocked nor just coming up.                                             *)
THEOREM FlowControlReturns == Spec => []FlowReturns
BY Inductive, PTL DEF IInv
===============================================================================
