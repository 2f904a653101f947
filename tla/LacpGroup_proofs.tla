--------------------------- MODULE LacpGroup_proofs ---------------------------
(***************************************************************************)
(* The counters of an aggregator, what the database is told of it, and who *)
(* its one partner is, for any number of ports, any frames that aggregate, *)
(* any keys and timers.                                                    *)
(***************************************************************************)
EXTENDS LacpGroup, TLAPS, FunctionTheorems, SequenceTheorems, FiniteSetTheorems,
        WellFoundedInduction

-----------------------------------------------------------------------------
(* What is assumed of the partners                                         *)

Systems == {f.sys : f \in Frames}

(* A partner that does not aggregate leaves an aggregator with a count of  *)
(* one and no port, one of larger priority takes ports out of the          *)
(* aggregator wherever they are: there the counters are wrong.             *)
PartnersAgree ==
  /\ \A f \in Frames : "agg" \in f.state
  /\ \A s, t \in Systems : ~(Prio[s] < Prio[t])

-----------------------------------------------------------------------------
(* The inductive invariant                                                 *)

\* The bits of lip_state.
AllBits == {"act", "fast", "agg", "sync", "coll", "dist", "dflt", "exp"}
Names == Systems \cup {"own", "nobody"}
Id == [sys : Names, key : Nat, no : Nat]
Pdu == [kind : {"pdu"}, actor : Id, state : SUBSET AllBits, partner : Id,
        pstate : SUBSET AllBits]
La == [refcnt : Int, dist : SUBSET Ports, pending : Int, peer : Id, key : Nat]
Muxes == {"DETACHED", "WAITING", "ATTACHED", "COLLECTING", "DISTRIBUTING"}
Port ==
  [state : SUBSET AllBits, key : Nat, peer : Id, pstate : SUBSET AllBits, sel : BOOLEAN,
   mux : Muxes, ntt : BOOLEAN, mark : BOOLEAN, cw : Int, per : Int, ww : Nat,
   la : BOOLEAN, sent : Int]
Group ==
  [sys : Names, on : BOOLEAN, la : La, active : BOOLEAN, suppress : BOOLEAN, sd : Nat,
   told : SUBSET Ports, out : [Ports -> Seq(Pdu \cup {Marker})], port : [Ports -> Port]]

\* The bits of a port are those of its mux state, and it waits only there.
Bits(r) ==
  /\ "sync" \in r.state <=> r.mux \in {"ATTACHED", "COLLECTING", "DISTRIBUTING"}
  /\ "coll" \in r.state <=> r.mux \in {"COLLECTING", "DISTRIBUTING"}
  /\ "dist" \in r.state <=> r.mux = "DISTRIBUTING"
  /\ r.ww > 0 => r.mux = "WAITING"

\* Who was heard aggregates and is another system.
Heard(h, r) ==
  /\ r.peer.sys # h.sys
  /\ "agg" \in r.state /\ "dflt" \notin r.state /\ "exp" \notin r.state =>
       "agg" \in r.pstate /\ r.peer.sys \in Systems

\* A selected port has an aggregator, and this one.
Chosen(h, r) ==
  r.sel => /\ r.la /\ "agg" \in r.pstate
           /\ h.la.peer.sys = r.peer.sys /\ h.la.peer.key = r.peer.key /\ h.la.key = r.key

Joined(h) == {q \in Ports : h.port[q].la}
Pending(h) == {q \in Ports : h.port[q].ww > 0}
Spread(h) == {q \in Ports : "dist" \in h.port[q].state}

Sums(h) ==
  /\ h.la.refcnt = Cardinality(Joined(h)) /\ h.la.refcnt <= MaxMember
  /\ h.la.pending = Cardinality(Pending(h))
  /\ h.la.dist = Spread(h)
  /\ h.active <=> h.la.dist # {}
  /\ h.told = {q \in h.la.dist : ~h.suppress}
  /\ h.la.refcnt = 0 => h.la = NoLa
  /\ h.la.refcnt # 0 => h.la.peer.sys \in Systems

\* Between the selection of a port and its mux machine, it may have an
\* aggregator and be DETACHED.
InvBut(h, p) ==
  /\ h \in Group /\ h.sys = "own" /\ Sums(h)
  /\ \A q \in Ports :
       /\ Bits(h.port[q]) /\ Heard(h, h.port[q]) /\ Chosen(h, h.port[q])
       /\ h.port[q].mux # "DETACHED" => h.port[q].la
       /\ h.port[q].la /\ h.port[q].mux = "DETACHED" => q = p /\ h.port[q].sel

Inv(h) ==
  /\ h \in Group /\ h.sys = "own" /\ Sums(h)
  /\ \A q \in Ports :
       /\ Bits(h.port[q]) /\ Heard(h, h.port[q]) /\ Chosen(h, h.port[q])
       /\ h.port[q].la <=> h.port[q].mux # "DETACHED"

IInv == Inv(g) /\ late \in Nat

-----------------------------------------------------------------------------
(* What the steps leave alone                                              *)

\* Who a port knows, and whether it is selected.
Base(r, s) ==
  /\ s.key = r.key /\ s.peer = r.peer /\ s.sel = r.sel
  /\ "agg" \in s.pstate <=> "agg" \in r.pstate

\* All of a port but its bits, its timers and what it has to send.
Rest(r, s) == Base(r, s) /\ s.mux = r.mux /\ s.ww = r.ww /\ s.la = r.la

Same(r, s) == s.state = r.state /\ Rest(r, s)

Others(h, k, p) == \A q \in Ports : q # p => Same(h.port[q], k.port[q])

Kept(h, k) ==
  /\ k \in Group /\ k.sys = h.sys /\ k.la = h.la
  /\ k.active = h.active /\ k.suppress = h.suppress /\ k.told = h.told

Alike(h, k) == Kept(h, k) /\ \A q \in Ports : Same(h.port[q], k.port[q])

LEMMA SameChain ==
  ASSUME NEW r, NEW s, NEW t, Same(r, s), Same(s, t)
  PROVE  Same(r, t)
BY DEF Same, Rest, Base

LEMMA OthersChain ==
  ASSUME NEW h, NEW k, NEW m, NEW p, Others(h, k, p), Others(k, m, p)
  PROVE  Others(h, m, p)
BY SameChain DEF Others

LEMMA OthersEqual ==
  ASSUME NEW h, NEW k, NEW p, \A q \in Ports : q # p => k.port[q] = h.port[q]
  PROVE  Others(h, k, p)
BY DEF Others, Same, Rest, Base

LEMMA OthersSame ==
  ASSUME NEW h, NEW k, NEW p, \A q \in Ports : Same(h.port[q], k.port[q])
  PROVE  Others(h, k, p)
BY DEF Others

\* The group with one port replaced.
With(h, p, r) == [h EXCEPT !.port[p] = r]

LEMMA GroupType ==
  ASSUME NEW h \in Group, NEW p \in Ports
  PROVE  /\ h.sys \in Names /\ h.la \in La /\ h.active \in BOOLEAN /\ h.suppress \in BOOLEAN
         /\ h.told \in SUBSET Ports /\ h.port \in [Ports -> Port] /\ h.port[p] \in Port
         /\ h.sd \in Nat /\ h.out \in [Ports -> Seq(Pdu \cup {Marker})] /\ h.on \in BOOLEAN
BY DEF Group

\* One port of the group is changed.
LEMMA WithIs ==
  ASSUME NEW h \in Group, NEW p \in Ports, NEW r \in Port
  PROVE  /\ Kept(h, With(h, p, r)) /\ With(h, p, r).on = h.on /\ With(h, p, r).port[p] = r
         /\ \A q \in Ports : q # p => With(h, p, r).port[q] = h.port[q]
<1>1. PICK k : k = [h EXCEPT !.port[p] = r]
  OBVIOUS
<1>2. /\ k \in Group /\ k.port[p] = r /\ k.on = h.on
      /\ k.sys = h.sys /\ k.la = h.la /\ k.active = h.active /\ k.suppress = h.suppress
      /\ k.told = h.told /\ \A q \in Ports : q # p => k.port[q] = h.port[q]
  BY <1>1 DEF Group
<1> QED BY <1>1, <1>2 DEF Kept, With

LEMMA SetIs ==
  ASSUME NEW h \in Group, NEW p \in Ports, NEW b \in AllBits
  PROVE  /\ Kept(h, Set(h, p, b)) /\ Set(h, p, b).on = h.on
         /\ \A q \in Ports : q # p => Set(h, p, b).port[q] = h.port[q]
         /\ Set(h, p, b).port[p].state = h.port[p].state \cup {b}
         /\ Rest(h.port[p], Set(h, p, b).port[p])
<1>1. PICK o \in Port : o = h.port[p]
  BY GroupType
<1>2. PICK r : r = [o EXCEPT !.state = @ \cup {b}]
  OBVIOUS
<1>3. r \in Port /\ r.state = o.state \cup {b} /\ Rest(o, r)
  BY <1>2 DEF Port, Rest, Base
<1>4. Set(h, p, b) = With(h, p, r)
  BY <1>1, <1>2, GroupType DEF Group, With, Set
<1>5. /\ Kept(h, With(h, p, r)) /\ With(h, p, r).on = h.on /\ With(h, p, r).port[p] = r
      /\ \A q \in Ports : q # p => With(h, p, r).port[q] = h.port[q]
  BY <1>3, WithIs
<1> QED BY <1>1, <1>3, <1>4, <1>5

LEMMA ClearIs ==
  ASSUME NEW h \in Group, NEW p \in Ports, NEW b \in AllBits
  PROVE  /\ Kept(h, Clear(h, p, b)) /\ Clear(h, p, b).on = h.on
         /\ \A q \in Ports : q # p => Clear(h, p, b).port[q] = h.port[q]
         /\ Clear(h, p, b).port[p].state = h.port[p].state \ {b}
         /\ Rest(h.port[p], Clear(h, p, b).port[p])
<1>1. PICK o \in Port : o = h.port[p]
  BY GroupType
<1>2. PICK r : r = [o EXCEPT !.state = @ \ {b}]
  OBVIOUS
<1>3. r \in Port /\ r.state = o.state \ {b} /\ Rest(o, r)
  BY <1>2 DEF Port, Rest, Base
<1>4. Clear(h, p, b) = With(h, p, r)
  BY <1>1, <1>2, GroupType DEF Group, With, Clear
<1>5. /\ Kept(h, With(h, p, r)) /\ With(h, p, r).on = h.on /\ With(h, p, r).port[p] = r
      /\ \A q \in Ports : q # p => With(h, p, r).port[q] = h.port[q]
  BY <1>3, WithIs
<1> QED BY <1>1, <1>3, <1>4, <1>5

\* A port that is the same but for its timers.
LEMMA WithAlike ==
  ASSUME NEW h \in Group, NEW p \in Ports, NEW r \in Port, Same(h.port[p], r)
  PROVE  Alike(h, With(h, p, r))
<1>1. /\ Kept(h, With(h, p, r)) /\ With(h, p, r).port[p] = r
      /\ \A q \in Ports : q # p => With(h, p, r).port[q] = h.port[q]
  BY WithIs
<1>2. \A q \in Ports : Same(h.port[q], h.port[q])
  BY DEF Same, Rest, Base
<1> QED BY <1>1, <1>2 DEF Alike

LEMMA NttIs ==
  ASSUME NEW h \in Group, NEW p \in Ports
  PROVE  Alike(h, Ntt(h, p))
<1>1. PICK o \in Port : o = h.port[p]
  BY GroupType
<1>2. PICK r : r = [o EXCEPT !.ntt = TRUE]
  OBVIOUS
<1>3. r \in Port /\ Same(o, r)
  BY <1>2 DEF Port, Same, Rest, Base
<1>4. Ntt(h, p) = With(h, p, r)
  BY <1>1, <1>2, GroupType DEF Group, With, Ntt
<1> QED BY <1>1, <1>3, <1>4, WithAlike

\* One port and the aggregator are changed.
With2(h, p, r, l) == [h EXCEPT !.port[p] = r, !.la = l]

LEMMA With2Is ==
  ASSUME NEW h \in Group, NEW p \in Ports, NEW r \in Port, NEW l \in La
  PROVE  /\ With2(h, p, r, l) \in Group /\ With2(h, p, r, l).la = l
         /\ With2(h, p, r, l).port[p] = r
         /\ \A q \in Ports : q # p => With2(h, p, r, l).port[q] = h.port[q]
         /\ With2(h, p, r, l).sys = h.sys /\ With2(h, p, r, l).active = h.active
         /\ With2(h, p, r, l).suppress = h.suppress /\ With2(h, p, r, l).told = h.told
<1>1. PICK k : k = [h EXCEPT !.port[p] = r, !.la = l]
  OBVIOUS
<1>2. /\ k \in Group /\ k.port[p] = r /\ k.la = l
      /\ k.sys = h.sys /\ k.active = h.active /\ k.suppress = h.suppress
      /\ k.told = h.told /\ \A q \in Ports : q # p => k.port[q] = h.port[q]
  BY <1>1 DEF Group
<1> QED BY <1>1, <1>2 DEF With2

\* The database is told.
LEMMA TellIs ==
  ASSUME NEW h \in Group
  PROVE  /\ Tell(h) \in Group /\ Tell(h).sys = h.sys /\ Tell(h).la = h.la
         /\ Tell(h).active = h.active /\ Tell(h).suppress = h.suppress /\ Tell(h).port = h.port
         /\ Tell(h).told = Aggregated(h)
<1>1. PICK A \in SUBSET Ports : A = Aggregated(h)
  BY DEF Aggregated
<1>2. PICK k : k = [h EXCEPT !.told = A]
  OBVIOUS
<1>3. /\ k \in Group /\ k.sys = h.sys /\ k.la = h.la /\ k.active = h.active
      /\ k.suppress = h.suppress /\ k.port = h.port /\ k.told = A
  BY <1>2 DEF Group
<1> QED BY <1>1, <1>2, <1>3 DEF Tell

LEMMA Times ==
  /\ FastTime \in Nat \ {0} /\ SlowTime \in Nat \ {0} /\ ShortTime \in Nat \ {0}
  /\ LongTime \in Nat \ {0} /\ WaitTime \in Nat \ {0} /\ Delay \in Nat \ {0}
  /\ MaxSent \in Nat \ {0} /\ MaxMember \in Nat \ {0}
  /\ Ports \subseteq Nat \ {0} /\ IsFiniteSet(Ports)
BY LacpAssumption

LEMMA SuppressIs ==
  ASSUME NEW h \in Group
  PROVE  /\ Suppress(h) \in Group /\ Suppress(h).sys = h.sys /\ Suppress(h).la = h.la
         /\ Suppress(h).active = h.active /\ Suppress(h).suppress = TRUE
         /\ Suppress(h).told = {}
         /\ \A q \in Ports : Same(h.port[q], Suppress(h).port[q])
<1>1. PICK P : P = [p \in Ports |-> [h.port[p] EXCEPT !.mark = @ \/ p \in h.la.dist]]
  OBVIOUS
<1>2. P \in [Ports -> Port] /\ \A q \in Ports : Same(h.port[q], P[q])
  <2> SUFFICES ASSUME NEW q \in Ports PROVE P[q] \in Port /\ Same(h.port[q], P[q])
    BY <1>1
  <2>1. PICK o \in Port : o = h.port[q]
    BY GroupType
  <2>2. PICK b \in BOOLEAN : b = (o.mark \/ q \in h.la.dist)
    BY DEF Port
  <2>3. P[q] = [o EXCEPT !.mark = b]
    BY <1>1, <2>1, <2>2
  <2>4. P[q] \in Port /\ Same(o, P[q])
    BY <2>3 DEF Port, Same, Rest, Base
  <2> QED BY <2>1, <2>4
<1>3. PICK O : O = [p \in Ports |-> IF p \in h.la.dist THEN Append(h.out[p], Marker)
                                    ELSE h.out[p]]
  OBVIOUS
<1>4. O \in [Ports -> Seq(Pdu \cup {Marker})]
  <2> SUFFICES ASSUME NEW q \in Ports PROVE O[q] \in Seq(Pdu \cup {Marker})
    BY <1>3
  <2>1. PICK o \in Seq(Pdu \cup {Marker}) : o = h.out[q]
    BY GroupType
  <2>2. Append(o, Marker) \in Seq(Pdu \cup {Marker})
    BY AppendProperties
  <2> QED BY <1>3, <2>1, <2>2
<1>5. PICK k : k = [h EXCEPT !.suppress = TRUE, !.sd = Delay, !.port = P, !.out = O]
  OBVIOUS
<1>6. /\ k \in Group /\ k.sys = h.sys /\ k.la = h.la /\ k.active = h.active
      /\ k.suppress = TRUE /\ k.port = P
  BY <1>2, <1>4, <1>5, Times DEF Group
<1>7. Suppress(h) = Tell(k)
  BY <1>1, <1>3, <1>5, Zenon DEF Suppress
<1>8. Aggregated(k) = {}
  BY <1>6 DEF Aggregated
<1> QED BY <1>2, <1>6, <1>7, <1>8, TellIs

LEMMA ActiveIs ==
  ASSUME NEW h \in Group, NEW b \in BOOLEAN
  PROVE  LET k == [h EXCEPT !.active = b]
         IN  /\ k \in Group /\ k.sys = h.sys /\ k.la = h.la /\ k.active = b
             /\ k.suppress = h.suppress /\ k.told = h.told /\ k.port = h.port
BY DEF Group

\* The aggregator is made active or not, as it has ports that distribute.
LEMMA SelectActiveIs ==
  ASSUME NEW h \in Group
  PROVE  /\ SelectActive(h) \in Group /\ SelectActive(h).sys = h.sys
         /\ SelectActive(h).la = h.la /\ (SelectActive(h).active <=> h.la.dist # {})
         /\ IF h.la.dist # {} /\ ~h.active
            THEN SelectActive(h).suppress /\ SelectActive(h).told = {}
            ELSE SelectActive(h).suppress = h.suppress /\ SelectActive(h).told = h.told
         /\ \A q \in Ports : Same(h.port[q], SelectActive(h).port[q])
<1>0. \A q \in Ports : Same(h.port[q], h.port[q])
  BY DEF Same, Rest, Base
<1>1. h.active \in BOOLEAN
  BY GroupType DEF Group
<1>2. CASE (h.la.dist # {}) = h.active
  BY <1>0, <1>1, <1>2 DEF SelectActive
<1>3. CASE h.la.dist # {} /\ ~h.active
  <2>1. PICK k : k = [h EXCEPT !.active = TRUE]
    OBVIOUS
  <2>2. /\ k \in Group /\ k.sys = h.sys /\ k.la = h.la /\ k.active = TRUE
        /\ k.suppress = h.suppress /\ k.told = h.told /\ k.port = h.port
    BY <2>1, ActiveIs
  <2>3. SelectActive(h) = Suppress(k)
    BY <1>3, <2>1 DEF SelectActive
  <2> QED BY <1>3, <2>2, <2>3, SuppressIs
<1>4. CASE h.la.dist = {} /\ h.active
  <2>1. PICK k : k = [h EXCEPT !.active = FALSE]
    OBVIOUS
  <2>2. /\ k \in Group /\ k.sys = h.sys /\ k.la = h.la /\ k.active = FALSE
        /\ k.suppress = h.suppress /\ k.told = h.told /\ k.port = h.port
    BY <2>1, ActiveIs
  <2>3. SelectActive(h) = k
    BY <1>4, <2>1 DEF SelectActive
  <2> QED BY <1>0, <1>4, <2>2, <2>3
<1> QED BY <1>1, <1>2, <1>3, <1>4

\* The ports that distribute are changed.
WithDist(h, D) == [h EXCEPT !.la.dist = D]

LEMMA WithDistIs ==
  ASSUME NEW h \in Group, NEW D \in SUBSET Ports
  PROVE  /\ WithDist(h, D) \in Group /\ WithDist(h, D).sys = h.sys
         /\ WithDist(h, D).active = h.active /\ WithDist(h, D).suppress = h.suppress
         /\ WithDist(h, D).told = h.told /\ WithDist(h, D).port = h.port
         /\ WithDist(h, D).la = [h.la EXCEPT !.dist = D]
<1>1. PICK o \in La : o = h.la
  BY GroupType DEF Group
<1>2. PICK l \in La : l = [o EXCEPT !.dist = D]
  BY DEF La
<1>3. PICK k : k = [h EXCEPT !.la = l]
  OBVIOUS
<1>4. /\ k \in Group /\ k.sys = h.sys /\ k.active = h.active /\ k.suppress = h.suppress
      /\ k.told = h.told /\ k.port = h.port /\ k.la = l
  BY <1>3 DEF Group
<1>5. WithDist(h, D) = k
  BY <1>1, <1>2, <1>3 DEF WithDist, Group
<1> QED BY <1>1, <1>2, <1>4, <1>5

\* The aggregators h and k have are the same but for who distributes.
SameLa(l, m) ==
  m.refcnt = l.refcnt /\ m.pending = l.pending /\ m.peer = l.peer /\ m.key = l.key

LEMMA LaDist ==
  ASSUME NEW h \in Group, NEW D \in SUBSET Ports
  PROVE  SameLa(h.la, WithDist(h, D).la) /\ WithDist(h, D).la.dist = D
<1>1. PICK o \in La : o = h.la
  BY GroupType DEF Group
<1>2. PICK l \in La : l = [o EXCEPT !.dist = D]
  BY DEF La
<1>3. SameLa(o, l) /\ l.dist = D
  BY <1>2 DEF La, SameLa
<1>4. WithDist(h, D).la = l
  BY <1>1, <1>2, WithDistIs
<1> QED BY <1>1, <1>3, <1>4

LEMMA DisableIs ==
  ASSUME NEW h \in Group, NEW p \in Ports, NEW k, k = DisableDistributing(h, p),
         h.active <=> h.la.dist # {},
         p \in h.la.dist <=> "dist" \in h.port[p].state,
         "dist" \in h.port[p].state => h.port[p].la
  PROVE  /\ k \in Group /\ k.sys = h.sys /\ SameLa(h.la, k.la)
         /\ k.la.dist = h.la.dist \ {p} /\ (k.active <=> k.la.dist # {})
         /\ IF "dist" \in h.port[p].state THEN k.suppress /\ k.told = {}
            ELSE k.suppress = h.suppress /\ k.told = h.told
         /\ Others(h, k, p) /\ Rest(h.port[p], k.port[p])
         /\ k.port[p].state = h.port[p].state \ {"dist"}
<1>0. \A q \in Ports : Same(h.port[q], h.port[q]) /\ Rest(h.port[q], h.port[q])
  BY DEF Same, Rest, Base
<1>1. CASE "dist" \notin h.port[p].state
  <2>1. k = h
    BY <1>1 DEF DisableDistributing, Is
  <2> QED BY <1>0, <1>1, <2>1 DEF SameLa, Others
<1>2. CASE "dist" \in h.port[p].state
  <2>1. PICK D \in SUBSET Ports : D = h.la.dist \ {p}
    BY GroupType DEF Group, La
  <2>2. PICK d : d = WithDist(h, D)
    OBVIOUS
  <2>3. /\ d \in Group /\ d.sys = h.sys /\ d.active = h.active
        /\ d.port = h.port /\ SameLa(h.la, d.la) /\ d.la.dist = D
    BY <2>2, WithDistIs, LaDist
  <2>4. h.active
    BY <1>2
  <2>5. PICK s : s = Suppress(d)
    OBVIOUS
  <2>6. /\ s \in Group /\ s.sys = h.sys /\ s.la = d.la /\ s.active /\ s.suppress
        /\ s.told = {} /\ \A q \in Ports : Same(h.port[q], s.port[q])
    BY <2>3, <2>4, <2>5, SuppressIs
  <2>7. PICK a : a = SelectActive(s)
    OBVIOUS
  <2>8. /\ a \in Group /\ a.sys = h.sys /\ a.la = d.la /\ (a.active <=> D # {}) /\ a.suppress
        /\ a.told = {} /\ \A q \in Ports : Same(s.port[q], a.port[q])
    BY <2>3, <2>6, <2>7, SelectActiveIs
  <2>9. \A q \in Ports : Same(h.port[q], a.port[q])
    BY <2>6, <2>8 DEF Same, Rest, Base
  <2>10. k = Clear(a, p, "dist")
    BY <1>2, <2>1, <2>2, <2>3, <2>4, <2>5, <2>7, GroupType DEF DisableDistributing, Is, WithDist
  <2>11. /\ Kept(a, k) /\ \A q \in Ports : q # p => k.port[q] = a.port[q]
         /\ k.port[p].state = a.port[p].state \ {"dist"}
         /\ Rest(a.port[p], k.port[p])
    <3>1. "dist" \in AllBits
      BY DEF AllBits
    <3> QED BY <2>8, <2>10, <3>1, ClearIs
  <2>12. Others(h, k, p) /\ Rest(h.port[p], k.port[p])
         /\ k.port[p].state = h.port[p].state \ {"dist"}
    BY <2>9, <2>11 DEF Others, Same, Rest, Base
  <2> QED BY <1>2, <2>1, <2>3, <2>8, <2>11, <2>12 DEF Kept
<1> QED BY <1>1, <1>2

LEMMA EnableIs ==
  ASSUME NEW h \in Group, NEW p \in Ports, NEW k, k = EnableDistributing(h, p),
         h.active <=> h.la.dist # {}, "dist" \notin h.port[p].state
  PROVE  /\ k \in Group /\ k.sys = h.sys /\ SameLa(h.la, k.la)
         /\ k.la.dist = h.la.dist \cup {p} /\ k.active /\ k.suppress /\ k.told = {}
         /\ Others(h, k, p) /\ Rest(h.port[p], k.port[p])
         /\ k.port[p].state = h.port[p].state \cup {"dist"}
<1>1. PICK D \in SUBSET Ports : D = h.la.dist \cup {p}
  BY GroupType DEF Group, La
<1>2. PICK d : d = WithDist(h, D)
  OBVIOUS
<1>3. /\ d \in Group /\ d.sys = h.sys /\ d.active = h.active
      /\ d.port = h.port /\ SameLa(h.la, d.la) /\ d.la.dist = D
  BY <1>2, WithDistIs, LaDist
<1>4. PICK e : e = Set(d, p, "dist")
  OBVIOUS
<1>5. /\ e \in Group /\ e.sys = h.sys /\ e.la = d.la /\ e.active = h.active
      /\ \A q \in Ports : q # p => e.port[q] = h.port[q]
      /\ e.port[p].state = h.port[p].state \cup {"dist"}
      /\ Rest(h.port[p], e.port[p])
  <2>1. "dist" \in AllBits
    BY DEF AllBits
  <2>2. /\ Kept(d, e) /\ \A q \in Ports : q # p => e.port[q] = d.port[q]
        /\ e.port[p].state = d.port[p].state \cup {"dist"}
        /\ Rest(d.port[p], e.port[p])
    BY <1>3, <1>4, <2>1, SetIs
  <2> QED BY <1>3, <2>2 DEF Kept
<1>6. /\ k \in Group /\ k.sys = h.sys /\ k.la = e.la /\ k.active /\ k.suppress /\ k.told = {}
      /\ \A q \in Ports : Same(e.port[q], k.port[q])
  <2>1. CASE h.active
    <3>1. k = Suppress(e)
      BY <1>1, <1>2, <1>4, <2>1 DEF EnableDistributing, Is, WithDist
    <3>2. /\ Suppress(e) \in Group /\ Suppress(e).sys = e.sys /\ Suppress(e).la = e.la
          /\ Suppress(e).active = e.active /\ Suppress(e).suppress = TRUE
          /\ Suppress(e).told = {}
          /\ \A q \in Ports : Same(e.port[q], Suppress(e).port[q])
      BY <1>5, SuppressIs
    <3> QED BY <1>5, <2>1, <3>1, <3>2
  <2>2. CASE ~h.active
    <3>1. k = SelectActive(e)
      BY <1>1, <1>2, <1>4, <2>2 DEF EnableDistributing, Is, WithDist
    <3>2. e.la.dist # {} /\ ~e.active
      BY <1>1, <1>3, <1>5, <2>2
    <3> QED BY <1>5, <3>1, <3>2, SelectActiveIs
  <2> QED BY <2>1, <2>2
<1>7. Others(h, k, p) /\ Rest(h.port[p], k.port[p])
      /\ k.port[p].state = h.port[p].state \cup {"dist"}
  BY <1>5, <1>6 DEF Others, Same, Rest, Base
<1> QED BY <1>1, <1>3, <1>5, <1>6, <1>7

LEMMA NoLaType == NoLa \in La /\ Nobody \in Id
BY DEF NoLa, La, Nobody, Id, Names

LEMMA LaType ==
  ASSUME NEW h \in Group
  PROVE  /\ h.la \in La /\ h.la.refcnt \in Int /\ h.la.pending \in Int
         /\ h.la.dist \in SUBSET Ports
BY DEF Group, La

\* A port no longer waits.
LEMMA StopWaitIs ==
  ASSUME NEW h \in Group, NEW p \in Ports, NEW k, k = StopWait(h, p)
  PROVE  /\ k \in Group /\ k.sys = h.sys /\ k.active = h.active /\ k.suppress = h.suppress
         /\ k.told = h.told /\ k.la.refcnt = h.la.refcnt /\ k.la.dist = h.la.dist
         /\ k.la.peer = h.la.peer /\ k.la.key = h.la.key
         /\ k.la.pending = h.la.pending - (IF h.port[p].ww = 0 THEN 0 ELSE 1)
         /\ Others(h, k, p) /\ k.port[p].state = h.port[p].state
         /\ Base(h.port[p], k.port[p]) /\ k.port[p].mux = h.port[p].mux /\ k.port[p].ww = 0
         /\ k.port[p].la = h.port[p].la
<1>0. \A q \in Ports : Same(h.port[q], h.port[q])
  BY DEF Same, Rest, Base
<1>1. PICK o \in Port : o = h.port[p]
  BY GroupType
<1>2. PICK r : r = [o EXCEPT !.ww = 0]
  OBVIOUS
<1>3. r \in Port /\ r.state = o.state /\ r.ww = 0 /\ Base(o, r) /\ r.mux = o.mux /\ r.la = o.la
  BY <1>2 DEF Port, Rest, Base
<1>4. CASE o.ww = 0
  <2>1. k = h
    BY <1>1, <1>4 DEF StopWait
  <2>2. r = o
    BY <1>2, <1>4 DEF Port
  <2> QED BY <1>0, <1>1, <1>2, <1>3, <1>4, <2>1, <2>2, LaType DEF Others
<1>5. CASE o.ww # 0
  <2>1. PICK a \in La : a = h.la
    BY GroupType
  <2>2. PICK l : l = [a EXCEPT !.pending = @ - 1]
    OBVIOUS
  <2>3. /\ l \in La /\ l.refcnt = a.refcnt /\ l.dist = a.dist /\ l.peer = a.peer
        /\ l.key = a.key /\ l.pending = a.pending - 1
    BY <2>2 DEF La
  <2>4. k = With2(h, p, r, l)
    BY <1>1, <1>2, <1>5, <2>1, <2>2, GroupType DEF StopWait, With2, Group
  <2>5. /\ k \in Group /\ k.la = l /\ k.port[p] = r
        /\ \A q \in Ports : q # p => k.port[q] = h.port[q]
        /\ k.sys = h.sys /\ k.active = h.active
        /\ k.suppress = h.suppress /\ k.told = h.told
    BY <1>3, <2>3, <2>4, With2Is
  <2> QED BY <1>0, <1>1, <1>2, <1>3, <1>5, <2>1, <2>3, <2>5 DEF Others
<1> QED BY <1>4, <1>5

\* A port leaves the aggregator, and with the last one the aggregator goes.
LEMMA UnselectIs ==
  ASSUME NEW h \in Group, NEW p \in Ports, NEW k, k = Unselect(h, p), h.port[p].la
  PROVE  /\ k \in Group /\ k.sys = h.sys /\ k.active = h.active /\ k.suppress = h.suppress
         /\ k.told = h.told
         /\ IF h.la.refcnt - 1 > 0
            THEN /\ k.la.refcnt = h.la.refcnt - 1 /\ k.la.dist = h.la.dist
                 /\ k.la.peer = h.la.peer /\ k.la.key = h.la.key
                 /\ k.la.pending = h.la.pending
            ELSE k.la = NoLa
         /\ Others(h, k, p) /\ k.port[p].state = h.port[p].state
         /\ Base(h.port[p], k.port[p]) /\ k.port[p].mux = h.port[p].mux
         /\ k.port[p].ww = h.port[p].ww /\ ~k.port[p].la
<1>0. \A q \in Ports : Same(h.port[q], h.port[q])
  BY DEF Same, Rest, Base
<1>1. PICK o \in Port : o = h.port[p]
  BY GroupType
<1>2. PICK r : r = [o EXCEPT !.la = FALSE]
  OBVIOUS
<1>3. r \in Port /\ r.state = o.state /\ Base(o, r) /\ r.mux = o.mux /\ r.ww = o.ww /\ ~r.la
  BY <1>2 DEF Port, Rest, Base
<1>4. PICK a \in La : a = h.la
  BY GroupType
<1>5. PICK l : l = [a EXCEPT !.refcnt = @ - 1]
  OBVIOUS
<1>6. /\ l \in La /\ l.refcnt = a.refcnt - 1 /\ l.dist = a.dist /\ l.peer = a.peer
      /\ l.key = a.key /\ l.pending = a.pending
  BY <1>5 DEF La
<1>7. PICK m : m = With2(h, p, r, l)
  OBVIOUS
<1>8. /\ m \in Group /\ m.la = l /\ m.port[p] = r
      /\ \A q \in Ports : q # p => m.port[q] = h.port[q]
      /\ m.sys = h.sys /\ m.active = h.active
      /\ m.suppress = h.suppress /\ m.told = h.told
  BY <1>3, <1>6, <1>7, With2Is
<1>9. m = [h EXCEPT !.port[p].la = FALSE, !.la.refcnt = @ - 1]
  BY <1>1, <1>2, <1>4, <1>5, <1>7, GroupType DEF With2, Group
<1>10. k = IF m.la.refcnt > 0 THEN m ELSE [m EXCEPT !.la = NoLa]
  BY <1>9 DEF Unselect
<1>11. CASE a.refcnt - 1 > 0
  <2>1. k = m
    BY <1>6, <1>8, <1>10, <1>11
  <2> QED BY <1>0, <1>1, <1>2, <1>3, <1>4, <1>6, <1>8, <1>11, <2>1, ZenonT(60) DEF Others
<1>12. CASE ~(a.refcnt - 1 > 0)
  <2>1. PICK n : n = With2(h, p, r, NoLa)
    OBVIOUS
  <2>2. /\ n \in Group /\ n.la = NoLa /\ n.port[p] = r
        /\ \A q \in Ports : q # p => n.port[q] = h.port[q]
        /\ n.sys = h.sys /\ n.active = h.active
        /\ n.suppress = h.suppress /\ n.told = h.told
    BY <1>3, <2>1, With2Is, NoLaType
  <2>3. k = n
    BY <1>6, <1>7, <1>8, <1>10, <1>12, <2>1, ZenonT(60) DEF With2, Group
  <2> QED BY <1>0, <1>1, <1>2, <1>3, <1>4, <1>12, <2>2, <2>3 DEF Others
<1> QED BY <1>11, <1>12

\* A port enters a state of the mux machine.
LEMMA MuxIs ==
  ASSUME NEW h \in Group, NEW p \in Ports, NEW m \in Muxes, h.port[p].mux # m,
         NEW e \in Group, e = Enter(h, p, m), NEW k, k = SetMux(h, p, m)
  PROVE  /\ Kept(e, k) /\ Others(e, k, p) /\ k.port[p].state = e.port[p].state
         /\ Base(e.port[p], k.port[p]) /\ k.port[p].mux = m
         /\ k.port[p].ww = e.port[p].ww /\ k.port[p].la = e.port[p].la
<1>0. \A q \in Ports : Same(e.port[q], e.port[q])
  BY DEF Same, Rest, Base
<1>1. PICK o \in Port : o = e.port[p]
  BY GroupType
<1>2. PICK r : r = [o EXCEPT !.mux = m]
  OBVIOUS
<1>3. r \in Port /\ r.state = o.state /\ Base(o, r) /\ r.mux = m /\ r.ww = o.ww /\ r.la = o.la
  BY <1>2 DEF Port, Rest, Base
<1>4. k = With(e, p, r)
  BY <1>1, <1>2, GroupType DEF SetMux, With, Group
<1>5. /\ Kept(e, k) /\ k.port[p] = r
      /\ \A q \in Ports : q # p => k.port[q] = e.port[q]
  BY <1>3, <1>4, WithIs
<1> QED BY <1>0, <1>1, <1>2, <1>3, <1>5 DEF Others

-----------------------------------------------------------------------------
(* The states of the mux machine                                           *)

LEMMA SetsFinite ==
  ASSUME NEW h
  PROVE  /\ IsFiniteSet(Joined(h)) /\ Cardinality(Joined(h)) \in Nat
         /\ IsFiniteSet(Pending(h)) /\ Cardinality(Pending(h)) \in Nat
<1>1. Joined(h) \in SUBSET Ports /\ Pending(h) \in SUBSET Ports
  BY DEF Joined, Pending
<1> QED BY <1>1, Times, FS_Subset, FS_CardinalityType

LEMMA OthersFit ==
  ASSUME NEW h, NEW k, NEW p \in Ports, Others(h, k, p), k.sys = h.sys, InvBut(h, p),
         NEW q \in Ports, q # p
  PROVE  /\ Bits(k.port[q]) /\ Heard(k, k.port[q])
         /\ k.port[q].la <=> k.port[q].mux # "DETACHED"
         /\ k.la.peer = h.la.peer /\ k.la.key = h.la.key => Chosen(k, k.port[q])
<1>1. Same(h.port[q], k.port[q])
  BY DEF Others
<1>2. /\ Bits(h.port[q]) /\ Heard(h, h.port[q]) /\ Chosen(h, h.port[q])
      /\ h.port[q].la <=> h.port[q].mux # "DETACHED"
  BY DEF InvBut
<1>3. Bits(k.port[q]) /\ Heard(k, k.port[q])
  BY <1>1, <1>2 DEF Same, Rest, Base, Bits, Heard
<1>4. k.port[q].la <=> k.port[q].mux # "DETACHED"
  BY <1>1, <1>2 DEF Same, Rest, Base
<1>5. ASSUME k.la.peer = h.la.peer, k.la.key = h.la.key PROVE Chosen(k, k.port[q])
  BY <1>1, <1>2, <1>5 DEF Same, Rest, Base, Chosen
<1> QED BY <1>3, <1>4, <1>5

\* The sets of ports when one port is changed.
LEMMA OthersSets ==
  ASSUME NEW h, NEW k, NEW p \in Ports, Others(h, k, p)
  PROVE  /\ Joined(k) = IF k.port[p].la THEN Joined(h) \cup {p} ELSE Joined(h) \ {p}
         /\ Pending(k) = IF k.port[p].ww > 0 THEN Pending(h) \cup {p} ELSE Pending(h) \ {p}
         /\ Spread(k) = IF "dist" \in k.port[p].state THEN Spread(h) \cup {p} ELSE Spread(h) \ {p}
BY DEF Others, Same, Rest, Base, Joined, Pending, Spread

LEMMA InSets ==
  ASSUME NEW h, NEW p \in Ports
  PROVE  /\ p \in Joined(h) <=> h.port[p].la
         /\ p \in Pending(h) <=> h.port[p].ww > 0
         /\ p \in Spread(h) <=> "dist" \in h.port[p].state
         /\ h.port[p].la => Cardinality(Joined(h)) # 0
         /\ Cardinality(Pending(h)) = 0 => ~(h.port[p].ww > 0)
<1>1. /\ p \in Joined(h) <=> h.port[p].la
      /\ p \in Pending(h) <=> h.port[p].ww > 0
      /\ p \in Spread(h) <=> "dist" \in h.port[p].state
  BY DEF Joined, Pending, Spread
<1>2. /\ Cardinality(Joined(h)) = 0 <=> Joined(h) = {}
      /\ Cardinality(Pending(h)) = 0 <=> Pending(h) = {}
  BY SetsFinite, FS_EmptySet
<1> QED BY <1>1, <1>2

LEMMA Assembled ==
  ASSUME NEW h, NEW k \in Group, NEW p \in Ports, InvBut(h, p), k.sys = h.sys, Others(h, k, p),
         k.la.peer = h.la.peer /\ k.la.key = h.la.key,
         Bits(k.port[p]), Heard(k, k.port[p]), Chosen(k, k.port[p]), Sums(k),
         k.port[p].la <=> k.port[p].mux # "DETACHED"
  PROVE  Inv(k)
<1>1. ASSUME NEW q \in Ports
      PROVE  /\ Bits(k.port[q]) /\ Heard(k, k.port[q]) /\ Chosen(k, k.port[q])
             /\ k.port[q].la <=> k.port[q].mux # "DETACHED"
  BY OthersFit
<1> QED BY <1>1 DEF Inv, InvBut

\* What is known of the port that the machine moves.
LEMMA Moving ==
  ASSUME NEW h, NEW p \in Ports, InvBut(h, p)
  PROVE  /\ h \in Group /\ h.sys = "own" /\ h.port[p] \in Port /\ Sums(h)
         /\ Bits(h.port[p]) /\ Heard(h, h.port[p]) /\ Chosen(h, h.port[p])
         /\ h.port[p].mux # "DETACHED" => h.port[p].la
         /\ h.port[p].mux \in Muxes /\ h.port[p].ww \in Nat /\ h.port[p].state \in SUBSET AllBits
<1>1. h.port[p] \in Port
  BY GroupType DEF InvBut
<1> QED BY <1>1 DEF InvBut, Port

LEMMA WaitingStep ==
  ASSUME NEW h, NEW p \in Ports, InvBut(h, p), NEW k, k = SetMux(h, p, "WAITING"),
         h.port[p].mux = "DETACHED", h.port[p].sel
  PROVE  Inv(k)
<1>1. /\ h \in Group /\ h.sys = "own" /\ h.port[p] \in Port /\ Sums(h)
      /\ Bits(h.port[p]) /\ Heard(h, h.port[p]) /\ Chosen(h, h.port[p]) /\ h.port[p].ww \in Nat
  BY Moving
<1>2. PICK o \in Port : o = h.port[p]
  BY <1>1
<1>3. PICK r : r = [o EXCEPT !.ww = WaitTime]
  OBVIOUS
<1>4. r \in Port /\ r.state = o.state /\ Base(o, r) /\ r.ww = WaitTime /\ r.la = o.la
  BY <1>3, Times DEF Port, Rest, Base
<1>5. PICK a \in La : a = h.la
  BY <1>1, GroupType
<1>6. PICK l : l = [a EXCEPT !.pending = @ + 1]
  OBVIOUS
<1>7. /\ l \in La /\ l.refcnt = a.refcnt /\ l.dist = a.dist /\ l.peer = a.peer
      /\ l.key = a.key /\ l.pending = a.pending + 1
  BY <1>6 DEF La
<1>8. PICK e : e = With2(h, p, r, l)
  OBVIOUS
<1>9. /\ e \in Group /\ e.la = l /\ e.port[p] = r
      /\ \A q \in Ports : q # p => e.port[q] = h.port[q]
      /\ e.sys = h.sys /\ e.active = h.active
      /\ e.suppress = h.suppress /\ e.told = h.told
  <2>1. h \in Group
    BY <1>1
  <2> QED BY <1>4, <1>7, <1>8, <2>1, With2Is
<1>10. e = Enter(h, p, "WAITING")
  BY <1>1, <1>2, <1>3, <1>5, <1>6, <1>8, GroupType DEF Enter, With2, Group
<1>11. /\ Kept(e, k) /\ Others(e, k, p) /\ k.port[p].state = e.port[p].state
       /\ Base(e.port[p], k.port[p]) /\ k.port[p].mux = "WAITING"
       /\ k.port[p].ww = e.port[p].ww /\ k.port[p].la = e.port[p].la
  <2>1. "WAITING" \in Muxes
    BY DEF Muxes
  <2> QED BY <1>1, <1>9, <1>10, <2>1, MuxIs
<1>12. /\ k.port[p].state = o.state /\ Base(o, k.port[p])
       /\ k.port[p].mux = "WAITING" /\ k.port[p].ww = WaitTime /\ k.port[p].la = o.la
  BY <1>4, <1>9, <1>11 DEF Base
<1>13. Others(h, k, p) /\ k \in Group /\ k.sys = h.sys /\ k.la = l /\ k.active = h.active
       /\ k.suppress = h.suppress /\ k.told = h.told
  BY <1>9, <1>11 DEF Kept, Others
<1>14. /\ Bits(k.port[p]) /\ Heard(k, k.port[p]) /\ Chosen(k, k.port[p])
       /\ k.port[p].la
  <2>1. Bits(k.port[p])
    BY <1>1, <1>2, <1>12 DEF Bits
  <2>2. Heard(k, k.port[p])
    BY <1>1, <1>2, <1>12, <1>13 DEF Heard, Base
  <2>3. Chosen(k, k.port[p]) /\ k.port[p].la
    BY <1>1, <1>2, <1>5, <1>7, <1>12, <1>13 DEF Chosen, Base
  <2> QED BY <2>1, <2>2, <2>3
<1>15. Sums(k)
  <2>1. o.ww = 0 /\ o.la /\ "dist" \notin o.state
    BY <1>1, <1>2 DEF Bits, Chosen
  <2>2. Joined(k) = Joined(h) /\ Spread(k) = Spread(h) /\ p \notin Pending(h)
        /\ Pending(k) = Pending(h) \cup {p}
    <3>1. /\ p \in Joined(h) /\ p \notin Spread(h) /\ p \notin Pending(h)
      BY <1>2, <2>1, InSets
    <3>2. k.port[p].la /\ k.port[p].ww > 0 /\ "dist" \notin k.port[p].state
      <4>1. WaitTime > 0
        BY Times
      <4> QED BY <1>12, <2>1, <4>1
    <3>3. /\ Joined(k) = Joined(h) \cup {p} /\ Pending(k) = Pending(h) \cup {p}
          /\ Spread(k) = Spread(h) \ {p}
      BY <1>13, <3>2, OthersSets
    <3> QED BY <3>1, <3>3
  <2>3. Cardinality(Pending(k)) = Cardinality(Pending(h)) + 1
    BY <2>2, SetsFinite, FS_AddElement
  <2>4. k.la.refcnt # 0
    <3>1. Cardinality(Joined(h)) # 0
      BY <1>2, <2>1, InSets
    <3> QED BY <1>1, <1>5, <1>7, <1>13, <3>1 DEF Sums
  <2> QED BY <1>1, <1>5, <1>7, <1>13, <2>2, <2>3, <2>4 DEF Sums
<1> QED BY <1>5, <1>7, <1>12, <1>13, <1>14, <1>15, Assembled

\* The bits that say who was heard.
Hearing(S, T) == \A b \in {"agg", "dflt", "exp"} : b \in T <=> b \in S

\* A port with an aggregator goes to another state with one.
LEMMA MovedFits ==
  ASSUME NEW h, NEW p \in Ports, InvBut(h, p), NEW k \in Group, k.sys = h.sys,
         SameLa(h.la, k.la), Others(h, k, p), Base(h.port[p], k.port[p]),
         h.port[p].la, k.port[p].la, k.port[p].mux # "DETACHED",
         k.port[p].ww = h.port[p].ww, Bits(k.port[p]),
         Hearing(h.port[p].state, k.port[p].state),
         k.la.dist = (IF "dist" \in k.port[p].state THEN h.la.dist \cup {p} ELSE h.la.dist \ {p}),
         k.active <=> k.la.dist # {}, k.told = {q \in k.la.dist : ~k.suppress}
  PROVE  Inv(k)
<1>1. /\ h \in Group /\ h.port[p] \in Port /\ Sums(h)
      /\ Bits(h.port[p]) /\ Heard(h, h.port[p]) /\ Chosen(h, h.port[p])
  BY Moving
<1>2. Heard(k, k.port[p])
  BY <1>1 DEF Heard, Base, Hearing
<1>3. Chosen(k, k.port[p])
  BY <1>1 DEF Chosen, Base, SameLa
<1>4. /\ Joined(k) = Joined(h) \cup {p}
      /\ Pending(k) = IF k.port[p].ww > 0 THEN Pending(h) \cup {p} ELSE Pending(h) \ {p}
      /\ Spread(k) = IF "dist" \in k.port[p].state THEN Spread(h) \cup {p} ELSE Spread(h) \ {p}
  BY OthersSets
<1>5. /\ p \in Joined(h) <=> h.port[p].la
      /\ p \in Pending(h) <=> h.port[p].ww > 0
      /\ h.port[p].la => Cardinality(Joined(h)) # 0
  BY InSets
<1>6. Joined(k) = Joined(h) /\ Pending(k) = Pending(h)
  BY <1>4, <1>5
<1>7. k.la.dist = Spread(k)
  BY <1>1, <1>4 DEF Sums
<1>8. k.la.refcnt # 0
  BY <1>1, <1>5 DEF Sums, SameLa
<1>9. Sums(k)
  BY <1>1, <1>6, <1>7, <1>8 DEF Sums, SameLa
<1>10. k.la.peer = h.la.peer /\ k.la.key = h.la.key
  BY DEF SameLa
<1> QED BY <1>2, <1>3, <1>9, <1>10, Assembled

LEMMA BitsType ==
  /\ "act" \in AllBits /\ "fast" \in AllBits /\ "agg" \in AllBits /\ "sync" \in AllBits
  /\ "coll" \in AllBits /\ "dist" \in AllBits /\ "dflt" \in AllBits /\ "exp" \in AllBits
BY DEF AllBits

LEMMA AttachedStep ==
  ASSUME NEW h, NEW p \in Ports, InvBut(h, p), NEW k, k = SetMux(h, p, "ATTACHED"),
         h.port[p].mux \in {"WAITING", "COLLECTING"}, h.port[p].ww = 0
  PROVE  Inv(k)
<1>1. /\ h \in Group /\ h.port[p] \in Port /\ Sums(h) /\ Bits(h.port[p]) /\ h.port[p].la
  BY Moving
<1>2. PICK a : a = Set(h, p, "sync")
  OBVIOUS
<1>3. /\ Kept(h, a) /\ \A q \in Ports : q # p => a.port[q] = h.port[q]
      /\ a.port[p].state = h.port[p].state \cup {"sync"}
      /\ Rest(h.port[p], a.port[p])
  BY <1>1, <1>2, BitsType, SetIs
<1>4. PICK b : b = Clear(a, p, "coll")
  OBVIOUS
<1>5. /\ Kept(a, b) /\ \A q \in Ports : q # p => b.port[q] = a.port[q]
      /\ b.port[p].state = a.port[p].state \ {"coll"}
      /\ Rest(a.port[p], b.port[p])
  <2>1. a \in Group
    BY <1>3 DEF Kept
  <2> QED BY <1>4, <2>1, BitsType, ClearIs
<1>6. PICK e : e = Ntt(b, p)
  OBVIOUS
<1>7. Kept(b, e) /\ \A q \in Ports : Same(b.port[q], e.port[q])
  <2>1. b \in Group
    BY <1>5 DEF Kept
  <2> QED BY <1>6, <2>1, NttIs DEF Alike
<1>8. e = Enter(h, p, "ATTACHED")
  BY <1>2, <1>4, <1>6 DEF Enter
<1>9. /\ Kept(e, k) /\ Others(e, k, p) /\ k.port[p].state = e.port[p].state
      /\ Base(e.port[p], k.port[p]) /\ k.port[p].mux = "ATTACHED"
      /\ k.port[p].ww = e.port[p].ww /\ k.port[p].la = e.port[p].la
  <2>1. "ATTACHED" \in Muxes
    BY DEF Muxes
  <2>2. e \in Group
    BY <1>7 DEF Kept
  <2> QED BY <1>1, <1>8, <2>1, <2>2, MuxIs
<1>10. Kept(h, k)
  BY <1>3, <1>5, <1>7, <1>9 DEF Kept
<1>11. Others(h, k, p)
  <2>1. Others(h, a, p) /\ Others(a, b, p)
    BY <1>3, <1>5, OthersEqual
  <2>2. Others(b, e, p)
    BY <1>7, OthersSame
  <2>3. Others(h, b, p)
    BY <2>1, OthersChain
  <2>4. Others(h, e, p)
    BY <2>2, <2>3, OthersChain
  <2> QED BY <1>9, <2>4, OthersChain
<1>12. /\ Base(h.port[p], k.port[p]) /\ k.port[p].la = h.port[p].la
       /\ k.port[p].ww = h.port[p].ww
       /\ k.port[p].state = (h.port[p].state \cup {"sync"}) \ {"coll"}
  BY <1>3, <1>5, <1>7, <1>9 DEF Same, Rest, Base
<1>13. Bits(k.port[p]) /\ "dist" \notin h.port[p].state
  BY <1>1, <1>9, <1>12 DEF Bits
<1>14. Hearing(h.port[p].state, k.port[p].state) /\ "dist" \notin k.port[p].state
  BY <1>12, <1>13 DEF Hearing
<1>15. p \notin h.la.dist
  BY <1>1, <1>13, InSets DEF Sums
<1>16. /\ k \in Group /\ k.sys = h.sys /\ SameLa(h.la, k.la) /\ k.la.dist = h.la.dist \ {p}
       /\ k.active <=> k.la.dist # {}
       /\ k.told = {q \in k.la.dist : ~k.suppress}
  BY <1>1, <1>10, <1>15 DEF Kept, SameLa, Sums
<1> QED BY <1>1, <1>9, <1>11, <1>12, <1>13, <1>14, <1>16, MovedFits

LEMMA CollectingStep ==
  ASSUME NEW h, NEW p \in Ports, InvBut(h, p), NEW k, k = SetMux(h, p, "COLLECTING"),
         h.port[p].mux \in {"ATTACHED", "DISTRIBUTING"}
  PROVE  Inv(k)
<1>1. /\ h \in Group /\ h.port[p] \in Port /\ Sums(h) /\ Bits(h.port[p]) /\ h.port[p].la
      /\ h.port[p].ww \in Nat
  BY Moving
<1>2. PICK a : a = Set(h, p, "coll")
  OBVIOUS
<1>3. /\ Kept(h, a) /\ \A q \in Ports : q # p => a.port[q] = h.port[q]
      /\ a.port[p].state = h.port[p].state \cup {"coll"}
      /\ Rest(h.port[p], a.port[p])
  BY <1>1, <1>2, BitsType, SetIs
<1>4. PICK b : b = DisableDistributing(a, p)
  OBVIOUS
<1>5. /\ b \in Group /\ b.sys = a.sys /\ SameLa(a.la, b.la)
      /\ b.la.dist = a.la.dist \ {p} /\ (b.active <=> b.la.dist # {})
      /\ IF "dist" \in a.port[p].state THEN b.suppress /\ b.told = {}
         ELSE b.suppress = a.suppress /\ b.told = a.told
      /\ Others(a, b, p) /\ Rest(a.port[p], b.port[p])
      /\ b.port[p].state = a.port[p].state \ {"dist"}
  <2>1. a \in Group /\ (a.active <=> a.la.dist # {})
    BY <1>1, <1>3 DEF Kept, Sums
  <2>2. p \in a.la.dist <=> "dist" \in a.port[p].state
    BY <1>1, <1>3, InSets DEF Kept, Sums
  <2>3. a.port[p].la
    BY <1>1, <1>3 DEF Rest
  <2> QED BY <1>4, <2>1, <2>2, <2>3, DisableIs
<1>6. PICK e : e = Ntt(b, p)
  OBVIOUS
<1>7. Kept(b, e) /\ \A q \in Ports : Same(b.port[q], e.port[q])
  BY <1>5, <1>6, NttIs DEF Alike
<1>8. e = Enter(h, p, "COLLECTING")
  BY <1>2, <1>4, <1>6 DEF Enter
<1>9. /\ Kept(e, k) /\ Others(e, k, p) /\ k.port[p].state = e.port[p].state
      /\ Base(e.port[p], k.port[p]) /\ k.port[p].mux = "COLLECTING"
      /\ k.port[p].ww = e.port[p].ww /\ k.port[p].la = e.port[p].la
  <2>1. "COLLECTING" \in Muxes
    BY DEF Muxes
  <2>2. e \in Group
    BY <1>7 DEF Kept
  <2> QED BY <1>1, <1>8, <2>1, <2>2, MuxIs
<1>10. /\ k \in Group /\ k.sys = h.sys /\ SameLa(h.la, k.la) /\ k.la.dist = h.la.dist \ {p}
       /\ k.active <=> k.la.dist # {}
       /\ IF "dist" \in h.port[p].state THEN k.suppress /\ k.told = {}
          ELSE k.suppress = h.suppress /\ k.told = h.told
  BY <1>3, <1>5, <1>7, <1>9 DEF Kept, SameLa
<1>11. Others(h, k, p)
  <2>1. Others(h, a, p)
    BY <1>3, OthersEqual
  <2>2. Others(b, e, p)
    BY <1>7, OthersSame
  <2>3. Others(h, b, p)
    BY <1>5, <2>1, OthersChain
  <2>4. Others(h, e, p)
    BY <2>2, <2>3, OthersChain
  <2> QED BY <1>9, <2>4, OthersChain
<1>12. /\ Base(h.port[p], k.port[p]) /\ k.port[p].la = h.port[p].la
       /\ k.port[p].ww = h.port[p].ww
       /\ k.port[p].state = (h.port[p].state \cup {"coll"}) \ {"dist"}
  BY <1>3, <1>5, <1>7, <1>9 DEF Same, Rest, Base
<1>13. Bits(k.port[p]) /\ "dist" \notin k.port[p].state
  BY <1>1, <1>9, <1>12 DEF Bits
<1>14. Hearing(h.port[p].state, k.port[p].state)
  BY <1>12 DEF Hearing
<1>15. k.told = {q \in k.la.dist : ~k.suppress}
  <2>1. CASE "dist" \in h.port[p].state
    BY <1>10, <2>1
  <2>2. CASE "dist" \notin h.port[p].state
    BY <1>1, <1>10, <2>2, InSets DEF Sums
  <2> QED BY <2>1, <2>2
<1> QED BY <1>1, <1>9, <1>10, <1>11, <1>12, <1>13, <1>14, <1>15, MovedFits

LEMMA DistributingStep ==
  ASSUME NEW h, NEW p \in Ports, InvBut(h, p), NEW k, k = SetMux(h, p, "DISTRIBUTING"),
         h.port[p].mux = "COLLECTING"
  PROVE  Inv(k)
<1>1. /\ h \in Group /\ h.port[p] \in Port /\ Sums(h) /\ Bits(h.port[p]) /\ h.port[p].la
      /\ h.port[p].ww \in Nat
  BY Moving
<1>2. PICK b : b = EnableDistributing(h, p)
  OBVIOUS
<1>3. /\ b \in Group /\ b.sys = h.sys /\ SameLa(h.la, b.la)
      /\ b.la.dist = h.la.dist \cup {p} /\ b.active /\ b.suppress /\ b.told = {}
      /\ Others(h, b, p) /\ Rest(h.port[p], b.port[p])
      /\ b.port[p].state = h.port[p].state \cup {"dist"}
  <2>1. (h.active <=> h.la.dist # {}) /\ "dist" \notin h.port[p].state
    BY <1>1 DEF Bits, Sums
  <2> QED BY <1>1, <1>2, <2>1, EnableIs
<1>6. PICK e : e = Ntt(b, p)
  OBVIOUS
<1>7. Kept(b, e) /\ \A q \in Ports : Same(b.port[q], e.port[q])
  BY <1>3, <1>6, NttIs DEF Alike
<1>8. e = Enter(h, p, "DISTRIBUTING")
  BY <1>2, <1>6 DEF Enter
<1>9. /\ Kept(e, k) /\ Others(e, k, p) /\ k.port[p].state = e.port[p].state
      /\ Base(e.port[p], k.port[p]) /\ k.port[p].mux = "DISTRIBUTING"
      /\ k.port[p].ww = e.port[p].ww /\ k.port[p].la = e.port[p].la
  <2>1. "DISTRIBUTING" \in Muxes
    BY DEF Muxes
  <2>2. e \in Group
    BY <1>7 DEF Kept
  <2> QED BY <1>1, <1>8, <2>1, <2>2, MuxIs
<1>10. /\ k \in Group /\ k.sys = h.sys /\ SameLa(h.la, k.la) /\ k.la.dist = h.la.dist \cup {p}
       /\ k.active /\ k.suppress /\ k.told = {}
  BY <1>3, <1>7, <1>9, ZenonT(60) DEF Kept, SameLa
<1>11. Others(h, k, p)
  <2>1. Others(b, e, p)
    BY <1>7, OthersSame
  <2>2. Others(h, e, p)
    BY <1>3, <2>1, OthersChain
  <2> QED BY <1>9, <2>2, OthersChain
<1>12. /\ Base(h.port[p], k.port[p]) /\ k.port[p].la = h.port[p].la
       /\ k.port[p].ww = h.port[p].ww
       /\ k.port[p].state = h.port[p].state \cup {"dist"}
  BY <1>3, <1>7, <1>9 DEF Same, Rest, Base
<1>13. Bits(k.port[p])
  BY <1>1, <1>9, <1>12 DEF Bits
<1>14. Hearing(h.port[p].state, k.port[p].state) /\ "dist" \in k.port[p].state
  BY <1>12 DEF Hearing
<1>15. (k.active <=> k.la.dist # {}) /\ k.told = {q \in k.la.dist : ~k.suppress}
  BY <1>10
<1> QED BY <1>1, <1>9, <1>10, <1>11, <1>12, <1>13, <1>14, <1>15, MovedFits

\* A port leaves the aggregator, whether or not it was told to.
LEMMA DetachIs ==
  ASSUME NEW h, NEW p \in Ports, InvBut(h, p), NEW k, k = SetMux(h, p, "DETACHED"),
         h.port[p].mux # "DETACHED"
  PROVE  /\ k \in Group /\ k.sys = h.sys /\ Others(h, k, p) /\ Base(h.port[p], k.port[p])
         /\ k.port[p].mux = "DETACHED" /\ k.port[p].ww = 0 /\ ~k.port[p].la
         /\ k.port[p].state = h.port[p].state \ {"sync", "coll", "dist"}
         /\ IF h.la.refcnt - 1 > 0
            THEN /\ k.la.refcnt = h.la.refcnt - 1 /\ k.la.dist = h.la.dist \ {p}
                 /\ k.la.peer = h.la.peer /\ k.la.key = h.la.key
                 /\ k.la.pending = h.la.pending - (IF h.port[p].ww = 0 THEN 0 ELSE 1)
            ELSE k.la = NoLa
         /\ k.active <=> h.la.dist \ {p} # {}
         /\ IF "dist" \in h.port[p].state THEN k.suppress /\ k.told = {}
            ELSE k.suppress = h.suppress /\ k.told = h.told
<1>1. /\ h \in Group /\ h.port[p] \in Port /\ Sums(h) /\ Bits(h.port[p]) /\ h.port[p].la
      /\ h.port[p].ww \in Nat
  BY Moving
<1>2. PICK a : a = Clear(h, p, "sync")
  OBVIOUS
<1>3. /\ Kept(h, a) /\ \A q \in Ports : q # p => a.port[q] = h.port[q]
      /\ a.port[p].state = h.port[p].state \ {"sync"}
      /\ Rest(h.port[p], a.port[p])
  BY <1>1, <1>2, BitsType, ClearIs
<1>4. PICK b : b = DisableDistributing(a, p)
  OBVIOUS
<1>5. /\ b \in Group /\ b.sys = a.sys /\ SameLa(a.la, b.la)
      /\ b.la.dist = a.la.dist \ {p} /\ (b.active <=> b.la.dist # {})
      /\ IF "dist" \in a.port[p].state THEN b.suppress /\ b.told = {}
         ELSE b.suppress = a.suppress /\ b.told = a.told
      /\ Others(a, b, p) /\ Rest(a.port[p], b.port[p])
      /\ b.port[p].state = a.port[p].state \ {"dist"}
  <2>1. a \in Group /\ (a.active <=> a.la.dist # {})
    BY <1>1, <1>3 DEF Kept, Sums
  <2>2. p \in a.la.dist <=> "dist" \in a.port[p].state
    BY <1>1, <1>3, InSets DEF Kept, Sums
  <2>3. a.port[p].la
    BY <1>1, <1>3 DEF Rest
  <2> QED BY <1>4, <2>1, <2>2, <2>3, DisableIs
<1>6. PICK c : c = Clear(b, p, "coll")
  OBVIOUS
<1>7. /\ Kept(b, c) /\ \A q \in Ports : q # p => c.port[q] = b.port[q]
      /\ c.port[p].state = b.port[p].state \ {"coll"}
      /\ Rest(b.port[p], c.port[p])
  BY <1>5, <1>6, BitsType, ClearIs
<1>8. PICK n : n = Ntt(c, p)
  OBVIOUS
<1>9. Kept(c, n) /\ \A q \in Ports : Same(c.port[q], n.port[q])
  <2>1. c \in Group
    BY <1>7 DEF Kept
  <2> QED BY <1>8, <2>1, NttIs DEF Alike
<1>10. /\ n \in Group /\ n.sys = h.sys /\ SameLa(h.la, n.la) /\ n.la.dist = h.la.dist \ {p}
       /\ n.active <=> h.la.dist \ {p} # {}
       /\ IF "dist" \in h.port[p].state THEN n.suppress /\ n.told = {}
          ELSE n.suppress = h.suppress /\ n.told = h.told
  BY <1>3, <1>5, <1>7, <1>9 DEF Kept, SameLa
<1>11. Others(h, n, p)
  <2>1. Others(h, a, p) /\ Others(b, c, p)
    BY <1>3, <1>7, OthersEqual
  <2>2. Others(c, n, p)
    BY <1>9, OthersSame
  <2>3. Others(h, b, p)
    BY <1>5, <2>1, OthersChain
  <2>4. Others(h, c, p)
    BY <2>1, <2>3, OthersChain
  <2> QED BY <2>2, <2>4, OthersChain
<1>12. /\ Rest(h.port[p], n.port[p])
       /\ n.port[p].state = h.port[p].state \ {"sync", "coll", "dist"}
  BY <1>3, <1>5, <1>7, <1>9 DEF Same, Rest, Base
<1>13. PICK w : w = StopWait(n, p)
  OBVIOUS
<1>14. /\ w \in Group /\ w.sys = n.sys /\ w.active = n.active /\ w.suppress = n.suppress
       /\ w.told = n.told /\ w.la.refcnt = n.la.refcnt /\ w.la.dist = n.la.dist
       /\ w.la.peer = n.la.peer /\ w.la.key = n.la.key
       /\ w.la.pending = n.la.pending - (IF n.port[p].ww = 0 THEN 0 ELSE 1)
       /\ Others(n, w, p) /\ w.port[p].state = n.port[p].state
       /\ Base(n.port[p], w.port[p]) /\ w.port[p].mux = n.port[p].mux /\ w.port[p].ww = 0
       /\ w.port[p].la = n.port[p].la
  BY <1>10, <1>13, StopWaitIs
<1>15. PICK e : e = Unselect(w, p)
  OBVIOUS
<1>16. /\ e \in Group /\ e.sys = w.sys /\ e.active = w.active /\ e.suppress = w.suppress
       /\ e.told = w.told
       /\ IF w.la.refcnt - 1 > 0
          THEN /\ e.la.refcnt = w.la.refcnt - 1 /\ e.la.dist = w.la.dist
               /\ e.la.peer = w.la.peer /\ e.la.key = w.la.key
               /\ e.la.pending = w.la.pending
          ELSE e.la = NoLa
       /\ Others(w, e, p) /\ e.port[p].state = w.port[p].state
       /\ Base(w.port[p], e.port[p]) /\ e.port[p].mux = w.port[p].mux
       /\ e.port[p].ww = w.port[p].ww /\ ~e.port[p].la
  <2>1. w.port[p].la
    BY <1>1, <1>12, <1>14 DEF Rest
  <2> QED BY <1>14, <1>15, <2>1, UnselectIs
<1>17. e = Enter(h, p, "DETACHED")
  BY <1>2, <1>4, <1>6, <1>8, <1>13, <1>15 DEF Enter
<1>18. /\ Kept(e, k) /\ Others(e, k, p) /\ k.port[p].state = e.port[p].state
       /\ Base(e.port[p], k.port[p]) /\ k.port[p].mux = "DETACHED"
       /\ k.port[p].ww = e.port[p].ww /\ k.port[p].la = e.port[p].la
  <2>1. "DETACHED" \in Muxes
    BY DEF Muxes
  <2> QED BY <1>1, <1>16, <1>17, <2>1, MuxIs
<1>19. Others(h, k, p)
  <2>1. Others(h, w, p)
    BY <1>11, <1>14, OthersChain
  <2>2. Others(h, e, p)
    BY <1>16, <2>1, OthersChain
  <2> QED BY <1>18, <2>2, OthersChain
<1>20. /\ Base(h.port[p], k.port[p])
       /\ k.port[p].mux = "DETACHED" /\ k.port[p].ww = 0 /\ ~k.port[p].la
       /\ k.port[p].state = h.port[p].state \ {"sync", "coll", "dist"}
  BY <1>12, <1>14, <1>16, <1>18 DEF Rest, Base
<1>21. /\ k \in Group /\ k.sys = h.sys
       /\ k.active <=> h.la.dist \ {p} # {}
       /\ IF "dist" \in h.port[p].state THEN k.suppress /\ k.told = {}
          ELSE k.suppress = h.suppress /\ k.told = h.told
  BY <1>10, <1>14, <1>16, <1>18 DEF Kept
<1>22. k.la = e.la /\ n.port[p].ww = h.port[p].ww
  BY <1>12, <1>18 DEF Kept, Rest
<1>23. /\ w.la.refcnt = h.la.refcnt /\ w.la.dist = h.la.dist \ {p}
       /\ w.la.peer = h.la.peer /\ w.la.key = h.la.key
       /\ w.la.pending = h.la.pending - (IF h.port[p].ww = 0 THEN 0 ELSE 1)
  BY <1>10, <1>14, <1>22 DEF SameLa
<1> QED BY <1>16, <1>19, <1>20, <1>21, <1>22, <1>23

LEMMA DetachedStep ==
  ASSUME NEW h, NEW p \in Ports, InvBut(h, p), NEW k, k = SetMux(h, p, "DETACHED"),
         h.port[p].mux # "DETACHED", ~h.port[p].sel
  PROVE  Inv(k) /\ k.port[p].mux = "DETACHED" /\ ~k.port[p].sel
<1>1. /\ h \in Group /\ h.sys = "own" /\ h.port[p] \in Port /\ Sums(h)
      /\ Bits(h.port[p]) /\ Heard(h, h.port[p]) /\ h.port[p].la /\ h.port[p].ww \in Nat
  BY Moving
<1>2. /\ k \in Group /\ k.sys = h.sys /\ Others(h, k, p) /\ Base(h.port[p], k.port[p])
      /\ k.port[p].mux = "DETACHED" /\ k.port[p].ww = 0 /\ ~k.port[p].la
      /\ k.port[p].state = h.port[p].state \ {"sync", "coll", "dist"}
      /\ k.active <=> h.la.dist \ {p} # {}
      /\ IF "dist" \in h.port[p].state THEN k.suppress /\ k.told = {}
         ELSE k.suppress = h.suppress /\ k.told = h.told
  BY DetachIs
<1>3. IF h.la.refcnt - 1 > 0
      THEN /\ k.la.refcnt = h.la.refcnt - 1 /\ k.la.dist = h.la.dist \ {p}
           /\ k.la.peer = h.la.peer /\ k.la.key = h.la.key
           /\ k.la.pending = h.la.pending - (IF h.port[p].ww = 0 THEN 0 ELSE 1)
      ELSE k.la = NoLa
  BY DetachIs
<1>4. Bits(k.port[p]) /\ Heard(k, k.port[p]) /\ ~k.port[p].sel
  <2>1. Bits(k.port[p])
    BY <1>2 DEF Bits
  <2>2. Heard(k, k.port[p])
    BY <1>1, <1>2 DEF Heard, Base
  <2> QED BY <1>2, <2>1, <2>2 DEF Base
<1>5. /\ Joined(k) = Joined(h) \ {p} /\ Pending(k) = Pending(h) \ {p}
      /\ Spread(k) = Spread(h) \ {p}
  BY <1>2, OthersSets
<1>6. /\ p \in Joined(h) /\ (p \in Pending(h) <=> h.port[p].ww > 0)
      /\ p \in Spread(h) <=> "dist" \in h.port[p].state
  BY <1>1, InSets
<1>7. Cardinality(Joined(k)) = h.la.refcnt - 1
  BY <1>1, <1>5, <1>6, SetsFinite, FS_RemoveElement DEF Sums
<1>8. Cardinality(Pending(k)) = h.la.pending - (IF h.port[p].ww = 0 THEN 0 ELSE 1)
  <2>1. Cardinality(Pending(k)) =
          IF p \in Pending(h) THEN Cardinality(Pending(h)) - 1 ELSE Cardinality(Pending(h))
    BY <1>5, SetsFinite, FS_RemoveElement
  <2>2. h.la.pending = Cardinality(Pending(h)) /\ Cardinality(Pending(h)) \in Nat
    BY <1>1, SetsFinite DEF Sums
  <2>3. p \in Pending(h) <=> h.port[p].ww # 0
    BY <1>1, <1>6
  <2> QED BY <2>1, <2>2, <2>3
<1>9. k.told = {q \in h.la.dist \ {p} : ~k.suppress} /\ Spread(k) = h.la.dist \ {p}
  <2>1. Spread(k) = h.la.dist \ {p}
    BY <1>1, <1>5 DEF Sums
  <2>2. CASE "dist" \in h.port[p].state
    BY <1>2, <2>1, <2>2
  <2>3. CASE "dist" \notin h.port[p].state
    BY <1>1, <1>2, <1>6, <2>1, <2>3 DEF Sums
  <2> QED BY <2>1, <2>2, <2>3
<1>10. Cardinality(Joined(k)) \in Nat /\ Cardinality(Joined(k)) <= MaxMember
  BY <1>1, <1>7, SetsFinite, Times DEF Sums
<1>11. CASE h.la.refcnt - 1 > 0
  <2>1. /\ k.la.refcnt = h.la.refcnt - 1 /\ k.la.dist = h.la.dist \ {p}
        /\ k.la.peer = h.la.peer /\ k.la.key = h.la.key
        /\ k.la.pending = h.la.pending - (IF h.port[p].ww = 0 THEN 0 ELSE 1)
    BY <1>3, <1>11
  <2>2. k.la.peer.sys \in Systems /\ k.la.refcnt # 0
    <3>1. h.la.refcnt # 0 /\ k.la.refcnt # 0
      BY <1>11, <2>1
    <3> QED BY <1>1, <2>1, <3>1 DEF Sums
  <2>3. Sums(k)
    BY <1>2, <1>7, <1>8, <1>9, <1>10, <2>1, <2>2 DEF Sums
  <2>4. Chosen(k, k.port[p])
    BY <1>4 DEF Chosen
  <2> QED BY <1>2, <1>4, <2>1, <2>3, <2>4, Assembled
<1>12. CASE ~(h.la.refcnt - 1 > 0)
  <2>1. k.la = NoLa
    BY <1>3, <1>12
  <2>2. Joined(k) = {}
    <3>1. Cardinality(Joined(k)) = 0
      BY <1>7, <1>10, <1>12, LaType, <1>1
    <3> QED BY <3>1, SetsFinite, FS_EmptySet
  <2>3. ASSUME NEW q \in Ports
        PROVE  /\ Bits(k.port[q]) /\ Heard(k, k.port[q]) /\ ~k.port[q].la
               /\ k.port[q].mux = "DETACHED" /\ ~k.port[q].sel
    <3>1. ~k.port[q].la
      BY <2>2, InSets
    <3>2. CASE q = p
      BY <1>2, <1>4, <3>1, <3>2
    <3>3. CASE q # p
      <4>1. /\ Bits(k.port[q]) /\ Heard(k, k.port[q])
            /\ k.port[q].la <=> k.port[q].mux # "DETACHED"
        BY <1>2, <3>3, OthersFit
      <4>2. Same(h.port[q], k.port[q]) /\ Chosen(h, h.port[q])
        BY <1>2, <3>3 DEF Others, InvBut
      <4>3. ~k.port[q].sel
        BY <3>1, <4>2 DEF Same, Rest, Base, Chosen
      <4> QED BY <3>1, <4>1, <4>3
    <3> QED BY <3>2, <3>3
  <2>4. Pending(k) = {} /\ Spread(k) = {}
    BY <2>3 DEF Bits, Pending, Spread
  <2>5. Sums(k)
    <3>1. NoLa.refcnt = 0 /\ NoLa.pending = 0 /\ NoLa.dist = {}
      BY DEF NoLa
    <3>2. Cardinality(Joined(k)) = 0 /\ Cardinality(Pending(k)) = 0
      BY <2>2, <2>4, FS_EmptySet
    <3> QED BY <1>2, <1>9, <2>1, <2>4, <3>1, <3>2, Times DEF Sums
  <2> QED BY <1>1, <1>2, <1>4, <2>3, <2>5 DEF Inv, Chosen
<1> QED BY <1>2, <1>4, <1>11, <1>12

LEMMA Weaker == ASSUME NEW h, NEW p \in Ports, Inv(h) PROVE InvBut(h, p)
BY DEF Inv, InvBut

LEMMA MuxStep ==
  ASSUME NEW h, NEW p \in Ports, InvBut(h, p)
  PROVE  Inv(SetMux(h, p, NextMux(h, p)))
<1>1. PICK m : m = h.port[p].mux
  OBVIOUS
<1>2. PICK n : n = NextMux(h, p)
  OBVIOUS
<1>3. /\ m \in Muxes /\ h.port[p].ww \in Nat /\ Bits(h.port[p])
      /\ h.la.pending = Cardinality(Pending(h))
  BY <1>1, Moving DEF Sums
<1>4. CASE n = m
  <2>1. SetMux(h, p, n) = h
    BY <1>1, <1>4 DEF SetMux
  <2>2. m = "DETACHED" => ~h.port[p].sel
    BY <1>1, <1>2, <1>4 DEF NextMux
  <2>3. \A q \in Ports : h.port[q].la <=> h.port[q].mux # "DETACHED"
    BY <1>1, <2>2 DEF InvBut
  <2> QED BY <1>2, <2>1, <2>3 DEF InvBut, Inv
<1>5. CASE n # m
  <2>1. \/ m = "DETACHED" /\ n = "WAITING" /\ h.port[p].sel
        \/ m \in {"WAITING", "ATTACHED"} /\ n = "DETACHED" /\ ~h.port[p].sel
        \/ m = "WAITING" /\ n = "ATTACHED" /\ h.la.pending = 0
        \/ m = "COLLECTING" /\ n = "ATTACHED"
        \/ m \in {"ATTACHED", "DISTRIBUTING"} /\ n = "COLLECTING"
        \/ m = "COLLECTING" /\ n = "DISTRIBUTING"
    BY <1>1, <1>2, <1>3, <1>5 DEF NextMux, Muxes
  <2>2. CASE m = "DETACHED" /\ n = "WAITING" /\ h.port[p].sel
    BY <1>1, <1>2, <2>2, WaitingStep
  <2>3. CASE m \in {"WAITING", "ATTACHED"} /\ n = "DETACHED" /\ ~h.port[p].sel
    BY <1>1, <1>2, <2>3, DetachedStep
  <2>4. CASE m = "WAITING" /\ n = "ATTACHED" /\ h.la.pending = 0
    <3>1. h.port[p].ww = 0
      <4>1. ~(h.port[p].ww > 0)
        BY <1>3, <2>4, InSets
      <4> QED BY <1>3, <4>1
    <3> QED BY <1>1, <1>2, <2>4, <3>1, AttachedStep
  <2>5. CASE m = "COLLECTING" /\ n = "ATTACHED"
    <3>1. h.port[p].ww = 0
      BY <1>1, <1>3, <2>5 DEF Bits
    <3> QED BY <1>1, <1>2, <2>5, <3>1, AttachedStep
  <2>6. CASE m \in {"ATTACHED", "DISTRIBUTING"} /\ n = "COLLECTING"
    BY <1>1, <1>2, <2>6, CollectingStep
  <2>7. CASE m = "COLLECTING" /\ n = "DISTRIBUTING"
    BY <1>1, <1>2, <2>7, DistributingStep
  <2> QED BY <2>1, <2>2, <2>3, <2>4, <2>5, <2>6, <2>7
<1> QED BY <1>4, <1>5

\* A function defined by four steps exists.
LEMMA MuxInv ==
  ASSUME NEW h, NEW p \in Ports, InvBut(h, p)
  PROVE  Inv(Mux(h, p))
<1> DEFINE After(k) == SetMux(k, p, NextMux(k, p))
           Body(f) == [n \in 0..4 |-> IF n = 0 THEN h ELSE After(f[n - 1])]
           run == CHOOSE f : f = Body(f)
<1>1. Mux(h, p) = run[4]
  BY Zenon DEF Mux
<1>2. \E f : f = Body(f)
  <2>1. PICK f : f = [n \in 0..4 |-> IF n = 0 THEN h
                               ELSE IF n = 1 THEN After(h)
                               ELSE IF n = 2 THEN After(After(h))
                               ELSE IF n = 3 THEN After(After(After(h)))
                               ELSE After(After(After(After(h))))]
    OBVIOUS
  <2> HIDE DEF After
  <2>2. ASSUME NEW n \in 0..4 PROVE f[n] = IF n = 0 THEN h ELSE After(f[n - 1])
    <3>1. n = 0 \/ n = 1 \/ n = 2 \/ n = 3 \/ n = 4
      OBVIOUS
    <3> QED BY <2>1, <3>1
  <2>3. f = Body(f)
    BY <2>1, <2>2
  <2> QED BY <2>3
<1>3. run = Body(run)
  BY <1>2
<1> HIDE DEF After, run
<1>4. \A k : InvBut(k, p) => Inv(After(k)) /\ InvBut(After(k), p)
  BY MuxStep, Weaker DEF After
<1>5. /\ run[0] = h /\ run[1] = After(run[0]) /\ run[2] = After(run[1])
      /\ run[3] = After(run[2]) /\ run[4] = After(run[3])
  BY <1>3
<1> QED BY <1>1, <1>4, <1>5

-----------------------------------------------------------------------------
(* The steps that change one port, or its timers only                      *)

LEMMA AlikeSelf == ASSUME NEW h \in Group PROVE Alike(h, h)
BY DEF Alike, Kept, Same, Rest, Base

LEMMA AlikeTwice ==
  ASSUME NEW h, NEW k, NEW m, Alike(h, k), Alike(k, m) PROVE Alike(h, m)
BY DEF Alike, Kept, Same, Rest, Base

\* One port is changed, but neither its aggregator nor its mux state.
LEMMA PortFits ==
  ASSUME NEW h, NEW p \in Ports, InvBut(h, p), NEW k, Kept(h, k), Others(h, k, p),
         k.port[p].la = h.port[p].la, k.port[p].mux = h.port[p].mux,
         k.port[p].ww = h.port[p].ww,
         \A b \in {"sync", "coll", "dist"} : b \in k.port[p].state <=> b \in h.port[p].state,
         Heard(k, k.port[p]), Chosen(k, k.port[p])
  PROVE  /\ Inv(h) => Inv(k)
         /\ k.port[p].sel = h.port[p].sel => InvBut(k, p)
<1>1. k \in Group /\ k.sys = h.sys /\ k.la = h.la
  BY DEF Kept
<1>2. Sums(h) /\ Bits(h.port[p])
  BY Moving
<1>3. Bits(k.port[p])
  BY <1>2 DEF Bits
<1>4. /\ p \in Joined(h) <=> h.port[p].la
      /\ p \in Pending(h) <=> h.port[p].ww > 0
      /\ p \in Spread(h) <=> "dist" \in h.port[p].state
  BY InSets
<1>5. /\ Joined(k) = IF k.port[p].la THEN Joined(h) \cup {p} ELSE Joined(h) \ {p}
      /\ Pending(k) = IF k.port[p].ww > 0 THEN Pending(h) \cup {p} ELSE Pending(h) \ {p}
      /\ Spread(k) = IF "dist" \in k.port[p].state THEN Spread(h) \cup {p} ELSE Spread(h) \ {p}
  BY OthersSets
<1>6. Joined(k) = Joined(h)
  BY <1>4, <1>5
<1>7. Pending(k) = Pending(h)
  BY <1>4, <1>5
<1>8. Spread(k) = Spread(h)
  BY <1>4, <1>5
<1>9. Sums(k)
  BY <1>2, <1>6, <1>7, <1>8 DEF Sums, Kept
<1>10. ASSUME NEW q \in Ports, q # p
       PROVE  /\ Bits(k.port[q]) /\ Heard(k, k.port[q]) /\ Chosen(k, k.port[q])
              /\ k.port[q].la <=> k.port[q].mux # "DETACHED"
  BY <1>1, <1>10, OthersFit
<1>11. ASSUME Inv(h) PROVE Inv(k)
  <2>1. k.port[p].la <=> k.port[p].mux # "DETACHED"
    BY <1>11 DEF Inv
  <2>2. k.la.peer = h.la.peer /\ k.la.key = h.la.key
    BY <1>1
  <2> QED BY <1>1, <1>3, <1>9, <2>1, <2>2, Assembled
<1>12. ASSUME k.port[p].sel = h.port[p].sel PROVE InvBut(k, p)
  <2>1. /\ k.port[p].mux # "DETACHED" => k.port[p].la
        /\ k.port[p].la /\ k.port[p].mux = "DETACHED" => k.port[p].sel
    BY <1>12 DEF InvBut
  <2>2. k.sys = "own"
    BY <1>1 DEF InvBut
  <2> QED BY <1>1, <1>3, <1>9, <1>10, <2>1, <2>2 DEF InvBut
<1> QED BY <1>11, <1>12

\* What the steps leave alone keeps the invariant.
LEMMA AlikeInv ==
  ASSUME NEW h, NEW k, Inv(h), Alike(h, k) PROVE Inv(k)
<1>1. /\ k \in Group /\ k.sys = h.sys /\ k.la = h.la /\ k.active = h.active
      /\ k.suppress = h.suppress /\ k.told = h.told
      /\ \A q \in Ports : Same(h.port[q], k.port[q])
  BY DEF Alike, Kept
<1>2. ASSUME NEW q \in Ports
      PROVE  /\ Bits(k.port[q]) /\ Heard(k, k.port[q]) /\ Chosen(k, k.port[q])
             /\ k.port[q].la <=> k.port[q].mux # "DETACHED"
  <2>1. Same(h.port[q], k.port[q])
    BY <1>1
  <2>2. /\ Bits(h.port[q]) /\ Heard(h, h.port[q]) /\ Chosen(h, h.port[q])
        /\ h.port[q].la <=> h.port[q].mux # "DETACHED"
    BY DEF Inv
  <2>3. Bits(k.port[q])
    BY <2>1, <2>2 DEF Same, Rest, Bits
  <2>4. Heard(k, k.port[q])
    BY <1>1, <2>1, <2>2 DEF Same, Rest, Base, Heard
  <2>5. Chosen(k, k.port[q])
    BY <1>1, <2>1, <2>2 DEF Same, Rest, Base, Chosen
  <2>6. k.port[q].la <=> k.port[q].mux # "DETACHED"
    BY <2>1, <2>2 DEF Same, Rest
  <2> QED BY <2>3, <2>4, <2>5, <2>6
<1>3. Joined(k) = Joined(h) /\ Pending(k) = Pending(h) /\ Spread(k) = Spread(h)
  BY <1>1 DEF Joined, Pending, Spread, Same, Rest
<1>4. Sums(k)
  BY <1>1, <1>3 DEF Inv, Sums
<1> QED BY <1>1, <1>2, <1>4 DEF Inv

LEMMA UpdateTimeoutIs ==
  ASSUME NEW h \in Group, NEW p \in Ports, NEW old
  PROVE  Alike(h, UpdateTimeout(h, p, old))
<1>1. PICK o \in Port : o = h.port[p]
  BY GroupType
<1>2. PICK b \in BOOLEAN : b = (o.ntt \/ "fast" \in o.pstate \/ o.per = FastTime)
  OBVIOUS
<1>3. PICK r : r = [o EXCEPT !.per = 0, !.ntt = b]
  OBVIOUS
<1>4. r \in Port /\ Same(o, r)
  <2>1. PICK s : s = [o EXCEPT !.per = 0]
    OBVIOUS
  <2>2. s \in Port /\ Same(o, s)
    BY <2>1 DEF Port, Same, Rest, Base
  <2>3. r = [s EXCEPT !.ntt = b]
    BY <1>3, <2>1
  <2>4. r \in Port /\ Same(s, r)
    BY <2>2, <2>3 DEF Port, Same, Rest, Base
  <2> QED BY <2>2, <2>4 DEF Same, Rest, Base
<1>5. \/ UpdateTimeout(h, p, old) = h
      \/ UpdateTimeout(h, p, old) = With(h, p, r)
  BY <1>1, <1>2, <1>3, GroupType DEF Group, With, UpdateTimeout
<1> QED BY <1>1, <1>4, <1>5, WithAlike, AlikeSelf

LEMMA PeriodicIs ==
  ASSUME NEW h \in Group, NEW p \in Ports
  PROVE  Alike(h, Periodic(h, p))
<1>1. PICK o \in Port : o = h.port[p]
  BY GroupType
<1>2. PICK b \in BOOLEAN : b = (o.ntt \/ o.per = 1)
  OBVIOUS
<1>3. PICK r : r = [o EXCEPT !.per = @ - 1, !.ntt = b]
  OBVIOUS
<1>4. r \in Port /\ Same(o, r)
  <2>1. PICK s : s = [o EXCEPT !.per = @ - 1]
    OBVIOUS
  <2>2. s \in Port /\ Same(o, s)
    BY <2>1 DEF Port, Same, Rest, Base
  <2>3. r = [s EXCEPT !.ntt = b]
    BY <1>3, <2>1
  <2>4. r \in Port /\ Same(s, r)
    BY <2>2, <2>3 DEF Port, Same, Rest, Base
  <2> QED BY <2>2, <2>4 DEF Same, Rest, Base
<1>5. Periodic(h, p) = h \/ Periodic(h, p) = With(h, p, r)
  BY <1>1, <1>2, <1>3, GroupType DEF Group, With, Periodic
<1> QED BY <1>1, <1>4, <1>5, WithAlike, AlikeSelf

LEMMA ScheduleIs ==
  ASSUME NEW h \in Group, NEW p \in Ports
  PROVE  Alike(h, Schedule(h, p))
<1>1. PICK o \in Port : o = h.port[p]
  BY GroupType
<1>2. PICK n \in Nat : n = IF "fast" \in o.pstate THEN FastTime ELSE SlowTime
  BY Times
<1>3. PICK r : r = [o EXCEPT !.per = n]
  OBVIOUS
<1>4. PICK s : s = [o EXCEPT !.per = 0]
  OBVIOUS
<1>5. r \in Port /\ Same(o, r) /\ s \in Port /\ Same(o, s)
  BY <1>3, <1>4 DEF Port, Same, Rest, Base
<1>6. Schedule(h, p) = h \/ Schedule(h, p) = With(h, p, r) \/ Schedule(h, p) = With(h, p, s)
  BY <1>1, <1>2, <1>3, <1>4, GroupType DEF Group, With, Schedule
<1> QED BY <1>1, <1>5, <1>6, WithAlike, AlikeSelf

\* Neither the aggregator of a port nor the bits of its mux state change.
Touched(h, k, p) ==
  /\ Kept(h, k) /\ Others(h, k, p)
  /\ k.port[p].la = h.port[p].la /\ k.port[p].mux = h.port[p].mux
  /\ k.port[p].ww = h.port[p].ww
  /\ \A b \in {"sync", "coll", "dist"} : b \in k.port[p].state <=> b \in h.port[p].state

LEMMA AlikeTouched ==
  ASSUME NEW h, NEW p \in Ports, NEW k, Alike(h, k) PROVE Touched(h, k, p)
BY DEF Alike, Touched, Others, Same, Rest

LEMMA TouchedTwice ==
  ASSUME NEW h, NEW p \in Ports, NEW k, NEW m, Touched(h, k, p), Touched(k, m, p)
  PROVE  Touched(h, m, p)
<1>1. Kept(h, m) /\ Others(h, m, p)
  BY DEF Touched, Kept, Others, Same, Rest, Base
<1> QED BY <1>1 DEF Touched

LEMMA TouchedFits ==
  ASSUME NEW h, NEW p \in Ports, InvBut(h, p), NEW k, Touched(h, k, p),
         Heard(k, k.port[p]), Chosen(k, k.port[p])
  PROVE  /\ Inv(h) => Inv(k)
         /\ k.port[p].sel = h.port[p].sel => InvBut(k, p)
<1>1. /\ Kept(h, k) /\ Others(h, k, p)
      /\ k.port[p].la = h.port[p].la /\ k.port[p].mux = h.port[p].mux
      /\ k.port[p].ww = h.port[p].ww
      /\ \A b \in {"sync", "coll", "dist"} : b \in k.port[p].state <=> b \in h.port[p].state
  BY DEF Touched
<1> QED BY <1>1, PortFits

LEMMA WithTouched ==
  ASSUME NEW h \in Group, NEW p \in Ports, NEW r \in Port, NEW o, o = h.port[p],
         r.la = o.la, r.mux = o.mux, r.ww = o.ww,
         \A b \in {"sync", "coll", "dist"} : b \in r.state <=> b \in o.state
  PROVE  Touched(h, With(h, p, r), p) /\ With(h, p, r).port[p] = r
<1>1. /\ Kept(h, With(h, p, r)) /\ With(h, p, r).port[p] = r
      /\ \A q \in Ports : q # p => With(h, p, r).port[q] = h.port[q]
  BY WithIs
<1>2. \A q \in Ports : Same(h.port[q], h.port[q])
  BY DEF Same, Rest, Base
<1>3. Others(h, With(h, p, r), p)
  BY <1>1, <1>2 DEF Others
<1> QED BY <1>1, <1>3 DEF Touched

\* A bit that no mux state sets is set or cleared.
LEMMA FlagIs ==
  ASSUME NEW h \in Group, NEW p \in Ports, NEW b \in {"agg", "dflt", "exp"},
         NEW k, k = Set(h, p, b) \/ k = Clear(h, p, b)
  PROVE  /\ Touched(h, k, p) /\ Rest(h.port[p], k.port[p])
         /\ k = Set(h, p, b) => k.port[p].state = h.port[p].state \cup {b}
         /\ k = Clear(h, p, b) => k.port[p].state = h.port[p].state \ {b}
<1>1. b \in AllBits
  BY DEF AllBits
<1>2. \A q \in Ports : Same(h.port[q], h.port[q])
  BY DEF Same, Rest, Base
<1>3. /\ Kept(h, Set(h, p, b))
      /\ \A q \in Ports : q # p => Set(h, p, b).port[q] = h.port[q]
      /\ Set(h, p, b).port[p].state = h.port[p].state \cup {b}
      /\ Rest(h.port[p], Set(h, p, b).port[p])
  BY <1>1, SetIs
<1>4. /\ Kept(h, Clear(h, p, b))
      /\ \A q \in Ports : q # p => Clear(h, p, b).port[q] = h.port[q]
      /\ Clear(h, p, b).port[p].state = h.port[p].state \ {b}
      /\ Rest(h.port[p], Clear(h, p, b).port[p])
  BY <1>1, ClearIs
<1>5. k = Set(h, p, b) => Touched(h, k, p) /\ Rest(h.port[p], k.port[p])
  BY <1>2, <1>3 DEF Touched, Others, Rest
<1>6. k = Clear(h, p, b) => Touched(h, k, p) /\ Rest(h.port[p], k.port[p])
  BY <1>2, <1>4 DEF Touched, Others, Rest
<1> QED BY <1>3, <1>4, <1>5, <1>6

LEMMA UpdateSelectedIs ==
  ASSUME NEW h \in Group, NEW p \in Ports, NEW id \in Id, NEW T \in SUBSET AllBits,
         NEW k, k = UpdateSelected(h, p, id, T)
  PROVE  /\ Touched(h, k, p) /\ k.port[p].state = h.port[p].state
         /\ k.port[p].key = h.port[p].key /\ k.port[p].peer = h.port[p].peer
         /\ k.port[p].pstate = h.port[p].pstate
         /\ k.port[p].sel <=> /\ h.port[p].sel /\ h.port[p].peer = id
                              /\ ("agg" \in h.port[p].pstate <=> "agg" \in T)
<1>1. PICK o \in Port : o = h.port[p]
  BY GroupType
<1>2. PICK b \in BOOLEAN :
        b = (o.sel /\ (o.peer = id /\ ("agg" \in o.pstate <=> "agg" \in T)))
  OBVIOUS
<1>3. PICK r : r = [o EXCEPT !.sel = b]
  OBVIOUS
<1>4. /\ r \in Port /\ r.state = o.state /\ r.key = o.key /\ r.peer = o.peer
      /\ r.pstate = o.pstate /\ r.sel = b /\ r.la = o.la /\ r.mux = o.mux /\ r.ww = o.ww
  BY <1>3 DEF Port
<1>5. k = With(h, p, r)
  BY <1>1, <1>2, <1>3, GroupType DEF Group, With, UpdateSelected
<1>6. Touched(h, k, p) /\ k.port[p] = r
  BY <1>1, <1>4, <1>5, WithTouched
<1>7. b <=> (o.sel /\ (o.peer = id /\ ("agg" \in o.pstate <=> "agg" \in T)))
  BY <1>2
<1> QED BY <1>1, <1>4, <1>6, <1>7

\* Who a port knows is replaced.
Knows(h, p, id, T) == [h EXCEPT !.port[p].peer = id, !.port[p].pstate = T]

LEMMA KnowsIs ==
  ASSUME NEW h \in Group, NEW p \in Ports, NEW id \in Id, NEW T \in SUBSET AllBits,
         NEW k, k = Knows(h, p, id, T)
  PROVE  /\ Touched(h, k, p) /\ k.port[p].state = h.port[p].state
         /\ k.port[p].key = h.port[p].key /\ k.port[p].peer = id
         /\ k.port[p].pstate = T /\ k.port[p].sel = h.port[p].sel
<1>1. PICK o \in Port : o = h.port[p]
  BY GroupType
<1>2. PICK s : s = [o EXCEPT !.peer = id]
  OBVIOUS
<1>3. /\ s \in Port /\ s.state = o.state /\ s.key = o.key /\ s.peer = id
      /\ s.sel = o.sel /\ s.la = o.la /\ s.mux = o.mux /\ s.ww = o.ww
  BY <1>2 DEF Port
<1>4. PICK r : r = [s EXCEPT !.pstate = T]
  OBVIOUS
<1>5. /\ r \in Port /\ r.state = s.state /\ r.key = s.key /\ r.peer = s.peer /\ r.pstate = T
      /\ r.sel = s.sel /\ r.la = s.la /\ r.mux = s.mux /\ r.ww = s.ww
  BY <1>3, <1>4 DEF Port
<1>6. k = With(h, p, r)
  BY <1>1, <1>2, <1>4, GroupType DEF Group, With, Knows
<1>7. Touched(h, k, p) /\ k.port[p] = r
  BY <1>1, <1>3, <1>5, <1>6, WithTouched
<1> QED BY <1>1, <1>3, <1>5, <1>7

LEMMA SetExpiredIs ==
  ASSUME NEW h \in Group, NEW p \in Ports, NEW k, k = SetExpired(h, p)
  PROVE  /\ Touched(h, k, p) /\ k.port[p].state = h.port[p].state \cup {"exp"}
         /\ Base(h.port[p], k.port[p])
<1>1. PICK o \in Port : o = h.port[p]
  BY GroupType
<1>2. PICK T : T = (o.pstate \ {"sync"}) \cup {"fast"}
  OBVIOUS
<1>3. PICK S : S = o.state \cup {"exp"}
  OBVIOUS
<1>4. /\ T \in SUBSET AllBits /\ ("agg" \in T <=> "agg" \in o.pstate)
      /\ S \in SUBSET AllBits
  BY <1>2, <1>3 DEF Port, AllBits
<1>5. PICK s : s = [o EXCEPT !.pstate = T]
  OBVIOUS
<1>6. /\ s \in Port /\ s.state = o.state /\ Base(o, s)
      /\ s.la = o.la /\ s.mux = o.mux /\ s.ww = o.ww
  BY <1>4, <1>5 DEF Port, Base
<1>7. PICK t : t = [s EXCEPT !.cw = ShortTime]
  OBVIOUS
<1>8. /\ t \in Port /\ t.state = o.state /\ Base(s, t)
      /\ t.la = o.la /\ t.mux = o.mux /\ t.ww = o.ww
  BY <1>6, <1>7, Times DEF Port, Base
<1>9. PICK u : u = [t EXCEPT !.per = FastTime]
  OBVIOUS
<1>10. /\ u \in Port /\ u.state = o.state /\ Base(t, u)
       /\ u.la = o.la /\ u.mux = o.mux /\ u.ww = o.ww
  BY <1>8, <1>9, Times DEF Port, Base
<1>11. PICK r : r = [u EXCEPT !.state = S]
  OBVIOUS
<1>12. /\ r \in Port /\ r.state = S /\ Base(u, r)
       /\ r.la = o.la /\ r.mux = o.mux /\ r.ww = o.ww
  BY <1>4, <1>10, <1>11 DEF Port, Base
<1>13. k = With(h, p, r)
  <2>1. PICK h1 : h1 = With(h, p, s)
    OBVIOUS
  <2>2. PICK h2 : h2 = With(h1, p, t)
    OBVIOUS
  <2>3. PICK h3 : h3 = With(h2, p, u)
    OBVIOUS
  <2>4. h1 \in Group /\ h1.port[p] = s
    BY <1>6, <2>1, WithIs DEF Kept
  <2>5. h2 \in Group /\ h2.port[p] = t
    BY <1>8, <2>2, <2>4, WithIs DEF Kept
  <2>6. h3 \in Group /\ h3.port[p] = u
    BY <1>10, <2>3, <2>5, WithIs DEF Kept
  <2>7. h1 = [h EXCEPT !.port[p].pstate = T]
    BY <1>1, <1>5, <2>1, GroupType DEF Group, With
  <2>8. h2 = [h1 EXCEPT !.port[p].cw = ShortTime]
    BY <1>7, <2>2, <2>4, GroupType DEF Group, With
  <2>9. h3 = [h2 EXCEPT !.port[p].per = FastTime]
    BY <1>9, <2>3, <2>5, GroupType DEF Group, With
  <2>10. [h3 EXCEPT !.port[p].state = S] = With(h3, p, r)
    BY <1>11, <2>6, GroupType DEF Group, With
  <2>11. k = [h3 EXCEPT !.port[p].state = S]
    <3>1. h3.port[p].state = h.port[p].state
      BY <1>1, <1>10, <2>6
    <3> QED BY <1>1, <1>2, <1>3, <2>7, <2>8, <2>9, <3>1 DEF SetExpired
  <2>12. With(h3, p, r) = With(h, p, r)
    BY <2>1, <2>2, <2>3, GroupType DEF Group, With
  <2> QED BY <2>10, <2>11, <2>12
<1>14. Touched(h, k, p) /\ k.port[p] = r
  <2>1. \A b \in {"sync", "coll", "dist"} : b \in r.state <=> b \in o.state
    BY <1>3, <1>12
  <2> QED BY <1>1, <1>12, <1>13, <2>1, WithTouched
<1> QED BY <1>1, <1>3, <1>4, <1>6, <1>8, <1>10, <1>12, <1>14 DEF Base

LEMMA UpdateNttIs ==
  ASSUME NEW h \in Group, NEW p \in Ports, NEW d
  PROVE  Alike(h, UpdateNtt(h, p, d))
BY NttIs, AlikeSelf DEF UpdateNtt

LEMMA FrameIs ==
  ASSUME NEW h \in Group, NEW p \in Ports PROVE Frame(h, p) \in Pdu
<1>1. PICK o \in Port : o = h.port[p]
  BY GroupType
<1>2. /\ h.sys \in Names /\ o.key \in Nat /\ p \in Nat /\ o.peer \in Id
      /\ o.pstate \in SUBSET AllBits /\ o.state \cap Read \in SUBSET AllBits
  BY GroupType, Times DEF Port
<1>3. Self(h, p) \in Id
  BY <1>1, <1>2 DEF Self, Id
<1> QED BY <1>1, <1>2, <1>3 DEF Frame, Pdu

\* Frames are left in the record.
WithOut(h, O) == [h EXCEPT !.out = O]

LEMMA WithOutIs ==
  ASSUME NEW h \in Group, NEW O \in [Ports -> Seq(Pdu \cup {Marker})]
  PROVE  Alike(h, WithOut(h, O)) /\ WithOut(h, O).port = h.port
<1>1. PICK k : k = [h EXCEPT !.out = O]
  OBVIOUS
<1>2. /\ k \in Group /\ k.port = h.port /\ k.sys = h.sys /\ k.la = h.la
      /\ k.active = h.active /\ k.suppress = h.suppress /\ k.told = h.told
  BY <1>1 DEF Group
<1> QED BY <1>1, <1>2 DEF WithOut, Alike, Kept, Same, Rest, Base

LEMMA TxIs ==
  ASSUME NEW h \in Group, NEW p \in Ports PROVE Alike(h, Tx(h, p))
<1>1. PICK o \in Port : o = h.port[p]
  BY GroupType
<1>2. PICK s : s = [o EXCEPT !.ntt = FALSE]
  OBVIOUS
<1>3. s \in Port /\ Same(o, s)
  BY <1>2 DEF Port, Same, Rest, Base
<1>19. PICK n \in Int : n = o.sent + 1
  BY DEF Port
<1>4. PICK r : r = [s EXCEPT !.sent = n]
  OBVIOUS
<1>5. r \in Port /\ Same(s, r)
  BY <1>3, <1>4 DEF Port, Same, Rest, Base
<1>6. Same(o, r)
  BY <1>3, <1>5 DEF Same, Rest, Base
<1>7. PICK F \in Pdu : F = Frame(h, p)
  BY FrameIs
<1>8. PICK Q \in Seq(Pdu \cup {Marker}) : Q = h.out[p]
  BY GroupType
<1>9. Append(Q, F) \in Seq(Pdu \cup {Marker})
  BY AppendProperties
<1>10. PICK O : O = [h.out EXCEPT ![p] = Append(Q, F)]
  OBVIOUS
<1>11. O \in [Ports -> Seq(Pdu \cup {Marker})]
  BY <1>9, <1>10, GroupType
<1>12. PICK k : k = With(h, p, r)
  OBVIOUS
<1>13. Alike(h, k) /\ k \in Group /\ k.out = h.out
  <2>1. Alike(h, k)
    BY <1>1, <1>5, <1>6, <1>12, WithAlike
  <2>2. k.out = h.out
    BY <1>12 DEF With, Group
  <2> QED BY <2>1, <2>2 DEF Alike, Kept
<1>14. Alike(k, WithOut(k, O))
  BY <1>11, <1>13, WithOutIs
<1>15. Alike(h, With(h, p, s)) /\ Alike(h, h) /\ Alike(h, WithOut(k, O))
  BY <1>1, <1>3, <1>13, <1>14, WithAlike, AlikeSelf, AlikeTwice
<1>16. [h EXCEPT !.port[p].ntt = FALSE] = With(h, p, s)
  BY <1>1, <1>2, GroupType DEF Group, With
<1>17. [h EXCEPT !.port[p].ntt = FALSE, !.port[p].sent = @ + 1, !.out[p] = Append(@, F)]
         = WithOut(k, O)
  <2>2. PICK a : a = Append(Q, F)
    OBVIOUS
  <2>3. k = [h EXCEPT !.port[p].ntt = FALSE, !.port[p].sent = n]
    BY <1>1, <1>2, <1>4, <1>12, GroupType DEF Group, With
  <2>4. WithOut(k, O) = [k EXCEPT !.out[p] = a]
    BY <1>10, <1>13, <2>2 DEF Group, WithOut
  <2>5. WithOut(k, O) = [h EXCEPT !.port[p].ntt = FALSE, !.port[p].sent = n, !.out[p] = a]
    BY <2>3, <2>4
  <2> QED BY <1>1, <1>8, <1>19, <2>2, <2>5
<1>18. \/ Tx(h, p) = With(h, p, s) \/ Tx(h, p) = h \/ Tx(h, p) = WithOut(k, O)
  BY <1>7, <1>16, <1>17, Zenon DEF Tx
<1> QED BY <1>15, <1>18

LEMMA CwIs ==
  ASSUME NEW h \in Group, NEW p \in Ports, NEW n \in Int
  PROVE  /\ Alike(h, [h EXCEPT !.port[p].cw = n])
         /\ Alike(h, [h EXCEPT !.port[p].sent = n])
<1>1. PICK o \in Port : o = h.port[p]
  BY GroupType
<1>2. PICK r : r = [o EXCEPT !.cw = n]
  OBVIOUS
<1>3. PICK s : s = [o EXCEPT !.sent = n]
  OBVIOUS
<1>4. r \in Port /\ Same(o, r)
  BY <1>2 DEF Port, Same, Rest, Base
<1>5. s \in Port /\ Same(o, s)
  BY <1>3 DEF Port, Same, Rest, Base
<1>6. [h EXCEPT !.port[p].cw = n] = With(h, p, r)
  BY <1>1, <1>2, GroupType DEF Group, With
<1>7. [h EXCEPT !.port[p].sent = n] = With(h, p, s)
  BY <1>1, <1>3, GroupType DEF Group, With
<1> QED BY <1>1, <1>4, <1>5, <1>6, <1>7, WithAlike

\* What Alike and Touched say of the port itself.
LEMMA AtPort ==
  ASSUME NEW h, NEW p \in Ports, NEW k
  PROVE  /\ Alike(h, k) => Same(h.port[p], k.port[p]) /\ k \in Group /\ k.sys = h.sys
         /\ Touched(h, k, p) => k \in Group /\ k.sys = h.sys /\ k.la = h.la
BY DEF Alike, Touched, Kept

LEMMA RecordPduIs ==
  ASSUME NEW h \in Group, NEW p \in Ports, NEW d \in Pdu, NEW k, k = RecordPdu(h, p, d)
  PROVE  /\ Touched(h, k, p) /\ k.port[p].state = h.port[p].state \ {"dflt"}
         /\ k.port[p].key = h.port[p].key /\ k.port[p].sel = h.port[p].sel
         /\ k.port[p].peer = d.actor
         /\ "agg" \in k.port[p].pstate <=> "agg" \in d.state
<1>1. d.actor \in Id /\ d.state \in SUBSET AllBits
  BY DEF Pdu
<1>2. PICK c : c = Clear(h, p, "dflt")
  OBVIOUS
<1>3. /\ Touched(h, c, p) /\ Rest(h.port[p], c.port[p])
      /\ c.port[p].state = h.port[p].state \ {"dflt"} /\ c \in Group
  BY <1>2, FlagIs, AtPort
<1>4. PICK T \in SUBSET AllBits :
        /\ T = d.state \/ T = d.state \ {"sync"}
        /\ k = UpdateTimeout(Knows(c, p, d.actor, T), p, h.port[p].pstate)
  <2>1. PICK T : /\ T = d.state \/ T = d.state \ {"sync"}
                 /\ k = UpdateTimeout(Knows(c, p, d.actor, T), p, h.port[p].pstate)
    BY <1>2 DEF RecordPdu, Knows
  <2> QED BY <1>1, <2>1
<1>5. "agg" \in T <=> "agg" \in d.state
  BY <1>4
<1>6. PICK m : m = Knows(c, p, d.actor, T)
  OBVIOUS
<1>7. /\ Touched(c, m, p) /\ m.port[p].state = c.port[p].state
      /\ m.port[p].key = c.port[p].key /\ m.port[p].peer = d.actor
      /\ m.port[p].pstate = T /\ m.port[p].sel = c.port[p].sel /\ m \in Group
  BY <1>1, <1>3, <1>6, KnowsIs, AtPort
<1>8. Alike(m, k)
  BY <1>4, <1>6, <1>7, UpdateTimeoutIs
<1>9. Touched(h, k, p)
  BY <1>3, <1>7, <1>8, AlikeTouched, TouchedTwice
<1>10. Same(m.port[p], k.port[p])
  BY <1>8, AtPort
<1> QED BY <1>3, <1>5, <1>7, <1>9, <1>10 DEF Same, Rest, Base

LEMMA RecordDefaultIs ==
  ASSUME NEW h \in Group, NEW p \in Ports, NEW k, k = RecordDefault(h, p)
  PROVE  /\ Touched(h, k, p) /\ k.port[p].state = h.port[p].state \cup {"dflt"}
         /\ k.port[p].key = h.port[p].key /\ k.port[p].sel = h.port[p].sel
         /\ k.port[p].peer = Nobody /\ "agg" \notin k.port[p].pstate
<1>1. PICK c : c = Set(h, p, "dflt")
  OBVIOUS
<1>2. /\ Touched(h, c, p) /\ Rest(h.port[p], c.port[p])
      /\ c.port[p].state = h.port[p].state \cup {"dflt"} /\ c \in Group
  BY <1>1, FlagIs, AtPort
<1>3. PICK m : m = Knows(c, p, Nobody, {})
  OBVIOUS
<1>4. k = UpdateTimeout(m, p, h.port[p].pstate)
  BY <1>1, <1>3 DEF RecordDefault, Knows
<1>5. /\ Touched(c, m, p) /\ m.port[p].state = c.port[p].state
      /\ m.port[p].key = c.port[p].key /\ m.port[p].peer = Nobody
      /\ m.port[p].pstate = {} /\ m.port[p].sel = c.port[p].sel /\ m \in Group
  <2>1. {} \in SUBSET AllBits /\ Nobody \in Id
    BY NoLaType
  <2> QED BY <1>2, <1>3, <2>1, KnowsIs, AtPort
<1>6. Alike(m, k)
  BY <1>4, <1>5, UpdateTimeoutIs
<1>7. Touched(h, k, p)
  BY <1>2, <1>5, <1>6, AlikeTouched, TouchedTwice
<1>8. Same(m.port[p], k.port[p])
  BY <1>6, AtPort
<1> QED BY <1>2, <1>5, <1>7, <1>8 DEF Same, Rest, Base

\* A frame of a partner that aggregates and is another system.
LEMMA ReceiveInv ==
  ASSUME NEW h, NEW p \in Ports, Inv(h), NEW d \in Pdu, "agg" \in d.state,
         d.actor.sys \in Systems, d.actor.no = p
  PROVE  Inv(Receive(h, p, d))
<1>1. /\ h \in Group /\ h.sys = "own" /\ InvBut(h, p)
  BY Weaker DEF Inv
<1>2. CASE Receive(h, p, d) = h
  BY <1>2
<1>3. CASE Receive(h, p, d) # h
  <2>1. d.actor.sys # "own"
    BY <1>1, <1>3 DEF Receive
  <2>2. PICK a : a = UpdateSelected(h, p, d.actor, d.state)
    OBVIOUS
  <2>3. PICK b : b = UpdateNtt(a, p, d)
    OBVIOUS
  <2>4. PICK c : c = RecordPdu(b, p, d)
    OBVIOUS
  <2>5. PICK n \in Int : n = (IF Is(h, p, "fast") THEN ShortTime ELSE LongTime) + 1
    BY Times
  <2>6. PICK e : e = [c EXCEPT !.port[p].cw = n]
    OBVIOUS
  <2>7. PICK f : f = Clear(e, p, "exp")
    OBVIOUS
  <2>8. PICK k : k = Tx(f, p)
    OBVIOUS
  <2>9. Receive(h, p, d) = k
    BY <1>3, <2>2, <2>3, <2>4, <2>5, <2>6, <2>7, <2>8 DEF Receive
  <2>10. /\ Touched(h, a, p) /\ a.port[p].state = h.port[p].state
         /\ a.port[p].key = h.port[p].key /\ a \in Group
         /\ a.port[p].sel <=> /\ h.port[p].sel /\ h.port[p].peer = d.actor
                              /\ ("agg" \in h.port[p].pstate <=> "agg" \in d.state)
    <3>1. d.actor \in Id /\ d.state \in SUBSET AllBits
      BY DEF Pdu
    <3> QED BY <1>1, <2>2, <3>1, UpdateSelectedIs, AtPort
  <2>11. Alike(a, b) /\ b \in Group /\ Same(a.port[p], b.port[p])
    BY <2>3, <2>10, UpdateNttIs, AtPort
  <2>12. /\ Touched(b, c, p) /\ c.port[p].state = b.port[p].state \ {"dflt"}
         /\ c.port[p].key = b.port[p].key /\ c.port[p].sel = b.port[p].sel
         /\ c.port[p].peer = d.actor /\ c \in Group
         /\ "agg" \in c.port[p].pstate <=> "agg" \in d.state
    BY <2>4, <2>11, RecordPduIs, AtPort
  <2>13. Alike(c, e) /\ e \in Group /\ Same(c.port[p], e.port[p])
    BY <2>6, <2>12, CwIs, AtPort
  <2>14. /\ Touched(e, f, p) /\ Rest(e.port[p], f.port[p]) /\ f \in Group
         /\ f.port[p].state = e.port[p].state \ {"exp"}
    BY <2>7, <2>13, FlagIs, AtPort
  <2>15. Alike(f, k) /\ Same(f.port[p], k.port[p])
    BY <2>8, <2>14, TxIs, AtPort
  <2>16. Touched(h, k, p)
    <3>1. Touched(h, b, p)
      BY <2>10, <2>11, AlikeTouched, TouchedTwice
    <3>2. Touched(h, e, p)
      BY <3>1, <2>12, <2>13, AlikeTouched, TouchedTwice
    <3> QED BY <3>2, <2>14, <2>15, AlikeTouched, TouchedTwice
  <2>17. /\ k.port[p].state = h.port[p].state \ {"dflt", "exp"}
         /\ k.port[p].key = h.port[p].key /\ k.port[p].peer = d.actor
         /\ "agg" \in k.port[p].pstate
         /\ k.port[p].sel => h.port[p].sel /\ h.port[p].peer = d.actor
    <3>1. /\ e.port[p].state = h.port[p].state \ {"dflt"} /\ e.port[p].key = h.port[p].key
          /\ e.port[p].peer = d.actor /\ "agg" \in e.port[p].pstate
          /\ e.port[p].sel = a.port[p].sel
      BY <2>10, <2>11, <2>12, <2>13 DEF Same, Rest, Base
    <3> QED BY <2>10, <3>1, <2>14, <2>15 DEF Same, Rest, Base
  <2>18. k.sys = "own" /\ k.la = h.la
    BY <1>1, <2>16, AtPort
  <2>19. Heard(k, k.port[p])
    BY <2>1, <2>17, <2>18 DEF Heard
  <2>20. Chosen(k, k.port[p])
    <3>1. Chosen(h, h.port[p]) /\ k.port[p].la = h.port[p].la
      BY <2>16 DEF Inv, Touched
    <3> QED BY <3>1, <2>17, <2>18 DEF Chosen
  <2> QED BY <1>1, <2>9, <2>16, <2>19, <2>20, TouchedFits
<1> QED BY <1>2, <1>3

\* No frame for a long time: the port expects one soon, then gives up.
LEMMA RxTimerInv ==
  ASSUME NEW h, NEW p \in Ports, Inv(h)
  PROVE  /\ Inv(RxTimer(h, p))
         /\ "agg" \in h.port[p].state => "agg" \in RxTimer(h, p).port[p].state
<1>1. /\ h \in Group /\ h.sys = "own" /\ InvBut(h, p)
      /\ Heard(h, h.port[p]) /\ Chosen(h, h.port[p])
  BY Weaker DEF Inv
<1>2. CASE ~Is(h, p, "exp")
  <2>1. PICK k : k = SetExpired(h, p)
    OBVIOUS
  <2>2. /\ Touched(h, k, p) /\ k.port[p].state = h.port[p].state \cup {"exp"}
        /\ Base(h.port[p], k.port[p])
    BY <1>1, <2>1, SetExpiredIs
  <2>3. k.sys = "own" /\ k.la = h.la /\ k.port[p].la = h.port[p].la
    BY <1>1, <2>2, AtPort DEF Touched
  <2>4. Heard(k, k.port[p]) /\ Chosen(k, k.port[p])
    BY <1>1, <2>2, <2>3 DEF Heard, Chosen, Base
  <2> QED BY <1>1, <1>2, <2>1, <2>2, <2>4, TouchedFits DEF RxTimer
<1>3. CASE Is(h, p, "exp")
  <2>1. PICK a : a = UpdateSelected(h, p, Nobody, {})
    OBVIOUS
  <2>2. PICK b : b = RecordDefault(a, p)
    OBVIOUS
  <2>3. PICK k : k = Clear(b, p, "exp")
    OBVIOUS
  <2>4. RxTimer(h, p) = k
    BY <1>3, <2>1, <2>2, <2>3 DEF RxTimer
  <2>5. Touched(h, a, p) /\ a \in Group /\ ~a.port[p].sel
        /\ a.port[p].state = h.port[p].state
    <3>1. {} \in SUBSET AllBits /\ Nobody \in Id
      BY NoLaType
    <3>2. /\ Touched(h, a, p) /\ a.port[p].state = h.port[p].state
          /\ a.port[p].sel <=> /\ h.port[p].sel /\ h.port[p].peer = Nobody
                               /\ ("agg" \in h.port[p].pstate <=> "agg" \in {})
      BY <1>1, <2>1, <3>1, UpdateSelectedIs
    <3>3. ~a.port[p].sel
      BY <1>1, <3>2 DEF Chosen
    <3> QED BY <3>2, <3>3, AtPort
  <2>6. /\ Touched(a, b, p) /\ b.port[p].state = a.port[p].state \cup {"dflt"}
        /\ b.port[p].sel = a.port[p].sel /\ b.port[p].peer = Nobody /\ b \in Group
    BY <2>2, <2>5, RecordDefaultIs, AtPort
  <2>7. /\ Touched(b, k, p) /\ Rest(b.port[p], k.port[p])
        /\ k.port[p].state = b.port[p].state \ {"exp"}
    BY <2>3, <2>6, FlagIs
  <2>8. Touched(h, k, p)
    BY <2>5, <2>6, <2>7, TouchedTwice
  <2>9. k.sys = "own"
    BY <1>1, <2>8, AtPort
  <2>10. Heard(k, k.port[p])
    BY <2>6, <2>7, <2>9 DEF Heard, Rest, Base, Nobody
  <2>11. Chosen(k, k.port[p])
    BY <2>5, <2>6, <2>7 DEF Chosen, Rest, Base
  <2>12. "agg" \in h.port[p].state => "agg" \in k.port[p].state
    BY <2>5, <2>6, <2>7
  <2> QED BY <1>1, <2>4, <2>8, <2>10, <2>11, <2>12, TouchedFits
<1> QED BY <1>2, <1>3

LEMMA CurrentInv ==
  ASSUME NEW h, NEW p \in Ports, Inv(h)
  PROVE  /\ Inv(Current(h, p))
         /\ "agg" \in h.port[p].state => "agg" \in Current(h, p).port[p].state
<1>1. h \in Group
  BY DEF Inv
<1>2. PICK o \in Port : o = h.port[p]
  BY <1>1, GroupType
<1>3. PICK n \in Int : n = o.cw - 1
  BY DEF Port
<1>4. PICK k : k = [h EXCEPT !.port[p].cw = n]
  OBVIOUS
<1>5. Inv(k) /\ k.port[p].state = h.port[p].state
  <2>1. Alike(h, k)
    BY <1>1, <1>4, CwIs
  <2> QED BY <2>1, AlikeInv DEF Alike, Same
<1>6. k = [h EXCEPT !.port[p].cw = @ - 1]
  BY <1>2, <1>3, <1>4
<1>7. Current(h, p) = h \/ Current(h, p) = k \/ Current(h, p) = RxTimer(k, p)
  BY <1>6 DEF Current
<1> QED BY <1>5, <1>7, RxTimerInv

LEMMA WaitWhileInv ==
  ASSUME NEW h, NEW p \in Ports, Inv(h)
  PROVE  /\ Inv(WaitWhile(h, p))
         /\ WaitWhile(h, p).port[p].state = h.port[p].state
<1>1. /\ h \in Group /\ InvBut(h, p) /\ Bits(h.port[p]) /\ Heard(h, h.port[p])
      /\ Chosen(h, h.port[p]) /\ Sums(h)
      /\ h.port[p].la <=> h.port[p].mux # "DETACHED"
  BY Weaker DEF Inv
<1>2. PICK o \in Port : o = h.port[p]
  BY <1>1, GroupType
<1>3. CASE o.ww = 0
  BY <1>2, <1>3 DEF WaitWhile
<1>4. CASE o.ww # 0
  <2>1. PICK n \in Nat : n = o.ww - 1
    BY <1>4 DEF Port
  <2>2. PICK r : r = [o EXCEPT !.ww = n]
    OBVIOUS
  <2>3. r \in Port /\ r.state = o.state /\ Base(o, r) /\ r.ww = n /\ r.la = o.la /\ r.mux = o.mux
    BY <2>2 DEF Port, Base
  <2>4. PICK a \in La : a = h.la
    BY <1>1, GroupType
  <2>5. PICK m \in Int : m = IF o.ww = 1 THEN a.pending - 1 ELSE a.pending
    BY DEF La
  <2>6. PICK l : l = [a EXCEPT !.pending = m]
    OBVIOUS
  <2>7. /\ l \in La /\ l.refcnt = a.refcnt /\ l.dist = a.dist /\ l.peer = a.peer
        /\ l.key = a.key /\ l.pending = m
    BY <2>6 DEF La
  <2>8. PICK k : k = With2(h, p, r, l)
    OBVIOUS
  <2>9. WaitWhile(h, p) = k
    <3>1. WaitWhile(h, p) = [h EXCEPT !.port[p].ww = n, !.la.pending = m]
      BY <1>2, <1>4, <2>1, <2>4, <2>5 DEF WaitWhile
    <3> QED BY <1>1, <1>2, <2>2, <2>4, <2>6, <2>8, <3>1, GroupType DEF With2, Group
  <2>10. /\ k \in Group /\ k.la = l /\ k.port[p] = r
         /\ \A q \in Ports : q # p => k.port[q] = h.port[q]
         /\ k.sys = h.sys /\ k.active = h.active
         /\ k.suppress = h.suppress /\ k.told = h.told
    BY <1>1, <2>3, <2>7, <2>8, With2Is
  <2>11. Others(h, k, p)
    BY <2>10 DEF Others, Same, Rest, Base
  <2>12. /\ Bits(k.port[p]) /\ Heard(k, k.port[p]) /\ Chosen(k, k.port[p])
         /\ k.port[p].la <=> k.port[p].mux # "DETACHED"
    <3>1. Bits(r)
      BY <1>1, <1>2, <1>4, <2>3 DEF Bits, Port
    <3>2. Heard(k, r) /\ Chosen(k, r)
      BY <1>1, <1>2, <2>3, <2>4, <2>7, <2>10 DEF Heard, Chosen, Base
    <3> QED BY <1>1, <1>2, <2>3, <2>10, <3>1, <3>2
  <2>13. /\ p \in Joined(h) <=> o.la
         /\ p \in Pending(h)
         /\ p \in Spread(h) <=> "dist" \in o.state
    <3>1. o.ww > 0
      BY <1>4 DEF Port
    <3> QED BY <1>2, <3>1, InSets
  <2>14. /\ Joined(k) = IF r.la THEN Joined(h) \cup {p} ELSE Joined(h) \ {p}
         /\ Pending(k) = IF r.ww > 0 THEN Pending(h) \cup {p} ELSE Pending(h) \ {p}
         /\ Spread(k) = IF "dist" \in r.state THEN Spread(h) \cup {p} ELSE Spread(h) \ {p}
    BY <2>10, <2>11, OthersSets
  <2>15. Joined(k) = Joined(h)
    BY <2>3, <2>13, <2>14
  <2>16. Spread(k) = Spread(h)
    BY <2>3, <2>13, <2>14
  <2>17. Cardinality(Pending(k)) = m
    <3>1. Cardinality(Pending(h)) = a.pending
      BY <1>1, <2>4 DEF Sums
    <3>2. CASE o.ww = 1
      <4>1. ~(r.ww > 0)
        BY <2>1, <2>3, <3>2
      <4>2. Pending(k) = Pending(h) \ {p}
        BY <2>14, <4>1
      <4>3. Cardinality(Pending(h) \ {p}) = Cardinality(Pending(h)) - 1
        BY <2>13, SetsFinite, FS_RemoveElement
      <4> QED BY <2>5, <3>1, <3>2, <4>2, <4>3
    <3>3. CASE o.ww # 1
      <4>1. r.ww > 0
        BY <1>4, <2>1, <2>3, <3>3 DEF Port
      <4>2. Pending(k) = Pending(h)
        BY <2>13, <2>14, <4>1
      <4> QED BY <2>5, <3>1, <3>3, <4>2
    <3> QED BY <3>2, <3>3
  <2>18. Sums(k)
    <3>1. k.la.refcnt # 0
      <4>1. o.la
        BY <1>1, <1>2, <1>4 DEF Bits, Port
      <4>2. Cardinality(Joined(h)) # 0
        BY <1>2, <4>1, InSets
      <4> QED BY <1>1, <2>4, <2>7, <2>10, <4>2 DEF Sums
    <3> QED BY <1>1, <2>4, <2>7, <2>10, <2>15, <2>16, <2>17, <3>1 DEF Sums
  <2>19. Inv(k)
    BY <1>1, <2>4, <2>7, <2>10, <2>11, <2>12, <2>18, Assembled
  <2> QED BY <1>2, <2>3, <2>9, <2>10, <2>19
<1> QED BY <1>3, <1>4

-----------------------------------------------------------------------------
(* Selection                                                               *)

\* The ports that are reported are those that distribute.
LEMMA AggregatedIs ==
  ASSUME NEW h \in Group, h.active <=> h.la.dist # {}, h.la.dist = Spread(h),
         \A q \in Ports : Bits(h.port[q])
  PROVE  Aggregated(h) = {q \in h.la.dist : ~h.suppress}
<1>1. \A q \in Ports : q \in h.la.dist <=> h.port[q].mux = "DISTRIBUTING"
  BY DEF Bits, Spread
<1>2. h.la.dist \subseteq Ports
  BY DEF Spread
<1> QED BY <1>1, <1>2 DEF Aggregated

\* A port joins the aggregator.
LEMMA JoinFits ==
  ASSUME NEW h, NEW p \in Ports, Inv(h), ~h.port[p].la, NEW m \in Group,
         NEW k, k = Join(m, p),
         m.port = h.port, m.sys = h.sys, m.active = h.active, m.suppress = h.suppress,
         m.la.refcnt = h.la.refcnt + 1, m.la.refcnt <= MaxMember, m.la.dist = h.la.dist,
         m.la.pending = h.la.pending, m.la.peer.sys \in Systems,
         h.la.refcnt = 0 \/ (m.la.peer = h.la.peer /\ m.la.key = h.la.key),
         Compatible(m, p)
  PROVE  InvBut(k, p)
<1>1. /\ h \in Group /\ InvBut(h, p) /\ Bits(h.port[p]) /\ Heard(h, h.port[p])
      /\ Sums(h) /\ h.sys = "own" /\ h.port[p].mux = "DETACHED"
  BY Weaker DEF Inv
<1>2. PICK o \in Port : o = h.port[p]
  BY <1>1, GroupType
<1>3. PICK s : s = [o EXCEPT !.la = TRUE]
  OBVIOUS
<1>4. /\ s \in Port /\ s.state = o.state /\ Base(o, s) /\ s.ww = o.ww /\ s.la /\ s.mux = o.mux
      /\ s.pstate = o.pstate
  BY <1>3 DEF Port, Base
<1>5. PICK r : r = [s EXCEPT !.sel = TRUE]
  OBVIOUS
<1>6. /\ r \in Port /\ r.state = o.state /\ r.key = o.key /\ r.peer = o.peer /\ r.ww = o.ww
      /\ r.la /\ r.sel /\ r.mux = o.mux /\ r.pstate = o.pstate
  BY <1>4, <1>5 DEF Port, Base
<1>7. PICK n : n = With(m, p, r)
  OBVIOUS
<1>8. /\ Kept(m, n) /\ n.port[p] = r
      /\ \A q \in Ports : q # p => n.port[q] = m.port[q]
  BY <1>6, <1>7, WithIs
<1>9. k = Tell(n)
  BY <1>2, <1>3, <1>5, <1>7, GroupType DEF Join, With, Group
<1>10. /\ n \in Group /\ n.sys = "own" /\ n.la = m.la /\ n.active = h.active
       /\ n.suppress = h.suppress
  BY <1>1, <1>8 DEF Kept
<1>11. /\ k \in Group /\ k.sys = "own" /\ k.la = m.la /\ k.active = h.active
       /\ k.suppress = h.suppress /\ k.port = n.port /\ k.told = Aggregated(n)
  BY <1>9, <1>10, TellIs
<1>12. Others(h, n, p) /\ Others(h, k, p)
  BY <1>8, <1>11 DEF Others, Same, Rest, Base
<1>13. Bits(r) /\ Heard(k, r)
  BY <1>1, <1>2, <1>6, <1>11 DEF Bits, Heard
<1>14. Chosen(k, r)
  BY <1>2, <1>6, <1>11 DEF Chosen, Compatible
<1>15. ASSUME NEW q \in Ports, q # p
       PROVE  /\ Bits(k.port[q]) /\ Heard(k, k.port[q]) /\ Chosen(k, k.port[q])
              /\ k.port[q].la <=> k.port[q].mux # "DETACHED"
  <2>1. /\ Bits(k.port[q]) /\ Heard(k, k.port[q])
        /\ k.port[q].la <=> k.port[q].mux # "DETACHED"
        /\ k.la.peer = h.la.peer /\ k.la.key = h.la.key => Chosen(k, k.port[q])
    BY <1>1, <1>11, <1>12, <1>15, OthersFit
  <2>2. CASE h.la.refcnt = 0
    <3>1. ~h.port[q].la
      BY <1>1, <2>2, InSets DEF Sums
    <3>2. ~h.port[q].sel
      BY <3>1 DEF Inv, Chosen
    <3> QED BY <1>12, <1>15, <2>1, <3>2 DEF Others, Same, Rest, Base, Chosen
  <2>3. CASE m.la.peer = h.la.peer /\ m.la.key = h.la.key
    BY <1>11, <2>1, <2>3
  <2> QED BY <2>1, <2>2, <2>3
<1>16. /\ Joined(k) = Joined(h) \cup {p} /\ p \notin Joined(h)
       /\ Pending(k) = Pending(h) /\ Spread(k) = Spread(h) /\ Spread(n) = Spread(h)
  <2>1. /\ p \in Joined(h) <=> o.la
        /\ p \in Pending(h) <=> o.ww > 0
        /\ p \in Spread(h) <=> "dist" \in o.state
    BY <1>2, InSets
  <2>2. /\ Joined(k) = IF r.la THEN Joined(h) \cup {p} ELSE Joined(h) \ {p}
        /\ Pending(k) = IF r.ww > 0 THEN Pending(h) \cup {p} ELSE Pending(h) \ {p}
        /\ Spread(k) = IF "dist" \in r.state THEN Spread(h) \cup {p} ELSE Spread(h) \ {p}
    BY <1>8, <1>11, <1>12, OthersSets
  <2>3. Joined(k) = Joined(h) \cup {p} /\ p \notin Joined(h)
    BY <1>2, <1>6, <2>1, <2>2
  <2>4. Pending(k) = Pending(h)
    BY <1>6, <2>1, <2>2
  <2>5. Spread(k) = Spread(h)
    BY <1>6, <2>1, <2>2
  <2>6. Spread(n) = Spread(k)
    BY <1>11 DEF Spread
  <2> QED BY <2>3, <2>4, <2>5, <2>6
<1>17. Cardinality(Joined(k)) = h.la.refcnt + 1
  BY <1>1, <1>16, SetsFinite, FS_AddElement, ZenonT(60) DEF Sums
<1>18. k.told = {q \in k.la.dist : ~k.suppress}
  <2>1. \A q \in Ports : Bits(n.port[q])
    BY <1>8, <1>11, <1>13, <1>15
  <2>2. (n.active <=> n.la.dist # {}) /\ n.la.dist = Spread(n)
    BY <1>1, <1>10, <1>16 DEF Sums
  <2>3. Aggregated(n) = {q \in n.la.dist : ~n.suppress}
    BY <1>10, <2>1, <2>2, AggregatedIs
  <2> QED BY <1>10, <1>11, <2>3
<1>19. Sums(k)
  <2>1. k.la.refcnt # 0
    <3>1. h.la.refcnt = Cardinality(Joined(h)) /\ Cardinality(Joined(h)) \in Nat
      BY <1>1, SetsFinite DEF Sums
    <3> QED BY <1>11, <3>1
  <2> QED BY <1>1, <1>11, <1>16, <1>17, <1>18, <2>1 DEF Sums
<1>20. k.port[p] = r /\ r.la /\ r.sel /\ r.mux = "DETACHED"
  BY <1>1, <1>2, <1>6, <1>8, <1>11
<1> QED BY <1>11, <1>13, <1>14, <1>15, <1>19, <1>20 DEF InvBut

\* A port selects the aggregator, or none: no port gives way.
LEMMA SelectInv ==
  ASSUME PartnersAgree, NEW h, NEW p \in Ports, Inv(h), "agg" \in h.port[p].state
  PROVE  InvBut(Select(h, p), p)
<1>1. /\ h \in Group /\ InvBut(h, p) /\ Heard(h, h.port[p]) /\ Sums(h)
  BY Weaker DEF Inv
<1>2. PICK o \in Port : o = h.port[p]
  BY <1>1, GroupType
<1>3. CASE o.la \/ "dflt" \in o.state \/ "exp" \in o.state
  BY <1>1, <1>2, <1>3 DEF Select, Is
<1>4. CASE ~(o.la \/ "dflt" \in o.state \/ "exp" \in o.state)
  <2>1. "agg" \in o.pstate /\ o.peer.sys \in Systems /\ o.peer \in Id /\ o.key \in Nat
    BY <1>1, <1>2, <1>4 DEF Heard, Port
  <2>2. PICK a \in La : a = h.la
    BY <1>1, GroupType
  <2>3. Select(h, p) =
          IF a = NoLa THEN NewLa(h, p)
          ELSE IF Compatible(h, p)
          THEN IF a.refcnt = MaxMember THEN h
               ELSE Join([h EXCEPT !.la.refcnt = @ + 1], p)
          ELSE IF Prio[a.peer.sys] < Prio[o.peer.sys] THEN GiveWay(h, p) ELSE h
    BY <1>2, <1>4, <2>2 DEF Select, Is
  <2>4. CASE a = NoLa
    <3>1. PICK l : l = [NoLa EXCEPT !.refcnt = 1, !.peer = o.peer, !.key = o.key]
      OBVIOUS
    <3>2. /\ l \in La /\ l.refcnt = 1 /\ l.dist = {} /\ l.pending = 0
          /\ l.peer = o.peer /\ l.key = o.key
      <4>1. PICK z \in La : z = NoLa
        BY NoLaType
      <4>2. z.dist = {} /\ z.pending = 0
        BY <4>1 DEF NoLa
      <4>3. PICK l1 : l1 = [z EXCEPT !.refcnt = 1]
        OBVIOUS
      <4>4. l1 \in La /\ l1.refcnt = 1 /\ l1.dist = {} /\ l1.pending = 0
        BY <4>2, <4>3 DEF La
      <4>5. PICK l2 : l2 = [l1 EXCEPT !.peer = o.peer]
        OBVIOUS
      <4>6. /\ l2 \in La /\ l2.refcnt = 1 /\ l2.dist = {} /\ l2.pending = 0
            /\ l2.peer = o.peer
        BY <2>1, <4>4, <4>5 DEF La
      <4>7. l = [l2 EXCEPT !.key = o.key]
        BY <3>1, <4>1, <4>3, <4>5
      <4> QED BY <2>1, <4>6, <4>7 DEF La
    <3>3. PICK m : m = [h EXCEPT !.la = l]
      OBVIOUS
    <3>4. /\ m \in Group /\ m.port = h.port /\ m.sys = h.sys /\ m.active = h.active
          /\ m.suppress = h.suppress /\ m.la = l
      BY <1>1, <3>2, <3>3 DEF Group
    <3>5. Compatible(m, p)
      BY <1>2, <2>1, <3>2, <3>4 DEF Compatible
    <3>6. NewLa(h, p) = Join(m, p)
      BY <1>2, <3>1, <3>3, <3>5 DEF NewLa
    <3>7. /\ h.la.refcnt = 0 /\ h.la.dist = {} /\ h.la.pending = 0
      BY <2>2, <2>4 DEF NoLa
    <3>8. PICK k : k = Join(m, p)
      OBVIOUS
    <3>9. m.la.refcnt = h.la.refcnt + 1 /\ m.la.refcnt <= MaxMember
      BY <3>2, <3>4, <3>7, Times
    <3>10. ~h.port[p].la /\ m.la.dist = h.la.dist /\ m.la.pending = h.la.pending
           /\ m.la.peer.sys \in Systems
      BY <1>2, <1>4, <2>1, <3>2, <3>4, <3>7
    <3>11. InvBut(k, p)
      BY <3>4, <3>5, <3>7, <3>8, <3>9, <3>10, JoinFits
    <3> QED BY <2>3, <2>4, <3>6, <3>8, <3>11
  <2>5. CASE a # NoLa /\ Compatible(h, p) /\ a.refcnt # MaxMember
    <3>1. PICK n \in Int : n = a.refcnt + 1
      BY DEF La
    <3>2. PICK l : l = [a EXCEPT !.refcnt = n]
      OBVIOUS
    <3>3. /\ l \in La /\ l.refcnt = n /\ l.dist = a.dist /\ l.pending = a.pending
          /\ l.peer = a.peer /\ l.key = a.key
      BY <3>2 DEF La
    <3>4. PICK m : m = [h EXCEPT !.la = l]
      OBVIOUS
    <3>5. /\ m \in Group /\ m.port = h.port /\ m.sys = h.sys /\ m.active = h.active
          /\ m.suppress = h.suppress /\ m.la = l
      BY <1>1, <3>3, <3>4 DEF Group
    <3>6. Compatible(m, p)
      BY <2>2, <2>5, <3>3, <3>5 DEF Compatible
    <3>7. m = [h EXCEPT !.la.refcnt = @ + 1]
      BY <2>2, <3>1, <3>2, <3>4
    <3>8. PICK k : k = Join(m, p)
      OBVIOUS
    <3>9. m.la.refcnt = h.la.refcnt + 1 /\ m.la.refcnt <= MaxMember
      <4>1. a.refcnt <= MaxMember /\ a.refcnt \in Int
        BY <1>1, <2>2 DEF Sums, La
      <4> QED BY <2>2, <2>5, <3>1, <3>3, <3>5, <4>1, Times
    <3>10. ~h.port[p].la /\ m.la.dist = h.la.dist /\ m.la.pending = h.la.pending
           /\ m.la.peer.sys \in Systems /\ m.la.peer = h.la.peer /\ m.la.key = h.la.key
      <4>1. a.peer.sys \in Systems
        BY <1>1, <2>2, <2>5 DEF Sums
      <4> QED BY <1>2, <1>4, <2>2, <3>3, <3>5, <4>1
    <3>11. InvBut(k, p)
      BY <3>5, <3>6, <3>8, <3>9, <3>10, JoinFits
    <3> QED BY <2>3, <2>5, <3>7, <3>8, <3>11
  <2>6. CASE a # NoLa /\ ~Compatible(h, p)
    <3>1. a.peer.sys \in Systems
      BY <1>1, <2>2, <2>6 DEF Sums
    <3>2. ~(Prio[a.peer.sys] < Prio[o.peer.sys])
      BY <2>1, <3>1 DEF PartnersAgree
    <3> QED BY <1>1, <2>3, <2>6, <3>2
  <2> QED BY <1>1, <2>3, <2>4, <2>5, <2>6
<1> QED BY <1>3, <1>4

\* The second of one port.
LEMMA TickPortInv ==
  ASSUME PartnersAgree, NEW h, NEW p \in Ports, Inv(h)
  PROVE  Inv(TickPort(h, p))
<1>1. h \in Group
  BY DEF Inv
<1>2. CASE ~Is(h, p, "agg")
  BY <1>2 DEF TickPort
<1>3. CASE Is(h, p, "agg")
  <2>1. PICK a : a = [h EXCEPT !.port[p].sent = 0]
    OBVIOUS
  <2>2. Inv(a) /\ "agg" \in a.port[p].state
    <3>1. Alike(h, a)
      <4>1. 0 \in Int
        OBVIOUS
      <4> QED BY <1>1, <2>1, <4>1, CwIs
    <3> QED BY <1>3, <3>1, AlikeInv DEF Alike, Same, Is
  <2>3. PICK b : b = Current(a, p)
    OBVIOUS
  <2>4. Inv(b) /\ "agg" \in b.port[p].state
    BY <2>2, <2>3, CurrentInv
  <2>5. PICK c : c = Periodic(b, p)
    OBVIOUS
  <2>6. Inv(c) /\ "agg" \in c.port[p].state
    <3>1. Alike(b, c)
      BY <2>4, <2>5, PeriodicIs DEF Inv
    <3> QED BY <2>4, <3>1, AlikeInv DEF Alike, Same
  <2>7. PICK d : d = WaitWhile(c, p)
    OBVIOUS
  <2>8. Inv(d) /\ "agg" \in d.port[p].state
    BY <2>6, <2>7, WaitWhileInv
  <2>9. PICK e : e = Select(d, p)
    OBVIOUS
  <2>10. InvBut(e, p)
    BY <2>8, <2>9, SelectInv
  <2>11. PICK f : f = Mux(e, p)
    OBVIOUS
  <2>12. Inv(f)
    BY <2>10, <2>11, MuxInv
  <2>13. PICK n : n = Tx(f, p)
    OBVIOUS
  <2>14. Inv(n)
    <3>1. Alike(f, n)
      BY <2>12, <2>13, TxIs DEF Inv
    <3> QED BY <2>12, <3>1, AlikeInv
  <2>15. PICK s : s = Schedule(n, p)
    OBVIOUS
  <2>16. Inv(s)
    <3>1. Alike(n, s)
      BY <2>14, <2>15, ScheduleIs DEF Inv
    <3> QED BY <2>14, <3>1, AlikeInv
  <2>17. TickPort(h, p) = s
    BY <1>3, <2>1, <2>3, <2>5, <2>7, <2>9, <2>11, <2>13, <2>15 DEF TickPort
  <2> QED BY <2>16, <2>17
<1> QED BY <1>2, <1>3

-----------------------------------------------------------------------------
(* One port after the other                                                *)

\* A set of numbers has a least one.
LEMMA Least ==
  ASSUME NEW T \in SUBSET Nat, T # {} PROVE \E m \in T : \A y \in T : m <= y
<1>1. PICK m \in T : \A y \in T : ~(<<y, m>> \in OpToRel(<, Nat))
  BY NatLessThanWellFounded, WFMin
<1> SUFFICES ASSUME NEW y \in T PROVE m <= y
  OBVIOUS
<1>2. ~(y < m)
  BY <1>1 DEF OpToRel
<1> QED BY <1>2

\* What holds of no port, and of a set if of the set without one of its ports.
LEMMA PortByPort ==
  ASSUME NEW Good, {} \in Good,
         \A S \in SUBSET Ports : S # {} => \E p \in S : (S \ {p} \in Good => S \in Good)
  PROVE  \A S \in SUBSET Ports : S \in Good
<1> DEFINE Bad == {S \in SUBSET Ports : S \notin Good}
<1>1. ASSUME Bad # {} PROVE FALSE
  <2>1. PICK N : N = {Cardinality(S) : S \in Bad}
    OBVIOUS
  <2>2. \A S \in SUBSET Ports : IsFiniteSet(S) /\ Cardinality(S) \in Nat
    BY Times, FS_Subset, FS_CardinalityType
  <2>3. N \in SUBSET Nat /\ N # {}
    BY <1>1, <2>1, <2>2
  <2>4. PICK n \in N : \A y \in N : n <= y
    BY <2>3, Least
  <2>5. PICK S \in Bad : n = Cardinality(S)
    BY <2>1
  <2>6. S \in SUBSET Ports /\ S # {} /\ S \notin Good
    OBVIOUS
  <2>7. PICK p \in S : S \ {p} \in Good => S \in Good
    BY <2>6
  <2>8. Cardinality(S \ {p}) = n - 1
    BY <2>2, <2>5, <2>6, FS_RemoveElement
  <2>9. S \ {p} \in Bad
    BY <2>6, <2>7
  <2>10. n - 1 \in N
    BY <2>1, <2>8, <2>9
  <2> QED BY <2>3, <2>4, <2>10
<1> QED BY <1>1

LEMMA HasGreatest ==
  ASSUME NEW S \in SUBSET Ports, S # {} PROVE \E q \in S : \A r \in S : r <= q
<1>1. PICK Good : Good = {T \in SUBSET Ports : T # {} => \E q \in T : \A r \in T : r <= q}
  OBVIOUS
<1>2. {} \in Good
  BY <1>1
<1>3. ASSUME NEW T \in SUBSET Ports, T # {}
      PROVE  \E p \in T : (T \ {p} \in Good => T \in Good)
  <2>1. PICK p \in T : TRUE
    BY <1>3
  <2>2. ASSUME T \ {p} \in Good PROVE T \in Good
    <3>1. CASE T \ {p} = {}
      <4>1. \A r \in T : r = p
        BY <3>1
      <4>2. p <= p
        BY Times
      <4> QED BY <1>1, <2>1, <4>1, <4>2
    <3>2. CASE T \ {p} # {}
      <4>1. PICK q \in T \ {p} : \A r \in T \ {p} : r <= q
        BY <1>1, <2>2, <3>2
      <4>2. p \in Nat /\ q \in Nat /\ \A r \in T : r \in Nat
        BY <1>3, Times
      <4>3. CASE p <= q
        BY <1>1, <4>1, <4>3
      <4>4. CASE ~(p <= q)
        <5>1. \A r \in T : r <= p
          BY <4>1, <4>2, <4>4
        <5> QED BY <1>1, <5>1
      <4> QED BY <4>3, <4>4
    <3> QED BY <3>1, <3>2
  <2> QED BY <2>2
<1>4. S \in Good
  BY <1>2, <1>3, PortByPort
<1> QED BY <1>1, <1>4

\* A function that does something with one port after the other.
HasFold(G, st, g0, first) ==
  \E f \in [SUBSET Ports -> G] : \A S \in SUBSET Ports :
    f[S] = IF S = {} THEN g0 ELSE st[<<f[S \ {first[S]}], first[S]>>]

LEMMA FoldExists ==
  ASSUME NEW G, NEW st \in [G \X Ports -> G], NEW g0 \in G, NEW first,
         \A S \in SUBSET Ports : S # {} => first[S] \in S
  PROVE  HasFold(G, st, g0, first)
<1> DEFINE D(n) == {S \in SUBSET Ports : Cardinality(S) <= n}
           Rec(f, S) == f[S] = IF S = {} THEN g0
                               ELSE st[<<f[S \ {first[S]}], first[S]>>]
           Has(n) == \E f \in [D(n) -> G] : \A S \in D(n) : Rec(f, S)
<1>1. \A S \in SUBSET Ports : /\ IsFiniteSet(S) /\ Cardinality(S) \in Nat
                              /\ Cardinality(S) = 0 <=> S = {}
  BY Times, FS_Subset, FS_CardinalityType, FS_EmptySet
<1>2. Has(0)
  <2>1. \A S \in D(0) : S = {}
    BY <1>1
  <2>2. PICK f : f = [S \in D(0) |-> g0]
    OBVIOUS
  <2>3. f \in [D(0) -> G] /\ \A S \in D(0) : Rec(f, S)
    BY <2>1, <2>2
  <2> QED BY <2>3
<1>3. ASSUME NEW n \in Nat, Has(n) PROVE Has(n + 1)
  <2>1. PICK f \in [D(n) -> G] : \A S \in D(n) : Rec(f, S)
    BY <1>3
  <2>2. ASSUME NEW S \in D(n + 1), S # {}
        PROVE  first[S] \in S /\ first[S] \in Ports /\ S \ {first[S]} \in D(n)
    <3>1. first[S] \in S /\ S \in SUBSET Ports
      BY <2>2
    <3>2. Cardinality(S \ {first[S]}) = Cardinality(S) - 1
      BY <1>1, <3>1, FS_RemoveElement
    <3> QED BY <1>1, <3>1, <3>2
  <2>3. PICK k : k = [S \in D(n + 1) |-> IF S = {} THEN g0
                                   ELSE st[<<f[S \ {first[S]}], first[S]>>]]
    OBVIOUS
  <2>4. k \in [D(n + 1) -> G]
    <3> SUFFICES ASSUME NEW S \in D(n + 1) PROVE k[S] \in G
      BY <2>3
    <3>1. CASE S = {}
      BY <2>3, <3>1
    <3>2. CASE S # {}
      <4>1. first[S] \in Ports /\ f[S \ {first[S]}] \in G
        BY <2>1, <2>2, <3>2
      <4>2. k[S] = st[<<f[S \ {first[S]}], first[S]>>]
        BY <2>3, <3>2
      <4> QED BY <4>1, <4>2
    <3> QED BY <3>1, <3>2
  <2>5. \A S \in D(n) : S \in D(n + 1) /\ k[S] = f[S]
    <3> SUFFICES ASSUME NEW S \in D(n) PROVE S \in D(n + 1) /\ k[S] = f[S]
      OBVIOUS
    <3>1. S \in D(n + 1)
      BY <1>1
    <3>2. Rec(f, S)
      BY <2>1
    <3> QED BY <2>3, <3>1, <3>2
  <2>6. ASSUME NEW S \in D(n + 1) PROVE Rec(k, S)
    <3>1. CASE S = {}
      BY <2>3, <3>1
    <3>2. CASE S # {}
      <4>1. k[S \ {first[S]}] = f[S \ {first[S]}]
        BY <2>2, <2>5, <3>2
      <4> QED BY <2>3, <3>2, <4>1
    <3> QED BY <3>1, <3>2
  <2> QED BY <2>4, <2>6
<1> HIDE DEF Has
<1>4. \A n \in Nat : Has(n)
  <2>1. PICK Bad : Bad = {n \in Nat : ~Has(n)}
    OBVIOUS
  <2>2. ASSUME Bad # {} PROVE FALSE
    <3>1. PICK n \in Bad : \A y \in Bad : n <= y
      BY <2>1, <2>2, Least
    <3>2. n # 0 /\ n \in Nat
      BY <1>2, <2>1
    <3>3. n - 1 \in Nat /\ Has(n - 1)
      BY <2>1, <3>1, <3>2
    <3>4. Has((n - 1) + 1)
      BY <1>3, <3>3
    <3>5. (n - 1) + 1 = n
      BY <3>2
    <3> QED BY <2>1, <3>4, <3>5
  <2> QED BY <2>1, <2>2
<1>5. PICK n \in Nat : n = Cardinality(Ports)
  BY Times, FS_CardinalityType
<1>6. D(n) = SUBSET Ports
  BY <1>5, Times, FS_Subset
<1>7. Has(n)
  BY <1>4
<1> QED BY <1>6, <1>7 DEF Has, HasFold

LEMMA TickInv ==
  ASSUME PartnersAgree, NEW h, Inv(h) PROVE Inv(Tick(h))
<1> DEFINE First(S) == CHOOSE q \in S : \A r \in S : r <= q
           Body(f) == [S \in SUBSET Ports |->
                         IF S = {} THEN h
                         ELSE LET p == CHOOSE q \in S : \A r \in S : r <= q
                              IN  TickPort(f[S \ {p}], p)]
           run == CHOOSE f : f = Body(f)
<1>1. Tick(h) = run[Ports]
  BY Zenon DEF Tick
<1>2. \A S \in SUBSET Ports : S # {} => First(S) \in S
  BY HasGreatest
<1>3. \E f : f = Body(f)
  <2>1. PICK G : G = {k \in Group : Inv(k)}
    OBVIOUS
  <2>2. PICK st : st = [x \in G \X Ports |-> TickPort(x[1], x[2])]
    OBVIOUS
  <2>3. \A k \in G, p \in Ports : TickPort(k, p) \in G /\ st[<<k, p>>] = TickPort(k, p)
    <3> SUFFICES ASSUME NEW k \in G, NEW p \in Ports
                 PROVE  TickPort(k, p) \in G /\ st[<<k, p>>] = TickPort(k, p)
      OBVIOUS
    <3>1. Inv(TickPort(k, p))
      BY <2>1, TickPortInv
    <3>2. TickPort(k, p) \in Group
      BY <3>1 DEF Inv
    <3> QED BY <2>1, <2>2, <3>1, <3>2
  <2>4. st \in [G \X Ports -> G]
    <3>1. ASSUME NEW x \in G \X Ports PROVE TickPort(x[1], x[2]) \in G
      <4>1. x[1] \in G /\ x[2] \in Ports
        OBVIOUS
      <4> QED BY <2>3, <4>1
    <3> QED BY <2>2, <3>1
  <2>5. PICK first : first = [S \in SUBSET Ports |-> First(S)]
    OBVIOUS
  <2>6. h \in G
    BY <2>1 DEF Inv
  <2> HIDE DEF First
  <2>7. \A S \in SUBSET Ports : S # {} => first[S] \in S /\ first[S] = First(S)
    BY <1>2, <2>5
  <2>8. PICK f \in [SUBSET Ports -> G] : \A S \in SUBSET Ports :
           f[S] = IF S = {} THEN h ELSE st[<<f[S \ {first[S]}], first[S]>>]
    <3>1. \A S \in SUBSET Ports : S # {} => first[S] \in S
      BY <2>7
    <3>2. HasFold(G, st, h, first)
      BY <2>4, <2>6, <3>1, FoldExists
    <3> HIDE DEF Body, run
    <3> QED BY <3>2 DEF HasFold
  <2>9. ASSUME NEW S \in SUBSET Ports
        PROVE  f[S] = IF S = {} THEN h ELSE TickPort(f[S \ {First(S)}], First(S))
    <3>1. CASE S = {}
      BY <2>8, <3>1
    <3>2. CASE S # {}
      <4>1. First(S) \in Ports /\ S \ {First(S)} \in SUBSET Ports /\ first[S] = First(S)
        BY <1>2, <2>7, <3>2
      <4>2. f[S \ {First(S)}] \in G
        BY <4>1
      <4>3. f[S] = st[<<f[S \ {First(S)}], First(S)>>]
        BY <2>8, <3>2, <4>1
      <4> QED BY <2>3, <3>2, <4>1, <4>2, <4>3
    <3> QED BY <3>1, <3>2
  <2>10. f = Body(f)
    BY <2>9 DEF First
  <2> QED BY <2>10
<1>4. run = Body(run)
  BY <1>3
<1>5. ASSUME NEW S \in SUBSET Ports
      PROVE  run[S] = IF S = {} THEN h ELSE TickPort(run[S \ {First(S)}], First(S))
  <2> HIDE DEF run
  <2> QED BY <1>4
<1> HIDE DEF run, First
<1>6. PICK Good : Good = {S \in SUBSET Ports : Inv(run[S])}
  OBVIOUS
<1>7. {} \in Good
  BY <1>5, <1>6
<1>8. ASSUME NEW S \in SUBSET Ports, S # {}
      PROVE  \E p \in S : (S \ {p} \in Good => S \in Good)
  <2>1. First(S) \in S /\ First(S) \in Ports
    BY <1>2, <1>8
  <2>2. ASSUME S \ {First(S)} \in Good PROVE S \in Good
    <3>1. Inv(run[S \ {First(S)}])
      BY <1>6, <2>2
    <3>2. Inv(TickPort(run[S \ {First(S)}], First(S)))
      BY <2>1, <3>1, TickPortInv
    <3> QED BY <1>5, <1>6, <1>8, <3>2
  <2> QED BY <2>1, <2>2
<1>9. Ports \in Good
  BY <1>7, <1>8, PortByPort
<1> QED BY <1>1, <1>6, <1>9

-----------------------------------------------------------------------------
(* Links, keys and markers                                                 *)

LEMMA PortEnableInv ==
  ASSUME NEW h, NEW p \in Ports, Inv(h) PROVE Inv(PortEnable(h, p))
<1>1. /\ h \in Group /\ h.sys = "own" /\ InvBut(h, p)
      /\ Heard(h, h.port[p]) /\ Chosen(h, h.port[p])
  BY Weaker DEF Inv
<1>2. PICK a : a = Set(h, p, "agg")
  OBVIOUS
<1>3. Touched(h, a, p) /\ Rest(h.port[p], a.port[p]) /\ a \in Group
  BY <1>1, <1>2, FlagIs, AtPort
<1>4. PICK k : k = SetExpired(a, p)
  OBVIOUS
<1>5. /\ Touched(a, k, p) /\ k.port[p].state = a.port[p].state \cup {"exp"}
      /\ Base(a.port[p], k.port[p])
  BY <1>3, <1>4, SetExpiredIs
<1>6. Touched(h, k, p)
  BY <1>3, <1>5, TouchedTwice
<1>7. k.sys = h.sys /\ k.la = h.la /\ k.port[p].la = h.port[p].la
  BY <1>6, AtPort DEF Touched
<1>8. Base(h.port[p], k.port[p])
  BY <1>3, <1>5 DEF Rest, Base
<1>9. Heard(k, k.port[p]) /\ Chosen(k, k.port[p])
  BY <1>1, <1>5, <1>7, <1>8 DEF Heard, Chosen, Base
<1> QED BY <1>1, <1>2, <1>4, <1>6, <1>9, TouchedFits DEF PortEnable

LEMMA KeyChangeInv ==
  ASSUME NEW h, NEW p \in Ports, Inv(h), NEW key \in Nat PROVE Inv(KeyChange(h, p, key))
<1>1. /\ h \in Group /\ h.sys = "own" /\ InvBut(h, p)
      /\ Heard(h, h.port[p]) /\ Chosen(h, h.port[p])
  BY Weaker DEF Inv
<1>2. PICK o \in Port : o = h.port[p]
  BY <1>1, GroupType
<1>3. PICK b \in BOOLEAN : b = (o.sel /\ o.key = key)
  OBVIOUS
<1>4. PICK s : s = [o EXCEPT !.sel = b]
  OBVIOUS
<1>5. /\ s \in Port /\ s.state = o.state /\ s.peer = o.peer /\ s.pstate = o.pstate
      /\ s.sel = b /\ s.la = o.la /\ s.mux = o.mux /\ s.ww = o.ww
  BY <1>4 DEF Port
<1>6. PICK r : r = [s EXCEPT !.key = key]
  OBVIOUS
<1>7. /\ r \in Port /\ r.state = o.state /\ r.peer = o.peer /\ r.pstate = o.pstate
      /\ r.sel = b /\ r.la = o.la /\ r.mux = o.mux /\ r.ww = o.ww /\ r.key = key
  BY <1>5, <1>6 DEF Port
<1>8. PICK k : k = With(h, p, r)
  OBVIOUS
<1>9. k = KeyChange(h, p, key)
  BY <1>1, <1>2, <1>3, <1>4, <1>6, <1>8, GroupType DEF KeyChange, With, Group
<1>10. Touched(h, k, p) /\ k.port[p] = r
  BY <1>1, <1>2, <1>7, <1>8, WithTouched
<1>11. k.sys = h.sys /\ k.la = h.la
  BY <1>10, AtPort
<1>12. b => o.sel /\ o.key = key
  BY <1>3
<1>13. Heard(k, k.port[p])
  BY <1>1, <1>2, <1>7, <1>10, <1>11 DEF Heard
<1>14. Chosen(k, k.port[p])
  BY <1>1, <1>2, <1>7, <1>10, <1>11, <1>12 DEF Chosen
<1> QED BY <1>1, <1>9, <1>10, <1>13, <1>14, TouchedFits

LEMMA LinkUpInv ==
  ASSUME NEW h, NEW p \in Ports, Inv(h), NEW key \in Nat PROVE Inv(LinkUp(h, p, key))
<1>1. PICK k : k = PortEnable(KeyChange(h, p, key), p)
  OBVIOUS
<1>2. Inv(k)
  BY <1>1, KeyChangeInv, PortEnableInv
<1>3. Inv(Ntt(k, p))
  <2>1. Alike(k, Ntt(k, p))
    BY <1>2, NttIs DEF Inv
  <2> QED BY <1>2, <2>1, AlikeInv
<1> QED BY <1>1, <1>2, <1>3 DEF LinkUp

LEMMA PortDisableInv ==
  ASSUME NEW h, NEW p \in Ports, Inv(h) PROVE Inv(PortDisable(h, p))
<1>1. /\ h \in Group /\ InvBut(h, p) /\ Heard(h, h.port[p])
  BY Weaker DEF Inv
<1>2. PICK o \in Port : o = h.port[p]
  BY <1>1, GroupType
<1>3. PICK r : r = [o EXCEPT !.sel = FALSE]
  OBVIOUS
<1>4. /\ r \in Port /\ r.state = o.state /\ r.peer = o.peer /\ r.pstate = o.pstate
      /\ ~r.sel /\ r.la = o.la /\ r.mux = o.mux /\ r.ww = o.ww
  BY <1>3 DEF Port
<1>5. PICK a : a = With(h, p, r)
  OBVIOUS
<1>6. a = [h EXCEPT !.port[p].sel = FALSE]
  BY <1>1, <1>2, <1>3, <1>5, GroupType DEF With, Group
<1>7. Inv(a) /\ ~a.port[p].sel
  <2>1. Touched(h, a, p) /\ a.port[p] = r
    BY <1>1, <1>2, <1>4, <1>5, WithTouched
  <2>2. a.sys = h.sys
    BY <2>1, AtPort
  <2>3. Heard(a, a.port[p]) /\ Chosen(a, a.port[p])
    BY <1>1, <1>2, <1>4, <2>1, <2>2 DEF Heard, Chosen
  <2> QED BY <1>1, <1>4, <2>1, <2>3, TouchedFits
<1>8. PICK b : b = SetMux(a, p, "DETACHED")
  OBVIOUS
<1>9. Inv(b) /\ ~b.port[p].sel
  <2>1. CASE a.port[p].mux = "DETACHED"
    BY <1>7, <1>8, <2>1 DEF SetMux
  <2>2. CASE a.port[p].mux # "DETACHED"
    <3>1. InvBut(a, p)
      BY <1>7, Weaker
    <3> QED BY <1>7, <1>8, <2>2, <3>1, DetachedStep
  <2> QED BY <2>1, <2>2
<1>10. PICK c : c = Clear(b, p, "agg")
  OBVIOUS
<1>11. Touched(b, c, p) /\ Rest(b.port[p], c.port[p]) /\ c \in Group
  BY <1>9, <1>10, FlagIs, AtPort DEF Inv
<1>12. PICK d : d = RecordDefault(c, p)
  OBVIOUS
<1>13. /\ Touched(c, d, p) /\ d.port[p].state = c.port[p].state \cup {"dflt"}
       /\ d.port[p].sel = c.port[p].sel /\ d.port[p].peer = Nobody /\ d \in Group
  BY <1>11, <1>12, RecordDefaultIs, AtPort
<1>14. PICK k : k = Clear(d, p, "exp")
  OBVIOUS
<1>15. /\ Touched(d, k, p) /\ Rest(d.port[p], k.port[p])
       /\ k.port[p].state = d.port[p].state \ {"exp"}
  BY <1>13, <1>14, FlagIs
<1>16. Touched(b, k, p)
  BY <1>11, <1>13, <1>15, TouchedTwice
<1>17. k.sys = "own"
  BY <1>9, <1>16, AtPort DEF Inv
<1>18. Heard(k, k.port[p])
  BY <1>13, <1>15, <1>17 DEF Heard, Rest, Base, Nobody
<1>19. Chosen(k, k.port[p])
  BY <1>9, <1>11, <1>13, <1>15 DEF Chosen, Rest, Base
<1>20. Inv(k)
  <2>1. InvBut(b, p)
    BY <1>9, Weaker
  <2> QED BY <1>9, <1>16, <1>18, <1>19, <2>1, TouchedFits
<1>21. PortDisable(h, p) = k
  BY <1>6, <1>8, <1>10, <1>12, <1>14, Zenon DEF PortDisable
<1> QED BY <1>20, <1>21

\* What is told is right once the database is told.
LEMMA TellInv ==
  ASSUME NEW h, Inv(h), NEW m \in Group, m.port = h.port, m.la = h.la,
         m.active = h.active, m.sys = h.sys
  PROVE  Inv(Tell(m))
<1>1. PICK k : k = Tell(m)
  OBVIOUS
<1>2. /\ k \in Group /\ k.sys = h.sys /\ k.la = h.la /\ k.active = h.active
      /\ k.suppress = m.suppress /\ k.port = h.port /\ k.told = Aggregated(m)
  BY <1>1, TellIs
<1>3. Sums(h) /\ \A q \in Ports : Bits(h.port[q])
  BY DEF Inv
<1>4. Spread(m) = Spread(h) /\ Spread(k) = Spread(h) /\ Joined(k) = Joined(h)
      /\ Pending(k) = Pending(h)
  BY <1>2 DEF Spread, Joined, Pending
<1>5. Aggregated(m) = {q \in m.la.dist : ~m.suppress}
  <2>1. (m.active <=> m.la.dist # {}) /\ m.la.dist = Spread(m)
    BY <1>3, <1>4 DEF Sums
  <2>2. \A q \in Ports : Bits(m.port[q])
    BY <1>3
  <2> QED BY <2>1, <2>2, AggregatedIs
<1>6. Sums(k)
  BY <1>2, <1>3, <1>4, <1>5 DEF Sums
<1>7. \A q \in Ports :
        /\ Bits(k.port[q]) /\ Heard(k, k.port[q]) /\ Chosen(k, k.port[q])
        /\ k.port[q].la <=> k.port[q].mux # "DETACHED"
  BY <1>2 DEF Inv, Heard, Chosen
<1>8. k.sys = "own"
  BY <1>2 DEF Inv
<1> QED BY <1>1, <1>2, <1>6, <1>7, <1>8 DEF Inv

LEMMA ResumeInv ==
  ASSUME NEW h, Inv(h) PROVE Inv(Resume(h)) /\ Inv(Tell(h))
<1>1. h \in Group
  BY DEF Inv
<1>2. PICK m : m = [h EXCEPT !.suppress = FALSE]
  OBVIOUS
<1>3. /\ m \in Group /\ m.port = h.port /\ m.la = h.la /\ m.active = h.active /\ m.sys = h.sys
  BY <1>1, <1>2 DEF Group
<1>4. Inv(Tell(m))
  BY <1>3, TellInv
<1> QED BY <1>1, <1>2, <1>4, TellInv DEF Resume

LEMMA TransitInv ==
  ASSUME NEW h, Inv(h) PROVE Inv(Transit(h))
BY ResumeInv DEF Transit

LEMMA MarkerResponseInv ==
  ASSUME NEW h, NEW p \in Ports, Inv(h) PROVE Inv(MarkerResponse(h, p))
<1>1. h \in Group
  BY DEF Inv
<1>2. PICK o \in Port : o = h.port[p]
  BY <1>1, GroupType
<1>3. PICK r : r = [o EXCEPT !.mark = FALSE]
  OBVIOUS
<1>4. r \in Port /\ Same(o, r)
  BY <1>3 DEF Port, Same, Rest, Base
<1>5. PICK m : m = With(h, p, r)
  OBVIOUS
<1>6. m = [h EXCEPT !.port[p].mark = FALSE]
  BY <1>1, <1>2, <1>3, <1>5, GroupType DEF With, Group
<1>7. Inv(m)
  BY <1>1, <1>2, <1>4, <1>5, WithAlike, AlikeInv
<1>8. MarkerResponse(h, p) = Resume(m) \/ MarkerResponse(h, p) = m
  BY <1>6 DEF MarkerResponse
<1> QED BY <1>7, <1>8, ResumeInv

-----------------------------------------------------------------------------
(* The group comes and goes                                                *)

\* A port without partner or aggregator.
Unused(r) ==
  /\ r.state \subseteq {"act"} /\ r.peer = Nobody /\ r.pstate = {} /\ r.sel = FALSE
  /\ r.mux = "DETACHED" /\ r.ww = 0 /\ r.la = FALSE

LEMMA UnusedInv ==
  ASSUME NEW h \in Group, h.sys = "own", h.la = NoLa, h.active = FALSE, h.suppress = FALSE,
         h.told = {}, \A q \in Ports : Unused(h.port[q])
  PROVE  Inv(h)
<1>1. Joined(h) = {} /\ Pending(h) = {} /\ Spread(h) = {}
  BY DEF Unused, Joined, Pending, Spread
<1>2. Cardinality(Joined(h)) = 0 /\ Cardinality(Pending(h)) = 0
  BY <1>1, FS_EmptySet
<1>3. NoLa.refcnt = 0 /\ NoLa.pending = 0 /\ NoLa.dist = {}
  BY DEF NoLa
<1>4. Sums(h)
  BY <1>1, <1>2, <1>3, Times DEF Sums
<1>5. \A q \in Ports : /\ Bits(h.port[q]) /\ Heard(h, h.port[q]) /\ Chosen(h, h.port[q])
                       /\ h.port[q].la <=> h.port[q].mux # "DETACHED"
  BY DEF Unused, Bits, Heard, Chosen, Nobody
<1> QED BY <1>4, <1>5 DEF Inv

LEMMA EmptyOut == [p \in Ports |-> << >>] \in [Ports -> Seq(Pdu \cup {Marker})]
<1>1. << >> \in Seq(Pdu \cup {Marker})
  BY EmptySeq
<1> QED BY <1>1

LEMMA NoGroupIs ==
  ASSUME NEW k, k = NoGroup("own")
  PROVE  /\ k \in Group /\ k.sys = "own" /\ k.la = NoLa /\ k.active = FALSE
         /\ k.suppress = FALSE /\ k.told = {} /\ k.on = FALSE
         /\ \A q \in Ports : Unused(k.port[q])
<1>1. PICK r : r = [state |-> {}, key |-> 0, peer |-> Nobody, pstate |-> {}, sel |-> FALSE,
                    mux |-> "DETACHED", ntt |-> FALSE, mark |-> FALSE, cw |-> 0, per |-> 0,
                    ww |-> 0, la |-> FALSE, sent |-> 0]
  OBVIOUS
<1>2. r \in Port /\ Unused(r)
  BY <1>1, NoLaType DEF Port, Unused, Muxes
<1>3. PICK O \in [Ports -> Seq(Pdu \cup {Marker})] : O = [p \in Ports |-> << >>]
  BY EmptyOut
<1>4. PICK P \in [Ports -> Port] : P = [p \in Ports |-> r]
  BY <1>2
<1>5. k = [sys |-> "own", on |-> FALSE, la |-> NoLa, active |-> FALSE, suppress |-> FALSE,
           sd |-> 0, told |-> {}, out |-> O, port |-> P]
  BY <1>1, <1>3, <1>4, Zenon DEF NoGroup
<1>6. \A q \in Ports : P[q] = r
  BY <1>4
<1>7. "own" \in Names
  BY DEF Names
<1>8. /\ k.sys = "own" /\ k.la = NoLa /\ k.active = FALSE /\ k.suppress = FALSE
      /\ k.told = {} /\ k.on = FALSE /\ k.port = P
  BY <1>5
<1>9. k \in Group
  <2>1. PICK z \in Nat : z = 0
    OBVIOUS
  <2>2. PICK n \in Names : n = "own"
    BY <1>7
  <2>3. PICK l \in La : l = NoLa
    BY NoLaType
  <2>4. PICK T \in SUBSET Ports : T = {}
    OBVIOUS
  <2>6. PICK b \in BOOLEAN : b = FALSE
    OBVIOUS
  <2>5. k = [sys |-> n, on |-> b, la |-> l, active |-> b, suppress |-> b,
             sd |-> z, told |-> T, out |-> O, port |-> P]
    BY <1>5, <2>1, <2>2, <2>3, <2>4, <2>6, Zenon
  <2> QED BY <2>5 DEF Group
<1> QED BY <1>2, <1>6, <1>8, <1>9

\* What the group has to send, and when, is left out.
LEMMA QuietIs == ASSUME NEW h \in Group PROVE Alike(h, Quiet(h))
<1>1. PICK O \in [Ports -> Seq(Pdu \cup {Marker})] : O = [p \in Ports |-> << >>]
  BY EmptyOut
<1>2. PICK P : P = [p \in Ports |-> [h.port[p] EXCEPT !.ntt = FALSE, !.per = 0, !.sent = 0,
                                                      !.pstate = @ \ {"fast"}]]
  OBVIOUS
<1>3. ASSUME NEW q \in Ports PROVE P[q] \in Port /\ Same(h.port[q], P[q])
  <2>1. PICK o \in Port : o = h.port[q]
    BY GroupType
  <2>13. PICK z \in Int : z = 0
    OBVIOUS
  <2>2. PICK s : s = [o EXCEPT !.ntt = FALSE]
    OBVIOUS
  <2>3. s \in Port /\ Same(o, s) /\ s.pstate = o.pstate
    BY <2>2 DEF Port, Same, Rest, Base
  <2>4. PICK t : t = [s EXCEPT !.per = z]
    OBVIOUS
  <2>5. t \in Port /\ Same(s, t) /\ t.pstate = o.pstate
    <3>1. t \in Port
      BY <2>3, <2>4 DEF Port
    <3>2. t.pstate = s.pstate
      BY <2>3, <2>4 DEF Port
    <3>3. Same(s, t)
      BY <2>3, <2>4 DEF Port, Same, Rest, Base
    <3> QED BY <2>3, <3>1, <3>2, <3>3
  <2>6. PICK u : u = [t EXCEPT !.sent = z]
    OBVIOUS
  <2>7. u \in Port /\ Same(t, u) /\ u.pstate = o.pstate
    <3>1. u \in Port
      BY <2>5, <2>6 DEF Port
    <3>2. u.pstate = t.pstate
      BY <2>5, <2>6 DEF Port
    <3>3. Same(t, u)
      BY <2>5, <2>6 DEF Port, Same, Rest, Base
    <3> QED BY <2>5, <3>1, <3>2, <3>3
  <2>8. PICK T \in SUBSET AllBits : T = o.pstate \ {"fast"}
    BY DEF Port
  <2>9. PICK v : v = [u EXCEPT !.pstate = T]
    OBVIOUS
  <2>10. v \in Port /\ Same(u, v)
    BY <2>7, <2>8, <2>9 DEF Port, Same, Rest, Base
  <2>11. P[q] = v
    BY <1>2, <2>1, <2>2, <2>4, <2>6, <2>8, <2>9, <2>13
  <2>12. Same(o, v)
    BY <2>3, <2>5, <2>7, <2>10 DEF Same, Rest, Base
  <2> QED BY <2>1, <2>10, <2>11, <2>12
<1>4. P \in [Ports -> Port]
  BY <1>2, <1>3
<1>5. PICK k : k = [h EXCEPT !.out = O, !.port = P]
  OBVIOUS
<1>6. /\ k \in Group /\ k.port = P /\ k.sys = h.sys /\ k.la = h.la
      /\ k.active = h.active /\ k.suppress = h.suppress /\ k.told = h.told
  BY <1>4, <1>5 DEF Group
<1>7. k = Quiet(h)
  BY <1>1, <1>2, <1>5, Zenon DEF Quiet
<1> QED BY <1>3, <1>6, <1>7 DEF Alike, Kept

LEMMA QuietInv == ASSUME NEW h, Inv(h) PROVE Inv(Quiet(h))
<1>1. Alike(h, Quiet(h))
  BY QuietIs DEF Inv
<1> QED BY <1>1, AlikeInv

LEMMA DestroyInv == ASSUME NEW h, h.sys = "own" PROVE Inv(Quiet(Destroy(h)))
<1>1. PICK k : k = NoGroup("own")
  OBVIOUS
<1>2. k \in Group /\ Inv(k)
  BY <1>1, NoGroupIs, UnusedInv
<1>3. PICK X : X = [p \in Ports |-> <<Frame(SetMux(h, p, "DETACHED"), p)>>]
  OBVIOUS
<1>4. Destroy(h) = [k EXCEPT !.out = X]
  BY <1>1, <1>3, Zenon DEF Destroy
<1>5. PICK m : m = [k EXCEPT !.out = X]
  OBVIOUS
<1>6. m.port = k.port
  BY <1>2, <1>5 DEF Group
<1>7. PICK P : P = [p \in Ports |-> [k.port[p] EXCEPT !.ntt = FALSE, !.per = 0, !.sent = 0,
                                                      !.pstate = @ \ {"fast"}]]
  OBVIOUS
<1>8. PICK O : O = [p \in Ports |-> << >>]
  OBVIOUS
<1>9. Quiet(k) = [k EXCEPT !.out = O, !.port = P]
  BY <1>7, <1>8, Zenon DEF Quiet
<1>10. Quiet(m) = [m EXCEPT !.out = O, !.port = P]
  BY <1>6, <1>7, <1>8, Zenon DEF Quiet
<1>11. [m EXCEPT !.out = O, !.port = P] = [k EXCEPT !.out = O, !.port = P]
  BY <1>2, <1>5 DEF Group
<1>12. Inv(Quiet(k))
  BY <1>2, QuietInv
<1> QED BY <1>4, <1>5, <1>9, <1>10, <1>11, <1>12

LEMMA CreateInv ==
  ASSUME NEW h, h.sys = "own", NEW up \in SUBSET Ports, NEW key \in [Ports -> Nat]
  PROVE  Inv(Create(h, {"act"}, key, up))
<1> DEFINE Last(S) == CHOOSE q \in S : TRUE
           Change(k, p) == IF p \in up THEN PortEnable(k, p) ELSE PortDisable(k, p)
           Body(f, g0) == [S \in SUBSET Ports |->
                       IF S = {} THEN g0
                       ELSE LET p == CHOOSE q \in S : TRUE
                            IN  IF p \in up THEN PortEnable(f[S \ {p}], p)
                                ELSE PortDisable(f[S \ {p}], p)]
           start == [NoGroup(h.sys) EXCEPT !.on = TRUE,
                       !.port = [p \in Ports |-> [@[p] EXCEPT !.state = {"act"}, !.key = key[p]]]]
           run(g0) == CHOOSE f : f = Body(f, g0)
<1>1. Create(h, {"act"}, key, up) = Tell(run(start)[Ports])
  BY Zenon DEF Create
<1>2. Inv(start)
  <2>1. PICK k : k = NoGroup("own")
    OBVIOUS
  <2>2. /\ k \in Group /\ k.sys = "own" /\ k.la = NoLa /\ k.active = FALSE
        /\ k.suppress = FALSE /\ k.told = {}
        /\ \A q \in Ports : Unused(k.port[q])
    BY <2>1, NoGroupIs
  <2>3. PICK P : P = [p \in Ports |-> [k.port[p] EXCEPT !.state = {"act"}, !.key = key[p]]]
    OBVIOUS
  <2>4. ASSUME NEW q \in Ports PROVE P[q] \in Port /\ Unused(P[q])
    <3>1. PICK o \in Port : o = k.port[q] /\ Unused(o)
      BY <2>2, GroupType
    <3>2. PICK s : s = [o EXCEPT !.state = {"act"}]
      OBVIOUS
    <3>3. s \in Port /\ Unused(s)
      BY <3>1, <3>2 DEF Port, Unused, AllBits
    <3>4. PICK n \in Nat : n = key[q]
      OBVIOUS
    <3>5. PICK r : r = [s EXCEPT !.key = n]
      OBVIOUS
    <3>6. r \in Port /\ Unused(r)
      BY <3>3, <3>5 DEF Port, Unused
    <3>7. P[q] = r
      BY <2>3, <3>1, <3>2, <3>4, <3>5
    <3> QED BY <3>6, <3>7
  <2>5. P \in [Ports -> Port]
    BY <2>3, <2>4
  <2>6. PICK m : m = [k EXCEPT !.on = TRUE, !.port = P]
    OBVIOUS
  <2>7. /\ m \in Group /\ m.sys = "own" /\ m.la = NoLa /\ m.active = FALSE
        /\ m.suppress = FALSE /\ m.told = {} /\ m.port = P
    BY <2>2, <2>5, <2>6 DEF Group
  <2>8. Inv(m)
    BY <2>4, <2>7, UnusedInv
  <2>9. m = start
    BY <2>1, <2>2, <2>3, <2>6 DEF Group
  <2> QED BY <2>8, <2>9
<1>3. PICK g0 : g0 = start
  OBVIOUS
<1> HIDE DEF start
<1>4. ASSUME NEW k, NEW p \in Ports, Inv(k) PROVE Inv(Change(k, p)) /\ Change(k, p) \in Group
  <2>1. Inv(Change(k, p))
    BY <1>4, PortEnableInv, PortDisableInv
  <2> QED BY <2>1 DEF Inv
<1>5. \A S \in SUBSET Ports : S # {} => Last(S) \in S
  OBVIOUS
<1>6. \E f : f = Body(f, g0)
  <2>1. PICK G : G = {k \in Group : Inv(k)}
    OBVIOUS
  <2>2. PICK st : st = [x \in G \X Ports |-> Change(x[1], x[2])]
    OBVIOUS
  <2> HIDE DEF Change, Last
  <2>3. ASSUME NEW k \in G, NEW p \in Ports
        PROVE  Change(k, p) \in G /\ st[<<k, p>>] = Change(k, p)
    <3>1. Inv(Change(k, p)) /\ Change(k, p) \in Group
      BY <1>4, <2>1
    <3> QED BY <2>1, <2>2, <3>1
  <2>4. st \in [G \X Ports -> G]
    <3>1. ASSUME NEW x \in G \X Ports PROVE Change(x[1], x[2]) \in G
      <4>1. x[1] \in G /\ x[2] \in Ports
        OBVIOUS
      <4> QED BY <2>3, <4>1
    <3> QED BY <2>2, <3>1
  <2>5. PICK first : first = [S \in SUBSET Ports |-> Last(S)]
    OBVIOUS
  <2>6. g0 \in G
    BY <1>2, <1>3, <2>1 DEF Inv
  <2>7. \A S \in SUBSET Ports : S # {} => first[S] \in S
    BY <1>5, <2>5
  <2>8. HasFold(G, st, g0, first)
    BY <2>4, <2>6, <2>7, FoldExists
  <2>9. PICK f \in [SUBSET Ports -> G] : \A S \in SUBSET Ports :
           f[S] = IF S = {} THEN g0 ELSE st[<<f[S \ {first[S]}], first[S]>>]
    <3> HIDE DEF Body, run
    <3> QED BY <2>8 DEF HasFold
  <2>10. ASSUME NEW S \in SUBSET Ports
         PROVE  f[S] = IF S = {} THEN g0 ELSE Change(f[S \ {Last(S)}], Last(S))
    <3>1. CASE S = {}
      BY <2>9, <3>1
    <3>2. CASE S # {}
      <4>1. Last(S) \in Ports /\ S \ {Last(S)} \in SUBSET Ports /\ first[S] = Last(S)
        BY <1>5, <2>5, <3>2
      <4>2. f[S \ {Last(S)}] \in G
        BY <4>1
      <4>3. f[S] = st[<<f[S \ {Last(S)}], Last(S)>>]
        BY <2>9, <3>2, <4>1
      <4> QED BY <2>3, <3>2, <4>1, <4>2, <4>3
    <3> QED BY <3>1, <3>2
  <2>11. f = Body(f, g0)
    BY <2>10 DEF Change, Last
  <2> QED BY <2>11
<1>7. PICK r : r = run(g0) /\ r = Body(r, g0)
  BY <1>6
<1>8. ASSUME NEW S \in SUBSET Ports
      PROVE  r[S] = IF S = {} THEN g0 ELSE Change(r[S \ {Last(S)}], Last(S))
  BY <1>7
<1> HIDE DEF run, Last, Change
<1>9. PICK Good : Good = {S \in SUBSET Ports : Inv(r[S])}
  OBVIOUS
<1>10. {} \in Good
  BY <1>2, <1>3, <1>8, <1>9
<1>11. ASSUME NEW S \in SUBSET Ports, S # {}
       PROVE  \E p \in S : (S \ {p} \in Good => S \in Good)
  <2>1. Last(S) \in S /\ Last(S) \in Ports
    BY <1>5, <1>11
  <2>2. ASSUME S \ {Last(S)} \in Good PROVE S \in Good
    <3>1. Inv(r[S \ {Last(S)}])
      BY <1>9, <2>2
    <3>2. Inv(Change(r[S \ {Last(S)}], Last(S)))
      BY <1>4, <2>1, <3>1
    <3> QED BY <1>8, <1>9, <1>11, <3>2
  <2> QED BY <2>1, <2>2
<1>12. Ports \in Good
  BY <1>10, <1>11, PortByPort
<1>13. Inv(Tell(r[Ports]))
  BY <1>9, <1>12, ResumeInv
<1> QED BY <1>1, <1>3, <1>7, <1>13

LEMMA ExpireInv ==
  ASSUME NEW h, Inv(h) PROVE Inv([h EXCEPT !.sd = 0])
<1>1. h \in Group
  BY DEF Inv
<1>2. PICK z \in Nat : z = 0
  OBVIOUS
<1>3. PICK k : k = [h EXCEPT !.sd = z]
  OBVIOUS
<1>4. /\ k \in Group /\ k.port = h.port /\ k.sys = h.sys /\ k.la = h.la
      /\ k.active = h.active /\ k.suppress = h.suppress /\ k.told = h.told
  BY <1>1, <1>3 DEF Group
<1>5. Alike(h, k)
  BY <1>4 DEF Alike, Kept, Same, Rest, Base
<1> QED BY <1>2, <1>3, <1>5, AlikeInv

\* What arrives is a frame of a partner.
LEMMA ArriveInv ==
  ASSUME PartnersAgree, NEW h, NEW p \in Ports, Inv(h), NEW f \in Frames, NEW d,
         d = [kind |-> "pdu", actor |-> [sys |-> f.sys, key |-> f.key, no |-> p],
              state |-> f.state,
              partner |-> IF f.known THEN Self(h, p) ELSE Nobody,
              pstate |-> IF f.known THEN h.port[p].state \cap Read ELSE {"agg"}]
  PROVE  Inv(Receive(h, p, d))
<1>1. h \in Group
  BY DEF Inv
<1>2. PICK o \in Port : o = h.port[p]
  BY <1>1, GroupType
<1>3. f.sys \in Systems /\ "agg" \in f.state
  BY DEF Systems, PartnersAgree
<1>4. f.key \in Nat /\ f.state \subseteq Read /\ p \in Nat
  BY GroupAssumption, Times
<1>5. PICK a \in Id : a = [sys |-> f.sys, key |-> f.key, no |-> p]
  BY <1>3, <1>4 DEF Id, Names
<1>6. PICK b \in Id : b = IF f.known THEN Self(h, p) ELSE Nobody
  <2>1. Self(h, p) \in Id
    BY <1>1, <1>2, <1>4, GroupType DEF Self, Id, Port
  <2> QED BY <2>1, NoLaType
<1>7. PICK T \in SUBSET AllBits : T = IF f.known THEN h.port[p].state \cap Read ELSE {"agg"}
  BY DEF Read, AllBits
<1>8. PICK S \in SUBSET AllBits : S = f.state
  BY <1>4 DEF Read, AllBits
<1>9. d = [kind |-> "pdu", actor |-> a, state |-> S, partner |-> b, pstate |-> T]
  BY <1>5, <1>6, <1>7, <1>8, Zenon
<1>10. d \in Pdu
  BY <1>9 DEF Pdu
<1>11. "agg" \in d.state /\ d.actor.sys \in Systems /\ d.actor.no = p
  BY <1>3, <1>5, <1>8, <1>9
<1> QED BY <1>10, <1>11, ReceiveInv

LEMMA InitInv == Init => IInv
<1> SUFFICES ASSUME Init PROVE IInv
  OBVIOUS
<1>1. PICK k : k = NoGroup("own")
  OBVIOUS
<1>2. Inv(k)
  BY <1>1, NoGroupIs, UnusedInv
<1> QED BY <1>1, <1>2 DEF Init, IInv

LEMMA NextInv ==
  ASSUME PartnersAgree, IInv, [Next]_vars PROVE IInv'
<1>1. PICK h : h = g
  OBVIOUS
<1>2. Inv(h) /\ h.sys = "own" /\ late \in Nat
  BY <1>1 DEF IInv, Inv
<1>3. Late \in Nat /\ KeyOf \in [Ports -> SUBSET Nat]
  BY GroupAssumption
<1>4. CASE CreateGroup
  <2>1. PICK up \in SUBSET Ports, key \in [Ports -> UNION {KeyOf[p] : p \in Ports}] :
          g' = Quiet(Create(h, {"act"}, key, up))
    BY <1>1, <1>4 DEF CreateGroup
  <2>2. key \in [Ports -> Nat]
    <3>1. UNION {KeyOf[p] : p \in Ports} \subseteq Nat
      BY <1>3
    <3> QED BY <3>1
  <2>3. Inv(Quiet(Create(h, {"act"}, key, up)))
    BY <1>2, <2>2, CreateInv, QuietInv
  <2> QED BY <1>2, <1>4, <2>1, <2>3 DEF CreateGroup, IInv
<1>5. CASE DestroyGroup
  <2>1. Inv(Quiet(Destroy(h)))
    BY <1>2, DestroyInv
  <2> QED BY <1>1, <1>2, <1>5, <2>1 DEF DestroyGroup, IInv
<1>6. CASE Second
  <2>1. Inv(Quiet(Tick(h)))
    BY <1>2, TickInv, QuietInv
  <2> QED BY <1>1, <1>2, <1>6, <2>1 DEF Second, IInv
<1>7. CASE Expire
  <2>1. Inv([h EXCEPT !.sd = 0])
    BY <1>2, ExpireInv
  <2>2. g' = [h EXCEPT !.sd = 0] /\ late' \in Nat
    BY <1>1, <1>3, <1>7 DEF Expire
  <2> QED BY <2>1, <2>2 DEF IInv
<1>8. CASE Served
  <2>1. Inv(Transit(h))
    BY <1>2, TransitInv
  <2>2. late' \in Nat
    BY <1>2, <1>8 DEF Served
  <2> QED BY <1>1, <1>8, <2>1, <2>2 DEF Served, IInv
<1>9. ASSUME NEW p \in Ports, Arrive(p) PROVE IInv'
  <2>1. PICK f \in Frames :
          g' = Quiet(Receive(h, p,
                 [kind |-> "pdu", actor |-> [sys |-> f.sys, key |-> f.key, no |-> p],
                  state |-> f.state,
                  partner |-> IF f.known THEN Self(h, p) ELSE Nobody,
                  pstate |-> IF f.known THEN h.port[p].state \cap Read ELSE {"agg"}]))
    BY <1>1, <1>9 DEF Arrive
  <2>2. PICK d : d = [kind |-> "pdu", actor |-> [sys |-> f.sys, key |-> f.key, no |-> p],
                      state |-> f.state,
                      partner |-> IF f.known THEN Self(h, p) ELSE Nobody,
                      pstate |-> IF f.known THEN h.port[p].state \cap Read ELSE {"agg"}]
    OBVIOUS
  <2>3. Inv(Receive(h, p, d))
    BY <1>2, <2>2, ArriveInv
  <2>4. g' = Quiet(Receive(h, p, d))
    BY <2>1, <2>2, Zenon
  <2> QED BY <1>2, <1>9, <2>3, <2>4, QuietInv DEF Arrive, IInv
<1>10. ASSUME NEW p \in Ports, Up(p) PROVE IInv'
  <2>1. PICK k \in KeyOf[p] : g' = Quiet(LinkUp(h, p, k))
    BY <1>1, <1>10 DEF Up
  <2>2. Inv(Quiet(LinkUp(h, p, k)))
    BY <1>2, <1>3, LinkUpInv, QuietInv
  <2> QED BY <1>2, <1>10, <2>1, <2>2 DEF Up, IInv
<1>11. ASSUME NEW p \in Ports, Down(p) PROVE IInv'
  <2>1. Inv(Quiet(PortDisable(h, p)))
    BY <1>2, PortDisableInv, QuietInv
  <2> QED BY <1>1, <1>2, <1>11, <2>1 DEF Down, IInv
<1>12. ASSUME NEW p \in Ports, Speed(p) PROVE IInv'
  <2>1. PICK k \in KeyOf[p] : g' = KeyChange(h, p, k)
    BY <1>1, <1>12 DEF Speed
  <2>2. Inv(KeyChange(h, p, k))
    BY <1>2, <1>3, KeyChangeInv
  <2> QED BY <1>2, <1>12, <2>1, <2>2 DEF Speed, IInv
<1>13. ASSUME NEW p \in Ports, Answered(p) PROVE IInv'
  <2>1. Inv(MarkerResponse(h, p))
    BY <1>2, MarkerResponseInv
  <2> QED BY <1>1, <1>2, <1>13, <2>1 DEF Answered, IInv
<1>14. CASE UNCHANGED vars
  BY <1>14 DEF vars, IInv
<1> QED BY <1>4, <1>5, <1>6, <1>7, <1>8, <1>9, <1>10, <1>11, <1>12, <1>13, <1>14 DEF Next

-----------------------------------------------------------------------------
(* The theorems                                                            *)

\* Whatever order frames, seconds, links, keys, markers and timer messages
\* come in (lacp_handle_pkt_and_timer_msg, lacp_handle_db_msg), the invariant
\* holds.
THEOREM Inductive == ASSUME PartnersAgree PROVE Spec => []IInv
<1>1. Init => IInv
  BY InitInv
<1>2. IInv /\ [Next]_vars => IInv'
  BY NextInv
<1> QED BY <1>1, <1>2, PTL DEF Spec

\* The reference count, the count of waiting ports and the set of distributing
\* ports of the aggregator (lacp_set_mux, lacp_unselect) are those of its ports,
\* and the bits that a port sends are those of its mux state.
THEOREM CountersAreRight == ASSUME PartnersAgree PROVE Spec => []Counted
<1>1. IInv => Counted
  <2> SUFFICES ASSUME IInv PROVE Counted
    OBVIOUS
  <2>1. Inv(g)
    BY DEF IInv
  <2>2. /\ g.la.refcnt = Cardinality({p \in Ports : g.port[p].la})
        /\ g.la.refcnt <= MaxMember
        /\ g.la.pending = Cardinality({p \in Ports : g.port[p].ww > 0})
    BY <2>1 DEF Inv, Sums, Joined, Pending
  <2>3. g.la.dist = {p \in Ports : Is(g, p, "dist")}
    BY <2>1 DEF Inv, Sums, Spread, Is
  <2>4. g.active <=> g.la.dist # {}
    BY <2>1 DEF Inv, Sums
  <2>5. ASSUME NEW p \in Ports
        PROVE  /\ g.port[p].la <=> g.port[p].mux # "DETACHED"
               /\ Is(g, p, "sync") <=> g.port[p].mux \in {"ATTACHED", "COLLECTING", "DISTRIBUTING"}
               /\ Is(g, p, "coll") <=> g.port[p].mux \in {"COLLECTING", "DISTRIBUTING"}
               /\ Is(g, p, "dist") <=> g.port[p].mux = "DISTRIBUTING"
    BY <2>1 DEF Inv, Bits, Is
  <2> QED BY <2>2, <2>3, <2>4, <2>5 DEF Counted
<1>2. Spec => []IInv
  BY Inductive
<1> QED BY <1>1, <1>2, PTL

\* The database, and with it the switch, has a port as aggregated exactly while
\* the port distributes and no marker is waited for (lacp_update_port_state).
THEOREM DatabaseIsTold == ASSUME PartnersAgree PROVE Spec => []ToldRight
<1>1. IInv => ToldRight
  <2> SUFFICES ASSUME IInv PROVE ToldRight
    OBVIOUS
  <2>1. g.told = {q \in g.la.dist : ~g.suppress} /\ g.la.dist = Spread(g)
    BY DEF IInv, Inv, Sums
  <2> QED BY <2>1 DEF ToldRight, Spread, Is
<1>2. Spec => []IInv
  BY Inductive
<1> QED BY <1>1, <1>2, PTL

\* All selected ports lead to one system and key, those of the aggregator, and
\* never to the switch itself (lacp_select, lacp_sm_rx_update_selected).
THEOREM PartnerIsOne == ASSUME PartnersAgree PROVE Spec => []OnePartner
<1>1. IInv => OnePartner
  <2> SUFFICES ASSUME IInv, NEW p \in Ports, g.port[p].sel, g.port[p].la
               PROVE  /\ g.la.peer.sys = g.port[p].peer.sys
                      /\ g.la.peer.key = g.port[p].peer.key
                      /\ g.la.key = g.port[p].key
                      /\ g.port[p].peer.sys # g.sys
    BY DEF OnePartner
  <2>1. Heard(g, g.port[p]) /\ Chosen(g, g.port[p])
    BY DEF IInv, Inv
  <2> QED BY <2>1 DEF Heard, Chosen
<1>2. Spec => []IInv
  BY Inductive
<1> QED BY <1>1, <1>2, PTL
===============================================================================
