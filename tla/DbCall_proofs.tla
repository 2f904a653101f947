---------------------------- MODULE DbCall_proofs ----------------------------
(***************************************************************************)
(* The buffers of DbCall have one owner, and a call gets its own answer,   *)
(* for any number of tasks, buffers and any lengths of the queues.         *)
(***************************************************************************)
EXTENDS DbCall, TLAPS, FunctionTheorems, SequenceTheorems, FiniteSetTheorems,
        WellFoundedInduction

-----------------------------------------------------------------------------
(* The inductive invariant                                                 *)

TypeOK ==
  /\ heap \subseteq Bufs
  /\ to \in [Bufs -> Tasks \cup {"nobody"}]
  /\ dbq \in Seq(Bufs)
  /\ cq \in [Tasks -> Seq(Bufs)] /\ \A t \in Tasks : Len(cq[t]) <= QLen
  /\ at \in [Tasks -> {"idle", "send", "wait", "handle", "done"}]
  /\ out \in [Tasks -> Bufs \cup {None}] /\ got \in [Tasks -> Bufs \cup {None}]
  /\ cur \in Bufs \cup {None} /\ copy \in Bufs \cup {None}
  /\ todo \subseteq Loopers

\* What a task has in its hands where it is in its code.
Hands ==
  \A t \in Tasks :
    /\ out[t] # None <=> at[t] = "send"
    /\ at[t] \in {"handle", "done"} => got[t] # None
    /\ at[t] \in {"idle", "wait"} => got[t] = None
    /\ t \in Callers /\ at[t] = "send" => got[t] = None

\* The queue named in a buffer that is on its way to or from a client.
Named ==
  /\ \A t \in Tasks : /\ out[t] # None => to[out[t]] \in {t, "nobody"}
                      /\ out[t] # None /\ t \in Callers => to[out[t]] = t
                      /\ got[t] # None => to[got[t]] = t
                      /\ \A n \in DOMAIN cq[t] : to[cq[t][n]] = t
  /\ copy # None => to[copy] \in todo

IInv == TypeOK /\ Hands /\ OneOwner /\ Named /\ OneAnswer

-----------------------------------------------------------------------------
(* Counting                                                                *)

One(P) == IF P THEN 1 ELSE 0

LEMMA Positions ==
  ASSUME NEW n \in Nat, NEW S \in SUBSET (1..n)
  PROVE  IsFiniteSet(S) /\ Cardinality(S) \in Nat
BY FS_Interval, FS_Subset, FS_CardinalityType, 1 \in Int, n \in Int

LEMMA CountType ==
  ASSUME NEW s, IsFiniteSet(DOMAIN s), NEW b
  PROVE  IsFiniteSet({n \in DOMAIN s : s[n] = b}) /\ Count(s, b) \in Nat
<1>1. {n \in DOMAIN s : s[n] = b} \in SUBSET (DOMAIN s)
  OBVIOUS
<1>2. IsFiniteSet({n \in DOMAIN s : s[n] = b})
  BY <1>1, FS_Subset
<1> QED BY <1>2, FS_CardinalityType DEF Count

LEMMA SeqDomain ==
  ASSUME NEW s \in Seq(Bufs) PROVE IsFiniteSet(DOMAIN s)
BY LenProperties, Positions

LEMMA CountIn ==
  ASSUME NEW s, IsFiniteSet(DOMAIN s), NEW n \in DOMAIN s
  PROVE  Count(s, s[n]) >= 1
<1> DEFINE S == {i \in DOMAIN s : s[i] = s[n]}
<1>1. n \in S /\ IsFiniteSet(S) /\ Cardinality(S) \in Nat /\ Count(s, s[n]) = Cardinality(S)
  BY CountType DEF Count
<1> HIDE DEF S
<1>2. Cardinality(S) # 0
  BY <1>1, FS_EmptySet
<1> QED BY <1>1, <1>2

LEMMA CountAppend ==
  ASSUME NEW s \in Seq(Bufs), NEW x \in Bufs, NEW b
  PROVE  Count(Append(s, x), b) = Count(s, b) + One(x = b)
<1> DEFINE S == {n \in DOMAIN s : s[n] = b}
           T == {n \in DOMAIN Append(s, x) : Append(s, x)[n] = b}
<1>1. PICK n \in Nat : /\ n = Len(s) /\ DOMAIN s = 1..n /\ DOMAIN Append(s, x) = 1..n + 1
                       /\ Append(s, x)[n + 1] = x /\ \A i \in 1..n : Append(s, x)[i] = s[i]
  BY AppendProperties, LenProperties
<1>2. \A i : i \in 1..n + 1 <=> i \in 1..n \/ i = n + 1
  BY <1>1
<1>3. T = (IF x = b THEN S \cup {n + 1} ELSE S) /\ n + 1 \notin S
  BY <1>1, <1>2
<1>4. IsFiniteSet(S) /\ Cardinality(S) \in Nat /\ Count(s, b) = Cardinality(S)
  BY SeqDomain, CountType DEF Count
<1>5. Count(Append(s, x), b) = Cardinality(T)
  BY DEF Count
<1> HIDE DEF S, T
<1>6. Cardinality(S \cup {n + 1}) = Cardinality(S) + 1
  BY <1>3, <1>4, FS_AddElement
<1> QED BY <1>3, <1>4, <1>5, <1>6 DEF One

LEMMA CountTail ==
  ASSUME NEW s \in Seq(Bufs), s # << >>, NEW b
  PROVE  Count(Tail(s), b) = Count(s, b) - One(Head(s) = b)
<1> DEFINE S == {n \in DOMAIN s : s[n] = b}
           T == {n \in DOMAIN Tail(s) : Tail(s)[n] = b}
<1>1. PICK n \in Nat : /\ n + 1 = Len(s) /\ DOMAIN s = 1..n + 1 /\ DOMAIN Tail(s) = 1..n
                       /\ Head(s) = s[1] /\ \A i \in 1..n : Tail(s)[i] = s[i + 1]
  <2>1. /\ Tail(s) \in Seq(Bufs) /\ Len(Tail(s)) = Len(s) - 1 /\ Len(s) \in Nat \ {0}
        /\ Head(s) = s[1] /\ \A i \in 1..Len(Tail(s)) : Tail(s)[i] = s[i + 1]
    BY HeadTailProperties, LenProperties, EmptySeq
  <2>2. DOMAIN s = 1..Len(s) /\ DOMAIN Tail(s) = 1..Len(Tail(s))
    BY <2>1, LenProperties
  <2>3. Len(s) - 1 \in Nat /\ Len(s) - 1 + 1 = Len(s)
    BY <2>1
  <2> QED BY <2>1, <2>2, <2>3
<1>2. /\ \A i \in T : i \in 1..n /\ i + 1 \in S \ {1}
      /\ \A j \in S \ {1} : j - 1 \in T /\ (j - 1) + 1 = j
  <2>1. \A i \in 1..n : i + 1 \in 1..n + 1 /\ i + 1 # 1
    BY <1>1
  <2>2. \A j \in 1..n + 1 : j # 1 => j - 1 \in 1..n /\ (j - 1) + 1 = j
    BY <1>1
  <2>3. \A i \in T : i \in 1..n /\ s[i + 1] = b
    BY <1>1
  <2>4. \A j \in S \ {1} : j \in 1..n + 1 /\ j # 1 /\ s[j] = b
    BY <1>1
  <2>5. \A j \in S \ {1} : Tail(s)[j - 1] = b
    BY <1>1, <2>2, <2>4
  <2> QED BY <1>1, <2>1, <2>2, <2>3, <2>4, <2>5
<1>3. /\ IsFiniteSet(S) /\ Cardinality(S) \in Nat /\ Count(s, b) = Cardinality(S)
      /\ Count(Tail(s), b) = Cardinality(T) /\ IsFiniteSet(T)
  <2>1. T \in SUBSET (1..n)
    BY <1>2
  <2>2. IsFiniteSet(T)
    BY <2>1, Positions
  <2> QED BY <2>2, SeqDomain, CountType DEF Count
<1>4. 1 \in S <=> Head(s) = b
  <2>1. 1 \in 1..n + 1
    BY <1>1
  <2> QED BY <1>1, <2>1
<1> HIDE DEF S, T
<1>5. Cardinality(T) = Cardinality(S \ {1})
  <2>1. PICK f : f = [i \in T |-> i + 1]
    OBVIOUS
  <2>2. f \in [T -> S \ {1}] /\ \A i \in T : f[i] = i + 1
    BY <1>2, <2>1
  <2>3. \A i, j \in T : f[i] = f[j] => i = j
    BY <1>2, <2>2
  <2>4. \A j \in S \ {1} : \E i \in T : f[i] = j
    BY <1>2, <2>2
  <2>5. f \in Bijection(T, S \ {1})
    BY <2>2, <2>3, <2>4, Fun_IsBij
  <2> QED BY <1>3, <2>5, FS_Bijection DEF ExistsBijection
<1>6. Cardinality(S \ {1}) = IF 1 \in S THEN Cardinality(S) - 1 ELSE Cardinality(S)
  BY <1>3, FS_RemoveElement
<1> QED BY <1>3, <1>4, <1>5, <1>6 DEF One

LEMMA CountExcept ==
  ASSUME NEW f \in [Tasks -> Bufs \cup {None}], NEW t \in Tasks, NEW b,
         NEW g \in [Tasks -> Bufs \cup {None}], \A n \in Tasks : n # t => g[n] = f[n]
  PROVE  Count(g, b) = Count(f, b) - One(f[t] = b) + One(g[t] = b)
<1> DEFINE S == {n \in DOMAIN f : f[n] = b}
           T == {n \in DOMAIN g : g[n] = b}
<1>2. DOMAIN f = Tasks /\ DOMAIN g = Tasks
  OBVIOUS
<1>3. /\ (t \in S <=> f[t] = b) /\ (t \in T <=> g[t] = b)
      /\ S \ {t} = T \ {t}
  BY <1>2
<1>4. /\ IsFiniteSet(S) /\ Cardinality(S) \in Nat /\ Count(f, b) = Cardinality(S)
      /\ IsFiniteSet(T) /\ Cardinality(T) \in Nat /\ Count(g, b) = Cardinality(T)
  <2>1. IsFiniteSet(DOMAIN f) /\ IsFiniteSet(DOMAIN g)
    BY <1>2, CallAssumption
  <2>2. IsFiniteSet(S) /\ Count(f, b) \in Nat
    BY <2>1, CountType
  <2>3. IsFiniteSet(T) /\ Count(g, b) \in Nat
    BY <2>1, CountType
  <2>4. Count(f, b) = Cardinality(S) /\ Count(g, b) = Cardinality(T)
    BY DEF Count
  <2> QED BY <2>2, <2>3, <2>4
<1> HIDE DEF S, T
<1>5. /\ Cardinality(S \ {t}) = IF t \in S THEN Cardinality(S) - 1 ELSE Cardinality(S)
      /\ Cardinality(T \ {t}) = IF t \in T THEN Cardinality(T) - 1 ELSE Cardinality(T)
  BY <1>4, FS_RemoveElement
<1>6. Cardinality(S) - One(f[t] = b) = Cardinality(S \ {t})
  <2>1. CASE f[t] = b
    BY <1>3, <1>5, <2>1 DEF One
  <2>2. CASE f[t] # b
    BY <1>3, <1>4, <1>5, <2>2 DEF One
  <2> QED BY <2>1, <2>2
<1>7. Cardinality(T) - One(g[t] = b) = Cardinality(T \ {t})
  <2>1. CASE g[t] = b
    BY <1>3, <1>5, <2>1 DEF One
  <2>2. CASE g[t] # b
    BY <1>3, <1>4, <1>5, <2>2 DEF One
  <2> QED BY <2>1, <2>2
<1>8. One(f[t] = b) \in Int /\ One(g[t] = b) \in Int
  BY DEF One
<1>9. Cardinality(S \ {t}) = Cardinality(T \ {t})
  BY <1>3
<1>10. Cardinality(T) = Cardinality(S) - One(f[t] = b) + One(g[t] = b)
  BY <1>4, <1>6, <1>7, <1>8, <1>9
<1> QED BY <1>4, <1>10

LEMMA CountPair ==
  ASSUME NEW x, NEW y, NEW b
  PROVE  Count(<<x, y>>, b) = One(x = b) + One(y = b)
<1> DEFINE S == {n \in DOMAIN <<x, y>> : <<x, y>>[n] = b}
<1>1. S = (IF x = b THEN {1} ELSE {}) \cup (IF y = b THEN {2} ELSE {})
  OBVIOUS
<1>2. Count(<<x, y>>, b) = Cardinality(S)
  BY DEF Count
<1> HIDE DEF S
<1>3. CASE x = b /\ y = b
  <2>1. S = {1} \cup {2} /\ 2 \notin {1} /\ IsFiniteSet({1}) /\ Cardinality({1}) = 1
    <3>1. IsFiniteSet({1}) /\ Cardinality({1}) = 1
      BY FS_Singleton
    <3> QED BY <1>1, <1>3, <3>1
  <2> QED BY <1>2, <1>3, <2>1, FS_AddElement DEF One
<1>4. CASE x # b /\ y = b
  <2>1. S = {2}
    BY <1>1, <1>4
  <2> QED BY <1>2, <1>4, <2>1, FS_Singleton DEF One
<1>5. CASE x = b /\ y # b
  <2>1. S = {1}
    BY <1>1, <1>5
  <2> QED BY <1>2, <1>5, <2>1, FS_Singleton DEF One
<1>6. CASE x # b /\ y # b
  <2>1. S = {}
    BY <1>1, <1>6
  <2> QED BY <1>2, <1>6, <2>1, FS_EmptySet DEF One
<1> QED BY <1>3, <1>4, <1>5, <1>6

-----------------------------------------------------------------------------
(* The buffers in the queues of the clients                                *)

LEMMA PairsOf ==
  ASSUME NEW S \in SUBSET (Tasks \X (1..QLen)), NEW p \in S
  PROVE  \E u \in Tasks, n \in 1..QLen : p = <<u, n>> /\ <<u, n>> \in S
OBVIOUS

LEMMA WaitingType ==
  ASSUME TypeOK, NEW b
  PROVE  IsFiniteSet(Waiting(b)) /\ Cardinality(Waiting(b)) \in Nat
<1>1. IsFiniteSet(Tasks) /\ IsFiniteSet(1..QLen)
  BY CallAssumption, FS_Interval, 1 \in Int, QLen \in Int
<1>2. IsFiniteSet(Tasks \X (1..QLen))
  BY <1>1, FS_Product
<1>3. Waiting(b) \subseteq Tasks \X (1..QLen)
  BY DEF Waiting
<1> QED BY <1>2, <1>3, FS_Subset, FS_CardinalityType

LEMMA WaitingIn ==
  ASSUME TypeOK, NEW t \in Tasks, NEW n \in DOMAIN cq[t]
  PROVE  /\ <<t, n>> \in Waiting(cq[t][n]) /\ Cardinality(Waiting(cq[t][n])) >= 1
         /\ cq[t][n] \in Bufs
<1>1. cq[t] \in Seq(Bufs) /\ Len(cq[t]) <= QLen /\ QLen \in Nat
  BY CallAssumption DEF TypeOK
<1>2. n \in 1..Len(cq[t]) /\ Len(cq[t]) \in Nat
  BY <1>1, LenProperties
<1>3. <<t, n>> \in Waiting(cq[t][n])
  BY <1>1, <1>2 DEF Waiting
<1>4. Cardinality(Waiting(cq[t][n])) \in Nat /\ Cardinality(Waiting(cq[t][n])) # 0
  BY <1>3, WaitingType, FS_EmptySet
<1>5. cq[t][n] \in Bufs
  BY <1>1, <1>2, ElementOfSeq
<1> QED BY <1>3, <1>4, <1>5

LEMMA WaitingAppend ==
  ASSUME TypeOK, NEW t \in Tasks, NEW x \in Bufs, Len(cq[t]) < QLen,
         cq'[t] = Append(cq[t], x), \A u \in Tasks : u # t => cq'[u] = cq[u], NEW b
  PROVE  Cardinality(Waiting(b)') = Cardinality(Waiting(b)) + One(x = b)
<1>1. /\ cq \in [Tasks -> Seq(Bufs)] /\ cq[t] \in Seq(Bufs) /\ QLen \in Nat
      /\ \A u \in Tasks : cq[u] \in Seq(Bufs)
  BY CallAssumption DEF TypeOK
<1>2. PICK l \in Nat : /\ l = Len(cq[t]) /\ Len(Append(cq[t], x)) = l + 1
                       /\ Append(cq[t], x)[l + 1] = x
                       /\ \A i \in 1..l : Append(cq[t], x)[i] = cq[t][i]
  BY <1>1, AppendProperties, LenProperties
<1>3. /\ cq'[t] = Append(cq[t], x)
      /\ \A u \in Tasks : u # t => cq'[u] = cq[u]
  OBVIOUS
<1>4. <<t, l + 1>> \notin Waiting(b)
  BY <1>2 DEF Waiting
<1>5. ASSUME NEW u \in Tasks, NEW n \in 1..QLen
      PROVE  <<u, n>> \in Waiting(b)' <=>
               <<u, n>> \in Waiting(b) \/ (x = b /\ <<u, n>> = <<t, l + 1>>)
  <2>1. CASE u # t
    BY <1>3, <2>1 DEF Waiting
  <2>2. CASE u = t
    <3>1. <<u, n>> \in Waiting(b)' <=> n <= l + 1 /\ Append(cq[t], x)[n] = b
      BY <1>2, <1>3, <2>2 DEF Waiting
    <3>2. <<u, n>> \in Waiting(b) <=> n <= l /\ cq[t][n] = b
      BY <1>2, <2>2 DEF Waiting
    <3>3. n <= l + 1 <=> n \in 1..l \/ n = l + 1
      BY <1>2
    <3>4. n <= l <=> n \in 1..l
      BY <1>2
    <3>5. ~(n \in 1..l /\ n = l + 1)
      BY <1>2
    <3> QED BY <1>2, <2>2, <3>1, <3>2, <3>3, <3>4, <3>5
  <2> QED BY <2>1, <2>2
<1>6. l + 1 \in 1..QLen
  BY <1>1, <1>2
<1>7. Waiting(b)' = IF x = b THEN Waiting(b) \cup {<<t, l + 1>>} ELSE Waiting(b)
  <2>1. Waiting(b) \subseteq Tasks \X (1..QLen) /\ Waiting(b)' \subseteq Tasks \X (1..QLen)
    BY DEF Waiting
  <2>2. <<t, l + 1>> \in Tasks \X (1..QLen)
    BY <1>6
  <2>3. PICK V : V = IF x = b THEN Waiting(b) \cup {<<t, l + 1>>} ELSE Waiting(b)
    OBVIOUS
  <2>4. V \subseteq Tasks \X (1..QLen)
    BY <2>1, <2>2, <2>3
  <2>5. ASSUME NEW p \in Waiting(b)' PROVE p \in V
    BY <1>5, <2>1, <2>3, PairsOf
  <2>6. ASSUME NEW p \in V PROVE p \in Waiting(b)'
    BY <1>5, <2>3, <2>4, PairsOf
  <2> QED BY <2>3, <2>5, <2>6
<1>8. IsFiniteSet(Waiting(b)) /\ Cardinality(Waiting(b)) \in Nat
  BY WaitingType
<1>9. Cardinality(Waiting(b) \cup {<<t, l + 1>>}) = Cardinality(Waiting(b)) + 1
  BY <1>4, <1>8, FS_AddElement
<1> QED BY <1>7, <1>8, <1>9 DEF One

LEMMA WaitingTail ==
  ASSUME TypeOK, NEW t \in Tasks, cq[t] # << >>, cq' = [cq EXCEPT ![t] = Tail(@)], NEW b
  PROVE  Cardinality(Waiting(b)') = Cardinality(Waiting(b)) - One(Head(cq[t]) = b)
<1>1. /\ cq \in [Tasks -> Seq(Bufs)] /\ cq[t] \in Seq(Bufs) /\ QLen \in Nat
      /\ Len(cq[t]) <= QLen
  BY CallAssumption DEF TypeOK
<1>2. PICK l \in Nat : /\ l + 1 = Len(cq[t]) /\ Len(Tail(cq[t])) = l
                       /\ Head(cq[t]) = cq[t][1]
                       /\ \A i \in 1..l : Tail(cq[t])[i] = cq[t][i + 1]
  <2>1. /\ Len(cq[t]) \in Nat \ {0} /\ Len(Tail(cq[t])) = Len(cq[t]) - 1
        /\ Head(cq[t]) = cq[t][1]
        /\ \A i \in 1..Len(Tail(cq[t])) : Tail(cq[t])[i] = cq[t][i + 1]
    BY <1>1, HeadTailProperties, LenProperties, EmptySeq
  <2>2. Len(cq[t]) - 1 \in Nat /\ Len(cq[t]) - 1 + 1 = Len(cq[t])
    BY <2>1
  <2> QED BY <2>1, <2>2
<1>3. cq'[t] = Tail(cq[t]) /\ \A u \in Tasks : u # t => cq'[u] = cq[u]
  BY <1>1
<1>4. PICK S : S = Waiting(b) \ {<<t, 1>>}
  OBVIOUS
<1>5. PICK T : T = Waiting(b)'
  OBVIOUS
<1>6. ASSUME NEW u \in Tasks, NEW n \in 1..QLen
      PROVE  /\ u # t => (<<u, n>> \in T <=> <<u, n>> \in S)
             /\ <<t, n>> \in T <=> n + 1 \in 1..QLen /\ <<t, n + 1>> \in S
             /\ <<t, n>> \in S => n - 1 \in 1..QLen /\ <<t, n - 1>> \in T
  <2>1. u # t => (<<u, n>> \in T <=> <<u, n>> \in S)
    BY <1>3, <1>4, <1>5 DEF Waiting
  <2>2. \A i \in 1..QLen : <<t, i>> \in T <=> i <= l /\ cq[t][i + 1] = b
    <3> SUFFICES ASSUME NEW i \in 1..QLen
                 PROVE  <<t, i>> \in T <=> i <= l /\ cq[t][i + 1] = b
      OBVIOUS
    <3>1. <<t, i>> \in T <=> i <= l /\ Tail(cq[t])[i] = b
      BY <1>2, <1>3, <1>5 DEF Waiting
    <3>2. i <= l => Tail(cq[t])[i] = cq[t][i + 1]
      BY <1>2
    <3> QED BY <3>1, <3>2
  <2>3. \A i \in 1..QLen : <<t, i>> \in S <=> i <= l + 1 /\ cq[t][i] = b /\ i # 1
    BY <1>2, <1>4 DEF Waiting
  <2>4. n <= l => n + 1 \in 1..QLen /\ n + 1 <= l + 1 /\ n + 1 # 1
    BY <1>1, <1>2
  <2>5. n + 1 \in 1..QLen /\ n + 1 <= l + 1 => n <= l
    BY <1>1, <1>2
  <2>6. n # 1 /\ n <= l + 1 => n - 1 \in 1..QLen /\ n - 1 <= l /\ (n - 1) + 1 = n
    BY <1>1, <1>2
  <2> QED BY <2>1, <2>2, <2>3, <2>4, <2>5, <2>6
<1>7. S \subseteq Tasks \X (1..QLen) /\ T \subseteq Tasks \X (1..QLen)
  BY <1>4, <1>5 DEF Waiting
<1>8. Cardinality(T) = Cardinality(S)
  <2>1. PICK f : f = [p \in S |-> IF p[1] = t THEN <<t, p[2] - 1>> ELSE p]
    OBVIOUS
  <2>2. ASSUME NEW u \in Tasks, NEW n \in 1..QLen, <<u, n>> \in S
        PROVE  f[<<u, n>>] = (IF u = t THEN <<t, n - 1>> ELSE <<u, n>>) /\ f[<<u, n>>] \in T
    BY <1>6, <2>1, <2>2
  <2>3. f \in [S -> T]
    <3>1. \A p \in S : f[p] \in T
      <4> SUFFICES ASSUME NEW p \in S PROVE f[p] \in T
        OBVIOUS
      <4>1. PICK u \in Tasks, n \in 1..QLen : p = <<u, n>> /\ <<u, n>> \in S
        BY <1>7, PairsOf
      <4> QED BY <2>2, <4>1
    <3> QED BY <2>1, <3>1
  <2>4. \A p, q \in S : f[p] = f[q] => p = q
    <3> SUFFICES ASSUME NEW p \in S, NEW q \in S, f[p] = f[q] PROVE p = q
      OBVIOUS
    <3>4. PICK u \in Tasks, n \in 1..QLen : p = <<u, n>> /\ <<u, n>> \in S
      BY <1>7, PairsOf
    <3>5. PICK v \in Tasks, m \in 1..QLen : q = <<v, m>> /\ <<v, m>> \in S
      BY <1>7, PairsOf
    <3>1. (IF u = t THEN <<t, n - 1>> ELSE <<u, n>>) = (IF v = t THEN <<t, m - 1>> ELSE <<v, m>>)
      BY <2>2, <3>4, <3>5
    <3>2. CASE u = t /\ v = t
      <4>1. n - 1 = m - 1
        BY <3>1, <3>2
      <4> QED BY <1>1, <3>2, <3>4, <3>5, <4>1
    <3>3. CASE ~(u = t /\ v = t)
      BY <3>1, <3>3, <3>4, <3>5
    <3> QED BY <3>2, <3>3
  <2>5. \A q \in T : \E p \in S : f[p] = q
    <3> SUFFICES ASSUME NEW q \in T PROVE \E p \in S : f[p] = q
      OBVIOUS
    <3>3. PICK u \in Tasks, n \in 1..QLen : q = <<u, n>> /\ <<u, n>> \in T
      BY <1>7, PairsOf
    <3>1. CASE u = t
      <4>1. n + 1 \in 1..QLen /\ <<t, n + 1>> \in S /\ (n + 1) - 1 = n
        <5>1. n + 1 \in 1..QLen /\ <<t, n + 1>> \in S
          BY <1>6, <3>1, <3>3
        <5> QED BY <1>1, <5>1
      <4>2. f[<<t, n + 1>>] = <<t, (n + 1) - 1>>
        BY <2>2, <4>1
      <4> QED BY <3>1, <3>3, <4>1, <4>2
    <3>2. CASE u # t
      BY <1>6, <2>2, <3>2, <3>3
    <3> QED BY <3>1, <3>2
  <2>6. f \in Bijection(S, T)
    BY <2>3, <2>4, <2>5, Fun_IsBij
  <2>7. IsFiniteSet(S)
    BY <1>4, WaitingType, FS_Subset
  <2> QED BY <2>6, <2>7, FS_Bijection DEF ExistsBijection
<1>9. /\ IsFiniteSet(Waiting(b)) /\ Cardinality(Waiting(b)) \in Nat
      /\ <<t, 1>> \in Waiting(b) <=> Head(cq[t]) = b
  <2>1. 1 \in 1..QLen /\ 1 <= l + 1
    BY <1>1, <1>2
  <2> QED BY <1>2, <2>1, WaitingType DEF Waiting
<1>10. Cardinality(S) = IF <<t, 1>> \in Waiting(b) THEN Cardinality(Waiting(b)) - 1
                        ELSE Cardinality(Waiting(b))
  BY <1>4, <1>9, FS_RemoveElement
<1> QED BY <1>5, <1>8, <1>9, <1>10 DEF One

LEMMA AppendIn ==
  ASSUME NEW s \in Seq(Bufs), NEW x \in Bufs, NEW n \in DOMAIN Append(s, x)
  PROVE  Append(s, x)[n] = x \/ \E m \in DOMAIN s : Append(s, x)[n] = s[m]
<1>1. PICK l \in Nat : /\ l = Len(s) /\ DOMAIN s = 1..l /\ DOMAIN Append(s, x) = 1..l + 1
                       /\ Append(s, x)[l + 1] = x /\ \A i \in 1..l : Append(s, x)[i] = s[i]
  BY AppendProperties, LenProperties
<1>2. n \in 1..l \/ n = l + 1
  BY <1>1
<1> QED BY <1>1, <1>2

LEMMA TailIn ==
  ASSUME NEW s \in Seq(Bufs), s # << >>
  PROVE  /\ Tail(s) \in Seq(Bufs) /\ Len(Tail(s)) <= Len(s) /\ Head(s) \in Bufs
         /\ 1 \in DOMAIN s /\ Head(s) = s[1]
         /\ \A n \in DOMAIN Tail(s) : \E m \in DOMAIN s : Tail(s)[n] = s[m]
<1>1. /\ Tail(s) \in Seq(Bufs) /\ Len(Tail(s)) = Len(s) - 1 /\ Len(s) \in Nat \ {0}
      /\ Head(s) = s[1] /\ Head(s) \in Bufs
      /\ \A i \in 1..Len(Tail(s)) : Tail(s)[i] = s[i + 1]
  BY HeadTailProperties, LenProperties, EmptySeq
<1>2. DOMAIN s = 1..Len(s) /\ DOMAIN Tail(s) = 1..Len(Tail(s))
  BY <1>1, LenProperties
<1>3. \A i \in 1..Len(Tail(s)) : i + 1 \in 1..Len(s)
  BY <1>1
<1>4. 1 \in DOMAIN s /\ Len(Tail(s)) <= Len(s)
  BY <1>1, <1>2
<1> QED BY <1>1, <1>2, <1>3, <1>4

-----------------------------------------------------------------------------
(* Who holds what                                                          *)

LEMMA LowestIn == ASSUME NEW S \in SUBSET Bufs, S # {} PROVE Lowest(S) \in S
<1>1. S \subseteq Nat
  BY DEF Bufs
<1>2. PICK m \in S : \A y \in S : ~(<<y, m>> \in OpToRel(<, Nat))
  BY <1>1, NatLessThanWellFounded, WFMin
<1>3. ASSUME NEW y \in S PROVE m <= y
  <2>1. ~(y < m)
    <3>1. y < m => <<y, m>> \in OpToRel(<, Nat)
      BY <1>1 DEF OpToRel
    <3> QED BY <1>2, <3>1
  <2> QED BY <1>1, <2>1
<1> QED BY <1>3 DEF Lowest

\* None is no buffer.
LEMMA BufsType == None \notin Bufs /\ Bufs \subseteq Nat /\ \A b \in Bufs : One(None = b) = 0
BY DEF Bufs, None, One

LEMMA HeldType ==
  ASSUME TypeOK, NEW b
  PROVE  /\ Count(dbq, b) \in Nat /\ Count(out, b) \in Nat /\ Count(got, b) \in Nat
         /\ Count(<<cur, copy>>, b) \in Nat /\ Cardinality(Waiting(b)) \in Nat
         /\ Held(b) \in Nat
<1>1. DOMAIN out = Tasks /\ DOMAIN got = Tasks /\ IsFiniteSet(Tasks) /\ dbq \in Seq(Bufs)
  BY CallAssumption DEF TypeOK
<1>2. Count(dbq, b) \in Nat /\ Count(out, b) \in Nat /\ Count(got, b) \in Nat
  BY <1>1, SeqDomain, CountType
<1>3. Count(<<cur, copy>>, b) \in Nat
  BY CountPair DEF One
<1> QED BY <1>2, <1>3, WaitingType DEF Held

\* What is held is not free, and the database's message is nobody else's.
LEMMA Holders ==
  ASSUME TypeOK, OneOwner
  PROVE  /\ \A t \in Tasks : /\ out[t] # None => out[t] \in Bufs \ heap
                             /\ got[t] # None => got[t] \in Bufs \ heap
                             /\ \A n \in DOMAIN cq[t] : cq[t][n] \in Bufs \ heap
         /\ cur # None =>
              /\ cur \in Bufs \ heap
              /\ \A t \in Tasks : /\ cur # out[t] /\ cur # got[t]
                                  /\ \A n \in DOMAIN cq[t] : cur # cq[t][n]
         /\ copy # None => copy \in Bufs \ heap
<1>1. ASSUME NEW b \in Bufs
      PROVE  Held(b) <= 1 /\ (Held(b) >= 1 => b \notin heap)
  BY DEF OneOwner
<1>2. ASSUME NEW b
      PROVE  /\ Count(dbq, b) \in Nat /\ Count(out, b) \in Nat /\ Count(got, b) \in Nat
             /\ Count(<<cur, copy>>, b) \in Nat /\ Cardinality(Waiting(b)) \in Nat
             /\ Held(b) = Count(dbq, b) + Count(out, b) + Count(got, b)
                            + Count(<<cur, copy>>, b) + Cardinality(Waiting(b))
  BY HeldType DEF Held
<1>3. ASSUME NEW t \in Tasks
      PROVE  Count(out, out[t]) >= 1 /\ Count(got, got[t]) >= 1
  <2>1. DOMAIN out = Tasks /\ DOMAIN got = Tasks /\ IsFiniteSet(Tasks)
    BY CallAssumption DEF TypeOK
  <2> QED BY <2>1, CountIn
<1>4. \A t \in Tasks : \A n \in DOMAIN cq[t] : Cardinality(Waiting(cq[t][n])) >= 1 /\ cq[t][n] \in Bufs
  BY WaitingIn
<1>5. Count(<<cur, copy>>, cur) >= 1 /\ Count(<<cur, copy>>, copy) >= 1
  BY CountPair DEF One
<1>6. /\ \A t \in Tasks : out[t] \in Bufs \cup {None} /\ got[t] \in Bufs \cup {None}
      /\ cur \in Bufs \cup {None} /\ copy \in Bufs \cup {None}
  BY DEF TypeOK
<1>7. ASSUME NEW t \in Tasks
      PROVE  /\ out[t] # None => out[t] \in Bufs \ heap
             /\ got[t] # None => got[t] \in Bufs \ heap
  <2>1. Held(out[t]) >= 1 /\ Held(got[t]) >= 1
    BY <1>2, <1>3
  <2> QED BY <1>1, <1>6, <2>1
<1>8. ASSUME NEW t \in Tasks, NEW n \in DOMAIN cq[t]
      PROVE  cq[t][n] \in Bufs \ heap
  <2>1. Held(cq[t][n]) >= 1
    BY <1>2, <1>4
  <2> QED BY <1>1, <1>4, <2>1
<1>9. /\ cur # None => cur \in Bufs \ heap
      /\ copy # None => copy \in Bufs \ heap
  <2>1. Held(cur) >= 1 /\ Held(copy) >= 1
    BY <1>2, <1>5
  <2> QED BY <1>1, <1>6, <2>1
<1>10. ASSUME cur # None, NEW t \in Tasks
       PROVE  /\ cur # out[t] /\ cur # got[t]
              /\ \A n \in DOMAIN cq[t] : cur # cq[t][n]
  <2>1. Held(cur) <= 1
    BY <1>1, <1>6, <1>10
  <2>2. Count(out, cur) = 0 /\ Count(got, cur) = 0 /\ Cardinality(Waiting(cur)) = 0
    <3>1. PICK x \in Nat : x = Count(<<cur, copy>>, cur)
      BY <1>2
    <3> QED BY <1>2, <1>5, <2>1
  <2> QED BY <1>3, <1>4, <2>2
<1> QED BY <1>7, <1>8, <1>9, <1>10

\* The owner changes as the heap does.
LEMMA Moved ==
  ASSUME TypeOK, OneOwner, NEW b \in Bufs,
         Held(b)' = Held(b) + One(b \in heap) - One(b \in heap')
  PROVE  Held(b)' = IF b \in heap' THEN 0 ELSE 1
<1>1. Held(b) + One(b \in heap) = 1
  BY DEF OneOwner, One
<1>2. One(b \in heap') \in Int /\ One(b \in heap') = (IF b \in heap' THEN 1 ELSE 0)
  BY DEF One
<1>3. Held(b)' = 1 - One(b \in heap')
  <2>1. Held(b) \in Int /\ One(b \in heap) \in Int
    BY HeldType DEF One
  <2> QED BY <1>1, <1>2, <2>1
<1> QED BY <1>2, <1>3

\* The messages of a caller's calls that are not in its own hands.
Mine(c) == {b \in Bufs \ heap : to[b] = c /\ b \notin {out[c], got[c]}}
Answered(c) ==
  IF at[c] = "wait"
  THEN \E b \in Bufs : Mine(c) = {b} /\ cq[c] \in {<< >>, <<b>>}
  ELSE Mine(c) = {} /\ cq[c] = << >>

LEMMA AnswerOf == /\ OneAnswer <=> \A c \in Callers : Answered(c)
                  /\ OneAnswer' <=> \A c \in Callers : Answered(c)'
BY DEF OneAnswer, Answered, Mine

LEMMA SameAnswer ==
  ASSUME NEW c, Answered(c), Mine(c)' = Mine(c), cq'[c] = cq[c],
         at'[c] = "wait" <=> at[c] = "wait"
  PROVE  Answered(c)'
BY DEF Answered

-----------------------------------------------------------------------------
(* The steps of the clients                                                *)

LEMMA MakeStep ==
  ASSUME IInv, NEW t \in Tasks, NEW q \in Tasks \cup {"nobody"}, Make(t, q) PROVE IInv'
<1>1. PICK l \in heap : /\ heap' = heap \ {l} /\ to' = [to EXCEPT ![l] = q]
                        /\ out' = [out EXCEPT ![t] = l]
  BY LowestIn DEF Make, IInv, TypeOK
<1>2. /\ at[t] \in {"idle", "handle"} /\ at' = [at EXCEPT ![t] = "send"]
      /\ q = t \/ (q = "nobody" /\ t \in Loopers)
      /\ UNCHANGED <<dbq, cq, got, cur, copy, todo>>
      /\ at[t] = "idle" \/ t \in Loopers
  BY DEF Make, db
<1>3. TypeOK /\ Hands /\ OneOwner /\ Named /\ OneAnswer
  BY DEF IInv
<1>4. l \in Bufs /\ l # None /\ out[t] = None
  BY <1>1, <1>2, <1>3, BufsType DEF TypeOK, Hands
<1>5. TypeOK'
  BY <1>1, <1>2, <1>3, <1>4 DEF TypeOK
<1>6. Hands'
  BY <1>1, <1>2, <1>3, <1>4, CallAssumption DEF Hands, TypeOK
<1>7. OneOwner'
  <2> SUFFICES ASSUME NEW b \in Bufs PROVE Held(b)' = IF b \in heap' THEN 0 ELSE 1
    BY DEF OneOwner, Bufs
  <2>1. Count(out', b) = Count(out, b) - One(out[t] = b) + One(l = b)
    <3>1. /\ out \in [Tasks -> Bufs \cup {None}] /\ out' \in [Tasks -> Bufs \cup {None}]
          /\ out'[t] = l /\ \A n \in Tasks : n # t => out'[n] = out[n]
      BY <1>1, <1>3, <1>5 DEF TypeOK
    <3> QED BY <3>1, CountExcept
  <2>2. Waiting(b)' = Waiting(b)
    BY <1>2 DEF Waiting
  <2>3. Held(b)' = Held(b) + One(l = b)
    <3>1. One(out[t] = b) = 0 /\ One(l = b) \in Int
      BY <1>4, BufsType DEF One
    <3> QED BY <1>2, <1>3, <2>1, <2>2, <3>1, HeldType DEF Held
  <2>4. One(b \in heap) - One(b \in heap') = One(l = b)
    BY <1>1 DEF One
  <2>5. One(b \in heap) \in Int /\ One(b \in heap') \in Int /\ Held(b) \in Int
    BY <1>3, HeldType DEF One
  <2>6. Held(b)' = Held(b) + One(b \in heap) - One(b \in heap')
    BY <2>3, <2>4, <2>5
  <2> QED BY <1>3, <2>6, Moved
<1>8. Named'
  <2>1. \A b \in Bufs \ heap : to'[b] = to[b]
    BY <1>1, <1>3 DEF TypeOK
  <2>2. ASSUME NEW u \in Tasks
        PROVE  /\ out'[u] # None => to'[out'[u]] \in {u, "nobody"}
               /\ out'[u] # None /\ u \in Callers => to'[out'[u]] = u
               /\ got'[u] # None => to'[got'[u]] = u
               /\ \A n \in DOMAIN cq'[u] : to'[cq'[u][n]] = u
    <3>1. CASE u = t
      BY <1>1, <1>2, <1>3, <1>4, <2>1, <3>1, Holders, CallAssumption DEF Named, TypeOK
    <3>2. CASE u # t
      BY <1>1, <1>2, <1>3, <1>4, <2>1, <3>2, Holders DEF Named, TypeOK
    <3> QED BY <3>1, <3>2
  <2>3. copy' # None => to'[copy'] \in todo'
    BY <1>2, <1>3, <2>1, Holders DEF Named
  <2> QED BY <2>2, <2>3 DEF Named
<1>9. OneAnswer'
  <2> SUFFICES ASSUME NEW c \in Callers PROVE Answered(c)'
    BY AnswerOf
  <2>1. Mine(c)' = Mine(c)
    <3>1. CASE t = c
      BY <1>1, <1>2, <1>3, <1>4, <3>1, CallAssumption DEF Mine, TypeOK, Hands
    <3>2. CASE t # c
      BY <1>1, <1>2, <1>3, <1>4, <3>2, CallAssumption DEF Mine, TypeOK, Tasks
    <3> QED BY <3>1, <3>2
  <2>2. at'[c] = "wait" <=> at[c] = "wait"
    BY <1>2, <1>3 DEF TypeOK, Tasks
  <2> QED BY <1>2, <1>3, <2>1, <2>2, AnswerOf, SameAnswer
<1> QED BY <1>5, <1>6, <1>7, <1>8, <1>9 DEF IInv

LEMMA SendStep ==
  ASSUME IInv, NEW t \in Tasks, Send(t) PROVE IInv'
<1>1. /\ at[t] = "send" /\ dbq' = Append(dbq, out[t]) /\ out' = [out EXCEPT ![t] = None]
      /\ at' = [at EXCEPT ![t] = Back(t)]
      /\ UNCHANGED <<heap, to, cq, got, cur, copy, todo>>
  BY DEF Send, db
<1>2. TypeOK /\ Hands /\ OneOwner /\ Named /\ OneAnswer
  BY DEF IInv
<1>3. /\ out[t] \in Bufs \ heap /\ out[t] # None
      /\ Back(t) \in {"wait", "idle", "done"} /\ (t \in Callers => Back(t) = "wait")
      /\ Back(t) = "done" => got[t] # None
      /\ Back(t) \in {"idle", "wait"} => got[t] = None
  BY <1>1, <1>2, Holders DEF Hands, Back
<1>4. TypeOK'
  BY <1>1, <1>2, <1>3 DEF TypeOK
<1>5. Hands'
  BY <1>1, <1>2, <1>3 DEF Hands, TypeOK
<1>6. OneOwner'
  <2> SUFFICES ASSUME NEW b \in Bufs PROVE Held(b)' = IF b \in heap' THEN 0 ELSE 1
    BY DEF OneOwner, Bufs
  <2>1. Count(out', b) = Count(out, b) - One(out[t] = b) + One(None = b)
    <3>1. /\ out \in [Tasks -> Bufs \cup {None}] /\ out' \in [Tasks -> Bufs \cup {None}]
          /\ out'[t] = None /\ \A n \in Tasks : n # t => out'[n] = out[n]
      BY <1>1, <1>2, <1>4 DEF TypeOK
    <3> QED BY <3>1, CountExcept
  <2>2. Count(dbq', b) = Count(dbq, b) + One(out[t] = b)
    BY <1>1, <1>2, <1>3, CountAppend DEF TypeOK
  <2>3. Waiting(b)' = Waiting(b)
    BY <1>1 DEF Waiting
  <2>4. Held(b)' = Held(b)
    <3>1. One(None = b) = 0 /\ One(out[t] = b) \in Int
      BY BufsType DEF One
    <3> QED BY <1>1, <1>2, <2>1, <2>2, <2>3, <3>1, HeldType DEF Held
  <2> QED BY <1>1, <1>2, <2>4 DEF OneOwner
<1>7. Named'
  BY <1>1, <1>2 DEF Named, TypeOK
<1>8. OneAnswer'
  <2> SUFFICES ASSUME NEW c \in Callers PROVE Answered(c)'
    BY AnswerOf
  <2>1. Answered(c)
    BY <1>2, AnswerOf
  <2>2. CASE t = c
    <3>1. Mine(c) = {} /\ cq[c] = << >>
      BY <1>1, <2>1, <2>2 DEF Answered
    <3>2. got[c] = None /\ to[out[c]] = c
      BY <1>1, <1>2, <1>3, <2>2 DEF Hands, Named
    <3>3. Mine(c)' = {out[c]}
      BY <1>1, <1>2, <1>3, <2>2, <3>1, <3>2, BufsType DEF Mine, TypeOK
    <3>4. at'[c] = "wait"
      BY <1>1, <1>2, <1>3, <2>2 DEF TypeOK
    <3> QED BY <1>1, <1>3, <2>2, <3>1, <3>3, <3>4 DEF Answered
  <2>3. CASE t # c
    <3>1. out'[c] = out[c] /\ at'[c] = at[c]
      BY <1>1, <1>2, <2>3 DEF TypeOK, Tasks
    <3>2. Mine(c)' = Mine(c)
      BY <1>1, <3>1 DEF Mine
    <3> QED BY <1>1, <2>1, <3>1, <3>2, SameAnswer
  <2> QED BY <2>2, <2>3
<1> QED BY <1>4, <1>5, <1>6, <1>7, <1>8 DEF IInv

LEMMA SendTimeoutStep ==
  ASSUME IInv, NEW t \in Tasks, SendTimeout(t) PROVE IInv'
<1>1. /\ t \in Loopers /\ at[t] = "send" /\ heap' = heap \cup {out[t]}
      /\ out' = [out EXCEPT ![t] = None] /\ at' = [at EXCEPT ![t] = Back(t)]
      /\ UNCHANGED <<to, dbq, cq, got, cur, copy, todo>>
  BY DEF SendTimeout, db
<1>2. TypeOK /\ Hands /\ OneOwner /\ Named /\ OneAnswer
  BY DEF IInv
<1>3. /\ out[t] \in Bufs \ heap /\ out[t] # None /\ to[out[t]] \in {t, "nobody"}
      /\ Back(t) \in {"idle", "done"}
      /\ Back(t) = "done" => got[t] # None
      /\ Back(t) = "idle" => got[t] = None
  BY <1>1, <1>2, Holders, CallAssumption DEF Hands, Named, Back
<1>4. TypeOK'
  BY <1>1, <1>2, <1>3 DEF TypeOK
<1>5. Hands'
  BY <1>1, <1>2, <1>3 DEF Hands, TypeOK
<1>6. OneOwner'
  <2> SUFFICES ASSUME NEW b \in Bufs PROVE Held(b)' = IF b \in heap' THEN 0 ELSE 1
    BY DEF OneOwner, Bufs
  <2>1. Count(out', b) = Count(out, b) - One(out[t] = b) + One(None = b)
    <3>1. /\ out \in [Tasks -> Bufs \cup {None}] /\ out' \in [Tasks -> Bufs \cup {None}]
          /\ out'[t] = None /\ \A n \in Tasks : n # t => out'[n] = out[n]
      BY <1>1, <1>2, <1>4 DEF TypeOK
    <3> QED BY <3>1, CountExcept
  <2>2. Waiting(b)' = Waiting(b)
    BY <1>1 DEF Waiting
  <2>3. Held(b)' = Held(b) - One(out[t] = b)
    <3>1. One(None = b) = 0 /\ One(out[t] = b) \in Int
      BY BufsType DEF One
    <3> QED BY <1>1, <1>2, <2>1, <2>2, <3>1, HeldType DEF Held
  <2>4. One(b \in heap') - One(b \in heap) = One(out[t] = b)
    BY <1>1, <1>3 DEF One
  <2>5. One(b \in heap) \in Int /\ One(b \in heap') \in Int /\ Held(b) \in Int
    BY <1>2, HeldType DEF One
  <2>6. Held(b)' = Held(b) + One(b \in heap) - One(b \in heap')
    BY <2>3, <2>4, <2>5
  <2> QED BY <1>2, <2>6, Moved
<1>7. Named'
  BY <1>1, <1>2 DEF Named, TypeOK
<1>8. OneAnswer'
  <2> SUFFICES ASSUME NEW c \in Callers PROVE Answered(c)'
    BY AnswerOf
  <2>1. Answered(c) /\ t # c /\ c \in Tasks /\ c # "nobody"
    BY <1>1, <1>2, AnswerOf, CallAssumption DEF Tasks
  <2>2. out'[c] = out[c] /\ at'[c] = at[c]
    BY <1>1, <1>2, <2>1 DEF TypeOK
  <2>3. Mine(c)' = Mine(c)
    BY <1>1, <1>3, <2>1, <2>2 DEF Mine
  <2> QED BY <1>1, <2>1, <2>2, <2>3, SameAnswer
<1> QED BY <1>4, <1>5, <1>6, <1>7, <1>8 DEF IInv

LEMMA ReceiveStep ==
  ASSUME IInv, NEW t \in Tasks, Receive(t) PROVE IInv'
<1>1. /\ cq[t] # << >> /\ cq' = [cq EXCEPT ![t] = Tail(@)]
      /\ got' = [got EXCEPT ![t] = Head(cq[t])]
      /\ \/ t \in Loopers /\ at[t] = "idle" /\ at' = [at EXCEPT ![t] = "handle"]
         \/ at[t] = "wait" /\ at' = [at EXCEPT ![t] = "done"]
      /\ UNCHANGED <<heap, to, dbq, out, cur, copy, todo>>
  BY DEF Receive, db
<1>2. TypeOK /\ Hands /\ OneOwner /\ Named /\ OneAnswer
  BY DEF IInv
<1>3. PICK s \in Seq(Bufs), h \in Bufs :
        /\ s = cq[t] /\ h = Head(s) /\ Tail(s) \in Seq(Bufs) /\ Len(Tail(s)) <= QLen
        /\ h = s[1] /\ 1 \in DOMAIN s
        /\ \A n \in DOMAIN Tail(s) : \E m \in DOMAIN s : Tail(s)[n] = s[m]
  <2>1. cq[t] \in Seq(Bufs) /\ Len(cq[t]) <= QLen /\ QLen \in Nat
    BY <1>2, CallAssumption DEF TypeOK
  <2>2. /\ Tail(cq[t]) \in Seq(Bufs) /\ Len(Tail(cq[t])) <= Len(cq[t]) /\ Head(cq[t]) \in Bufs
        /\ 1 \in DOMAIN cq[t] /\ Head(cq[t]) = cq[t][1]
        /\ \A n \in DOMAIN Tail(cq[t]) : \E m \in DOMAIN cq[t] : Tail(cq[t])[n] = cq[t][m]
    BY <1>1, <2>1, TailIn
  <2>3. Len(Tail(cq[t])) <= QLen
    BY <2>1, <2>2, LenProperties
  <2> QED BY <2>1, <2>2, <2>3
<1>4. /\ got[t] = None /\ out[t] = None /\ h # None /\ h \notin heap /\ to[h] = t
      /\ cq'[t] = Tail(s) /\ got'[t] = h
      /\ \A u \in Tasks : u # t => cq'[u] = cq[u] /\ got'[u] = got[u] /\ at'[u] = at[u]
      /\ at'[t] \in {"handle", "done"}
  BY <1>1, <1>2, <1>3, BufsType, Holders DEF Hands, Named, TypeOK
<1>5. TypeOK'
  <2>1. cq' \in [Tasks -> Seq(Bufs)] /\ \A u \in Tasks : Len(cq'[u]) <= QLen
    BY <1>1, <1>2, <1>3, <1>4 DEF TypeOK
  <2> QED BY <1>1, <1>2, <1>3, <2>1 DEF TypeOK
<1>6. Hands'
  BY <1>1, <1>2, <1>4 DEF Hands, TypeOK
<1>7. OneOwner'
  <2> SUFFICES ASSUME NEW b \in Bufs PROVE Held(b)' = IF b \in heap' THEN 0 ELSE 1
    BY DEF OneOwner, Bufs
  <2>1. Count(got', b) = Count(got, b) - One(None = b) + One(h = b)
    <3>1. /\ got \in [Tasks -> Bufs \cup {None}] /\ got' \in [Tasks -> Bufs \cup {None}]
          /\ \A n \in Tasks : n # t => got'[n] = got[n]
      BY <1>2, <1>4, <1>5 DEF TypeOK
    <3>2. Count(got', b) = Count(got, b) - One(got[t] = b) + One(got'[t] = b)
      BY <3>1, CountExcept
    <3> QED BY <1>4, <3>2
  <2>2. Cardinality(Waiting(b)') = Cardinality(Waiting(b)) - One(h = b)
    <3>1. Cardinality(Waiting(b)') = Cardinality(Waiting(b)) - One(Head(cq[t]) = b)
      BY <1>1, <1>2, WaitingTail, ZenonT(60)
    <3> QED BY <1>3, <3>1
  <2>3. Held(b)' = Held(b)
    <3>1. One(None = b) = 0 /\ One(h = b) \in Int
      BY BufsType DEF One
    <3>2. /\ Count(dbq, b) \in Nat /\ Count(out, b) \in Nat /\ Count(got, b) \in Nat
          /\ Count(<<cur, copy>>, b) \in Nat /\ Cardinality(Waiting(b)) \in Nat
      BY <1>2, HeldType
    <3>3. dbq' = dbq /\ out' = out /\ cur' = cur /\ copy' = copy
      BY <1>1
    <3> QED BY <2>1, <2>2, <3>1, <3>2, <3>3 DEF Held
  <2> QED BY <1>1, <1>2, <2>3 DEF OneOwner
<1>8. Named'
  <2>1. ASSUME NEW u \in Tasks, NEW n \in DOMAIN cq'[u] PROVE to[cq'[u][n]] = u
    <3>1. CASE u = t
      <4>1. n \in DOMAIN Tail(s) /\ cq'[u][n] = Tail(s)[n]
        BY <1>4, <2>1, <3>1
      <4>2. PICK m \in DOMAIN cq[t] : cq'[u][n] = cq[t][m]
        BY <1>3, <4>1
      <4> QED BY <1>2, <3>1, <4>2 DEF Named
    <3>2. CASE u # t
      BY <1>2, <1>4, <2>1, <3>2 DEF Named
    <3> QED BY <3>1, <3>2
  <2>2. \A u \in Tasks : got'[u] # None => to[got'[u]] = u
    BY <1>2, <1>4 DEF Named
  <2> QED BY <1>1, <1>2, <2>1, <2>2 DEF Named
<1>9. OneAnswer'
  <2> SUFFICES ASSUME NEW c \in Callers PROVE Answered(c)'
    BY AnswerOf
  <2>1. Answered(c) /\ c \in Tasks
    BY <1>2, AnswerOf DEF Tasks
  <2>2. CASE t = c
    <3>1. at[c] = "wait" /\ at'[c] # "wait"
      BY <1>1, <1>4, <2>2, CallAssumption
    <3>2. Mine(c) = {h} /\ s = <<h>>
      BY <1>1, <1>3, <2>1, <2>2, <3>1 DEF Answered
    <3>3. Mine(c)' = {} /\ cq'[c] = << >>
      BY <1>1, <1>4, <2>2, <3>2, BufsType DEF Mine
    <3> QED BY <3>1, <3>3 DEF Answered
  <2>3. CASE t # c
    <3>1. Mine(c)' = Mine(c) /\ cq'[c] = cq[c] /\ at'[c] = at[c]
      BY <1>1, <1>4, <2>1, <2>3 DEF Mine
    <3> QED BY <2>1, <3>1, SameAnswer
  <2> QED BY <2>2, <2>3
<1> QED BY <1>5, <1>6, <1>7, <1>8, <1>9 DEF IInv

LEMMA FreeStep ==
  ASSUME IInv, NEW t \in Tasks, Free(t) PROVE IInv'
<1>1. /\ at[t] \in {"handle", "done"} /\ heap' = heap \cup {got[t]}
      /\ got' = [got EXCEPT ![t] = None] /\ at' = [at EXCEPT ![t] = "idle"]
      /\ UNCHANGED <<to, dbq, cq, out, cur, copy, todo>>
  BY DEF Free, db
<1>2. TypeOK /\ Hands /\ OneOwner /\ Named /\ OneAnswer
  BY DEF IInv
<1>3. /\ got[t] \in Bufs \ heap /\ got[t] # None /\ to[got[t]] = t /\ out[t] = None
      /\ at[t] # "wait"
  BY <1>1, <1>2, Holders DEF Hands, Named
<1>4. TypeOK'
  BY <1>1, <1>2, <1>3 DEF TypeOK
<1>5. Hands'
  BY <1>1, <1>2, <1>3 DEF Hands, TypeOK
<1>6. OneOwner'
  <2> SUFFICES ASSUME NEW b \in Bufs PROVE Held(b)' = IF b \in heap' THEN 0 ELSE 1
    BY DEF OneOwner, Bufs
  <2>1. Count(got', b) = Count(got, b) - One(got[t] = b) + One(None = b)
    <3>1. /\ got \in [Tasks -> Bufs \cup {None}] /\ got' \in [Tasks -> Bufs \cup {None}]
          /\ got'[t] = None /\ \A n \in Tasks : n # t => got'[n] = got[n]
      BY <1>1, <1>2, <1>4 DEF TypeOK
    <3> QED BY <3>1, CountExcept
  <2>2. Waiting(b)' = Waiting(b)
    BY <1>1 DEF Waiting
  <2>3. Held(b)' = Held(b) - One(got[t] = b)
    <3>1. One(None = b) = 0 /\ One(got[t] = b) \in Int
      BY BufsType DEF One
    <3> QED BY <1>1, <1>2, <2>1, <2>2, <3>1, HeldType DEF Held
  <2>4. One(b \in heap') - One(b \in heap) = One(got[t] = b)
    BY <1>1, <1>3 DEF One
  <2>5. One(b \in heap) \in Int /\ One(b \in heap') \in Int /\ Held(b) \in Int
    BY <1>2, HeldType DEF One
  <2>6. Held(b)' = Held(b) + One(b \in heap) - One(b \in heap')
    BY <2>3, <2>4, <2>5
  <2> QED BY <1>2, <2>6, Moved
<1>7. Named'
  BY <1>1, <1>2 DEF Named, TypeOK
<1>8. OneAnswer'
  <2> SUFFICES ASSUME NEW c \in Callers PROVE Answered(c)'
    BY AnswerOf
  <2>1. Answered(c) /\ c \in Tasks
    BY <1>2, AnswerOf DEF Tasks
  <2>2. at'[c] = "wait" <=> at[c] = "wait"
    BY <1>1, <1>2, <1>3, <2>1 DEF TypeOK
  <2>3. Mine(c)' = Mine(c)
    <3>1. CASE t = c
      BY <1>1, <1>2, <1>3, <3>1, BufsType DEF Mine, TypeOK
    <3>2. CASE t # c
      <4>1. got'[c] = got[c]
        BY <1>1, <1>2, <2>1, <3>2 DEF TypeOK
      <4> QED BY <1>1, <1>3, <3>2, <4>1 DEF Mine
    <3> QED BY <3>1, <3>2
  <2> QED BY <1>1, <2>1, <2>2, <2>3, SameAnswer
<1> QED BY <1>4, <1>5, <1>6, <1>7, <1>8 DEF IInv

-----------------------------------------------------------------------------
(* The steps of the database                                               *)

LEMMA TakeStep == ASSUME IInv, Take PROVE IInv'
<1>1. /\ cur = None /\ todo = {} /\ dbq # << >>
      /\ cur' = Head(dbq) /\ dbq' = Tail(dbq) /\ todo' \in SUBSET Loopers
      /\ UNCHANGED <<heap, to, cq, at, out, got, copy>>
  BY DEF Take
<1>2. TypeOK /\ Hands /\ OneOwner /\ Named /\ OneAnswer
  BY DEF IInv
<1>3. dbq \in Seq(Bufs) /\ Head(dbq) \in Bufs /\ Tail(dbq) \in Seq(Bufs)
  BY <1>1, <1>2, TailIn DEF TypeOK
<1>4. TypeOK'
  BY <1>1, <1>2, <1>3 DEF TypeOK
<1>5. Hands'
  BY <1>1, <1>2 DEF Hands
<1>6. OneOwner'
  <2> SUFFICES ASSUME NEW b \in Bufs PROVE Held(b)' = IF b \in heap' THEN 0 ELSE 1
    BY DEF OneOwner, Bufs
  <2>1. Count(dbq', b) = Count(dbq, b) - One(Head(dbq) = b)
    BY <1>1, <1>3, CountTail
  <2>2. Count(<<cur, copy>>', b) = Count(<<cur, copy>>, b) + One(Head(dbq) = b)
    <3>1. /\ Count(<<cur, copy>>', b) = One(Head(dbq) = b) + One(copy = b)
          /\ Count(<<cur, copy>>, b) = One(None = b) + One(copy = b)
      BY <1>1, CountPair
    <3>2. One(None = b) = 0 /\ One(Head(dbq) = b) \in Int /\ One(copy = b) \in Int
      BY BufsType DEF One
    <3> QED BY <3>1, <3>2
  <2>3. Waiting(b)' = Waiting(b)
    BY <1>1 DEF Waiting
  <2>4. Held(b)' = Held(b)
    <3>1. PICK h \in Int : h = One(Head(dbq) = b)
      BY DEF One
    <3>2. /\ Count(dbq, b) \in Nat /\ Count(out, b) \in Nat /\ Count(got, b) \in Nat
          /\ Count(<<cur, copy>>, b) \in Nat /\ Cardinality(Waiting(b)) \in Nat
      BY <1>2, HeldType
    <3>3. /\ Count(dbq', b) = Count(dbq, b) - h
          /\ Count(<<cur', copy'>>, b) = Count(<<cur, copy>>, b) + h
      BY <2>1, <2>2, <3>1
    <3>4. out' = out /\ got' = got
      BY <1>1
    <3> QED BY <2>3, <3>2, <3>3, <3>4 DEF Held
  <2> QED BY <1>1, <1>2, <2>4 DEF OneOwner
<1>7. Named'
  BY <1>1, <1>2 DEF Named
<1>8. OneAnswer'
  BY <1>1, <1>2 DEF OneAnswer, Bufs
<1> QED BY <1>4, <1>5, <1>6, <1>7, <1>8 DEF IInv

LEMMA ReplyStep == ASSUME IInv, Reply PROVE IInv'
<1>1. /\ cur # None /\ cur' = None
      /\ UNCHANGED <<to, dbq, at, out, got, copy, todo>>
  BY DEF Reply
<1>2. TypeOK /\ Hands /\ OneOwner /\ Named /\ OneAnswer
  BY DEF IInv
<1>3. /\ cur \in Bufs \ heap
      /\ \A t \in Tasks : /\ cur # out[t] /\ cur # got[t]
                          /\ \A n \in DOMAIN cq[t] : cur # cq[t][n]
  BY <1>1, <1>2, Holders
<1>4. Hands'
  BY <1>1, <1>2 DEF Hands
<1>5. ASSUME NEW b \in Bufs
      PROVE  Count(<<cur, copy>>', b) = Count(<<cur, copy>>, b) - One(cur = b)
  <2>1. /\ Count(<<cur, copy>>', b) = One(None = b) + One(copy = b)
        /\ Count(<<cur, copy>>, b) = One(cur = b) + One(copy = b)
    BY <1>1, CountPair
  <2>2. One(None = b) = 0 /\ One(cur = b) \in Int /\ One(copy = b) \in Int
    BY BufsType DEF One
  <2> QED BY <2>1, <2>2
<1>6. CASE to[cur] = "nobody"
  <2>1. heap' = heap \cup {cur} /\ cq' = cq
    BY <1>6 DEF Reply
  <2>2. TypeOK'
    BY <1>1, <1>2, <1>3, <2>1 DEF TypeOK
  <2>3. OneOwner'
    <3> SUFFICES ASSUME NEW b \in Bufs PROVE Held(b)' = IF b \in heap' THEN 0 ELSE 1
      BY DEF OneOwner, Bufs
    <3>1. Waiting(b)' = Waiting(b)
      BY <2>1 DEF Waiting
    <3>2. Held(b)' = Held(b) - One(cur = b)
      <4>1. One(cur = b) \in Int
        BY DEF One
      <4> QED BY <1>1, <1>2, <1>5, <3>1, <4>1, HeldType DEF Held
    <3>3. One(b \in heap') - One(b \in heap) = One(cur = b)
      BY <1>3, <2>1 DEF One
    <3>4. One(b \in heap) \in Int /\ One(b \in heap') \in Int /\ Held(b) \in Int
      BY <1>2, HeldType DEF One
    <3>5. Held(b)' = Held(b) + One(b \in heap) - One(b \in heap')
      BY <3>2, <3>3, <3>4
    <3> QED BY <1>2, <3>5, Moved
  <2>4. Named'
    BY <1>1, <1>2, <2>1 DEF Named
  <2>5. OneAnswer'
    <3> SUFFICES ASSUME NEW c \in Callers PROVE Answered(c)'
      BY AnswerOf
    <3>1. c # "nobody"
      BY CallAssumption DEF Tasks
    <3>2. Mine(c)' = Mine(c)
      BY <1>1, <1>6, <2>1, <3>1 DEF Mine
    <3> QED BY <1>1, <1>2, <2>1, <3>2, AnswerOf, SameAnswer
  <2> QED BY <1>4, <2>2, <2>3, <2>4, <2>5 DEF IInv
<1>7. CASE to[cur] # "nobody"
  <2>1. PICK t \in Tasks :
          /\ t = to[cur] /\ heap' = heap
          /\ Len(cq[t]) < QLen /\ cq' = [cq EXCEPT ![t] = Append(@, cur)]
    BY <1>2, <1>3, <1>7 DEF Reply, TypeOK
  <2>2. /\ cq[t] \in Seq(Bufs) /\ cq'[t] = Append(cq[t], cur)
        /\ \A u \in Tasks : u # t => cq'[u] = cq[u]
    BY <1>2, <2>1 DEF TypeOK
  <2>3. TypeOK'
    <3>1. Append(cq[t], cur) \in Seq(Bufs) /\ Len(Append(cq[t], cur)) <= QLen
      BY <1>3, <2>1, <2>2, AppendProperties, LenProperties, CallAssumption
    <3>2. cq' \in [Tasks -> Seq(Bufs)] /\ \A u \in Tasks : Len(cq'[u]) <= QLen
      BY <1>2, <2>1, <2>2, <3>1 DEF TypeOK
    <3> QED BY <1>1, <1>2, <2>1, <3>2 DEF TypeOK
  <2>4. OneOwner'
    <3> SUFFICES ASSUME NEW b \in Bufs PROVE Held(b)' = IF b \in heap' THEN 0 ELSE 1
      BY DEF OneOwner, Bufs
    <3>1. Cardinality(Waiting(b)') = Cardinality(Waiting(b)) + One(cur = b)
      <4>1. PICK x \in Bufs : x = cur
        BY <1>3
      <4>2. TypeOK /\ cq'[t] = Append(cq[t], x)
        BY <1>2, <2>2, <4>1
      <4>3. Cardinality(Waiting(b)') = Cardinality(Waiting(b)) + One(x = b)
        BY <2>1, <2>2, <4>2, WaitingAppend
      <4> QED BY <4>1, <4>3
    <3>2. Held(b)' = Held(b)
      <4>1. One(cur = b) \in Int
        BY DEF One
      <4> QED BY <1>1, <1>2, <1>5, <3>1, <4>1, HeldType DEF Held
    <3> QED BY <1>2, <2>1, <3>2 DEF OneOwner
  <2>5. Named'
    <3>1. ASSUME NEW u \in Tasks, NEW n \in DOMAIN cq'[u] PROVE to[cq'[u][n]] = u
      <4>1. CASE u = t
        <5>1. n \in DOMAIN Append(cq[t], cur) /\ cq'[u][n] = Append(cq[t], cur)[n]
          BY <2>2, <3>1, <4>1
        <5>2. cq'[u][n] = cur \/ \E m \in DOMAIN cq[t] : cq'[u][n] = cq[t][m]
          BY <1>3, <2>2, <5>1, AppendIn
        <5> QED BY <1>2, <2>1, <4>1, <5>2 DEF Named
      <4>2. CASE u # t
        BY <1>2, <2>2, <3>1, <4>2 DEF Named
      <4> QED BY <4>1, <4>2
    <3> QED BY <1>1, <1>2, <3>1 DEF Named
  <2>6. OneAnswer'
    <3> SUFFICES ASSUME NEW c \in Callers PROVE Answered(c)'
      BY AnswerOf
    <3>1. Answered(c) /\ c \in Tasks /\ Mine(c)' = Mine(c)
      BY <1>1, <1>2, <2>1, AnswerOf DEF Tasks, Mine
    <3>2. CASE c = t
      <4>1. cur \in Mine(c)
        BY <1>3, <2>1, <3>1, <3>2 DEF Mine
      <4>2. at[c] = "wait" /\ Mine(c) = {cur} /\ cq[c] \in {<< >>, <<cur>>}
        BY <3>1, <4>1 DEF Answered
      <4>3. cq[c] = << >>
        <5>1. cq[c] # <<cur>>
          <6>1. 1 \in DOMAIN <<cur>> /\ <<cur>>[1] = cur
            OBVIOUS
          <6> QED BY <1>3, <3>1, <6>1
        <5> QED BY <4>2, <5>1
      <4>4. cq'[c] = <<cur>>
        BY <2>2, <3>2, <4>3
      <4> QED BY <1>1, <1>3, <3>1, <4>2, <4>4 DEF Answered
    <3>3. CASE c # t
      BY <1>1, <2>2, <3>1, <3>3, SameAnswer
    <3> QED BY <3>2, <3>3
  <2> QED BY <1>4, <2>3, <2>4, <2>5, <2>6 DEF IInv
<1> QED BY <1>6, <1>7

LEMMA CopyStep == ASSUME IInv, NEW t \in todo, Copy(t) PROVE IInv'
<1>1. /\ cur = None /\ copy = None
      /\ UNCHANGED <<dbq, cq, at, out, got, cur>>
  BY DEF Copy
<1>2. TypeOK /\ Hands /\ OneOwner /\ Named /\ OneAnswer
  BY DEF IInv
<1>3. t \in Loopers /\ t \in Tasks
  BY <1>2 DEF TypeOK, Tasks
<1>4. Hands'
  BY <1>1, <1>2 DEF Hands
<1>5. CASE heap = {}
  <2>1. todo' = todo \ {t} /\ UNCHANGED <<heap, copy, to>>
    BY <1>5 DEF Copy
  <2>2. TypeOK'
    BY <1>1, <1>2, <2>1 DEF TypeOK
  <2>3. OneOwner'
    <3> SUFFICES ASSUME NEW b \in Bufs PROVE Held(b)' = IF b \in heap' THEN 0 ELSE 1
      BY DEF OneOwner, Bufs
    <3>1. Waiting(b)' = Waiting(b)
      BY <1>1 DEF Waiting
    <3>2. Held(b)' = Held(b)
      BY <1>1, <2>1, <3>1 DEF Held
    <3> QED BY <1>2, <2>1, <3>2 DEF OneOwner
  <2>4. Named'
    BY <1>1, <1>2, <2>1 DEF Named
  <2>5. OneAnswer'
    BY <1>1, <1>2, <2>1 DEF OneAnswer, Bufs
  <2> QED BY <1>4, <2>2, <2>3, <2>4, <2>5 DEF IInv
<1>6. CASE heap # {}
  <2>1. PICK l \in heap : /\ copy' = l /\ heap' = heap \ {l} /\ to' = [to EXCEPT ![l] = t]
                          /\ todo' = todo
    BY <1>2, <1>6, LowestIn DEF Copy, TypeOK
  <2>2. l \in Bufs /\ l # None
    BY <1>2, <2>1, BufsType DEF TypeOK
  <2>3. TypeOK'
    BY <1>1, <1>2, <1>3, <2>1, <2>2 DEF TypeOK
  <2>4. OneOwner'
    <3> SUFFICES ASSUME NEW b \in Bufs PROVE Held(b)' = IF b \in heap' THEN 0 ELSE 1
      BY DEF OneOwner, Bufs
    <3>1. Count(<<cur, copy>>', b) = Count(<<cur, copy>>, b) + One(l = b)
      <4>1. /\ Count(<<cur, copy>>', b) = One(None = b) + One(l = b)
            /\ Count(<<cur, copy>>, b) = One(None = b) + One(None = b)
        BY <1>1, <2>1, CountPair
      <4>2. One(None = b) = 0 /\ One(l = b) \in Int
        BY BufsType DEF One
      <4> QED BY <4>1, <4>2
    <3>2. Waiting(b)' = Waiting(b)
      BY <1>1 DEF Waiting
    <3>3. Held(b)' = Held(b) + One(l = b)
      <4>1. One(l = b) \in Int
        BY DEF One
      <4>2. /\ Count(dbq, b) \in Nat /\ Count(out, b) \in Nat /\ Count(got, b) \in Nat
            /\ Count(<<cur, copy>>, b) \in Nat /\ Cardinality(Waiting(b)) \in Nat
        BY <1>2, HeldType
      <4>3. dbq' = dbq /\ out' = out /\ got' = got
        BY <1>1
      <4> QED BY <3>1, <3>2, <4>1, <4>2, <4>3 DEF Held
    <3>4. One(b \in heap) - One(b \in heap') = One(l = b)
      BY <2>1 DEF One
    <3>5. One(b \in heap) \in Int /\ One(b \in heap') \in Int /\ Held(b) \in Int
      BY <1>2, HeldType DEF One
    <3>6. Held(b)' = Held(b) + One(b \in heap) - One(b \in heap')
      BY <3>3, <3>4, <3>5
    <3> QED BY <1>2, <3>6, Moved
  <2>5. \A b \in Bufs \ heap : to'[b] = to[b]
    BY <1>2, <2>1 DEF TypeOK
  <2>6. Named'
    <3>1. ASSUME NEW u \in Tasks
          PROVE  /\ out'[u] # None => to'[out'[u]] \in {u, "nobody"}
                 /\ out'[u] # None /\ u \in Callers => to'[out'[u]] = u
                 /\ got'[u] # None => to'[got'[u]] = u
                 /\ \A n \in DOMAIN cq'[u] : to'[cq'[u][n]] = u
      BY <1>1, <1>2, <2>5, Holders DEF Named
    <3>2. to'[copy'] \in todo'
      BY <1>2, <2>1, <2>2 DEF TypeOK
    <3> QED BY <3>1, <3>2 DEF Named
  <2>7. OneAnswer'
    <3> SUFFICES ASSUME NEW c \in Callers PROVE Answered(c)'
      BY AnswerOf
    <3>1. t # c
      BY <1>3, CallAssumption
    <3>2. Mine(c)' = Mine(c)
      BY <1>1, <1>2, <2>1, <2>2, <2>5, <3>1 DEF Mine, TypeOK
    <3> QED BY <1>1, <1>2, <3>2, AnswerOf, SameAnswer
  <2> QED BY <1>4, <2>3, <2>4, <2>6, <2>7 DEF IInv
<1> QED BY <1>5, <1>6

LEMMA NotifyStep == ASSUME IInv, Notify PROVE IInv'
<1>1. PICK t : /\ t = to[copy] /\ copy # None /\ copy' = None /\ Len(cq[t]) < QLen
               /\ cq' = [cq EXCEPT ![t] = Append(@, copy)] /\ todo' = todo \ {t}
               /\ UNCHANGED <<heap, to, dbq, at, out, got, cur>>
  BY DEF Notify
<1>2. TypeOK /\ Hands /\ OneOwner /\ Named /\ OneAnswer
  BY DEF IInv
<1>3. copy \in Bufs \ heap /\ t \in Loopers /\ t \in Tasks
  BY <1>1, <1>2, Holders DEF Named, TypeOK, Tasks
<1>4. /\ cq[t] \in Seq(Bufs) /\ cq'[t] = Append(cq[t], copy)
      /\ \A u \in Tasks : u # t => cq'[u] = cq[u]
  BY <1>1, <1>2, <1>3 DEF TypeOK
<1>5. TypeOK'
  <2>1. Append(cq[t], copy) \in Seq(Bufs) /\ Len(Append(cq[t], copy)) <= QLen
    BY <1>1, <1>3, <1>4, AppendProperties, LenProperties, CallAssumption
  <2>2. cq' \in [Tasks -> Seq(Bufs)] /\ \A u \in Tasks : Len(cq'[u]) <= QLen
    BY <1>1, <1>2, <1>4, <2>1 DEF TypeOK
  <2> QED BY <1>1, <1>2, <2>2 DEF TypeOK
<1>6. Hands'
  BY <1>1, <1>2 DEF Hands
<1>7. OneOwner'
  <2> SUFFICES ASSUME NEW b \in Bufs PROVE Held(b)' = IF b \in heap' THEN 0 ELSE 1
    BY DEF OneOwner, Bufs
  <2>1. Cardinality(Waiting(b)') = Cardinality(Waiting(b)) + One(copy = b)
    <3>1. PICK x \in Bufs : x = copy
      BY <1>3
    <3>2. TypeOK /\ t \in Tasks /\ Len(cq[t]) < QLen /\ cq'[t] = Append(cq[t], x)
      BY <1>1, <1>2, <1>3, <1>4, <3>1
    <3>3. Cardinality(Waiting(b)') = Cardinality(Waiting(b)) + One(x = b)
      BY <1>4, <3>2, WaitingAppend
    <3> QED BY <3>1, <3>3
  <2>2. Count(<<cur, copy>>', b) = Count(<<cur, copy>>, b) - One(copy = b)
    <3>1. /\ Count(<<cur, copy>>', b) = One(cur = b) + One(None = b)
          /\ Count(<<cur, copy>>, b) = One(cur = b) + One(copy = b)
      BY <1>1, CountPair
    <3>2. One(None = b) = 0 /\ One(cur = b) \in Int /\ One(copy = b) \in Int
      BY BufsType DEF One
    <3> QED BY <3>1, <3>2
  <2>3. Held(b)' = Held(b)
    <3>1. One(copy = b) \in Int
      BY DEF One
    <3>2. /\ Count(dbq, b) \in Nat /\ Count(out, b) \in Nat /\ Count(got, b) \in Nat
          /\ Count(<<cur, copy>>, b) \in Nat /\ Cardinality(Waiting(b)) \in Nat
      BY <1>2, HeldType
    <3>3. dbq' = dbq /\ out' = out /\ got' = got
      BY <1>1
    <3> QED BY <2>1, <2>2, <3>1, <3>2, <3>3 DEF Held
  <2> QED BY <1>1, <1>2, <2>3 DEF OneOwner
<1>8. Named'
  <2>1. ASSUME NEW u \in Tasks, NEW n \in DOMAIN cq'[u] PROVE to[cq'[u][n]] = u
    <3>1. CASE u = t
      <4>1. n \in DOMAIN Append(cq[t], copy) /\ cq'[u][n] = Append(cq[t], copy)[n]
        BY <1>4, <2>1, <3>1
      <4>2. cq'[u][n] = copy \/ \E m \in DOMAIN cq[t] : cq'[u][n] = cq[t][m]
        BY <1>3, <1>4, <4>1, AppendIn
      <4> QED BY <1>1, <1>2, <1>3, <3>1, <4>2 DEF Named
    <3>2. CASE u # t
      BY <1>2, <1>4, <2>1, <3>2 DEF Named
    <3> QED BY <3>1, <3>2
  <2> QED BY <1>1, <1>2, <2>1 DEF Named
<1>9. OneAnswer'
  <2> SUFFICES ASSUME NEW c \in Callers PROVE Answered(c)'
    BY AnswerOf
  <2>1. t # c /\ c \in Tasks
    BY <1>3, CallAssumption DEF Tasks
  <2>2. Mine(c)' = Mine(c)
    BY <1>1 DEF Mine
  <2> QED BY <1>1, <1>2, <1>4, <2>1, <2>2, AnswerOf, SameAnswer
<1> QED BY <1>5, <1>6, <1>7, <1>8, <1>9 DEF IInv

-----------------------------------------------------------------------------
(* The theorems                                                            *)

LEMMA Start == Init => IInv
<1> SUFFICES ASSUME Init PROVE IInv
  OBVIOUS
<1>1. TypeOK
  <2>1. << >> \in Seq(Bufs) /\ Len(<< >>) = 0 /\ 0 <= QLen
    BY EmptySeq, CallAssumption
  <2> QED BY <2>1 DEF Init, TypeOK
<1>2. Hands
  BY DEF Init, Hands, None
<1>3. OneOwner
  <2> SUFFICES ASSUME NEW b \in Bufs PROVE Held(b) = 0
    BY DEF OneOwner, Init
  <2>1. b # None
    BY BufsType
  <2>2. Count(<< >>, b) = 0
    <3>1. {n \in DOMAIN << >> : << >>[n] = b} = {}
      OBVIOUS
    <3> QED BY <3>1, FS_EmptySet DEF Count
  <2>3. Count([t \in Tasks |-> None], b) = 0
    <3>1. {n \in DOMAIN [t \in Tasks |-> None] : [t \in Tasks |-> None][n] = b} = {}
      BY <2>1
    <3> QED BY <3>1, FS_EmptySet DEF Count
  <2>4. Count(<<None, None>>, b) = 0
    BY <2>1, CountPair DEF One
  <2>5. Cardinality(Waiting(b)) = 0
    <3>1. Waiting(b) = {}
      <4> SUFFICES ASSUME NEW t \in Tasks, NEW n \in 1..QLen PROVE ~(n <= Len(cq[t]))
        BY DEF Waiting
      <4>1. cq[t] = << >> /\ Len(<< >>) = 0
        BY EmptySeq DEF Init
      <4> QED BY <4>1
    <3> QED BY <3>1, FS_EmptySet
  <2> QED BY <2>2, <2>3, <2>4, <2>5 DEF Held, Init
<1>4. Named
  <2>1. \A t \in Tasks : out[t] = None /\ got[t] = None /\ DOMAIN cq[t] = {}
    BY DEF Init
  <2> QED BY <2>1 DEF Init, Named
<1>5. OneAnswer
  BY DEF Init, OneAnswer, Tasks
<1> QED BY <1>1, <1>2, <1>3, <1>4, <1>5 DEF IInv

LEMMA Preserved == IInv /\ [Next]_vars => IInv'
<1> SUFFICES ASSUME IInv, [Next]_vars PROVE IInv'
  OBVIOUS
<1>1. ASSUME NEW t \in Tasks, Client(t) PROVE IInv'
  BY <1>1, SendStep, SendTimeoutStep, ReceiveStep, FreeStep DEF Client
<1>2. ASSUME NEW t \in Tasks, NEW q \in Tasks \cup {"nobody"}, Make(t, q) PROVE IInv'
  BY <1>2, MakeStep
<1>3. CASE Database
  BY <1>3, TakeStep, ReplyStep, NotifyStep, CopyStep DEF Database
<1>4. CASE UNCHANGED vars
  <2>1. /\ heap' = heap /\ to' = to /\ dbq' = dbq /\ cq' = cq /\ at' = at /\ out' = out
        /\ got' = got /\ cur' = cur /\ copy' = copy /\ todo' = todo
    BY <1>4 DEF vars, db
  <2>2. \A b \in Bufs : Held(b)' = Held(b)
    BY <2>1 DEF Held, Waiting
  <2>3. OneOwner'
    BY <2>1, <2>2 DEF IInv, OneOwner, Bufs
  <2>4. TypeOK' /\ Hands' /\ Named' /\ OneAnswer'
    BY <2>1 DEF IInv, TypeOK, Hands, Named, OneAnswer, Bufs
  <2> QED BY <2>3, <2>4 DEF IInv
<1> QED BY <1>1, <1>2, <1>3, <1>4 DEF Next

\* The five parts are inductive: hands, names and owners need each other.
THEOREM Inductive == Spec => []IInv
BY Start, Preserved, PTL DEF Spec

\* Every buffer is free or has one owner, with full queues and without
\* memory too: no task of dbapi or of the database frees, sends or reuses
\* what another has, and none is lost.
THEOREM BuffersHaveOneOwner == Spec => []OneOwner
<1>1. IInv => OneOwner
  BY DEF IInv
<1> QED BY <1>1, Inductive, PTL

\* A caller that waits has one message under way and its queue holds that
\* one or nothing; one that does not wait has none: an answer is never that
\* of an earlier call or of another client.
THEOREM AnswersAreTheCalls == Spec => []OneAnswer
<1>1. IInv => OneAnswer
  BY DEF IInv
<1> QED BY <1>1, Inductive, PTL
==============================================================================
