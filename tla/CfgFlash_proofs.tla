---------------------------- MODULE CfgFlash_proofs ----------------------------
(***************************************************************************)
(* A configuration file that was written to the end is what the next boot  *)
(* loads, and a save that was cut short leaves a file in order, for any    *)
(* tables, any size of the sectors and a loss of power at any moment, when *)
(* one operation at a time writes.                                         *)
(***************************************************************************)
EXTENDS CfgFlash, TLAPS, FiniteSetTheorems, WellFoundedInduction

-----------------------------------------------------------------------------
(* The invariant                                                           *)

Unit == Nat \X Nat
FileType == [Offsets -> Unit]
(* What a file says, or Unknown.                                           *)
Contents == UNION {[S -> Nat] : S \in SUBSET (0 .. N)}
Ops == {"idle", "save", "mark", "end", "clear", "cleared", "reset", "restore"}
JobType == [op : Ops, part : Parts, at : Nat, new : Contents]
BufferType == [part : Parts, sector : Nat, buf : [0 .. K - 1 -> Unit], walker : 0 .. K - 1,
               received : BOOLEAN]

TypeInv ==
  /\ data \in [Cells -> Nat] /\ gen \in Nat
  /\ flash \in [Parts -> FileType] /\ temp \in FileType
  /\ w \in BufferType
  /\ job \in [Writers -> JobType]
  /\ saved \in [Parts -> Contents]
  /\ last \in [new : Contents, found : FileType]

(* One operation at a time; what a file being written will hold is not     *)
(* known until it ends.                                                    *)
OneJob ==
  /\ \A t, u \in Writers : job[t] # Idle /\ job[u] # Idle => t = u
  /\ \A t \in Writers : /\ job[t].op = "idle" => job[t] = Idle
                        /\ job[t] # Idle => saved[job[t].part] = Unknown

(* The partition of the buffer as it is once the buffer is programmed.     *)
Shadow(i) == IF i \div K = w.sector THEN w.buf[i % K] ELSE flash[w.part][i]

Saves(t) == job[t].op \in {"save", "mark", "end"}
Clears(t) == job[t].op \in {"clear", "cleared"}

(* The buffer of an operation that uses it.                                *)
Buffered(t) ==
  Saves(t) \/ Clears(t) =>
    /\ w.part = job[t].part /\ w.sector * K + w.walker = job[t].at
    /\ ~w.received => \A i \in Offsets : Shadow(i) = flash[w.part][i]

(* What a save writes at an offset.                                        *)
Target(new, i) == IF i < N THEN <<i + 1, new[i + 1]>> ELSE EndMark

Saved(t) ==
  Saves(t) =>
    /\ job[t].new \in [Cells -> Nat]
    /\ job[t].op = "save" => job[t].at < N /\ mutex = t /\ data = job[t].new
    /\ job[t].op = "mark" => job[t].at = N
    /\ job[t].op = "end" => job[t].at = N + 1
    /\ \A i \in Offsets : i < job[t].at => Shadow(i) = Target(job[t].new, i)

Cleared(t) ==
  Clears(t) => /\ job[t].new = Nothing
               /\ job[t].op = "clear" => job[t].at = 0
               /\ job[t].op = "cleared" => job[t].at = 1 /\ Shadow(0) = Blank

Copies(t) ==
  /\ job[t].op = "reset" =>
       /\ job[t].part = "startup" /\ job[t].new = saved["factory"]
       /\ \A i \in Offsets : i < job[t].at * K => flash["startup"][i] = flash["factory"][i]
  /\ job[t].op = "restore" =>
       /\ job[t].part = "startup" /\ job[t].new = Load(temp) /\ Text(temp) # Offsets
       /\ \A i \in Offsets : i < job[t].at * K /\ i < Size(t) => flash["startup"][i] = temp[i]

SavedIInv ==
  /\ TypeInv /\ OneJob
  /\ \A t \in Writers : Buffered(t) /\ Saved(t) /\ Cleared(t) /\ Copies(t)
  /\ SavedIsLoaded

(* A file of new units up to some offset, and behind it of what it held,   *)
(* of units left erased, and perhaps the end mark.                         *)
Torn(f, j) ==
  \A i \in Offsets : IF i < j THEN f[i] = <<i + 1, last.new[i + 1]>>
                     ELSE f[i] \in {Blank, EndMark, last.found[i]}

(* A save of the startup file has left behind it what that file held.      *)
SaveFound(t) ==
  Saves(t) /\ job[t].part = "startup" =>
    /\ last.new = job[t].new
    /\ \A i \in Offsets : i >= job[t].at => Shadow(i) = last.found[i]
    /\ \A i \in Offsets : i >= w.sector * K => flash["startup"][i] = last.found[i]

(* A save that did not end was cut by a loss of power or is under way.     *)
LeftTorn ==
  last # NoSave =>
    /\ \A t \in Writers : job[t] # Idle => Saves(t) /\ job[t].part = "startup"
    /\ (\A t \in Writers : job[t] = Idle) =>
         /\ last.new \in [Cells -> Nat]
         /\ \E j \in 0 .. N : Torn(flash["startup"], j)

TornIInv == SavedIInv /\ LeftTorn /\ \A t \in Writers : SaveFound(t)

-----------------------------------------------------------------------------
(* Offsets and cells                                                       *)

LEMMA OffsetParts ==
  ASSUME NEW i \in Nat
  PROVE  i \div K \in Nat /\ i % K \in 0 .. K - 1 /\ i = (i \div K) * K + (i % K)
BY FlashAssumption

LEMMA OffsetOf ==
  ASSUME NEW s \in Nat, NEW j \in 0 .. K - 1
  PROVE  (s * K + j) \div K = s /\ (s * K + j) % K = j
BY FlashAssumption

LEMMA Sectors ==
  ASSUME NEW s \in Nat, NEW j \in 0 .. K - 1
  PROVE  /\ s < NumSectors <=> s * K + j \in Offsets
         /\ s * K + j \in Nat
BY FlashAssumption DEF Offsets

LEMMA BeforeSector ==
  ASSUME NEW q \in Nat, NEW a \in Nat, NEW r \in 0 .. K - 1, q * K + r < (a + 1) * K, q # a
  PROVE  q * K + r < a * K
<1>1. K \in Nat \ {0}
  BY FlashAssumption
<1>2. q < a
  <2> SUFFICES ASSUME a < q PROVE FALSE
    OBVIOUS
  <2>1. (q - a - 1) * K >= 0
    BY <1>1
  <2> QED BY <1>1, <2>1
<1>3. (a - q - 1) * K >= 0
  BY <1>1, <1>2
<1> QED BY <1>1, <1>3

LEMMA Sizes ==
  /\ N \in Nat \ {0} /\ N \in Offsets /\ 0 \in Offsets /\ K * NumSectors \in Nat
  /\ Offsets \subseteq Nat /\ \A i \in Offsets, j \in Nat : j <= i => j \in Offsets
<1>1. N \in Nat \ {0} /\ K * NumSectors \in Nat
  BY FlashAssumption DEF N
<1> HIDE DEF N
<1> QED BY <1>1, FlashAssumption DEF Offsets

LEMMA CellOf ==
  ASSUME NEW t \in 1 .. NumTables, NEW n \in 0 .. NumFields - 1
  PROVE  First(t) + n \in Cells /\ Table(First(t) + n) = t /\ First(t) \in Cells
<1>1. t \in Nat /\ n \in Nat /\ n < NumFields /\ NumFields \in Nat \ {0} /\ NumTables \in Nat
  BY FlashAssumption
<1>2. (t - 1) * NumFields \in Nat
  BY <1>1
<1>3. (t - 1) * NumFields + NumFields <= NumTables * NumFields
  <2>1. (NumTables - t) * NumFields >= 0
    BY <1>1
  <2> QED BY <1>1, <2>1
<1>4. First(t) + n \in Cells /\ First(t) \in Cells
  BY <1>1, <1>2, <1>3 DEF First, Cells, N
<1>5. ((t - 1) * NumFields + n) \div NumFields = t - 1
  BY <1>1
<1>6. PICK c \in Cells : c = First(t) + n
  BY <1>4
<1>7. Table(c) = t
  <2>1. c - 1 = (t - 1) * NumFields + n
    BY <1>1, <1>2, <1>6 DEF First
  <2>2. (c - 1) \div NumFields = t - 1
    BY <1>5, <2>1
  <2> QED BY <1>1, <2>2 DEF Table
<1> QED BY <1>4, <1>6, <1>7

LEMMA PlaceOf ==
  ASSUME NEW c \in Cells
  PROVE  /\ Table(c) \in 1 .. NumTables
         /\ c - First(Table(c)) \in 0 .. NumFields - 1
<1>1. c \in Nat /\ c - 1 \in Nat /\ NumFields \in Nat \ {0} /\ NumTables \in Nat
      /\ c - 1 < NumTables * NumFields
  BY FlashAssumption DEF Cells, N
<1>2. PICK q \in Nat, r \in 0 .. NumFields - 1 :
        c - 1 = q * NumFields + r /\ q = (c - 1) \div NumFields
  BY <1>1
<1>3. q < NumTables
  BY <1>1, <1>2
<1>4. Table(c) = q + 1
  BY <1>2 DEF Table
<1>5. c - First(Table(c)) = r
  BY <1>1, <1>2, <1>4 DEF First
<1> QED BY <1>1, <1>2, <1>3, <1>4, <1>5

\* The first offsets of the tables increase.
LEMMA TablesInOrder ==
  ASSUME NEW s \in Nat, NEW t \in Nat, s < t
  PROVE  First(s) + NumFields <= First(t)
<1>1. NumFields \in Nat
  BY FlashAssumption
<1>2. (t - s - 1) * NumFields >= 0
  BY <1>1
<1> QED BY <1>1, <1>2 DEF First

-----------------------------------------------------------------------------
(* What is loaded                                                          *)

\* A table that is found has a first place.
LEMMA StartIsFirst ==
  ASSUME NEW f, NEW t, Places(f, t) # {}
  PROVE  Start(f, t) \in Places(f, t) /\ \A j \in Places(f, t) : Start(f, t) <= j
<1>1. Places(f, t) \subseteq Nat
  BY Sizes DEF Places, Text
<1>2. PICK i \in Places(f, t) : \A j \in Places(f, t) : ~(<<j, i>> \in OpToRel(<, Nat))
  <2> HIDE DEF Places
  <2> QED BY <1>1, NatLessThanWellFounded, WFMin
<1>3. ASSUME NEW j \in Places(f, t) PROVE i <= j
  <2>1. i \in Nat /\ j \in Nat
    BY <1>1
  <2>2. ~(<<j, i>> \in OpToRel(<, Nat))
    BY <1>2
  <2> QED BY <2>1, <2>2 DEF OpToRel
<1> HIDE DEF Places
<1> QED BY <1>3 DEF Start

\* A cell is loaded from a unit of its own.
LEMMA LoadedFrom ==
  ASSUME NEW f \in FileType, NEW c \in DOMAIN Load(f)
  PROVE  /\ c \in Cells /\ Load(f)[c] \in Nat
         /\ \E i \in Text(f) : f[i] = <<c, Load(f)[c]>>
<1>1. Exists(f)
  BY DEF Load, Nothing
<1>2. PICK t \in Loaded(f) : \E n \in Read(f, t) : c = First(t) + n
  BY <1>1 DEF Load
<1> PICK n \in Read(f, t) : c = First(t) + n
  BY <1>2
<1>3. t \in 1 .. NumTables /\ n \in 0 .. NumFields - 1
  BY DEF Loaded, Read
<1>4. c \in Cells /\ Table(c) = t
  BY <1>2, <1>3, CellOf
<1>5. PICK i : i = Start(f, t) + n
  OBVIOUS
<1>6. i \in Text(f) /\ f[i][1] = c
  <2>1. n \in 0 .. n
    BY <1>3
  <2> QED BY <1>2, <1>5, <2>1 DEF Read
<1>7. f[i] \in Unit
  BY <1>6 DEF FileType, Text
<1>8. Load(f)[c] = f[Start(f, t) + c - First(t)][2]
  BY <1>1, <1>4 DEF Load
<1>9. Load(f)[c] = f[i][2]
  <2>1. c \in Int /\ First(t) \in Int /\ n \in Int
    BY <1>3, <1>4, CellOf, Sizes DEF Cells
  <2>2. Start(f, t) \in Int
    <3>1. Places(f, t) # {}
      BY DEF Loaded
    <3>2. Start(f, t) \in Places(f, t)
      BY <3>1, StartIsFirst
    <3>3. Places(f, t) \subseteq Nat
      BY Sizes DEF Places, Text
    <3> QED BY <3>2, <3>3
  <2>3. Start(f, t) + c - First(t) = i
    BY <1>2, <1>5, <2>1, <2>2
  <2> QED BY <1>8, <2>3
<1> QED BY <1>4, <1>6, <1>7, <1>9 DEF Unit

LEMMA LoadType ==
  ASSUME NEW f \in FileType
  PROVE  Load(f) \in Contents /\ Load(f) = [c \in DOMAIN Load(f) |-> Load(f)[c]]
<1>1. Load(f) = [c \in DOMAIN Load(f) |-> Load(f)[c]]
  BY DEF Load, Nothing
<1>2. DOMAIN Load(f) \subseteq 0 .. N
  BY LoadedFrom, Sizes DEF Cells
<1>3. Load(f) \in [DOMAIN Load(f) -> Nat]
  <2>1. \A c \in DOMAIN Load(f) : Load(f)[c] \in Nat
    BY LoadedFrom
  <2> HIDE DEF Load
  <2> QED BY <1>1, <2>1
<1> QED BY <1>1, <1>2, <1>3 DEF Contents

\* What the first units of a file say is loaded.
LEMMA NewLoaded ==
  ASSUME NEW f \in FileType, NEW d \in [Cells -> Nat], NEW j \in 0 .. N,
         \A i \in Offsets : i < j => f[i] = <<i + 1, d[i + 1]>>
  PROVE  \A c \in 1 .. j : c \in DOMAIN Load(f) /\ Load(f)[c] = d[c]
<1> SUFFICES ASSUME NEW c \in 1 .. j
             PROVE  c \in DOMAIN Load(f) /\ Load(f)[c] = d[c]
  OBVIOUS
<1>1. c \in Cells /\ c - 1 \in Offsets /\ j \in Nat /\ N \in Nat /\ 0 \in Offsets
  BY Sizes DEF Cells
<1>2. Exists(f)
  BY <1>1 DEF Exists
<1>3. ASSUME NEW i \in Offsets, i < j
      PROVE  i \in Text(f) /\ f[i][1] = i + 1 /\ f[i][2] = d[i + 1]
  <2>1. ASSUME NEW h \in 0 .. i PROVE f[h] # EndMark
    <3>1. h \in Offsets /\ h < j /\ h \in Nat /\ i \in Nat
      BY <1>1, <1>3, Sizes
    <3>2. f[h][1] = h + 1 /\ h + 1 # N + 1
      BY <1>1, <3>1
    <3> QED BY <3>2 DEF EndMark
  <2> QED BY <1>3, <2>1 DEF Text
<1>4. ASSUME NEW t \in 1 .. NumTables, First(t) <= j
      PROVE  Places(f, t) # {} /\ Start(f, t) = First(t) - 1
  <2>1. PICK a \in Cells : a = First(t)
    <3>1. 0 \in 0 .. NumFields - 1
      BY FlashAssumption
    <3> QED BY <3>1, CellOf
  <2>2. a - 1 \in Offsets /\ a - 1 < j /\ a - 1 \in Nat
    BY <1>1, <1>4, <2>1, Sizes DEF Cells
  <2>3. a - 1 \in Places(f, t)
    <3>1. a - 1 \in Text(f) /\ f[a - 1][1] = a
      <4>1. PICK i \in Offsets : i = a - 1
        BY <2>2
      <4>2. i \in Text(f) /\ f[i][1] = i + 1
        BY <1>3, <2>2, <4>1
      <4>3. i + 1 = a
        BY <2>2, <4>1 DEF Cells
      <4> QED BY <4>1, <4>2, <4>3
    <3> QED BY <2>1, <3>1 DEF Places
  <2>4. PICK b : b = Start(f, t)
    OBVIOUS
  <2>5. b \in Places(f, t) /\ b <= a - 1
    BY <2>3, <2>4, StartIsFirst
  <2>6. b \in Offsets /\ b \in Nat /\ f[b][1] = a
    BY <2>1, <2>5, Sizes DEF Places, Text
  <2>7. b = a - 1
    <3>1. b < j
      BY <1>1, <2>2, <2>5, <2>6
    <3>2. f[b][1] = b + 1
      BY <1>3, <2>6, <3>1
    <3> QED BY <2>2, <2>6, <3>2
  <2> QED BY <2>1, <2>3, <2>4, <2>7
<1>5. ASSUME NEW t \in 1 .. NumTables, NEW n \in 0 .. NumFields - 1, First(t) + n <= j
      PROVE  n \in Read(f, t)
  <2>1. PICK a \in Cells : a = First(t)
    <3>1. 0 \in 0 .. NumFields - 1
      BY FlashAssumption
    <3> QED BY <3>1, CellOf
  <2>2. a \in Nat \ {0} /\ a <= j /\ n \in Nat /\ NumFields \in Nat
    BY <1>1, <1>5, <2>1, FlashAssumption DEF Cells
  <2>3. Start(f, t) = a - 1
    BY <1>4, <2>1, <2>2
  <2>4. ASSUME NEW m \in 0 .. n
        PROVE  a - 1 + m \in Text(f) /\ f[a - 1 + m][1] = a + m
    <3>1. a - 1 + m \in Nat /\ a - 1 + m < j /\ a - 1 + m <= N
      BY <1>1, <1>5, <2>1, <2>2
    <3>2. a - 1 + m \in Offsets
      BY <3>1, Sizes
    <3>3. PICK i \in Offsets : i = a - 1 + m
      BY <3>2
    <3>4. i \in Text(f) /\ f[i][1] = i + 1
      BY <1>3, <3>1, <3>3
    <3> QED BY <2>2, <3>3, <3>4
  <2> QED BY <2>1, <2>3, <2>4 DEF Read
<1>6. PICK t \in 1 .. NumTables : t = Table(c)
  BY <1>1, PlaceOf
<1>7. PICK n \in 0 .. NumFields - 1 : c = First(t) + n
  <2>1. First(t) \in Nat /\ c \in Nat
    <3>1. 0 \in 0 .. NumFields - 1
      BY FlashAssumption
    <3> QED BY <1>1, <3>1, CellOf DEF Cells
  <2>2. c - First(t) \in 0 .. NumFields - 1
    BY <1>1, <1>6, PlaceOf
  <2> QED BY <2>1, <2>2
<1>8. First(t) \in Nat /\ First(t) <= j /\ n \in Read(f, t)
  <2>1. First(t) \in Nat
    <3>1. 0 \in 0 .. NumFields - 1
      BY FlashAssumption
    <3> QED BY <3>1, CellOf DEF Cells
  <2>2. First(t) <= j /\ First(t) + n <= j
    BY <1>1, <1>7, <2>1
  <2> QED BY <1>5, <2>1, <2>2
<1>9. t \in Loaded(f)
  <2>1. ASSUME NEW s \in 1 .. t - 1 PROVE Cardinality(Read(f, s)) = NumFields
    <3>1. s \in 1 .. NumTables /\ s \in Nat /\ t \in Nat /\ s < t /\ NumFields \in Nat \ {0}
      BY FlashAssumption
    <3>2. First(s) + NumFields <= First(t) /\ First(s) \in Nat
      <4>1. 0 \in 0 .. NumFields - 1
        BY FlashAssumption
      <4>2. First(s) \in Cells
        BY <3>1, <4>1, CellOf
      <4>3. First(s) + NumFields <= First(t)
        <5>1. s \in Nat /\ t \in Nat /\ s < t
          BY <3>1
        <5> QED BY <5>1, TablesInOrder
      <4> QED BY <4>2, <4>3 DEF Cells
    <3>3. ASSUME NEW m \in 0 .. NumFields - 1 PROVE m \in Read(f, s)
      <4>1. First(s) + m <= j
        BY <1>1, <1>8, <3>1, <3>2
      <4> QED BY <1>5, <3>1, <4>1
    <3>4. Read(f, s) = 0 .. NumFields - 1
      <4>1. Read(f, s) \subseteq 0 .. NumFields - 1
        BY DEF Read
      <4> QED BY <3>3, <4>1
    <3>5. Cardinality(0 .. NumFields - 1) = NumFields
      BY <3>1, FS_Interval
    <3> QED BY <3>4, <3>5
  <2>2. Places(f, t) # {}
    BY <1>4, <1>8
  <2> QED BY <2>1, <2>2 DEF Loaded
<1>10. c \in DOMAIN Load(f)
  BY <1>2, <1>7, <1>8, <1>9 DEF Load
<1>11. Load(f)[c] = f[c - 1][2]
  <2>1. Load(f)[c] = f[Start(f, t) + c - First(t)][2]
    BY <1>2, <1>6, <1>10 DEF Load
  <2>2. Start(f, t) = First(t) - 1
    BY <1>4, <1>8
  <2>3. Start(f, t) + c - First(t) = c - 1
    BY <1>1, <1>8, <2>2 DEF Cells
  <2> QED BY <2>1, <2>3
<1>12. f[c - 1][2] = d[c]
  BY <1>1, <1>3
<1> QED BY <1>10, <1>11, <1>12

\* A file with all its units in place is loaded as it was saved.
LEMMA LoadOfSaved ==
  ASSUME NEW f \in FileType, NEW d \in [Cells -> Nat],
         \A i \in Offsets : i < N + 1 => f[i] = Target(d, i)
  PROVE  Load(f) = d
<1>1. N \in Nat /\ N \in 0 .. N
  BY Sizes
<1>2. \A i \in Offsets : i < N => f[i] = <<i + 1, d[i + 1]>>
  <2> SUFFICES ASSUME NEW i \in Offsets, i < N PROVE f[i] = <<i + 1, d[i + 1]>>
    OBVIOUS
  <2>1. i < N + 1
    BY <1>1, Sizes
  <2> QED BY <2>1 DEF Target
<1>3. \A c \in 1 .. N : c \in DOMAIN Load(f) /\ Load(f)[c] = d[c]
  BY <1>1, <1>2, NewLoaded
<1>4. \A c \in DOMAIN Load(f) : c \in Cells
  BY LoadedFrom
<1>5. DOMAIN Load(f) = Cells
  <2> HIDE DEF Load
  <2> QED BY <1>3, <1>4 DEF Cells
<1>6. Load(f) = [c \in Cells |-> Load(f)[c]]
  BY <1>5, LoadType
<1>7. \A c \in Cells : Load(f)[c] = d[c]
  BY <1>3 DEF Cells
<1> HIDE DEF Load
<1> QED BY <1>6, <1>7

\* Nothing is loaded when the magic word is gone.
LEMMA LoadOfBlank ==
  ASSUME NEW f, f[0] = Blank
  PROVE  Load(f) = Nothing
BY DEF Load, Exists, Blank

\* What is behind the end mark is not looked at.
LEMMA LoadPrefix ==
  ASSUME NEW f \in FileType, NEW g \in FileType, NEW n \in Offsets, f[n] = EndMark,
         \A i \in Offsets : i <= n => f[i] = g[i]
  PROVE  Load(f) = Load(g)
<1>1. n \in Nat /\ Offsets \subseteq Nat /\ 0 \in Offsets
  BY Sizes
<1>2. \A i \in Text(f) : i <= n /\ i \in Offsets
  <2> SUFFICES ASSUME NEW i \in Text(f), n < i PROVE FALSE
    BY <1>1 DEF Text
  <2>1. n \in 0 .. i
    BY <1>1 DEF Text
  <2> QED BY <2>1 DEF Text
<1>3. \A i \in Text(g) : i <= n /\ i \in Offsets
  <2> SUFFICES ASSUME NEW i \in Text(g), n < i PROVE FALSE
    BY <1>1 DEF Text
  <2>1. n \in 0 .. i /\ g[n] = EndMark
    BY <1>1 DEF Text
  <2> QED BY <2>1 DEF Text
<1>4. \A i \in Offsets : i <= n => \A j \in 0 .. i : f[j] = g[j]
  <2> SUFFICES ASSUME NEW i \in Offsets, i <= n, NEW j \in 0 .. i
               PROVE  f[j] = g[j]
    OBVIOUS
  <2>1. j \in Offsets /\ j <= n
    BY <1>1, Sizes
  <2> QED BY <2>1
<1>5. Text(f) = Text(g)
  <2>1. ASSUME NEW i \in Text(f) PROVE i \in Text(g)
    BY <1>2, <1>4 DEF Text
  <2>2. ASSUME NEW i \in Text(g) PROVE i \in Text(f)
    BY <1>3, <1>4 DEF Text
  <2> HIDE DEF Text
  <2> QED BY <2>1, <2>2
<1>6. \A i \in Text(f) : f[i] = g[i]
  BY <1>2
<1>7. \A t : Places(f, t) = Places(g, t)
  BY <1>5, <1>6 DEF Places
<1>8. \A t : Start(f, t) = Start(g, t)
  BY <1>7 DEF Start
<1>9. \A t : Read(f, t) = Read(g, t)
  BY <1>5, <1>6, <1>8 DEF Read
<1>10. Loaded(f) = Loaded(g)
  BY <1>7, <1>9 DEF Loaded
<1>11. Exists(f) <=> Exists(g)
  BY <1>1 DEF Exists
<1>12. CASE ~Exists(f)
  BY <1>11, <1>12 DEF Load
<1>13. CASE Exists(f)
  <2> DEFINE D == UNION {{First(t) + m : m \in Read(f, t)} : t \in Loaded(f)}
  <2>1. D = UNION {{First(t) + m : m \in Read(g, t)} : t \in Loaded(g)}
    BY <1>9, <1>10
  <2>2. Load(f) = [c \in D |-> f[Start(f, Table(c)) + c - First(Table(c))][2]]
    BY <1>13 DEF Load
  <2>3. Load(g) = [c \in D |-> g[Start(g, Table(c)) + c - First(Table(c))][2]]
    BY <1>11, <1>13, <2>1 DEF Load
  <2>4. ASSUME NEW c \in D
        PROVE  Start(f, Table(c)) + c - First(Table(c)) \in Text(f)
    <3>1. PICK t \in Loaded(f) : \E m \in Read(f, t) : c = First(t) + m
      OBVIOUS
    <3>2. PICK m \in Read(f, t) : c = First(t) + m
      BY <3>1
    <3>3. t \in 1 .. NumTables /\ m \in 0 .. NumFields - 1
      BY DEF Loaded, Read
    <3>4. Table(c) = t /\ First(t) \in Int /\ c \in Int
      BY <3>2, <3>3, CellOf, Sizes DEF Cells
    <3>5. Start(f, t) \in Int
      <4>1. Places(f, t) # {}
        BY DEF Loaded
      <4>2. Start(f, t) \in Places(f, t)
        BY <4>1, StartIsFirst
      <4>3. Places(f, t) \subseteq Nat
        BY Sizes DEF Places, Text
      <4> QED BY <4>2, <4>3
    <3>6. Start(f, t) + m \in Text(f)
      <4>1. m \in 0 .. m
        BY <3>3
      <4> QED BY <4>1 DEF Read
    <3>7. Start(f, t) + c - First(t) = Start(f, t) + m
      BY <3>2, <3>3, <3>4, <3>5
    <3> QED BY <3>4, <3>6, <3>7
  <2> HIDE DEF D
  <2> QED BY <1>6, <1>8, <2>2, <2>3, <2>4
<1> QED BY <1>12, <1>13

\* The text of a file that has an end mark.
LEMMA TextSize ==
  ASSUME NEW f \in FileType, Text(f) # Offsets
  PROVE  /\ Cardinality(Text(f)) \in Offsets
         /\ f[Cardinality(Text(f))] = EndMark
<1> DEFINE M == {i \in Offsets : f[i] = EndMark}
<1>1. M \subseteq Nat /\ M # {}
  <2>1. PICK i \in Offsets : i \notin Text(f)
    BY DEF Text
  <2>2. PICK j \in 0 .. i : f[j] = EndMark
    BY <2>1 DEF Text
  <2>3. j \in Offsets
    BY <2>2, Sizes
  <2> QED BY <2>2, <2>3, Sizes
<1>2. PICK n \in M : \A j \in M : ~(<<j, n>> \in OpToRel(<, Nat))
  <2> HIDE DEF M
  <2> QED BY <1>1, NatLessThanWellFounded, WFMin
<1>3. n \in Nat /\ n \in Offsets /\ f[n] = EndMark
  BY <1>1
<1>4. ASSUME NEW j \in M PROVE n <= j
  <2>1. ~(<<j, n>> \in OpToRel(<, Nat)) /\ j \in Nat
    BY <1>1, <1>2
  <2> HIDE DEF M
  <2> QED BY <1>3, <2>1 DEF OpToRel
<1>5. Text(f) = 0 .. n - 1
  <2>1. ASSUME NEW i \in Text(f) PROVE i \in 0 .. n - 1
    <3>1. i \in Offsets /\ i \in Nat /\ \A j \in 0 .. i : f[j] # EndMark
      BY Sizes DEF Text
    <3>2. ~(n <= i)
      BY <1>3, <3>1
    <3> QED BY <1>3, <3>1, <3>2
  <2>2. ASSUME NEW i \in 0 .. n - 1 PROVE i \in Text(f)
    <3>1. i \in Nat /\ i < n /\ i \in Offsets
      BY <1>3, Sizes
    <3>2. ASSUME NEW j \in 0 .. i PROVE f[j] # EndMark
      <4>1. j \in Offsets /\ j \in Nat /\ ~(n <= j)
        BY <1>3, <3>1, Sizes
      <4> QED BY <1>4, <4>1
    <3> QED BY <3>1, <3>2 DEF Text
  <2> HIDE DEF Text
  <2> QED BY <2>1, <2>2
<1>6. Cardinality(0 .. n - 1) = n
  BY <1>3, FS_Interval
<1> QED BY <1>3, <1>5, <1>6

-----------------------------------------------------------------------------
(* The sector buffer                                                       *)

BufType == [0 .. K - 1 -> Unit]

LEMMA ProgramUnits ==
  ASSUME NEW f \in FileType, NEW s \in Nat, NEW b \in BufType
  PROVE  /\ Program(f, s, b) \in FileType
         /\ \A i \in Offsets :
              Program(f, s, b)[i] = IF i \div K = s THEN b[i % K] ELSE f[i]
<1>1. ASSUME NEW i \in Offsets PROVE i % K \in 0 .. K - 1
  BY Sizes, OffsetParts
<1>2. ASSUME NEW i \in Offsets
      PROVE  (IF i \div K = s THEN b[i % K] ELSE f[i]) \in Unit
  BY <1>1 DEF BufType, FileType
<1> HIDE DEF Unit
<1> QED BY <1>2 DEF Program, FileType

LEMMA SectorUnits ==
  ASSUME NEW f \in FileType, NEW s \in Nat
  PROVE  /\ Sector(f, s) \in BufType
         /\ \A i \in Offsets : i \div K = s => Sector(f, s)[i % K] = f[i]
<1>1. ASSUME NEW j \in 0 .. K - 1
      PROVE  (IF s < NumSectors THEN f[s * K + j] ELSE Blank) \in Unit
  <2>1. CASE s < NumSectors
    <3>1. s * K + j \in Offsets
      BY <2>1, Sectors
    <3> QED BY <2>1, <3>1 DEF FileType
  <2>2. CASE ~(s < NumSectors)
    BY <2>2 DEF Blank, Unit
  <2> QED BY <2>1, <2>2
<1>2. Sector(f, s) \in BufType
  <2> HIDE DEF Unit
  <2> QED BY <1>1 DEF Sector, BufType
<1>3. ASSUME NEW i \in Offsets, i \div K = s
      PROVE  Sector(f, s)[i % K] = f[i]
  <2>1. i % K \in 0 .. K - 1 /\ i = s * K + (i % K)
    BY <1>3, Sizes, OffsetParts
  <2>2. PICK j \in 0 .. K - 1 : j = i % K
    BY <2>1
  <2>3. s < NumSectors
    BY <2>1, <2>2, Sectors
  <2> QED BY <2>1, <2>2, <2>3 DEF Sector
<1> QED BY <1>2, <1>3

\* Opening the buffer reads the first sector back.
LEMMA OpenBuffer ==
  ASSUME TypeInv, NEW p \in Parts, Open(p), UNCHANGED flash
  PROVE  /\ w' \in BufferType /\ w'.part = p /\ ~w'.received
         /\ w'.sector * K + w'.walker = 0
         /\ \A i \in Offsets : Shadow(i)' = flash[p][i]
<1>1. K \in Nat \ {0} /\ flash[p] \in FileType
  BY FlashAssumption DEF TypeInv
<1>2. Sector(flash[p], 0) \in BufType
      /\ \A i \in Offsets : i \div K = 0 => Sector(flash[p], 0)[i % K] = flash[p][i]
  <2>1. 0 \in Nat
    OBVIOUS
  <2> QED BY <1>1, <2>1, SectorUnits
<1>3. w' \in BufferType
  BY <1>1, <1>2 DEF Open, BufferType, BufType
<1>4. w'.part = p /\ ~w'.received /\ w'.sector = 0 /\ w'.walker = 0
      /\ w'.buf = Sector(flash[p], 0)
  BY DEF Open
<1>5. w'.sector * K + w'.walker = 0
  BY <1>1, <1>4
<1>6. ASSUME NEW i \in Offsets PROVE Shadow(i)' = flash[p][i]
  BY <1>2, <1>4 DEF Shadow
<1> QED BY <1>3, <1>4, <1>5, <1>6

\* The place of the next unit in the buffer.
LEMMA BufferPlace ==
  ASSUME w \in BufferType
  PROVE  /\ w.sector \in Nat /\ w.walker \in 0 .. K - 1 /\ w.part \in Parts
         /\ w.buf \in BufType /\ w.received \in BOOLEAN
         /\ w.sector * K + w.walker \in Nat
         /\ \A i \in Offsets : i \div K = w.sector /\ i % K = w.walker
                                 <=> i = w.sector * K + w.walker
<1>1. w.sector \in Nat /\ w.walker \in 0 .. K - 1 /\ w.part \in Parts
      /\ w.buf \in BufType /\ w.received \in BOOLEAN
  BY DEF BufferType, BufType
<1>2. w.sector * K + w.walker \in Nat
  BY <1>1, Sectors
<1>3. ASSUME NEW i \in Offsets, i \div K = w.sector, i % K = w.walker
      PROVE  i = w.sector * K + w.walker
  <2>1. i \in Nat /\ i = (i \div K) * K + (i % K)
    BY Sizes, OffsetParts
  <2> QED BY <1>3, <2>1
<1>4. ASSUME NEW i \in Offsets, i = w.sector * K + w.walker
      PROVE  i \div K = w.sector /\ i % K = w.walker
  BY <1>1, <1>4, OffsetOf
<1> QED BY <1>1, <1>2, <1>3, <1>4

\* A unit put into the buffer takes its place in the file.
LEMMA PutUnit ==
  ASSUME TypeInv, NEW u \in Unit, Put(u)
  PROVE  /\ w' \in BufferType /\ flash' \in [Parts -> FileType] /\ w'.part = w.part
         /\ w'.sector * K + w'.walker = w.sector * K + w.walker + 1
         /\ \A i \in Offsets :
              Shadow(i)' = IF i = w.sector * K + w.walker THEN u ELSE Shadow(i)
         /\ ~w'.received => \A i \in Offsets : Shadow(i)' = flash'[w.part][i]
         /\ \A p \in Parts : p # w.part => flash'[p] = flash[p]
         /\ \A i \in Offsets : i >= w'.sector * K =>
              i >= w.sector * K /\ flash'[w.part][i] = flash[w.part][i]
<1>1. K \in Nat \ {0}
  BY FlashAssumption
<1>2. w \in BufferType
  BY DEF TypeInv
<1> PICK s : s = w.sector
  OBVIOUS
<1> PICK a : a = w.sector * K + w.walker
  OBVIOUS
<1>3. /\ s \in Nat /\ w.walker \in 0 .. K - 1 /\ w.part \in Parts
      /\ w.buf \in BufType /\ w.received \in BOOLEAN /\ a \in Nat
      /\ \A i \in Offsets : i \div K = s /\ i % K = w.walker <=> i = a
  BY <1>2, BufferPlace
<1>4. Filled(u) \in BufType
      /\ \A j \in 0 .. K - 1 : Filled(u)[j] = IF j = w.walker THEN u ELSE w.buf[j]
  <2> HIDE DEF Unit
  <2> QED BY <1>3 DEF Filled, BufType
<1>5. \A i \in Offsets : i % K \in 0 .. K - 1 /\ i \div K \in Nat /\ i \in Nat
  BY Sizes, OffsetParts
<1>6. ASSUME NEW i \in Offsets, i \div K = s
      PROVE  Filled(u)[i % K] = IF i = a THEN u ELSE w.buf[i % K]
  BY <1>3, <1>4, <1>5, <1>6
<1>7. CASE w.walker < K - 1
  <2>1. w' = [w EXCEPT !.buf = Filled(u), !.walker = @ + 1, !.received = TRUE]
        /\ flash' = flash
    BY <1>7 DEF Put
  <2>2. w'.part = w.part /\ w'.sector = s /\ w'.walker = w.walker + 1
        /\ w'.buf = Filled(u) /\ w'.received = TRUE /\ w' \in BufferType
    <3>1. PICK b \in BufType : b = Filled(u)
      BY <1>4
    <3>2. PICK n \in 0 .. K - 1 : n = w.walker + 1
      BY <1>1, <1>3, <1>7
    <3>3. w' = [w EXCEPT !.buf = b, !.walker = n, !.received = TRUE]
      BY <2>1, <3>1, <3>2
    <3>4. w' \in BufferType
      <4> HIDE DEF Unit
      <4> QED BY <1>2, <3>3 DEF BufferType, BufType
    <3>5. /\ w'.part = w.part /\ w'.sector = s /\ w'.walker = n
          /\ w'.buf = b /\ w'.received = TRUE
      BY <1>2, <3>3 DEF BufferType
    <3> QED BY <3>1, <3>2, <3>4, <3>5
  <2>3. w'.sector * K + w'.walker = a + 1
    BY <1>1, <1>3, <2>2
  <2>4. ASSUME NEW i \in Offsets
        PROVE  Shadow(i)' = IF i = a THEN u ELSE Shadow(i)
    BY <1>3, <1>6, <2>1, <2>2 DEF Shadow
  <2> QED BY <2>1, <2>2, <2>3, <2>4 DEF TypeInv
<1>8. CASE ~(w.walker < K - 1)
  <2>1. flash' = [flash EXCEPT ![w.part] = Program(@, s, Filled(u))]
        /\ w' = [w EXCEPT !.sector = @ + 1, !.walker = 0, !.received = FALSE,
                          !.buf = Sector(flash[w.part], s + 1)]
    BY <1>8 DEF Put
  <2>2. flash \in [Parts -> FileType] /\ flash[w.part] \in FileType
    BY <1>3 DEF TypeInv
  <2>3. Program(flash[w.part], s, Filled(u)) \in FileType
        /\ \A i \in Offsets : Program(flash[w.part], s, Filled(u))[i]
                              = IF i \div K = s THEN Filled(u)[i % K] ELSE flash[w.part][i]
    <3>1. PICK f \in FileType : f = flash[w.part]
      BY <2>2
    <3>2. PICK b \in BufType : b = Filled(u)
      BY <1>4
    <3>3. s \in Nat
      BY <1>3
    <3>4. Program(f, s, b) \in FileType
          /\ \A i \in Offsets : Program(f, s, b)[i] = IF i \div K = s THEN b[i % K] ELSE f[i]
      BY <3>3, ProgramUnits
    <3> QED BY <3>1, <3>2, <3>4
  <2>4. flash' \in [Parts -> FileType]
        /\ flash'[w.part] = Program(flash[w.part], s, Filled(u))
        /\ \A p \in Parts : p # w.part => flash'[p] = flash[p]
    <3> HIDE DEF FileType
    <3> QED BY <1>3, <2>1, <2>2, <2>3
  <2>5. s + 1 \in Nat
    BY <1>3
  <2>6. Sector(flash[w.part], s + 1) \in BufType
        /\ \A i \in Offsets : i \div K = s + 1
             => Sector(flash[w.part], s + 1)[i % K] = flash[w.part][i]
    BY <2>2, <2>5, SectorUnits
  <2>7. w'.part = w.part /\ w'.sector = s + 1 /\ w'.walker = 0
        /\ w'.buf = Sector(flash[w.part], s + 1) /\ w'.received = FALSE
        /\ w' \in BufferType
    <3>1. PICK b \in BufType : b = Sector(flash[w.part], s + 1)
      BY <2>6
    <3>2. PICK n \in Nat : n = s + 1
      BY <1>3
    <3>3. w' = [w EXCEPT !.sector = n, !.walker = 0, !.received = FALSE, !.buf = b]
      BY <2>1, <3>1, <3>2
    <3>4. w' \in BufferType
      <4>1. 0 \in 0 .. K - 1
        BY <1>1
      <4> HIDE DEF Unit
      <4> QED BY <1>2, <3>3, <4>1 DEF BufferType, BufType
    <3>5. /\ w'.part = w.part /\ w'.sector = n /\ w'.walker = 0
          /\ w'.buf = b /\ w'.received = FALSE
      BY <1>2, <3>3 DEF BufferType
    <3> QED BY <3>1, <3>2, <3>4, <3>5
  <2>8. w.walker = K - 1 /\ w'.sector * K + w'.walker = a + 1
    BY <1>1, <1>3, <1>8, <2>7
  <2>9. ASSUME NEW i \in Offsets
        PROVE  /\ Shadow(i)' = IF i = a THEN u ELSE Shadow(i)
               /\ Shadow(i)' = flash'[w.part][i]
    <3>1. flash'[w.part][i] = IF i \div K = s THEN Filled(u)[i % K] ELSE flash[w.part][i]
      BY <2>3, <2>4
    <3>2. Shadow(i)' = IF i \div K = s + 1 THEN Sector(flash[w.part], s + 1)[i % K]
                       ELSE flash'[w.part][i]
      BY <2>7 DEF Shadow
    <3>3. Shadow(i)' = flash'[w.part][i]
      BY <1>3, <1>5, <2>6, <3>1, <3>2
    <3>4. Shadow(i) = IF i \div K = s THEN w.buf[i % K] ELSE flash[w.part][i]
      BY DEF Shadow
    <3>5. CASE i \div K = s
      BY <1>6, <3>1, <3>3, <3>4, <3>5
    <3>6. CASE i \div K # s
      <4>1. i # a
        BY <1>3, <3>6
      <4> QED BY <3>1, <3>3, <3>4, <3>6, <4>1
    <3> QED BY <3>3, <3>5, <3>6
  <2>10. ASSUME NEW i \in Offsets, i >= w'.sector * K
         PROVE  i >= s * K /\ flash'[w.part][i] = flash[w.part][i]
    <3>1. i >= s * K + K
      BY <1>1, <1>3, <2>7, <2>10
    <3>2. i \div K # s
      <4>1. i = (i \div K) * K + (i % K)
        BY <1>5, OffsetParts
      <4> QED BY <1>1, <1>3, <1>5, <3>1, <4>1
    <3>3. i >= s * K
      <4>1. s * K \in Nat
        BY <1>1, <1>3
      <4> QED BY <1>1, <1>5, <3>1, <4>1
    <3> QED BY <2>3, <2>4, <3>2, <3>3
  <2> QED BY <2>4, <2>7, <2>8, <2>9, <2>10
<1> QED BY <1>7, <1>8

\* What is left in the buffer goes to the file.
LEMMA FlushBuffer ==
  ASSUME TypeInv, Flush, ~w.received => \A i \in Offsets : Shadow(i) = flash[w.part][i]
  PROVE  /\ w' \in BufferType /\ flash' \in [Parts -> FileType]
         /\ \A i \in Offsets : flash'[w.part][i] = Shadow(i)
         /\ \A p \in Parts : p # w.part => flash'[p] = flash[p]
<1>1. w \in BufferType /\ flash \in [Parts -> FileType]
  BY DEF TypeInv
<1>2. w.sector \in Nat /\ w.part \in Parts /\ w.buf \in BufType /\ w.received \in BOOLEAN
  BY <1>1, BufferPlace
<1>3. w' \in BufferType
  BY <1>1 DEF Flush, BufferType
<1>4. Program(flash[w.part], w.sector, w.buf) \in FileType
      /\ \A i \in Offsets : Program(flash[w.part], w.sector, w.buf)[i]
           = IF i \div K = w.sector THEN w.buf[i % K] ELSE flash[w.part][i]
  BY <1>1, <1>2, ProgramUnits
<1>5. CASE w.received
  <2>1. flash' = [flash EXCEPT ![w.part] = Program(@, w.sector, w.buf)]
    BY <1>5 DEF Flush
  <2> HIDE DEF FileType
  <2> QED BY <1>1, <1>2, <1>3, <1>4, <2>1 DEF Shadow
<1>6. CASE ~w.received
  <2>1. flash' = flash
    BY <1>6 DEF Flush
  <2> QED BY <1>1, <1>3, <1>6, <2>1
<1> QED BY <1>5, <1>6

-----------------------------------------------------------------------------
(* Types                                                                   *)

LEMMA UnitsOf ==
  /\ Blank \in Unit /\ EndMark \in Unit /\ NoFile \in FileType
  /\ \A v \in Nat : File(v) \in FileType
  /\ Nothing \in Contents /\ Unknown \in Contents
  /\ [Cells -> Nat] \subseteq Contents
  /\ Default \in [Cells -> Nat]
<1>1. N \in Nat /\ Offsets \subseteq Nat
  BY Sizes
<1>2. Blank \in Unit /\ EndMark \in Unit
  BY <1>1 DEF Blank, EndMark, Unit
<1>3. NoFile \in FileType
  <2> HIDE DEF Unit
  <2> QED BY <1>2 DEF NoFile, FileType
<1>4. ASSUME NEW v \in Nat PROVE File(v) \in FileType
  <2>1. \A i \in Offsets : <<i + 1, v>> \in Unit
    BY <1>1 DEF Unit
  <2> HIDE DEF Unit
  <2> QED BY <1>2, <2>1 DEF File, FileType
<1>5. Nothing \in [{} -> Nat] /\ {} \in SUBSET (0 .. N)
  BY DEF Nothing
<1>6. Unknown \in [{0} -> Nat] /\ {0} \in SUBSET (0 .. N)
  BY <1>1 DEF Unknown
<1>7. Cells \in SUBSET (0 .. N)
  BY <1>1 DEF Cells
<1>8. Default \in [Cells -> Nat]
  BY DEF Default
<1> QED BY <1>2, <1>3, <1>4, <1>5, <1>6, <1>7, <1>8 DEF Contents

LEMMA OverType ==
  ASSUME NEW base \in [Cells -> Nat], NEW f \in FileType
  PROVE  Over(base, f) \in [Cells -> Nat]
<1>1. \A c \in DOMAIN Load(f) : Load(f)[c] \in Nat
  BY LoadedFrom
<1> HIDE DEF Load
<1> QED BY <1>1 DEF Over

LEMMA ImageType ==
  ASSUME NEW fl \in [Parts -> FileType]
  PROVE  Image(fl) \in [Cells -> Nat]
<1>1. fl["factory"] \in FileType /\ fl["startup"] \in FileType
  BY DEF Parts
<1>2. Over(Default, fl["factory"]) \in [Cells -> Nat]
  BY <1>1, UnitsOf, OverType
<1>3. Over(Over(Default, fl["factory"]), fl["startup"]) \in [Cells -> Nat]
  BY <1>1, <1>2, OverType
<1> QED BY <1>3 DEF Image

-----------------------------------------------------------------------------
(* The invariant after a step                                              *)

\* An idle task has nothing to answer for.
LEMMA IdleHolds ==
  ASSUME NEW u \in Writers, job'[u] = Idle
  PROVE  Buffered(u)' /\ Saved(u)' /\ Cleared(u)' /\ Copies(u)'
BY DEF Buffered, Saved, Cleared, Copies, Saves, Clears, Idle

LEMMA OthersIdle ==
  ASSUME OneJob, NEW t \in Writers, job[t] # Idle
  PROVE  \A u \in Writers : u # t => job[u] = Idle
BY DEF OneJob

LEMMA NoneBusy ==
  ASSUME TypeInv', SavedIsLoaded', \A u \in Writers : job'[u] = Idle
  PROVE  SavedIInv'
<1>1. OneJob'
  BY DEF OneJob
<1>2. \A u \in Writers : Buffered(u)' /\ Saved(u)' /\ Cleared(u)' /\ Copies(u)'
  BY IdleHolds
<1> QED BY <1>1, <1>2 DEF SavedIInv

LEMMA OneBusy ==
  ASSUME TypeInv', OneJob', SavedIsLoaded', NEW t \in Writers,
         \A u \in Writers : u # t => job'[u] = Idle,
         Buffered(t)' /\ Saved(t)' /\ Cleared(t)' /\ Copies(t)'
  PROVE  SavedIInv'
<1>1. ASSUME NEW u \in Writers
      PROVE  Buffered(u)' /\ Saved(u)' /\ Cleared(u)' /\ Copies(u)'
  <2>1. CASE u = t
    BY <2>1
  <2>2. CASE u # t
    <3>1. job'[u] = Idle
      BY <2>2
    <3> QED BY <3>1, IdleHolds
  <2> QED BY <2>1, <2>2
<1> QED BY <1>1 DEF SavedIInv

\* The partition that a step does not write holds what it held.
LEMMA OtherPart ==
  ASSUME SavedIsLoaded, NEW p \in Parts,
         \A q \in Parts : q # p => flash'[q] = flash[q] /\ saved'[q] = saved[q],
         saved'[p] # Unknown => Load(flash'[p]) = saved'[p]
  PROVE  SavedIsLoaded'
BY Zenon DEF SavedIsLoaded

LEMMA BeginStep ==
  ASSUME Alone, TypeInv, OneJob, SavedIsLoaded, NEW t \in Writers, NEW op \in Ops \ {"idle"},
         NEW p \in Parts, NEW new \in Contents, Begin(t, op, p, new), flash' = flash
  PROVE  /\ job' \in [Writers -> JobType] /\ saved' \in [Parts -> Contents]
         /\ last' \in [new : Contents, found : FileType]
         /\ OneJob' /\ SavedIsLoaded'
         /\ job'[t] = [op |-> op, part |-> p, at |-> 0, new |-> new]
         /\ \A u \in Writers : u # t => job'[u] = Idle
         /\ \A q \in Parts : q # p => saved'[q] = saved[q]
<1>1. /\ job \in [Writers -> JobType] /\ saved \in [Parts -> Contents]
      /\ flash \in [Parts -> FileType]
  BY DEF TypeInv
<1>2. \A u \in Writers : job[u] = Idle
  BY DEF Begin
<1>3. /\ job' = [job EXCEPT ![t] = [op |-> op, part |-> p, at |-> 0, new |-> new]]
      /\ saved' = [saved EXCEPT ![p] = Unknown]
      /\ last' = IF op = "save" /\ p = "startup"
                 THEN [new |-> new, found |-> flash["startup"]] ELSE NoSave
  BY DEF Begin
<1>4. [op |-> op, part |-> p, at |-> 0, new |-> new] \in JobType
  BY DEF JobType
<1>5. job' \in [Writers -> JobType]
  BY <1>1, <1>3, <1>4
<1>6. saved' \in [Parts -> Contents] /\ saved'[p] = Unknown
      /\ \A q \in Parts : q # p => saved'[q] = saved[q]
  <2> HIDE DEF Contents
  <2> QED BY <1>1, <1>3, UnitsOf
<1>7. last' \in [new : Contents, found : FileType]
  <2>1. flash["startup"] \in FileType
    BY <1>1 DEF Parts
  <2> HIDE DEF Contents, FileType
  <2> QED BY <1>3, <2>1, UnitsOf DEF NoSave
<1>8. job'[t] = [op |-> op, part |-> p, at |-> 0, new |-> new]
      /\ \A u \in Writers : u # t => job'[u] = Idle
  BY <1>1, <1>2, <1>3
<1>9. OneJob'
  <2>1. \A u \in Writers : job'[u] # Idle => u = t
    BY <1>8
  <2>2. job'[t].op # "idle" /\ job'[t].part = p
    BY <1>8
  <2>3. Idle.op = "idle"
    BY DEF Idle
  <2>4. ASSUME NEW u \in Writers
        PROVE  /\ job'[u].op = "idle" => job'[u] = Idle
               /\ job'[u] # Idle => saved'[job'[u].part] = Unknown
    BY <1>6, <1>8, <2>2
  <2> QED BY <2>1, <2>4 DEF OneJob
<1>10. SavedIsLoaded'
  BY <1>6, OtherPart
<1> QED BY <1>5, <1>6, <1>7, <1>8, <1>9, <1>10

LEMMA StepStep ==
  ASSUME TypeInv, OneJob, NEW t \in Writers, job[t] # Idle, NEW op \in Ops \ {"idle"},
         Step(t, op), saved' = saved
  PROVE  /\ job' \in [Writers -> JobType] /\ OneJob'
         /\ job'[t].op = op /\ job'[t].part = job[t].part
         /\ job'[t].at = job[t].at + 1 /\ job'[t].new = job[t].new
         /\ \A u \in Writers : u # t => job'[u] = Idle
         /\ saved'[job[t].part] = Unknown
<1>1. job \in [Writers -> JobType] /\ job[t] \in JobType
  BY DEF TypeInv
<1>2. job' = [job EXCEPT ![t] = [job[t] EXCEPT !.op = op, !.at = @ + 1]]
  BY <1>1 DEF Step
<1>3. [job[t] EXCEPT !.op = op, !.at = @ + 1] \in JobType
  <2>1. PICK j \in JobType : j = job[t]
    BY <1>1
  <2>2. j.at + 1 \in Nat
    BY <2>1 DEF JobType
  <2>3. [j EXCEPT !.op = op, !.at = @ + 1] \in JobType
    <3> HIDE DEF Contents
    <3> QED BY <2>2 DEF JobType
  <2> QED BY <2>1, <2>3
<1>4. job' \in [Writers -> JobType]
  BY <1>1, <1>2, <1>3
<1>5. job'[t] = [job[t] EXCEPT !.op = op, !.at = @ + 1]
      /\ \A u \in Writers : u # t => job'[u] = job[u]
  BY <1>1, <1>2
<1>6. job'[t].op = op /\ job'[t].part = job[t].part
      /\ job'[t].at = job[t].at + 1 /\ job'[t].new = job[t].new
  BY <1>1, <1>5 DEF JobType
<1>7. \A u \in Writers : u # t => job'[u] = Idle
  BY <1>5, OthersIdle
<1>8. saved'[job[t].part] = Unknown
  BY DEF OneJob
<1>9. OneJob'
  <2>1. job'[t].op # "idle"
    BY <1>6
  <2>2. ASSUME NEW u \in Writers
        PROVE  /\ job'[u].op = "idle" => job'[u] = Idle
               /\ job'[u] # Idle => saved'[job'[u].part] = Unknown
    BY <1>6, <1>7, <1>8, <2>1
  <2> QED BY <1>7, <2>2 DEF OneJob
<1> QED BY <1>4, <1>6, <1>7, <1>8, <1>9

LEMMA FinishStep ==
  ASSUME TypeInv, OneJob, SavedIsLoaded, NEW t \in Writers, job[t] # Idle, Finish(t),
         w' \in BufferType, flash' \in [Parts -> FileType],
         \A q \in Parts : q # job[t].part => flash'[q] = flash[q],
         job[t].new # Unknown => Load(flash'[job[t].part]) = job[t].new
  PROVE  SavedIInv'
<1>1. /\ job \in [Writers -> JobType] /\ job[t] \in JobType
      /\ saved \in [Parts -> Contents]
  BY DEF TypeInv
<1>2. job' = [job EXCEPT ![t] = Idle] /\ saved' = [saved EXCEPT ![job[t].part] = job[t].new]
      /\ last' = NoSave /\ data' = data /\ gen' = gen /\ temp' = temp
  BY DEF Finish
<1>3. job[t].part \in Parts /\ job[t].new \in Contents
  BY <1>1 DEF JobType
<1>4. \A u \in Writers : job'[u] = Idle
  BY <1>1, <1>2, OthersIdle
<1>5. Idle \in JobType
  <2> HIDE DEF Contents
  <2> QED BY UnitsOf DEF Idle, JobType, Ops, Parts
<1>6. saved' \in [Parts -> Contents] /\ saved'[job[t].part] = job[t].new
      /\ \A q \in Parts : q # job[t].part => saved'[q] = saved[q]
  <2> HIDE DEF Contents
  <2> QED BY <1>1, <1>2, <1>3
<1>7. job' \in [Writers -> JobType]
  BY <1>1, <1>2, <1>5
<1>8. last' \in [new : Contents, found : FileType]
  <2> HIDE DEF Contents, FileType
  <2> QED BY <1>2, UnitsOf DEF NoSave
<1>9. TypeInv'
  BY <1>2, <1>6, <1>7, <1>8 DEF TypeInv
<1>10. SavedIsLoaded'
  <2>1. saved'[job[t].part] # Unknown => Load(flash'[job[t].part]) = saved'[job[t].part]
    BY <1>6
  <2>2. \A q \in Parts : q # job[t].part => flash'[q] = flash[q] /\ saved'[q] = saved[q]
    BY <1>6
  <2> QED BY <1>3, <2>1, <2>2, OtherPart
<1> QED BY <1>4, <1>9, <1>10, NoneBusy

-----------------------------------------------------------------------------
(* The steps of the operations                                             *)

\* An update of a table finds no save under way.
LEMMA ChangeKeeps ==
  ASSUME SavedIInv, NEW n \in 1 .. NumTables, Change(n)
  PROVE  SavedIInv'
<1>1. mutex = Nobody /\ gen' = gen + 1
      /\ data' = [c \in Cells |-> IF Table(c) = n THEN gen + 4 ELSE data[c]]
      /\ UNCHANGED <<flash, temp, w, mutex, job, ops, saved, last>>
  BY DEF Change
<1>2. TypeInv'
  <2>1. data \in [Cells -> Nat] /\ gen \in Nat
    BY DEF SavedIInv, TypeInv
  <2>2. data' \in [Cells -> Nat] /\ gen' \in Nat
    BY <1>1, <2>1
  <2> QED BY <1>1, <2>2 DEF SavedIInv, TypeInv
<1>3. OneJob' /\ SavedIsLoaded'
  BY <1>1 DEF SavedIInv, OneJob, SavedIsLoaded
<1>4. ASSUME NEW t \in Writers
      PROVE  Buffered(t)' /\ Saved(t)' /\ Cleared(t)' /\ Copies(t)'
  <2>1. Buffered(t) /\ Saved(t) /\ Cleared(t) /\ Copies(t)
    BY DEF SavedIInv
  <2>2. mutex # t
    BY <1>1, FlashAssumption
  <2>3. \A i : Shadow(i)' = Shadow(i)
    BY <1>1 DEF Shadow
  <2>4. (Saves(t)' <=> Saves(t)) /\ (Clears(t)' <=> Clears(t)) /\ Size(t)' = Size(t)
    BY <1>1 DEF Saves, Clears, Size
  <2>5. Buffered(t)'
    BY <1>1, <2>1, <2>3, <2>4 DEF Buffered
  <2>6. Saved(t)'
    BY <1>1, <2>1, <2>2, <2>3, <2>4 DEF Saved
  <2>7. Cleared(t)'
    BY <1>1, <2>1, <2>3, <2>4 DEF Cleared
  <2>8. Copies(t)'
    BY <1>1, <2>1, <2>4 DEF Copies
  <2> QED BY <2>5, <2>6, <2>7, <2>8
<1> QED BY <1>2, <1>3, <1>4 DEF SavedIInv

LEMMA SaveKeeps ==
  ASSUME Alone, SavedIInv, NEW t \in Writers, NEW p \in Parts, Save(t, p)
  PROVE  SavedIInv'
<1>1. mutex' = t /\ Begin(t, "save", p, data) /\ Open(p)
      /\ UNCHANGED <<data, gen, flash, temp>>
  BY DEF Save
<1>2. data \in Contents /\ data \in [Cells -> Nat] /\ "save" \in Ops \ {"idle"}
  BY UnitsOf DEF SavedIInv, TypeInv, Ops
<1>3. /\ job' \in [Writers -> JobType] /\ saved' \in [Parts -> Contents]
      /\ last' \in [new : Contents, found : FileType]
      /\ OneJob' /\ SavedIsLoaded'
      /\ job'[t] = [op |-> "save", part |-> p, at |-> 0, new |-> data]
      /\ \A u \in Writers : u # t => job'[u] = Idle
  <2>1. TypeInv /\ OneJob /\ SavedIsLoaded
    BY DEF SavedIInv
  <2> QED BY <1>1, <1>2, <2>1, BeginStep
<1>4. /\ w' \in BufferType /\ w'.part = p /\ ~w'.received
      /\ w'.sector * K + w'.walker = 0
      /\ \A i \in Offsets : Shadow(i)' = flash[p][i]
  BY <1>1, OpenBuffer DEF SavedIInv
<1>5. TypeInv'
  BY <1>1, <1>3, <1>4 DEF SavedIInv, TypeInv
<1>6. Buffered(t)'
  BY <1>1, <1>3, <1>4 DEF Buffered
<1>7. Saved(t)'
  <2>1. job'[t].op = "save" /\ job'[t].at = 0 /\ job'[t].new = data
    BY <1>3
  <2>2. \A i \in Offsets : ~(i < 0)
    BY Sizes
  <2>3. 0 < N
    BY Sizes
  <2> QED BY <1>1, <1>2, <2>1, <2>2, <2>3 DEF Saved
<1>8. Cleared(t)' /\ Copies(t)'
  BY <1>3 DEF Cleared, Copies, Clears
<1> QED BY <1>3, <1>5, <1>6, <1>7, <1>8, OneBusy

\* What a save writes next.
LEMMA NextInSave ==
  ASSUME SavedIInv, NEW t \in Writers, job[t].op \in {"save", "mark"}
  PROVE  NextUnit(t) = Target(job[t].new, job[t].at) /\ NextUnit(t) \in Unit
<1>1. TypeInv /\ Saved(t) /\ Saves(t)
  BY DEF SavedIInv, Saves
<1>2. job[t].new \in [Cells -> Nat] /\ job[t].at \in Nat
  BY <1>1 DEF Saved, TypeInv, JobType
<1>3. CASE job[t].op = "save"
  <2>1. job[t].at < N /\ data = job[t].new
        /\ NextUnit(t) = <<job[t].at + 1, data[job[t].at + 1]>>
    BY <1>1, <1>3 DEF Saved, NextUnit
  <2>2. job[t].at + 1 \in Cells
    BY <1>2, <2>1, Sizes DEF Cells
  <2>3. data[job[t].at + 1] \in Nat
    BY <1>2, <2>1, <2>2
  <2> QED BY <1>2, <2>1, <2>3 DEF Target, Unit
<1>4. CASE job[t].op = "mark"
  <2>1. NextUnit(t) = EndMark /\ job[t].at = N
    BY <1>1, <1>4 DEF Saved, NextUnit
  <2>2. ~(N < N)
    BY Sizes
  <2> QED BY <2>1, <2>2, UnitsOf DEF Target
<1> QED BY <1>3, <1>4

\* What a save has behind it stays, and the next unit is what it has to be.
LEMMA PutTarget ==
  ASSUME SavedIInv, NEW t \in Writers, Saves(t), NEW u \in Unit, Put(u),
         u = Target(job[t].new, job[t].at)
  PROVE  /\ w' \in BufferType /\ flash' \in [Parts -> FileType] /\ w'.part = job[t].part
         /\ w'.sector * K + w'.walker = job[t].at + 1
         /\ ~w'.received => \A i \in Offsets : Shadow(i)' = flash'[w'.part][i]
         /\ \A p \in Parts : p # job[t].part => flash'[p] = flash[p]
         /\ \A i \in Offsets : i < job[t].at + 1 => Shadow(i)' = Target(job[t].new, i)
<1>1. TypeInv /\ Buffered(t) /\ Saved(t)
  BY DEF SavedIInv
<1>2. w.part = job[t].part /\ w.sector * K + w.walker = job[t].at /\ job[t].at \in Nat
  BY <1>1 DEF Buffered, TypeInv, JobType
<1>3. /\ w' \in BufferType /\ flash' \in [Parts -> FileType] /\ w'.part = w.part
      /\ w'.sector * K + w'.walker = w.sector * K + w.walker + 1
      /\ \A i \in Offsets :
           Shadow(i)' = IF i = w.sector * K + w.walker THEN u ELSE Shadow(i)
      /\ ~w'.received => \A i \in Offsets : Shadow(i)' = flash'[w.part][i]
      /\ \A p \in Parts : p # w.part => flash'[p] = flash[p]
  BY <1>1, PutUnit
<1>4. ASSUME NEW i \in Offsets, i < job[t].at + 1
      PROVE  Shadow(i)' = Target(job[t].new, i)
  <2>1. i = job[t].at \/ i < job[t].at
    BY <1>2, <1>4, Sizes
  <2>2. CASE i = job[t].at
    BY <1>2, <1>3, <2>2
  <2>3. CASE i < job[t].at
    <3>1. i # w.sector * K + w.walker
      BY <1>2, <2>3, Sizes
    <3>2. Shadow(i) = Target(job[t].new, i)
      BY <1>1, <2>3 DEF Saved
    <3> QED BY <1>3, <3>1, <3>2
  <2> QED BY <2>1, <2>2, <2>3
<1>5. w'.sector * K + w'.walker = job[t].at + 1
  BY <1>2, <1>3
<1> QED BY <1>2, <1>3, <1>4, <1>5

LEMMA SaveFieldKeeps ==
  ASSUME SavedIInv, NEW t \in Writers, SaveField(t)
  PROVE  SavedIInv'
<1>1. /\ job[t].op = "save" /\ Put(NextUnit(t))
      /\ UNCHANGED <<data, gen, temp, ops, saved, last>>
  BY DEF SaveField
<1>2. Saves(t) /\ TypeInv /\ OneJob /\ Saved(t) /\ Idle.op = "idle" /\ SavedIsLoaded
  BY <1>1 DEF SavedIInv, Saves, Idle
<1>3. /\ job[t].new \in [Cells -> Nat] /\ job[t].at < N /\ mutex = t /\ data = job[t].new
      /\ job[t].at \in Nat /\ job[t].part \in Parts
  BY <1>1, <1>2 DEF Saved, TypeInv, JobType
<1>4. job[t] # Idle
  BY <1>1, <1>2
<1>5. NextUnit(t) = Target(job[t].new, job[t].at) /\ NextUnit(t) \in Unit
  BY <1>1, NextInSave
<1>6. /\ w' \in BufferType /\ flash' \in [Parts -> FileType] /\ w'.part = job[t].part
      /\ w'.sector * K + w'.walker = job[t].at + 1
      /\ ~w'.received => \A i \in Offsets : Shadow(i)' = flash'[w'.part][i]
      /\ \A p \in Parts : p # job[t].part => flash'[p] = flash[p]
      /\ \A i \in Offsets : i < job[t].at + 1 => Shadow(i)' = Target(job[t].new, i)
  BY <1>1, <1>2, <1>5, PutTarget
<1>7. PICK op \in {"save", "mark"} :
        /\ Step(t, op)
        /\ op = "save" => job[t].at + 1 < N /\ mutex' = mutex
        /\ op = "mark" => ~(job[t].at + 1 < N)
  BY DEF SaveField
<1>8. /\ job' \in [Writers -> JobType] /\ OneJob'
      /\ job'[t].op = op /\ job'[t].part = job[t].part
      /\ job'[t].at = job[t].at + 1 /\ job'[t].new = job[t].new
      /\ \A u \in Writers : u # t => job'[u] = Idle
      /\ saved'[job[t].part] = Unknown
  <2>1. op \in Ops \ {"idle"}
    BY DEF Ops
  <2>2. saved' = saved
    BY <1>1
  <2> QED BY <1>2, <1>4, <1>7, <2>1, <2>2, StepStep
<1>9. TypeInv'
  BY <1>1, <1>2, <1>6, <1>8 DEF TypeInv
<1>10. SavedIsLoaded'
  BY <1>1, <1>2, <1>3, <1>6, <1>8, OtherPart
<1>11. Buffered(t)'
  BY <1>6, <1>8 DEF Buffered
<1>12. Saved(t)'
  <2>1. op = "mark" => job'[t].at = N
    BY <1>3, <1>7, <1>8, Sizes
  <2> QED BY <1>1, <1>3, <1>6, <1>7, <1>8, <2>1 DEF Saved
<1>13. Cleared(t)' /\ Copies(t)'
  BY <1>8 DEF Cleared, Clears, Copies
<1> QED BY <1>8, <1>9, <1>10, <1>11, <1>12, <1>13, OneBusy

LEMMA SaveMarkKeeps ==
  ASSUME SavedIInv, NEW t \in Writers, SaveMark(t)
  PROVE  SavedIInv'
<1>1. /\ job[t].op = "mark" /\ Put(NextUnit(t)) /\ Step(t, "end")
      /\ UNCHANGED <<data, gen, temp, mutex, ops, saved, last>>
  BY DEF SaveMark
<1>2. Saves(t) /\ TypeInv /\ OneJob /\ Saved(t) /\ Idle.op = "idle" /\ SavedIsLoaded
  BY <1>1 DEF SavedIInv, Saves, Idle
<1>3. job[t].new \in [Cells -> Nat] /\ job[t].at = N /\ job[t].part \in Parts
  BY <1>1, <1>2 DEF Saved, TypeInv, JobType
<1>4. job[t] # Idle /\ saved' = saved /\ "end" \in Ops \ {"idle"}
  BY <1>1, <1>2 DEF Ops
<1>5. NextUnit(t) = Target(job[t].new, job[t].at) /\ NextUnit(t) \in Unit
  BY <1>1, NextInSave
<1>6. /\ w' \in BufferType /\ flash' \in [Parts -> FileType] /\ w'.part = job[t].part
      /\ w'.sector * K + w'.walker = job[t].at + 1
      /\ ~w'.received => \A i \in Offsets : Shadow(i)' = flash'[w'.part][i]
      /\ \A p \in Parts : p # job[t].part => flash'[p] = flash[p]
      /\ \A i \in Offsets : i < job[t].at + 1 => Shadow(i)' = Target(job[t].new, i)
  BY <1>1, <1>2, <1>5, PutTarget
<1>7. /\ job' \in [Writers -> JobType] /\ OneJob'
      /\ job'[t].op = "end" /\ job'[t].part = job[t].part
      /\ job'[t].at = job[t].at + 1 /\ job'[t].new = job[t].new
      /\ \A u \in Writers : u # t => job'[u] = Idle
      /\ saved'[job[t].part] = Unknown
  BY <1>1, <1>2, <1>4, StepStep
<1>8. TypeInv'
  BY <1>1, <1>2, <1>6, <1>7 DEF TypeInv
<1>9. SavedIsLoaded'
  BY <1>1, <1>2, <1>3, <1>6, <1>7, OtherPart
<1>10. Buffered(t)'
  BY <1>6, <1>7 DEF Buffered
<1>11. Saved(t)'
  BY <1>3, <1>6, <1>7 DEF Saved
<1>12. Cleared(t)' /\ Copies(t)'
  BY <1>7 DEF Cleared, Clears, Copies
<1> QED BY <1>7, <1>8, <1>9, <1>10, <1>11, <1>12, OneBusy

\* The file that a save ends holds all its units.
LEMMA SaveEndKeeps ==
  ASSUME SavedIInv, NEW t \in Writers, SaveEnd(t)
  PROVE  SavedIInv'
<1>1. job[t].op = "end" /\ Flush /\ Finish(t)
  BY DEF SaveEnd
<1>2. /\ Saves(t) /\ TypeInv /\ OneJob /\ Saved(t) /\ Buffered(t) /\ Idle.op = "idle"
      /\ SavedIsLoaded
  BY <1>1 DEF SavedIInv, Saves, Idle
<1>3. /\ job[t].new \in [Cells -> Nat] /\ job[t].at = N + 1 /\ job[t].part \in Parts
      /\ w.part = job[t].part
      /\ ~w.received => \A i \in Offsets : Shadow(i) = flash[w.part][i]
      /\ \A i \in Offsets : i < N + 1 => Shadow(i) = Target(job[t].new, i)
  BY <1>1, <1>2 DEF Saved, Buffered, TypeInv, JobType
<1>4. /\ w' \in BufferType /\ flash' \in [Parts -> FileType]
      /\ \A i \in Offsets : flash'[w.part][i] = Shadow(i)
      /\ \A p \in Parts : p # w.part => flash'[p] = flash[p]
  BY <1>1, <1>2, <1>3, FlushBuffer
<1>5. Load(flash'[job[t].part]) = job[t].new
  <2>1. flash'[job[t].part] \in FileType
    BY <1>3, <1>4
  <2>2. \A i \in Offsets : i < N + 1 => flash'[job[t].part][i] = Target(job[t].new, i)
    BY <1>3, <1>4
  <2>3. PICK f \in FileType : f = flash'[job[t].part]
    BY <2>1
  <2>4. PICK d \in [Cells -> Nat] : d = job[t].new
    BY <1>3
  <2>5. \A i \in Offsets : i < N + 1 => f[i] = Target(d, i)
    BY <2>2, <2>3, <2>4
  <2>6. Load(f) = d
    BY <2>5, LoadOfSaved
  <2> QED BY <2>3, <2>4, <2>6
<1>6. job[t] # Idle
  BY <1>1, <1>2
<1>7. \A q \in Parts : q # job[t].part => flash'[q] = flash[q]
  BY <1>3, <1>4
<1> QED BY <1>1, <1>2, <1>4, <1>5, <1>6, <1>7, FinishStep

LEMMA ClearKeeps ==
  ASSUME Alone, SavedIInv, NEW t \in Writers, NEW p \in Parts, Clear(t, p)
  PROVE  SavedIInv'
<1>1. Begin(t, "clear", p, Nothing) /\ Open(p) /\ UNCHANGED <<data, gen, flash, temp>>
  BY DEF Clear
<1>2. Nothing \in Contents /\ "clear" \in Ops \ {"idle"} /\ TypeInv /\ OneJob /\ SavedIsLoaded
  BY UnitsOf DEF SavedIInv, Ops
<1>3. /\ job' \in [Writers -> JobType] /\ saved' \in [Parts -> Contents]
      /\ last' \in [new : Contents, found : FileType]
      /\ OneJob' /\ SavedIsLoaded'
      /\ job'[t] = [op |-> "clear", part |-> p, at |-> 0, new |-> Nothing]
      /\ \A u \in Writers : u # t => job'[u] = Idle
  BY <1>1, <1>2, BeginStep
<1>4. /\ w' \in BufferType /\ w'.part = p /\ ~w'.received
      /\ w'.sector * K + w'.walker = 0
      /\ \A i \in Offsets : Shadow(i)' = flash[p][i]
  BY <1>1, <1>2, OpenBuffer
<1>5. TypeInv'
  BY <1>1, <1>2, <1>3, <1>4 DEF TypeInv
<1>6. Buffered(t)'
  BY <1>1, <1>3, <1>4 DEF Buffered
<1>7. Saved(t)' /\ Cleared(t)' /\ Copies(t)'
  BY <1>3 DEF Saved, Saves, Cleared, Copies
<1> QED BY <1>3, <1>5, <1>6, <1>7, OneBusy

LEMMA ClearWriteKeeps ==
  ASSUME SavedIInv, NEW t \in Writers, ClearWrite(t)
  PROVE  SavedIInv'
<1>1. /\ job[t].op = "clear" /\ Put(NextUnit(t)) /\ Step(t, "cleared")
      /\ UNCHANGED <<data, gen, temp, mutex, ops, saved, last>>
  BY DEF ClearWrite
<1>2. /\ Clears(t) /\ TypeInv /\ OneJob /\ Cleared(t) /\ Buffered(t) /\ Idle.op = "idle"
      /\ SavedIsLoaded
  BY <1>1 DEF SavedIInv, Clears, Idle
<1>3. job[t].new = Nothing /\ job[t].at = 0 /\ job[t].part \in Parts
      /\ w.part = job[t].part /\ w.sector * K + w.walker = 0
  BY <1>1, <1>2 DEF Cleared, Buffered, TypeInv, JobType
<1>4. job[t] # Idle /\ saved' = saved /\ "cleared" \in Ops \ {"idle"}
  BY <1>1, <1>2 DEF Ops
<1>5. NextUnit(t) = Blank /\ NextUnit(t) \in Unit
  BY <1>1, UnitsOf DEF NextUnit
<1>6. /\ w' \in BufferType /\ flash' \in [Parts -> FileType] /\ w'.part = w.part
      /\ w'.sector * K + w'.walker = w.sector * K + w.walker + 1
      /\ \A i \in Offsets :
           Shadow(i)' = IF i = w.sector * K + w.walker THEN Blank ELSE Shadow(i)
      /\ ~w'.received => \A i \in Offsets : Shadow(i)' = flash'[w.part][i]
      /\ \A p \in Parts : p # w.part => flash'[p] = flash[p]
  <2>1. Put(Blank) /\ Blank \in Unit
    BY <1>1, <1>5
  <2> QED BY <1>2, <2>1, PutUnit
<1>7. /\ job' \in [Writers -> JobType] /\ OneJob'
      /\ job'[t].op = "cleared" /\ job'[t].part = job[t].part
      /\ job'[t].at = job[t].at + 1 /\ job'[t].new = job[t].new
      /\ \A u \in Writers : u # t => job'[u] = Idle
      /\ saved'[job[t].part] = Unknown
  BY <1>1, <1>2, <1>4, StepStep
<1>8. TypeInv'
  BY <1>1, <1>2, <1>6, <1>7 DEF TypeInv
<1>9. SavedIsLoaded'
  BY <1>1, <1>2, <1>3, <1>6, <1>7, OtherPart
<1>10. Buffered(t)'
  BY <1>3, <1>6, <1>7 DEF Buffered
<1>11. Cleared(t)'
  <2>1. job'[t].at = 1 /\ Shadow(0)' = Blank
    BY <1>3, <1>6, <1>7, Sizes
  <2> QED BY <1>3, <1>7, <2>1 DEF Cleared
<1>12. Saved(t)' /\ Copies(t)'
  BY <1>7 DEF Saved, Saves, Copies
<1> QED BY <1>7, <1>8, <1>9, <1>10, <1>11, <1>12, OneBusy

LEMMA ClearEndKeeps ==
  ASSUME SavedIInv, NEW t \in Writers, ClearEnd(t)
  PROVE  SavedIInv'
<1>1. job[t].op = "cleared" /\ Flush /\ Finish(t)
  BY DEF ClearEnd
<1>2. /\ Clears(t) /\ TypeInv /\ OneJob /\ Cleared(t) /\ Buffered(t) /\ Idle.op = "idle"
      /\ SavedIsLoaded
  BY <1>1 DEF SavedIInv, Clears, Idle
<1>3. /\ job[t].new = Nothing /\ Shadow(0) = Blank /\ w.part = job[t].part
      /\ ~w.received => \A i \in Offsets : Shadow(i) = flash[w.part][i]
  BY <1>1, <1>2 DEF Cleared, Buffered
<1>4. /\ w' \in BufferType /\ flash' \in [Parts -> FileType]
      /\ \A i \in Offsets : flash'[w.part][i] = Shadow(i)
      /\ \A p \in Parts : p # w.part => flash'[p] = flash[p]
  BY <1>1, <1>2, <1>3, FlushBuffer
<1>5. flash'[job[t].part][0] = Blank
  BY <1>3, <1>4, Sizes
<1>6. Load(flash'[job[t].part]) = job[t].new
  BY <1>3, <1>5, LoadOfBlank
<1>7. job[t] # Idle
  BY <1>1, <1>2
<1>8. \A q \in Parts : q # job[t].part => flash'[q] = flash[q]
  BY <1>3, <1>4
<1> QED BY <1>1, <1>2, <1>4, <1>6, <1>7, <1>8, FinishStep

LEMMA ResetKeeps ==
  ASSUME Alone, SavedIInv, Reset
  PROVE  SavedIInv'
<1>1. Begin("db", "reset", "startup", saved["factory"])
      /\ UNCHANGED <<data, gen, flash, temp, w, mutex>>
  BY DEF Reset
<1>2. /\ "db" \in Writers /\ "reset" \in Ops \ {"idle"} /\ "startup" \in Parts
      /\ "factory" \in Parts /\ saved["factory"] \in Contents
      /\ TypeInv /\ OneJob /\ SavedIsLoaded
  BY DEF SavedIInv, TypeInv, Writers, Ops, Parts
<1>3. /\ job' \in [Writers -> JobType] /\ saved' \in [Parts -> Contents]
      /\ last' \in [new : Contents, found : FileType]
      /\ OneJob' /\ SavedIsLoaded'
      /\ job'["db"] = [op |-> "reset", part |-> "startup", at |-> 0, new |-> saved["factory"]]
      /\ \A u \in Writers : u # "db" => job'[u] = Idle
      /\ \A q \in Parts : q # "startup" => saved'[q] = saved[q]
  BY <1>1, <1>2, BeginStep
<1>4. TypeInv'
  BY <1>1, <1>2, <1>3 DEF TypeInv
<1>5. Buffered("db")' /\ Saved("db")' /\ Cleared("db")'
  BY <1>3 DEF Buffered, Saved, Cleared, Saves, Clears
<1>6. Copies("db")'
  <2>1. \A i \in Offsets : ~(i < 0 * K)
    BY FlashAssumption, Sizes
  <2>2. saved'["factory"] = saved["factory"]
    BY <1>2, <1>3
  <2> QED BY <1>3, <2>1, <2>2 DEF Copies
<1> QED BY <1>2, <1>3, <1>4, <1>5, <1>6, OneBusy

LEMMA RestoreKeeps ==
  ASSUME Alone, SavedIInv, NEW t \in Writers, Restore(t)
  PROVE  SavedIInv'
<1>1. Text(temp) # Offsets /\ Begin(t, "restore", "startup", Load(temp))
      /\ UNCHANGED <<data, gen, flash, temp, w, mutex>>
  BY DEF Restore
<1>2. /\ "restore" \in Ops \ {"idle"} /\ "startup" \in Parts
      /\ temp \in FileType /\ TypeInv /\ OneJob /\ SavedIsLoaded
  BY DEF SavedIInv, TypeInv, Ops, Parts
<1>3. Load(temp) \in Contents
  BY <1>2, LoadType
<1>4. /\ job' \in [Writers -> JobType] /\ saved' \in [Parts -> Contents]
      /\ last' \in [new : Contents, found : FileType]
      /\ OneJob' /\ SavedIsLoaded'
      /\ job'[t] = [op |-> "restore", part |-> "startup", at |-> 0, new |-> Load(temp)]
      /\ \A u \in Writers : u # t => job'[u] = Idle
  BY <1>1, <1>2, <1>3, BeginStep
<1>5. TypeInv'
  BY <1>1, <1>2, <1>4 DEF TypeInv
<1>6. Buffered(t)' /\ Saved(t)' /\ Cleared(t)'
  BY <1>4 DEF Buffered, Saved, Cleared, Saves, Clears
<1>7. Copies(t)'
  <2>1. \A i \in Offsets : ~(i < 0 * K)
    BY FlashAssumption, Sizes
  <2> QED BY <1>1, <1>4, <2>1 DEF Copies
<1> QED BY <1>4, <1>5, <1>6, <1>7, OneBusy

\* The sector that a copy writes.
LEMMA CopiedUnits ==
  ASSUME SavedIInv, NEW t \in Writers, job[t].op \in {"reset", "restore"},
         job[t].at * K < Size(t)
  PROVE  /\ Copied(t) \in BufType /\ Source(t) \in FileType
         /\ \A i \in Offsets : i \div K = job[t].at =>
              Copied(t)[i % K] = IF i < Size(t) THEN Source(t)[i] ELSE flash["startup"][i]
<1>1. TypeInv /\ Copies(t) /\ temp \in FileType
  BY DEF SavedIInv, TypeInv
<1>2. job[t].at \in Nat /\ job[t].part = "startup"
      /\ flash["startup"] \in FileType /\ flash["factory"] \in FileType
  BY <1>1 DEF Copies, TypeInv, JobType, Parts
<1>3. Source(t) \in FileType
  BY <1>1, <1>2 DEF Source
<1>4. Size(t) \in Nat /\ Size(t) <= K * NumSectors
  <2>1. CASE job[t].op = "reset"
    BY <2>1, Sizes DEF Size
  <2>2. CASE job[t].op = "restore"
    <3>1. Text(temp) # Offsets
      BY <1>1, <2>2 DEF Copies
    <3>2. Cardinality(Text(temp)) \in Offsets
      BY <1>1, <3>1, TextSize
    <3>3. PICK n \in Offsets : n = Cardinality(Text(temp))
      BY <3>2
    <3>4. Size(t) = n + 1
      BY <2>2, <3>3 DEF Size
    <3> QED BY <3>4, Sizes DEF Offsets
  <2> QED BY <2>1, <2>2
<1>5. job[t].at < NumSectors
  <2>1. PICK a \in Nat : a = job[t].at
    BY <1>2
  <2>2. a * K < K * NumSectors
    BY <1>4, <2>1, FlashAssumption
  <2>3. a < NumSectors
    BY <2>2, FlashAssumption
  <2> QED BY <2>1, <2>3
<1> DEFINE U(j) == LET o == job[t].at * K + j
                   IN  IF o < Size(t) THEN Source(t)[o] ELSE flash[job[t].part][o]
<1>6. Copied(t) = [j \in 0 .. K - 1 |-> U(j)]
  BY DEF Copied
<1>7. ASSUME NEW j \in 0 .. K - 1 PROVE U(j) \in Unit
  <2>1. job[t].at * K + j \in Offsets
    BY <1>2, <1>5, Sectors
  <2> HIDE DEF Unit
  <2> QED BY <1>2, <1>3, <2>1 DEF FileType
<1>8. Copied(t) \in BufType
  <2> HIDE DEF U, Unit
  <2> QED BY <1>6, <1>7 DEF BufType
<1>9. ASSUME NEW i \in Offsets, i \div K = job[t].at
      PROVE  Copied(t)[i % K] = IF i < Size(t) THEN Source(t)[i] ELSE flash["startup"][i]
  <2>1. i % K \in 0 .. K - 1 /\ i = job[t].at * K + (i % K)
    BY <1>9, Sizes, OffsetParts
  <2>2. PICK j \in 0 .. K - 1 : j = i % K
    BY <2>1
  <2>3. Copied(t)[j] = U(j)
    BY <1>6
  <2> QED BY <1>2, <2>1, <2>2, <2>3
<1> QED BY <1>3, <1>8, <1>9

LEMMA CopySectorKeeps ==
  ASSUME SavedIInv, NEW t \in Writers, CopySector(t)
  PROVE  SavedIInv'
<1>1. /\ job[t].op \in {"reset", "restore"} /\ job[t].at * K < Size(t)
      /\ flash' = [flash EXCEPT ![job[t].part] = Program(@, job[t].at, Copied(t))]
      /\ w' = [part |-> job[t].part, sector |-> job[t].at, buf |-> Copied(t),
               walker |-> 0, received |-> FALSE]
      /\ Step(t, job[t].op)
      /\ UNCHANGED <<data, gen, temp, mutex, ops, saved, last>>
  BY DEF CopySector
<1>2. TypeInv /\ OneJob /\ Copies(t) /\ Idle.op = "idle" /\ SavedIsLoaded
  BY <1>1 DEF SavedIInv, Idle
<1>3. /\ job[t].at \in Nat /\ job[t].part = "startup" /\ "startup" \in Parts
      /\ flash \in [Parts -> FileType] /\ flash["startup"] \in FileType
  BY <1>1, <1>2 DEF Copies, TypeInv, JobType, Parts
<1>4. /\ Copied(t) \in BufType
      /\ \A i \in Offsets : i \div K = job[t].at =>
           Copied(t)[i % K] = IF i < Size(t) THEN Source(t)[i] ELSE flash["startup"][i]
  BY <1>1, CopiedUnits
<1>5. /\ Program(flash["startup"], job[t].at, Copied(t)) \in FileType
      /\ \A i \in Offsets : Program(flash["startup"], job[t].at, Copied(t))[i]
           = IF i \div K = job[t].at THEN Copied(t)[i % K] ELSE flash["startup"][i]
  BY <1>3, <1>4, ProgramUnits
<1>6. flash' \in [Parts -> FileType]
      /\ flash'["startup"] = Program(flash["startup"], job[t].at, Copied(t))
      /\ \A p \in Parts : p # "startup" => flash'[p] = flash[p]
  <2> HIDE DEF FileType
  <2> QED BY <1>1, <1>3, <1>5
<1>7. w' \in BufferType
  <2>1. 0 \in 0 .. K - 1
    BY FlashAssumption
  <2> HIDE DEF Unit
  <2> QED BY <1>1, <1>3, <1>4, <2>1 DEF BufferType, BufType
<1>8. job[t] # Idle /\ saved' = saved /\ job[t].op \in Ops \ {"idle"}
  BY <1>1, <1>2 DEF Ops
<1>9. /\ job' \in [Writers -> JobType] /\ OneJob'
      /\ job'[t].op = job[t].op /\ job'[t].part = job[t].part
      /\ job'[t].at = job[t].at + 1 /\ job'[t].new = job[t].new
      /\ \A u \in Writers : u # t => job'[u] = Idle
      /\ saved'[job[t].part] = Unknown
  BY <1>1, <1>2, <1>8, StepStep
<1>10. TypeInv'
  BY <1>1, <1>2, <1>6, <1>7, <1>9 DEF TypeInv
<1>11. SavedIsLoaded'
  BY <1>2, <1>3, <1>6, <1>8, <1>9, OtherPart
<1>12. Buffered(t)' /\ Saved(t)' /\ Cleared(t)'
  BY <1>1, <1>9 DEF Buffered, Saved, Cleared, Saves, Clears
<1>13. ASSUME NEW i \in Offsets, i < (job[t].at + 1) * K,
              i < job[t].at * K /\ i < Size(t) => flash["startup"][i] = Source(t)[i],
              i < Size(t)
       PROVE  flash'["startup"][i] = Source(t)[i]
  <2>1. CASE i \div K = job[t].at
    BY <1>4, <1>5, <1>6, <1>13, <2>1
  <2>2. CASE i \div K # job[t].at
    <3>1. i \div K \in Nat /\ i % K \in 0 .. K - 1 /\ i = (i \div K) * K + (i % K)
      BY Sizes, OffsetParts
    <3>2. PICK q \in Nat, r \in 0 .. K - 1, a \in Nat :
            q = i \div K /\ r = i % K /\ a = job[t].at
      BY <1>3, <3>1
    <3>3. i = q * K + r /\ i < (a + 1) * K /\ q # a /\ K \in Nat \ {0}
      BY <1>13, <2>2, <3>1, <3>2, FlashAssumption
    <3>4. i < a * K
      <4>1. q * K + r < (a + 1) * K /\ q # a
        BY <3>3
      <4>2. q * K + r < a * K
        BY <4>1, BeforeSector
      <4> QED BY <3>3, <4>2
    <3> QED BY <1>5, <1>6, <1>13, <2>2, <3>2, <3>4
  <2> QED BY <2>1, <2>2
<1>14. Copies(t)'
  <2>1. CASE job[t].op = "reset"
    <3>1. job[t].new = saved["factory"]
          /\ \A i \in Offsets : i < job[t].at * K => flash["startup"][i] = flash["factory"][i]
      BY <1>2, <2>1 DEF Copies
    <3>2. Source(t) = flash["factory"] /\ flash'["factory"] = flash["factory"]
      BY <1>6, <2>1 DEF Source, Parts
    <3>3. \A i \in Offsets : i < Size(t)
      BY <2>1, Sizes DEF Size, Offsets
    <3>4. \A i \in Offsets : i < (job[t].at + 1) * K
            => flash'["startup"][i] = flash'["factory"][i]
      BY <1>13, <3>1, <3>2, <3>3
    <3> QED BY <1>3, <1>8, <1>9, <2>1, <3>1, <3>4 DEF Copies
  <2>2. CASE job[t].op = "restore"
    <3>1. /\ job[t].new = Load(temp) /\ Text(temp) # Offsets
          /\ \A i \in Offsets : i < job[t].at * K /\ i < Size(t)
               => flash["startup"][i] = temp[i]
      BY <1>2, <2>2 DEF Copies
    <3>2. Source(t) = temp /\ Size(t)' = Size(t)
      BY <1>1, <1>9, <2>2 DEF Source, Size
    <3>3. \A i \in Offsets : i < (job[t].at + 1) * K /\ i < Size(t)
            => flash'["startup"][i] = temp[i]
      BY <1>13, <3>1, <3>2
    <3>4. temp' = temp
      BY <1>1
    <3>5. job'[t].op = "restore" /\ job'[t].part = "startup" /\ job'[t].at = job[t].at + 1
          /\ job'[t].new = Load(temp)
      BY <1>3, <1>9, <2>2, <3>1
    <3> QED BY <3>1, <3>2, <3>3, <3>4, <3>5 DEF Copies
  <2> QED BY <1>1, <2>1, <2>2
<1> QED BY <1>9, <1>10, <1>11, <1>12, <1>14, OneBusy

LEMMA CopyEndKeeps ==
  ASSUME SavedIInv, NEW t \in Writers, CopyEnd(t)
  PROVE  SavedIInv'
<1>1. /\ job[t].op \in {"reset", "restore"} /\ job[t].at * K >= Size(t)
      /\ Finish(t) /\ UNCHANGED <<flash, w, mutex>>
  BY DEF CopyEnd
<1>2. TypeInv /\ OneJob /\ Copies(t) /\ Idle.op = "idle" /\ SavedIsLoaded
  BY <1>1 DEF SavedIInv, Idle
<1>3. /\ job[t].at \in Nat /\ job[t].part = "startup"
      /\ flash["factory"] \in FileType /\ flash["startup"] \in FileType
      /\ w' \in BufferType /\ flash' \in [Parts -> FileType] /\ temp \in FileType
  BY <1>1, <1>2 DEF Copies, TypeInv, JobType, Parts
<1>4. job[t].new # Unknown => Load(flash'[job[t].part]) = job[t].new
  <2>1. CASE job[t].op = "reset"
    <3>1. job[t].new = saved["factory"]
          /\ \A i \in Offsets : i < job[t].at * K => flash["startup"][i] = flash["factory"][i]
      BY <1>2, <2>1 DEF Copies
    <3>2. \A i \in Offsets : i < job[t].at * K
      <4>1. K * NumSectors <= job[t].at * K
        BY <1>1, <1>3, <2>1, FlashAssumption DEF Size
      <4>2. PICK m \in Int : m = job[t].at * K
        BY <1>3, FlashAssumption
      <4> QED BY <4>1, <4>2, Sizes DEF Offsets
    <3>3. flash["startup"] = flash["factory"]
      <4> HIDE DEF Unit
      <4> QED BY <1>3, <3>1, <3>2 DEF FileType
    <3>4. saved["factory"] # Unknown => Load(flash["factory"]) = saved["factory"]
      BY <1>2 DEF SavedIsLoaded, Parts
    <3> QED BY <1>1, <1>3, <3>1, <3>3, <3>4
  <2>2. CASE job[t].op = "restore"
    <3>1. /\ job[t].new = Load(temp) /\ Text(temp) # Offsets
          /\ \A i \in Offsets : i < job[t].at * K /\ i < Size(t)
               => flash["startup"][i] = temp[i]
      BY <1>2, <2>2 DEF Copies
    <3>2. Cardinality(Text(temp)) \in Offsets /\ temp[Cardinality(Text(temp))] = EndMark
      BY <1>3, <3>1, TextSize
    <3>3. PICK n \in Offsets : n = Cardinality(Text(temp))
      BY <3>2
    <3>4. Size(t) = n + 1 /\ n \in Nat
      BY <2>2, <3>3, Sizes DEF Size
    <3>5. PICK m \in Int : m = job[t].at * K
      BY <1>3, FlashAssumption
    <3>6. \A i \in Offsets : i <= n => temp[i] = flash["startup"][i]
      BY <1>1, <3>1, <3>4, <3>5, Sizes
    <3>7. Load(temp) = Load(flash["startup"])
      BY <1>3, <3>2, <3>3, <3>6, LoadPrefix
    <3> QED BY <1>1, <1>3, <3>1, <3>7
  <2> QED BY <1>1, <2>1, <2>2
<1>5. job[t] # Idle
  BY <1>1, <1>2
<1>6. \A q \in Parts : q # job[t].part => flash'[q] = flash[q]
  BY <1>1
<1> QED BY <1>1, <1>2, <1>3, <1>4, <1>5, <1>6, FinishStep

LEMMA UploadKeeps ==
  ASSUME SavedIInv, NEW n \in 1 .. N + 1, Upload(n)
  PROVE  SavedIInv'
<1>1. /\ \A t \in Writers : job[t] = Idle
      /\ temp' = [i \in Offsets |-> IF i < n THEN File(3)[i] ELSE Blank]
      /\ UNCHANGED <<flash, data, gen, w, mutex, job, ops, saved, last>>
  BY DEF Upload, ram
<1>2. temp' \in FileType
  <2>1. File(3) \in FileType /\ Blank \in Unit
    BY UnitsOf
  <2> HIDE DEF Unit
  <2> QED BY <1>1, <2>1 DEF FileType
<1>3. TypeInv'
  BY <1>1, <1>2 DEF SavedIInv, TypeInv
<1>4. SavedIsLoaded'
  BY <1>1 DEF SavedIInv, SavedIsLoaded
<1> QED BY <1>1, <1>3, <1>4, NoneBusy

\* What the power loss may leave half written belongs to the operation
\* under way.
LEMMA PendingPart ==
  ASSUME SavedIInv, NEW t \in Writers, NEW x \in Pending(t)
  PROVE  /\ x.part = job[t].part /\ x.part \in Parts /\ job[t] # Idle
         /\ x.sector \in Nat /\ x.buf \in BufType
         /\ \/ /\ job[t].op \in {"save", "mark", "clear"} /\ w.walker = K - 1
               /\ x.sector = w.sector /\ x.buf = Filled(NextUnit(t))
               /\ NextUnit(t) \in Unit
            \/ /\ job[t].op \in {"end", "cleared"}
               /\ x.sector = w.sector /\ x.buf = w.buf
            \/ job[t].op \in {"reset", "restore"}
<1>1. TypeInv /\ Buffered(t) /\ Saved(t) /\ Idle.op = "idle" /\ w \in BufferType
  BY DEF SavedIInv, TypeInv, Idle
<1>2. job[t].part \in Parts /\ job[t].at \in Nat
  BY <1>1 DEF TypeInv, JobType
<1>3. /\ w.sector \in Nat /\ w.walker \in 0 .. K - 1 /\ w.part \in Parts
      /\ w.buf \in BufType
  BY <1>1, BufferPlace
<1>4. CASE job[t].op \in {"save", "mark", "clear"} /\ w.walker = K - 1
  <2>1. x = [part |-> w.part, sector |-> w.sector, buf |-> Filled(NextUnit(t))]
    BY <1>4 DEF Pending
  <2>2. w.part = job[t].part
    BY <1>1, <1>4 DEF Buffered, Saves, Clears
  <2>3. NextUnit(t) \in Unit
    <3>1. CASE job[t].op \in {"save", "mark"}
      BY <3>1, NextInSave
    <3>2. CASE job[t].op = "clear"
      BY <3>2, UnitsOf DEF NextUnit
    <3> QED BY <1>4, <3>1, <3>2
  <2>4. Filled(NextUnit(t)) \in BufType
    <3> HIDE DEF Unit, NextUnit
    <3> QED BY <1>3, <2>3 DEF Filled, BufType
  <2> QED BY <1>1, <1>3, <1>4, <2>1, <2>2, <2>3, <2>4
<1>5. CASE job[t].op \in {"end", "cleared"}
  <2>1. x = [part |-> w.part, sector |-> w.sector, buf |-> w.buf]
    BY <1>5 DEF Pending
  <2>2. w.part = job[t].part
    BY <1>1, <1>5 DEF Buffered, Saves, Clears
  <2> QED BY <1>1, <1>3, <1>5, <2>1, <2>2
<1>6. CASE job[t].op \in {"reset", "restore"}
  <2>1. job[t].at * K < Size(t)
        /\ x = [part |-> job[t].part, sector |-> job[t].at, buf |-> Copied(t)]
    BY <1>6 DEF Pending
  <2>2. Copied(t) \in BufType
    BY <1>6, <2>1, CopiedUnits
  <2> QED BY <1>1, <1>2, <1>6, <2>1, <2>2
<1> QED BY <1>4, <1>5, <1>6 DEF Pending

LEMMA CutUnits ==
  ASSUME NEW b \in BufType, NEW n \in 0 .. K
  PROVE  Cut(b, n) \in BufType
         /\ \A j \in 0 .. K - 1 : Cut(b, n)[j] = IF j < n THEN b[j] ELSE Blank
<1>1. Blank \in Unit
  BY UnitsOf
<1> HIDE DEF Unit
<1> QED BY <1>1 DEF Cut, BufType

LEMMA BootKeeps ==
  ASSUME SavedIInv, NEW fl \in [Parts -> FileType],
         \A p \in Parts : saved[p] # Unknown => fl[p] = flash[p], Boot(fl)
  PROVE  SavedIInv'
<1>1. /\ flash' = fl /\ data' = Image(fl)
      /\ w' = NoBuffer /\ mutex' = Nobody /\ job' = [t \in Writers |-> Idle]
      /\ UNCHANGED <<gen, temp, ops, saved, last>>
  BY DEF Boot
<1>2. data' \in [Cells -> Nat]
  BY <1>1, ImageType
<1>3. NoBuffer \in BufferType
  <2>1. 0 \in 0 .. K - 1 /\ Blank \in Unit
    BY FlashAssumption, UnitsOf
  <2> HIDE DEF Unit
  <2> QED BY <2>1 DEF NoBuffer, BufferType, Parts
<1>4. Idle \in JobType
  <2> HIDE DEF Contents
  <2> QED BY UnitsOf DEF Idle, JobType, Ops, Parts
<1>5. job' \in [Writers -> JobType] /\ \A t \in Writers : job'[t] = Idle
  BY <1>1, <1>4
<1>6. TypeInv'
  BY <1>1, <1>2, <1>3, <1>5 DEF SavedIInv, TypeInv
<1>7. SavedIsLoaded'
  BY <1>1 DEF SavedIInv, SavedIsLoaded
<1> QED BY <1>5, <1>6, <1>7, NoneBusy

LEMMA PowerLossKeeps ==
  ASSUME SavedIInv, PowerLoss
  PROVE  SavedIInv'
<1>1. TypeInv /\ OneJob
  BY DEF SavedIInv
<1>2. flash \in [Parts -> FileType]
  BY <1>1 DEF TypeInv
<1>3. CASE Boot(flash)
  BY <1>2, <1>3, BootKeeps
<1>4. CASE \E t \in Writers : \E x \in Pending(t), n \in 0 .. K :
             Boot([flash EXCEPT ![x.part] = Program(@, x.sector, Cut(x.buf, n))])
  <2>1. PICK t \in Writers : \E x \in Pending(t), n \in 0 .. K :
             Boot([flash EXCEPT ![x.part] = Program(@, x.sector, Cut(x.buf, n))])
    BY <1>4
  <2>2. PICK x \in Pending(t), n \in 0 .. K :
             Boot([flash EXCEPT ![x.part] = Program(@, x.sector, Cut(x.buf, n))])
    BY <2>1
  <2>3. x.part = job[t].part /\ x.part \in Parts /\ job[t] # Idle
        /\ x.sector \in Nat /\ x.buf \in BufType
    BY PendingPart
  <2>4. Cut(x.buf, n) \in BufType
    BY <2>3, CutUnits
  <2>5. flash[x.part] \in FileType
    BY <1>2, <2>3
  <2>6. Program(flash[x.part], x.sector, Cut(x.buf, n)) \in FileType
    BY <2>3, <2>4, <2>5, ProgramUnits
  <2>7. PICK fl : fl = [flash EXCEPT ![x.part] = Program(@, x.sector, Cut(x.buf, n))]
    OBVIOUS
  <2>8. fl \in [Parts -> FileType] /\ \A p \in Parts : p # x.part => fl[p] = flash[p]
    <3> HIDE DEF FileType
    <3> QED BY <1>2, <2>3, <2>6, <2>7
  <2>9. saved[x.part] = Unknown
    BY <1>1, <2>3 DEF OneJob
  <2>10. \A p \in Parts : saved[p] # Unknown => fl[p] = flash[p]
    BY <2>8, <2>9
  <2>11. Boot(fl)
    BY <2>2, <2>7
  <2> QED BY <2>8, <2>10, <2>11, BootKeeps
<1> QED BY <1>3, <1>4 DEF PowerLoss

-----------------------------------------------------------------------------
(* The saved file is loaded                                                *)

LEMMA SavedInit ==
  ASSUME Init
  PROVE  SavedIInv
<1>1. PICK f \in {NoFile, File(1)}, g \in {NoFile, File(2)} :
        flash = [p \in Parts |-> IF p = "factory" THEN f ELSE g]
  BY DEF Init
<1>2. /\ temp = NoFile /\ saved = [p \in Parts |-> Load(flash[p])]
      /\ data = Image(flash) /\ gen = 0
      /\ w = NoBuffer /\ job = [t \in Writers |-> Idle] /\ last = NoSave
  BY DEF Init
<1>3. f \in FileType /\ g \in FileType
  BY UnitsOf
<1>4. flash \in [Parts -> FileType]
  <2> HIDE DEF FileType
  <2> QED BY <1>1, <1>3
<1>5. \A p \in Parts : Load(flash[p]) \in Contents
  BY <1>4, LoadType
<1>6. saved \in [Parts -> Contents]
  <2> HIDE DEF Contents, Load
  <2> QED BY <1>2, <1>5
<1>7. data \in [Cells -> Nat]
  BY <1>2, <1>4, ImageType
<1>8. w \in BufferType
  <2>1. 0 \in 0 .. K - 1 /\ Blank \in Unit
    BY FlashAssumption, UnitsOf
  <2> HIDE DEF Unit
  <2> QED BY <1>2, <2>1 DEF NoBuffer, BufferType, Parts
<1>9. job \in [Writers -> JobType] /\ \A t \in Writers : job[t] = Idle
  <2>1. Idle \in JobType
    <3> HIDE DEF Contents
    <3> QED BY UnitsOf DEF Idle, JobType, Ops, Parts
  <2> QED BY <1>2, <2>1
<1>10. last \in [new : Contents, found : FileType]
  <2> HIDE DEF Contents, FileType
  <2> QED BY <1>2, UnitsOf DEF NoSave
<1>11. TypeInv
  BY <1>2, <1>4, <1>6, <1>7, <1>8, <1>9, <1>10, UnitsOf DEF TypeInv
<1>12. SavedIsLoaded
  <2> HIDE DEF Load
  <2> QED BY <1>2 DEF SavedIsLoaded
<1>13. OneJob
  BY <1>9 DEF OneJob
<1>14. \A t \in Writers : Buffered(t) /\ Saved(t) /\ Cleared(t) /\ Copies(t)
  BY <1>9 DEF Buffered, Saved, Cleared, Copies, Saves, Clears, Idle
<1> QED BY <1>11, <1>12, <1>13, <1>14 DEF SavedIInv

LEMMA SavedStutter ==
  ASSUME SavedIInv, UNCHANGED vars
  PROVE  SavedIInv'
<1>1. UNCHANGED <<data, gen, flash, temp, w, mutex, job, ops, saved, last>>
  BY DEF vars
<1>2. TypeInv' /\ OneJob' /\ SavedIsLoaded'
  BY <1>1 DEF SavedIInv, TypeInv, OneJob, SavedIsLoaded
<1>3. ASSUME NEW t \in Writers
      PROVE  Buffered(t)' /\ Saved(t)' /\ Cleared(t)' /\ Copies(t)'
  <2>1. Buffered(t) /\ Saved(t) /\ Cleared(t) /\ Copies(t)
    BY DEF SavedIInv
  <2>2. \A i : Shadow(i)' = Shadow(i)
    BY <1>1 DEF Shadow
  <2>3. (Saves(t)' <=> Saves(t)) /\ (Clears(t)' <=> Clears(t)) /\ Size(t)' = Size(t)
    BY <1>1 DEF Saves, Clears, Size
  <2>4. Buffered(t)'
    BY <1>1, <2>1, <2>2, <2>3 DEF Buffered
  <2>5. Saved(t)'
    BY <1>1, <2>1, <2>2, <2>3 DEF Saved
  <2>6. Cleared(t)'
    BY <1>1, <2>1, <2>2, <2>3 DEF Cleared
  <2>7. Copies(t)'
    BY <1>1, <2>1, <2>3 DEF Copies
  <2> QED BY <2>4, <2>5, <2>6, <2>7
<1> QED BY <1>2, <1>3 DEF SavedIInv

LEMMA SavedNext ==
  ASSUME Alone, SavedIInv, [Next]_vars
  PROVE  SavedIInv'
<1>1. ASSUME NEW n \in 1 .. NumTables, Change(n) PROVE SavedIInv'
  BY <1>1, ChangeKeeps
<1>2. ASSUME NEW t \in Writers, NEW p \in Parts, Save(t, p) PROVE SavedIInv'
  BY <1>2, SaveKeeps
<1>3. ASSUME NEW t \in Writers, NEW p \in Parts, Clear(t, p) PROVE SavedIInv'
  BY <1>3, ClearKeeps
<1>4. ASSUME NEW t \in Writers, SaveField(t) PROVE SavedIInv'
  BY <1>4, SaveFieldKeeps
<1>5. ASSUME NEW t \in Writers, SaveMark(t) PROVE SavedIInv'
  BY <1>5, SaveMarkKeeps
<1>6. ASSUME NEW t \in Writers, SaveEnd(t) PROVE SavedIInv'
  BY <1>6, SaveEndKeeps
<1>7. ASSUME NEW t \in Writers, ClearWrite(t) PROVE SavedIInv'
  BY <1>7, ClearWriteKeeps
<1>8. ASSUME NEW t \in Writers, ClearEnd(t) PROVE SavedIInv'
  BY <1>8, ClearEndKeeps
<1>9. ASSUME NEW t \in Writers, Restore(t) PROVE SavedIInv'
  BY <1>9, RestoreKeeps
<1>10. ASSUME NEW t \in Writers, CopySector(t) PROVE SavedIInv'
  BY <1>10, CopySectorKeeps
<1>11. ASSUME NEW t \in Writers, CopyEnd(t) PROVE SavedIInv'
  BY <1>11, CopyEndKeeps
<1>12. CASE Reset
  BY <1>12, ResetKeeps
<1>13. ASSUME NEW n \in 1 .. N + 1, Upload(n) PROVE SavedIInv'
  BY <1>13, UploadKeeps
<1>14. CASE PowerLoss
  BY <1>14, PowerLossKeeps
<1>15. CASE UNCHANGED vars
  BY <1>15, SavedStutter
<1> QED
  BY Zenon, <1>1, <1>2, <1>3, <1>4, <1>5, <1>6, <1>7, <1>8, <1>9, <1>10, <1>11, <1>12, <1>13,
     <1>14, <1>15 DEF Next

\* When one operation at a time writes, a file that was saved, cleared, reset
\* or restored to the end is what the next boot loads, whatever was changed,
\* written to the other partition or cut short by a loss of power since then.
THEOREM SavedIsLoadedAlways ==
  ASSUME Alone
  PROVE  Spec => []SavedIsLoaded
<1>1. Init => SavedIInv
  BY SavedInit
<1>2. SavedIInv /\ [Next]_vars => SavedIInv'
  BY SavedNext
<1>3. SavedIInv => SavedIsLoaded
  BY DEF SavedIInv
<1> QED BY <1>1, <1>2, <1>3, PTL DEF Spec

-----------------------------------------------------------------------------
(* A save that was cut short                                               *)

\* What a save of the startup file has written and what it has not.
LEMMA DuringSave ==
  ASSUME TornIInv, NEW t \in Writers, Saves(t), job[t].part = "startup"
  PROVE  /\ last.new \in [Cells -> Nat] /\ last.new = job[t].new
         /\ job[t].at \in Nat /\ w.sector \in Nat /\ w.sector * K \in Nat
         /\ w.sector * K <= job[t].at /\ w.part = "startup"
         /\ \A i \in Offsets :
              Shadow(i) = IF i < job[t].at THEN Target(last.new, i) ELSE last.found[i]
         /\ \A i \in Offsets : i < w.sector * K =>
              flash["startup"][i] = Target(last.new, i) /\ i < job[t].at
         /\ \A i \in Offsets : i >= w.sector * K => flash["startup"][i] = last.found[i]
<1>1. SavedIInv /\ TypeInv /\ Saved(t) /\ Buffered(t) /\ SaveFound(t)
  BY DEF TornIInv, SavedIInv
<1>2. job[t].at \in Nat
  BY <1>1 DEF TypeInv, JobType
<1>3. w.part = "startup" /\ w.sector * K + w.walker = job[t].at
  BY <1>1 DEF Buffered
<1>4. w \in BufferType
  BY <1>1 DEF TypeInv
<1>5. w.sector \in Nat /\ w.walker \in 0 .. K - 1
  BY <1>4, BufferPlace
<1>6. PICK m \in Nat : m = w.sector * K
  BY <1>5, FlashAssumption
<1>7. m <= job[t].at
  BY <1>2, <1>3, <1>5, <1>6, FlashAssumption
<1>8. last.new \in [Cells -> Nat] /\ last.new = job[t].new
  BY <1>1 DEF Saved, SaveFound
<1>9. ASSUME NEW i \in Offsets
      PROVE  Shadow(i) = IF i < job[t].at THEN Target(last.new, i) ELSE last.found[i]
  <2>1. CASE i < job[t].at
    BY <1>1, <1>8, <2>1 DEF Saved
  <2>2. CASE ~(i < job[t].at)
    <3>1. i >= job[t].at
      BY <1>2, <2>2, Sizes
    <3> QED BY <1>1, <2>2, <3>1 DEF SaveFound
  <2> QED BY <2>1, <2>2
<1>10. ASSUME NEW i \in Offsets, i < m
       PROVE  flash["startup"][i] = Target(last.new, i) /\ i < job[t].at
  <2>1. i < job[t].at
    BY <1>2, <1>7, <1>10, Sizes
  <2>2. i \div K # w.sector
    <3>1. i \in Nat /\ i = (i \div K) * K + (i % K) /\ i % K \in 0 .. K - 1
      BY Sizes, OffsetParts
    <3> QED BY <1>6, <1>10, <3>1
  <2>3. Shadow(i) = flash["startup"][i]
    BY <1>3, <2>2 DEF Shadow
  <2> QED BY <1>9, <2>1, <2>3
<1>11. \A i \in Offsets : i >= m => flash["startup"][i] = last.found[i]
  BY <1>1, <1>6 DEF SaveFound
<1> QED BY <1>2, <1>3, <1>5, <1>6, <1>7, <1>8, <1>9, <1>10, <1>11

\* New units up to some offset, then units left erased or found.
LEMMA TornFrom ==
  ASSUME NEW f, NEW a \in Nat,
         \A i \in Offsets : IF i < a THEN f[i] = Target(last.new, i)
                            ELSE f[i] \in {Blank, last.found[i]}
  PROVE  \E j \in 0 .. N : Torn(f, j)
<1>1. N \in Nat /\ Offsets \subseteq Nat
  BY Sizes
<1>2. CASE a <= N
  <2>1. a \in 0 .. N
    BY <1>1, <1>2
  <2>2. \A i \in Offsets : i < a => i < N
    BY <1>1, <1>2
  <2>3. Torn(f, a)
    BY <2>2 DEF Torn, Target
  <2> QED BY <2>1, <2>3
<1>3. CASE ~(a <= N)
  <2>1. N \in 0 .. N /\ \A i \in Offsets : i < N => i < a
    BY <1>1, <1>3
  <2>2. Torn(f, N)
    BY <2>1 DEF Torn, Target
  <2> QED BY <2>1, <2>2
<1> QED BY <1>2, <1>3

LEMMA TornNow ==
  ASSUME TornIInv, last # NoSave
  PROVE  last.new \in [Cells -> Nat] /\ \E j \in 0 .. N : Torn(flash["startup"], j)
<1>1. LeftTorn
  BY DEF TornIInv
<1>2. CASE \A t \in Writers : job[t] = Idle
  BY <1>1, <1>2 DEF LeftTorn
<1>3. CASE \E t \in Writers : job[t] # Idle
  <2>1. PICK t \in Writers : job[t] # Idle
    BY <1>3
  <2>2. Saves(t) /\ job[t].part = "startup"
    BY <1>1, <2>1 DEF LeftTorn
  <2>3. PICK a \in Nat : a = w.sector * K
    BY <2>2, DuringSave
  <2>4. /\ last.new \in [Cells -> Nat]
        /\ \A i \in Offsets : i < a => flash["startup"][i] = Target(last.new, i)
        /\ \A i \in Offsets : i >= a => flash["startup"][i] = last.found[i]
    BY <2>2, <2>3, DuringSave
  <2>5. \A i \in Offsets : ~(i < a) => i >= a
    BY Sizes
  <2>6. \A i \in Offsets : IF i < a THEN flash["startup"][i] = Target(last.new, i)
                           ELSE flash["startup"][i] \in {Blank, last.found[i]}
    BY <2>4, <2>5
  <2>7. \E j \in 0 .. N : Torn(flash["startup"], j)
    BY <2>6, TornFrom
  <2> QED BY <2>4, <2>7
<1> QED BY <1>2, <1>3

\* A sector that the power loss leaves half programmed.
LEMMA TornSector ==
  ASSUME TornIInv, NEW t \in Writers, Saves(t), job[t].part = "startup",
         NEW x \in Pending(t), NEW n \in 0 .. K
  PROVE  \E j \in 0 .. N :
           Torn(Program(flash["startup"], x.sector, Cut(x.buf, n)), j)
<1>1. SavedIInv /\ TypeInv /\ Saved(t) /\ Buffered(t)
  BY DEF TornIInv, SavedIInv
<1>2. /\ last.new \in [Cells -> Nat] /\ last.new = job[t].new
      /\ job[t].at \in Nat /\ w.sector \in Nat /\ w.sector * K \in Nat
      /\ w.sector * K <= job[t].at /\ w.part = "startup"
      /\ \A i \in Offsets :
           Shadow(i) = IF i < job[t].at THEN Target(last.new, i) ELSE last.found[i]
      /\ \A i \in Offsets : i < w.sector * K =>
           flash["startup"][i] = Target(last.new, i) /\ i < job[t].at
      /\ \A i \in Offsets : i >= w.sector * K => flash["startup"][i] = last.found[i]
  BY DuringSave
<1>3. w \in BufferType /\ w.sector * K + w.walker = job[t].at
      /\ flash["startup"] \in FileType
  BY <1>1 DEF TypeInv, Buffered, Parts
<1>4. x.sector \in Nat /\ x.buf \in BufType
  BY <1>1, PendingPart
<1>5. /\ x.sector = w.sector
      /\ \/ /\ job[t].op \in {"save", "mark"} /\ x.buf = Filled(NextUnit(t))
            /\ NextUnit(t) \in Unit
         \/ x.buf = w.buf
  <2>1. job[t].op \in {"save", "mark", "end"}
    BY DEF Saves
  <2> QED BY <1>1, <2>1, PendingPart
<1>6. \A i \in Offsets : i \div K = w.sector /\ i % K = w.walker <=> i = job[t].at
  BY <1>3, BufferPlace
<1>7. PICK a \in Nat : /\ job[t].at <= a
                       /\ \A i \in Offsets : i \div K = w.sector =>
                            x.buf[i % K] = IF i < a THEN Target(last.new, i) ELSE last.found[i]
  <2>1. \A i \in Offsets : i \div K = w.sector => Shadow(i) = w.buf[i % K]
    BY DEF Shadow
  <2>2. CASE x.buf = w.buf
    BY <1>2, <2>1, <2>2
  <2>3. CASE job[t].op \in {"save", "mark"} /\ x.buf = Filled(NextUnit(t))
    <3>1. NextUnit(t) = Target(last.new, job[t].at)
      BY <1>1, <1>2, <2>3, NextInSave
    <3>2. ASSUME NEW i \in Offsets, i \div K = w.sector
          PROVE  x.buf[i % K] = IF i < job[t].at + 1 THEN Target(last.new, i)
                                ELSE last.found[i]
      <4>1. i % K \in 0 .. K - 1 /\ i \in Nat
        BY Sizes, OffsetParts
      <4>2. x.buf[i % K] = IF i % K = w.walker THEN NextUnit(t) ELSE w.buf[i % K]
        <5>1. w.buf \in [0 .. K - 1 -> Unit]
          BY <1>3 DEF BufferType
        <5> HIDE DEF Unit, NextUnit
        <5> QED BY <2>3, <4>1, <5>1 DEF Filled
      <4>3. CASE i = job[t].at
        <5>1. i % K = w.walker /\ i < job[t].at + 1
          BY <1>2, <1>6, <4>3
        <5> QED BY <3>1, <4>2, <4>3, <5>1
      <4>4. CASE i # job[t].at
        <5>1. i % K # w.walker /\ (i < job[t].at + 1 <=> i < job[t].at)
          BY <1>2, <1>6, <3>2, <4>1, <4>4
        <5>2. x.buf[i % K] = Shadow(i)
          BY <2>1, <3>2, <4>2, <5>1
        <5> QED BY <1>2, <5>1, <5>2
      <4> QED BY <4>3, <4>4
    <3>3. job[t].at + 1 \in Nat /\ job[t].at <= job[t].at + 1
      BY <1>2
    <3> QED BY <3>2, <3>3
  <2> QED BY <1>5, <2>2, <2>3
<1>8. PICK f : f = Program(flash["startup"], x.sector, Cut(x.buf, n))
  OBVIOUS
<1>9. ASSUME NEW i \in Offsets
      PROVE  f[i] = IF i \div K = w.sector
                    THEN IF i % K < n THEN x.buf[i % K] ELSE Blank
                    ELSE flash["startup"][i]
  <2>1. Cut(x.buf, n) \in BufType
        /\ \A j \in 0 .. K - 1 : Cut(x.buf, n)[j] = IF j < n THEN x.buf[j] ELSE Blank
    BY <1>4, CutUnits
  <2>2. f[i] = IF i \div K = x.sector THEN Cut(x.buf, n)[i % K] ELSE flash["startup"][i]
    <3>1. PICK h \in FileType : h = flash["startup"]
      BY <1>3
    <3>2. PICK b \in BufType : b = Cut(x.buf, n)
      BY <2>1
    <3>3. PICK s \in Nat : s = x.sector
      BY <1>4
    <3>4. \A o \in Offsets : Program(h, s, b)[o] = IF o \div K = s THEN b[o % K] ELSE h[o]
      BY ProgramUnits
    <3> QED BY <1>8, <3>1, <3>2, <3>3, <3>4
  <2>3. i % K \in 0 .. K - 1
    BY Sizes, OffsetParts
  <2> QED BY <1>5, <2>1, <2>2, <2>3
<1>10. PICK m \in Nat : m = w.sector * K
  BY <1>2
<1>11. PICK c \in Nat : c = IF m + n <= a THEN m + n ELSE a
  <2>1. m + n \in Nat
    BY <1>10, FlashAssumption
  <2> QED BY <2>1
<1>12. ASSUME NEW i \in Offsets
       PROVE  IF i < c THEN f[i] = Target(last.new, i) ELSE f[i] \in {Blank, last.found[i]}
  <2>1. i \in Nat /\ i \div K \in Nat /\ i % K \in 0 .. K - 1
        /\ i = (i \div K) * K + (i % K)
    BY Sizes, OffsetParts
  <2>2. K \in Nat \ {0} /\ n \in 0 .. K
    BY FlashAssumption
  <2>3. CASE i \div K = w.sector
    <3>1. i = m + (i % K)
      BY <1>10, <2>1, <2>3
    <3>2. i % K < n <=> i < m + n
      BY <1>10, <2>1, <2>2, <3>1
    <3>3. i < c <=> i < a /\ i < m + n
      BY <1>11, <2>1, <2>2
    <3>4. f[i] = IF i % K < n THEN x.buf[i % K] ELSE Blank
      BY <1>9, <2>3
    <3>5. x.buf[i % K] = IF i < a THEN Target(last.new, i) ELSE last.found[i]
      BY <1>7, <2>3
    <3> QED BY <3>2, <3>3, <3>4, <3>5
  <2>4. CASE i \div K # w.sector
    <3>1. f[i] = flash["startup"][i]
      BY <1>9, <2>4
    <3>2. CASE i < m
      <4>1. i < job[t].at /\ f[i] = Target(last.new, i)
        BY <1>2, <1>10, <3>1, <3>2
      <4>2. i < c
        BY <1>2, <1>7, <1>11, <2>1, <2>2, <3>2, <4>1
      <4> QED BY <4>1, <4>2
    <3>3. CASE ~(i < m)
      <4>1. i >= m /\ f[i] = last.found[i]
        <5>1. i >= m
          BY <2>1, <3>3
        <5> QED BY <1>2, <1>10, <3>1, <5>1
      <4>2. ~(i < m + n)
        <5>1. K \in Nat /\ n \in Nat /\ n <= K /\ m \in Nat /\ i \in Nat
          BY <1>10, <2>1, <2>2
        <5>2. i >= m
          BY <4>1
        <5>3. ~(i < m + K)
          <6> SUFFICES ASSUME i < m + K PROVE FALSE
            OBVIOUS
          <6>1. PICK j \in 0 .. K - 1 : j = i - m
            BY <5>1, <5>2
          <6>2. i = m + j
            BY <5>1, <6>1
          <6>3. i = w.sector * K + j
            BY <1>10, <6>2
          <6>4. i \div K = w.sector
            BY <1>2, <6>3, OffsetOf
          <6> QED BY <2>4, <6>4
        <5> QED BY <5>1, <5>3
      <4>3. ~(i < c)
        BY <1>11, <2>1, <2>2, <4>2
      <4> QED BY <4>1, <4>3
    <3> QED BY <3>2, <3>3
  <2> QED BY <2>3, <2>4
<1>13. \E j \in 0 .. N : Torn(f, j)
  BY <1>12, TornFrom
<1> QED BY <1>8, <1>13

\* The operation ends, or another one begins or goes on, without a save of the
\* startup file.
LEMMA TornNone ==
  ASSUME SavedIInv', last' = NoSave,
         \A t \in Writers : ~(Saves(t)' /\ job'[t].part = "startup")
  PROVE  TornIInv'
BY DEF TornIInv, LeftTorn, SaveFound

LEMMA TornFinish ==
  ASSUME SavedIInv, SavedIInv', NEW t \in Writers, job[t] # Idle, Finish(t)
  PROVE  TornIInv'
<1>1. job \in [Writers -> JobType] /\ OneJob /\ job' = [job EXCEPT ![t] = Idle]
      /\ last' = NoSave
  BY DEF SavedIInv, TypeInv, Finish
<1>2. \A u \in Writers : job'[u] = Idle
  BY <1>1, OthersIdle
<1>3. \A u \in Writers : ~Saves(u)'
  BY <1>2 DEF Saves, Idle
<1> QED BY <1>1, <1>3, TornNone

LEMMA TornBegin ==
  ASSUME Alone, SavedIInv, SavedIInv', NEW t \in Writers, NEW op \in Ops \ {"idle", "save"},
         op \notin {"mark", "end"}, NEW p \in Parts, NEW new \in Contents, Begin(t, op, p, new),
         flash' = flash
  PROVE  TornIInv'
<1>1. last' = NoSave
  BY DEF Begin
<1>2. TypeInv /\ OneJob /\ SavedIsLoaded /\ op \in Ops \ {"idle"}
  BY DEF SavedIInv
<1>3. job'[t] = [op |-> op, part |-> p, at |-> 0, new |-> new]
      /\ \A u \in Writers : u # t => job'[u] = Idle
  BY <1>2, BeginStep
<1>4. \A u \in Writers : ~Saves(u)'
  BY <1>3 DEF Saves, Idle
<1> QED BY <1>1, <1>4, TornNone

LEMMA TornOther ==
  ASSUME TornIInv, SavedIInv', NEW t \in Writers, job[t] # Idle, ~Saves(t),
         NEW op \in Ops \ {"idle", "save"}, op \notin {"mark", "end"}, Step(t, op),
         saved' = saved, last' = last
  PROVE  TornIInv'
<1>1. TypeInv /\ OneJob /\ op \in Ops \ {"idle"}
  BY DEF TornIInv, SavedIInv
<1>2. job'[t].op = op /\ \A u \in Writers : u # t => job'[u] = Idle
  BY <1>1, StepStep
<1>3. last' = NoSave
  BY DEF TornIInv, LeftTorn
<1>4. \A u \in Writers : ~Saves(u)'
  BY <1>2 DEF Saves, Idle
<1> QED BY <1>3, <1>4, TornNone

\* Nothing that matters changes.
LEMMA TornSame ==
  ASSUME TornIInv, SavedIInv', UNCHANGED <<flash, w, job, last>>
  PROVE  TornIInv'
<1>1. \A i : Shadow(i)' = Shadow(i)
  BY DEF Shadow
<1>2. \A t \in Writers : Saves(t)' <=> Saves(t)
  BY DEF Saves
<1>3. \A j : Torn(flash["startup"], j)' <=> Torn(flash["startup"], j)
  BY DEF Torn
<1>4. LeftTorn'
  BY <1>2, <1>3 DEF TornIInv, LeftTorn
<1>5. \A t \in Writers : SaveFound(t)'
  BY <1>1, <1>2 DEF TornIInv, SaveFound
<1> QED BY <1>4, <1>5 DEF TornIInv

LEMMA TornSave ==
  ASSUME Alone, SavedIInv, SavedIInv', NEW t \in Writers, NEW p \in Parts, Save(t, p)
  PROVE  TornIInv'
<1>1. Begin(t, "save", p, data) /\ Open(p) /\ UNCHANGED <<data, gen, flash, temp>>
  BY DEF Save
<1>2. data \in Contents /\ "save" \in Ops \ {"idle"} /\ TypeInv /\ OneJob /\ SavedIsLoaded
  BY UnitsOf DEF SavedIInv, TypeInv, Ops
<1>3. job'[t] = [op |-> "save", part |-> p, at |-> 0, new |-> data]
      /\ \A u \in Writers : u # t => job'[u] = Idle
  BY <1>1, <1>2, BeginStep
<1>4. w'.sector * K + w'.walker = 0 /\ \A i \in Offsets : Shadow(i)' = flash[p][i]
  BY <1>1, <1>2, OpenBuffer
<1>5. \A u \in Writers : u # t => ~Saves(u)'
  BY <1>3 DEF Saves, Idle
<1>6. CASE p = "startup"
  <2>1. last' = [new |-> data, found |-> flash["startup"]] /\ flash' = flash
    BY <1>1, <1>6 DEF Begin
  <2>2. Idle.op = "idle" /\ job'[t].op = "save"
    BY <1>3 DEF Idle
  <2>3. LeftTorn'
    <3>1. \A u \in Writers : job'[u] # Idle => Saves(u)' /\ job'[u].part = "startup"
      BY <1>3, <1>6 DEF Saves
    <3>2. ~\A u \in Writers : job'[u] = Idle
      BY <2>2
    <3> QED BY <3>1, <3>2 DEF LeftTorn
  <2>4. SaveFound(t)'
    BY <1>3, <1>4, <1>6, <2>1 DEF SaveFound
  <2>5. \A u \in Writers : SaveFound(u)'
    BY <1>5, <2>4 DEF SaveFound
  <2> QED BY <2>3, <2>5 DEF TornIInv
<1>7. CASE p # "startup"
  <2>1. last' = NoSave
    BY <1>1, <1>7 DEF Begin
  <2>2. \A u \in Writers : ~(Saves(u)' /\ job'[u].part = "startup")
    BY <1>3, <1>5, <1>7
  <2> QED BY <2>1, <2>2, TornNone
<1> QED BY <1>6, <1>7

\* A save goes on.
LEMMA TornPut ==
  ASSUME TornIInv, SavedIInv', NEW t \in Writers, job[t].op \in {"save", "mark"},
         NEW op \in {"save", "mark", "end"}, Put(NextUnit(t)), Step(t, op),
         saved' = saved, last' = last
  PROVE  TornIInv'
<1>1. SavedIInv /\ TypeInv /\ OneJob /\ Saves(t) /\ Idle.op = "idle" /\ job[t] # Idle
      /\ op \in Ops \ {"idle"} /\ LeftTorn
  BY DEF TornIInv, SavedIInv, Saves, Idle, Ops
<1>2. /\ job'[t].op = op /\ job'[t].part = job[t].part
      /\ job'[t].at = job[t].at + 1 /\ job'[t].new = job[t].new
      /\ \A u \in Writers : u # t => job'[u] = Idle
  BY <1>1, StepStep
<1>3. Saves(t)' /\ \A u \in Writers : u # t => ~Saves(u)'
  BY <1>1, <1>2 DEF Saves
<1>4. CASE job[t].part # "startup"
  <2>1. last' = NoSave
    BY <1>1, <1>4 DEF LeftTorn
  <2>2. \A u \in Writers : ~(Saves(u)' /\ job'[u].part = "startup")
    BY <1>2, <1>3, <1>4
  <2> QED BY <2>1, <2>2, TornNone
<1>5. CASE job[t].part = "startup"
  <2>1. /\ last.new = job[t].new
        /\ job[t].at \in Nat /\ w.part = "startup"
        /\ \A i \in Offsets :
             Shadow(i) = IF i < job[t].at THEN Target(last.new, i) ELSE last.found[i]
        /\ \A i \in Offsets : i >= w.sector * K => flash["startup"][i] = last.found[i]
    BY <1>1, <1>5, DuringSave
  <2>2. w.sector * K + w.walker = job[t].at
    BY <1>1 DEF SavedIInv, Buffered
  <2>3. NextUnit(t) \in Unit
    BY <1>1, NextInSave
  <2>4. /\ \A i \in Offsets :
             Shadow(i)' = IF i = job[t].at THEN NextUnit(t) ELSE Shadow(i)
        /\ \A i \in Offsets : i >= w'.sector * K =>
             i >= w.sector * K /\ flash'["startup"][i] = flash["startup"][i]
    <3>1. PICK u \in Unit : u = NextUnit(t)
      BY <2>3
    <3>2. /\ \A i \in Offsets :
               Shadow(i)' = IF i = w.sector * K + w.walker THEN u ELSE Shadow(i)
          /\ \A i \in Offsets : i >= w'.sector * K =>
               i >= w.sector * K /\ flash'[w.part][i] = flash[w.part][i]
      <4>1. Put(u)
        BY <3>1
      <4> QED BY <1>1, <4>1, PutUnit
    <3> QED BY <2>1, <2>2, <3>1, <3>2
  <2>5. ASSUME NEW i \in Offsets, i >= job'[t].at PROVE Shadow(i)' = last'.found[i]
    <3>1. i # job[t].at /\ ~(i < job[t].at)
      BY <1>2, <2>1, <2>5, Sizes
    <3> QED BY <2>1, <2>4, <3>1
  <2>6. ASSUME NEW i \in Offsets, i >= w'.sector * K
        PROVE  flash'["startup"][i] = last'.found[i]
    BY <2>1, <2>4, <2>6
  <2>7. SaveFound(t)'
    BY <1>2, <2>1, <2>5, <2>6 DEF SaveFound
  <2>8. \A u \in Writers : SaveFound(u)'
    BY <1>3, <2>7 DEF SaveFound
  <2>9. LeftTorn'
    <3>1. job'[t] # Idle
      BY <1>1, <1>2
    <3> QED BY <1>2, <1>3, <1>5, <3>1 DEF LeftTorn
  <2> QED BY <2>8, <2>9 DEF TornIInv
<1> QED BY <1>4, <1>5

LEMMA TornBoot ==
  ASSUME TornIInv, SavedIInv', NEW fl \in [Parts -> FileType], Boot(fl),
         last # NoSave => /\ last.new \in [Cells -> Nat]
                          /\ \E j \in 0 .. N : Torn(fl["startup"], j)
  PROVE  TornIInv'
<1>1. flash' = fl /\ last' = last /\ job' = [t \in Writers |-> Idle]
  BY DEF Boot
<1>2. \A t \in Writers : job'[t] = Idle
  BY <1>1
<1>3. LeftTorn'
  <2>1. \A j : Torn(flash["startup"], j)' <=> Torn(fl["startup"], j)
    BY <1>1 DEF Torn
  <2> QED BY <1>1, <1>2, <2>1 DEF LeftTorn
<1>4. \A t \in Writers : SaveFound(t)'
  BY <1>2 DEF SaveFound, Saves, Idle
<1> QED BY <1>3, <1>4 DEF TornIInv

LEMMA TornPowerLoss ==
  ASSUME TornIInv, SavedIInv', PowerLoss
  PROVE  TornIInv'
<1>1. SavedIInv /\ TypeInv /\ LeftTorn
  BY DEF TornIInv, SavedIInv
<1>2. flash \in [Parts -> FileType]
  BY <1>1 DEF TypeInv
<1>3. CASE Boot(flash)
  BY <1>2, <1>3, TornNow, TornBoot
<1>4. CASE \E t \in Writers : \E x \in Pending(t), n \in 0 .. K :
             Boot([flash EXCEPT ![x.part] = Program(@, x.sector, Cut(x.buf, n))])
  <2>1. PICK t \in Writers : \E x \in Pending(t), n \in 0 .. K :
             Boot([flash EXCEPT ![x.part] = Program(@, x.sector, Cut(x.buf, n))])
    BY <1>4
  <2>2. PICK x \in Pending(t), n \in 0 .. K :
             Boot([flash EXCEPT ![x.part] = Program(@, x.sector, Cut(x.buf, n))])
    BY <2>1
  <2>3. x.part = job[t].part /\ x.part \in Parts /\ job[t] # Idle
        /\ x.sector \in Nat /\ x.buf \in BufType
    BY <1>1, PendingPart
  <2>4. Cut(x.buf, n) \in BufType
    BY <2>3, CutUnits
  <2>5. flash[x.part] \in FileType
    BY <1>2, <2>3
  <2>6. Program(flash[x.part], x.sector, Cut(x.buf, n)) \in FileType
    BY <2>3, <2>4, <2>5, ProgramUnits
  <2>7. PICK fl : fl = [flash EXCEPT ![x.part] = Program(@, x.sector, Cut(x.buf, n))]
    OBVIOUS
  <2>8. fl \in [Parts -> FileType]
        /\ fl[x.part] = Program(flash[x.part], x.sector, Cut(x.buf, n))
    <3> HIDE DEF FileType
    <3> QED BY <1>2, <2>3, <2>6, <2>7
  <2>9. ASSUME last # NoSave
        PROVE  /\ last.new \in [Cells -> Nat]
               /\ \E j \in 0 .. N : Torn(fl["startup"], j)
    <3>1. Saves(t) /\ job[t].part = "startup"
      BY <1>1, <2>3, <2>9 DEF LeftTorn
    <3>2. \E j \in 0 .. N : Torn(Program(flash["startup"], x.sector, Cut(x.buf, n)), j)
      BY <3>1, TornSector
    <3>3. fl["startup"] = Program(flash["startup"], x.sector, Cut(x.buf, n))
      BY <2>3, <2>8, <3>1
    <3> QED BY <2>9, <3>2, <3>3, TornNow
  <2>10. Boot(fl)
    BY <2>2, <2>7
  <2> QED BY <2>8, <2>9, <2>10, TornBoot
<1> QED BY <1>3, <1>4 DEF PowerLoss

LEMMA TornInit ==
  ASSUME Init
  PROVE  TornIInv
<1>1. SavedIInv
  BY SavedInit
<1>2. job = [t \in Writers |-> Idle] /\ last = NoSave
  BY DEF Init
<1>3. \A t \in Writers : ~Saves(t)
  BY <1>2 DEF Saves, Idle
<1> QED BY <1>1, <1>2, <1>3 DEF TornIInv, LeftTorn, SaveFound

LEMMA TornNext ==
  ASSUME Alone, TornIInv, [Next]_vars
  PROVE  TornIInv'
<1> SavedIInv /\ Idle.op = "idle"
  BY DEF TornIInv, Idle
<1> SavedIInv'
  BY SavedNext
<1>1. ASSUME NEW n \in 1 .. NumTables, Change(n) PROVE TornIInv'
  BY <1>1, TornSame DEF Change
<1>2. ASSUME NEW t \in Writers, NEW p \in Parts, Save(t, p) PROVE TornIInv'
  BY <1>2, TornSave
<1>3. ASSUME NEW t \in Writers, NEW p \in Parts, Clear(t, p) PROVE TornIInv'
  <2>1. Begin(t, "clear", p, Nothing) /\ flash' = flash
    BY <1>3 DEF Clear
  <2>2. Nothing \in Contents /\ "clear" \in Ops \ {"idle", "save"}
        /\ "clear" \notin {"mark", "end"}
    BY UnitsOf DEF Ops
  <2> QED BY <2>1, <2>2, TornBegin
<1>4. ASSUME NEW t \in Writers, SaveField(t) PROVE TornIInv'
  <2>1. job[t].op = "save" /\ Put(NextUnit(t)) /\ saved' = saved /\ last' = last
    BY <1>4 DEF SaveField
  <2>2. PICK op \in {"save", "mark", "end"} : Step(t, op)
    BY <1>4 DEF SaveField
  <2>3. job[t].op \in {"save", "mark"}
    BY <2>1
  <2> QED BY <2>1, <2>2, <2>3, TornPut
<1>5. ASSUME NEW t \in Writers, SaveMark(t) PROVE TornIInv'
  <2>1. /\ job[t].op \in {"save", "mark"} /\ Put(NextUnit(t)) /\ saved' = saved /\ last' = last
        /\ Step(t, "end") /\ "end" \in {"save", "mark", "end"}
    BY <1>5 DEF SaveMark
  <2> QED BY <2>1, TornPut
<1>6. ASSUME NEW t \in Writers, SaveEnd(t) PROVE TornIInv'
  BY <1>6, TornFinish DEF SaveEnd
<1>7. ASSUME NEW t \in Writers, ClearWrite(t) PROVE TornIInv'
  <2>1. job[t].op = "clear" /\ Step(t, "cleared") /\ saved' = saved /\ last' = last
    BY <1>7 DEF ClearWrite
  <2>2. job[t] # Idle /\ ~Saves(t) /\ "cleared" \in Ops \ {"idle", "save"}
        /\ "cleared" \notin {"mark", "end"}
    BY <2>1 DEF Saves, Ops
  <2> QED BY <2>1, <2>2, TornOther
<1>8. ASSUME NEW t \in Writers, ClearEnd(t) PROVE TornIInv'
  BY <1>8, TornFinish DEF ClearEnd
<1>9. ASSUME NEW t \in Writers, Restore(t) PROVE TornIInv'
  <2>1. Begin(t, "restore", "startup", Load(temp)) /\ flash' = flash
    BY <1>9 DEF Restore
  <2>2. temp \in FileType
    BY DEF SavedIInv, TypeInv
  <2>3. Load(temp) \in Contents
    BY <2>2, LoadType
  <2>4. "restore" \in Ops \ {"idle", "save"} /\ "restore" \notin {"mark", "end"}
        /\ "startup" \in Parts
    BY DEF Ops, Parts
  <2> QED BY <2>1, <2>3, <2>4, TornBegin
<1>10. ASSUME NEW t \in Writers, CopySector(t) PROVE TornIInv'
  <2>1. job[t].op \in {"reset", "restore"} /\ Step(t, job[t].op) /\ saved' = saved
        /\ last' = last
    BY <1>10 DEF CopySector
  <2>2. job[t] # Idle /\ ~Saves(t) /\ job[t].op \in Ops \ {"idle", "save"}
        /\ job[t].op \notin {"mark", "end"}
    BY <2>1 DEF Saves, Ops
  <2> QED BY <2>1, <2>2, TornOther
<1>11. ASSUME NEW t \in Writers, CopyEnd(t) PROVE TornIInv'
  BY <1>11, TornFinish DEF CopyEnd
<1>12. CASE Reset
  <2>1. Begin("db", "reset", "startup", saved["factory"]) /\ flash' = flash
    BY <1>12 DEF Reset
  <2>2. saved["factory"] \in Contents /\ "reset" \in Ops \ {"idle", "save"}
        /\ "reset" \notin {"mark", "end"} /\ "startup" \in Parts /\ "db" \in Writers
    BY DEF SavedIInv, TypeInv, Ops, Parts, Writers
  <2> QED BY <2>1, <2>2, TornBegin
<1>13. ASSUME NEW n \in 1 .. N + 1, Upload(n) PROVE TornIInv'
  BY <1>13, TornSame DEF Upload, ram
<1>14. CASE PowerLoss
  BY <1>14, TornPowerLoss
<1>15. CASE UNCHANGED vars
  BY <1>15, TornSame DEF vars
<1> QED
  BY Zenon, <1>1, <1>2, <1>3, <1>4, <1>5, <1>6, <1>7, <1>8, <1>9, <1>10, <1>11, <1>12, <1>13,
     <1>14, <1>15 DEF Next

\* What a boot makes of a torn file.
LEMMA TornLoads ==
  ASSUME TornIInv
  PROVE  TornInOrder
<1> DEFINE f == flash["startup"]
           img == Image(flash)
           base == Over(Default, flash["factory"])
<1> SUFFICES ASSUME last # NoSave
             PROVE  \E k \in 0 .. N : \A c \in Cells :
                      \/ c <= k /\ img[c] = last.new[c]
                      \/ c > k /\ (img[c] = base[c]
                                   \/ \E i \in Offsets : last.found[i] = <<c, img[c]>>)
  BY DEF TornInOrder
<1>1. f \in FileType
  BY DEF TornIInv, SavedIInv, TypeInv, Parts
<1>2. last.new \in [Cells -> Nat]
  BY TornNow
<1>3. PICK j \in 0 .. N : Torn(f, j)
  BY TornNow
<1>4. N \in Nat /\ j \in Nat /\ Offsets \subseteq Nat
  BY Sizes
<1>5. \A i \in Offsets : i < j => f[i] = <<i + 1, last.new[i + 1]>>
  BY <1>3 DEF Torn
<1>6. \A c \in 1 .. j : c \in DOMAIN Load(f) /\ Load(f)[c] = last.new[c]
  <2>1. PICK d \in [Cells -> Nat] : d = last.new
    BY <1>2
  <2>2. PICK g \in FileType : g = f
    BY <1>1
  <2>3. \A i \in Offsets : i < j => g[i] = <<i + 1, d[i + 1]>>
    BY <1>5, <2>1, <2>2
  <2>4. \A c \in 1 .. j : c \in DOMAIN Load(g) /\ Load(g)[c] = d[c]
    BY <2>3, NewLoaded
  <2> QED BY <2>1, <2>2, <2>4
<1>7. \A c \in Cells : img[c] = IF c \in DOMAIN Load(f) THEN Load(f)[c] ELSE base[c]
  <2> HIDE DEF Load
  <2> QED BY DEF Image, Over
<1>8. ASSUME NEW c \in Cells
      PROVE  \/ c <= j /\ img[c] = last.new[c]
             \/ c > j /\ (img[c] = base[c]
                          \/ \E i \in Offsets : last.found[i] = <<c, img[c]>>)
  <2> HIDE DEF f, img, base
  <2>1. CASE c <= j
    <3>1. c \in 1 .. j
      BY <1>4, <2>1 DEF Cells
    <3> QED BY <1>6, <1>7, <2>1, <3>1
  <2>2. CASE ~(c <= j)
    <3>1. c > j /\ c \in Nat /\ c # 0
      BY <1>4, <2>2 DEF Cells
    <3>2. CASE c \notin DOMAIN Load(f)
      BY <1>7, <3>1, <3>2
    <3>3. CASE c \in DOMAIN Load(f)
      <4>1. PICK i \in Text(f) : f[i] = <<c, Load(f)[c]>>
        BY <1>1, <3>3, LoadedFrom
      <4>2. i \in Offsets /\ i \in Nat /\ f[i] # EndMark
        BY <1>4 DEF Text
      <4>3. ~(i < j)
        <5> SUFFICES ASSUME i < j PROVE FALSE
          OBVIOUS
        <5>1. c = i + 1
          BY <1>5, <4>1, <4>2
        <5> QED BY <1>4, <2>2, <4>2, <5>1
      <4>4. f[i] \in {Blank, EndMark, last.found[i]}
        BY <1>3, <4>2, <4>3 DEF Torn
      <4>5. f[i] # Blank
        BY <3>1, <4>1 DEF Blank
      <4>6. last.found[i] = <<c, img[c]>>
        BY <1>7, <3>3, <4>1, <4>2, <4>4, <4>5
      <4> QED BY <3>1, <4>2, <4>6
    <3> QED BY <3>2, <3>3
  <2> QED BY <2>1, <2>2
<1> QED BY <1>8

\* A save of the startup file that a loss of power cuts short leaves the new
\* values up to some field, and behind it only what the file, the factory file
\* or the defaults held.
THEOREM TornInOrderAlways ==
  ASSUME Alone
  PROVE  Spec => []TornInOrder
<1>1. Init => TornIInv
  BY TornInit
<1>2. TornIInv /\ [Next]_vars => TornIInv'
  BY TornNext
<1>3. TornIInv => TornInOrder
  BY TornLoads
<1> QED BY <1>1, <1>2, <1>3, PTL DEF Spec
================================================================================
