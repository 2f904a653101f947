------------------------------ MODULE CfgFlash ------------------------------
(***************************************************************************)
(* The configuration files in flash: saving the running tables, clearing a *)
(* file, resetting to the factory file, restoring an uploaded one, and the *)
(* boot that loads them, with a loss of power at any moment.               *)
(*                                                                         *)
(* A file is a row of units, one for each write of _db_data_save_running:  *)
(* a cell (a field of a table) with its value, the first one behind the    *)
(* magic word, and the end mark.  All writers share one sector buffer.     *)
(***************************************************************************)
EXTENDS Integers, FiniteSets

CONSTANTS
  NumTables, NumFields,  \* the tables that are saved and the fields of each
  K,          \* units in a sector of the flash
  NumSectors, \* sectors in a partition
  Tasks,      \* the tasks that write files besides the database task
  Alone,      \* no operation starts while another one is under way
  MaxGen,     \* bound on the changes of the running tables
  MaxOps      \* bound on the operations that write

Parts == {"factory", "startup"}
Writers == Tasks \cup {"db"}
Nobody == "nobody"
N == NumTables * NumFields
Cells == 1 .. N
First(n) == (n - 1) * NumFields + 1
Table(c) == (c - 1) \div NumFields + 1

(* Units: a cell with its value, the end mark, or text that is neither.    *)
EndMark == <<N + 1, 0>>
Blank == <<0, 0>>
Offsets == 0 .. K * NumSectors - 1
NoFile == [i \in Offsets |-> Blank]
(* A file with all cells at value v.                                       *)
File(v) == [i \in Offsets |-> IF i < N THEN <<i + 1, v>>
                              ELSE IF i = N THEN EndMark ELSE Blank]

ASSUME FlashAssumption ==
  /\ NumTables \in Nat \ {0} /\ NumFields \in Nat \ {0} /\ K \in Nat \ {0}
  /\ NumSectors \in Nat /\ N < K * NumSectors
  /\ Alone \in BOOLEAN /\ MaxGen \in Nat /\ MaxOps \in Nat
  /\ Nobody \notin Writers /\ "db" \notin Tasks

VARIABLES
  data,    \* the running tables; a value tells which change or file it came with
  gen,     \* changes so far
  flash,   \* the partitions
  temp,    \* the uploaded file
  w,       \* the sector buffer: partition, sector, contents, walker, received
  mutex,   \* ptr_data_mutex
  job,     \* what each task does: operation, partition, next unit or sector,
           \* and (history) what the partition is to hold in the end
  ops,     \* operations so far
  saved,   \* history: what the last operation on each partition wrote
  last     \* history: of the last save of the startup file, unless it ended,
           \* what it was to write and the file that it found

ram == <<data, gen, w, mutex, job>>
vars == <<data, gen, flash, temp, w, mutex, job, ops, saved, last>>

Nothing == [c \in {} |-> 0]
Unknown == [c \in {0} |-> 0]
NoBuffer == [part |-> "startup", sector |-> 0, buf |-> [i \in 0 .. K - 1 |-> Blank],
             walker |-> 0, received |-> FALSE]
Idle == [op |-> "idle", part |-> "startup", at |-> 0, new |-> Nothing]
NoSave == [new |-> Nothing, found |-> NoFile]

-----------------------------------------------------------------------------
(* Loading a file.                                                         *)

(* The text in front of the end mark, and where a table begins in it.      *)
Text(f) == {i \in Offsets : \A j \in 0 .. i : f[j] # EndMark}
Places(f, t) == {i \in Text(f) : f[i][1] = First(t)}
Start(f, t) == CHOOSE i \in Places(f, t) : \A j \in Places(f, t) : i <= j

(* The fields of a table that are read: those in front of the first one    *)
(* that is missing.                                                        *)
Read(f, t) ==
  {n \in 0 .. NumFields - 1 :
     \A m \in 0 .. n : /\ Start(f, t) + m \in Text(f)
                       /\ f[Start(f, t) + m][1] = First(t) + m}

(* Tables are looked for in order; one with a missing field is the last.   *)
Loaded(f) ==
  {t \in 1 .. NumTables :
     /\ Places(f, t) # {}
     /\ \A s \in 1 .. t - 1 : Places(f, s) # {} => Cardinality(Read(f, s)) = NumFields}

(* _db_is_cfg_exist looks at the magic word only.                          *)
Exists(f) == f[0][1] = 1

Load(f) ==
  IF ~Exists(f) THEN Nothing
  ELSE [c \in UNION {{First(t) + n : n \in Read(f, t)} : t \in Loaded(f)} |->
          f[Start(f, Table(c)) + c - First(Table(c))][2]]

Over(base, f) ==
  LET g == Load(f) IN [c \in Cells |-> IF c \in DOMAIN g THEN g[c] ELSE base[c]]
Default == [c \in Cells |-> 0]
(* What _db_data_init makes of the two files.                              *)
Image(fl) == Over(Over(Default, fl["factory"]), fl["startup"])

-----------------------------------------------------------------------------
(* Writing through the sector buffer.                                      *)

Sector(f, s) ==
  [i \in 0 .. K - 1 |-> IF s < NumSectors THEN f[s * K + i] ELSE Blank]
Program(f, s, b) == [i \in Offsets |-> IF i \div K = s THEN b[i % K] ELSE f[i]]

(* WriteBufferInit.                                                        *)
Open(p) ==
  w' = [part |-> p, sector |-> 0, buf |-> Sector(flash[p], 0), walker |-> 0,
        received |-> FALSE]

Filled(u) == [w.buf EXCEPT ![w.walker] = u]

(* WriteBuffer: a full buffer is programmed and the next sector read back. *)
Put(u) ==
  IF w.walker < K - 1
  THEN /\ w' = [w EXCEPT !.buf = Filled(u), !.walker = @ + 1, !.received = TRUE]
       /\ UNCHANGED flash
  ELSE /\ flash' = [flash EXCEPT ![w.part] = Program(@, w.sector, Filled(u))]
       /\ w' = [w EXCEPT !.sector = @ + 1, !.walker = 0, !.received = FALSE,
                         !.buf = Sector(flash[w.part], w.sector + 1)]

\* Mutant: what is left in the buffer is not programmed.
FlushNot == w' = [w EXCEPT !.received = FALSE] /\ UNCHANGED flash

(* WriteLastBuffer.                                                        *)
Flush ==
  /\ flash' = IF w.received
              THEN [flash EXCEPT ![w.part] = Program(@, w.sector, w.buf)] ELSE flash
  /\ w' = [w EXCEPT !.received = FALSE]

-----------------------------------------------------------------------------
(* Operations.                                                             *)

Begin(t, op, p, new) ==
  /\ job[t] = Idle /\ ops < MaxOps
  /\ Alone => \A u \in Writers : job[u] = Idle
  /\ ops' = ops + 1
  /\ job' = [job EXCEPT ![t] = [op |-> op, part |-> p, at |-> 0, new |-> new]]
  /\ saved' = [saved EXCEPT ![p] = Unknown]
  /\ last' = IF op = "save" /\ p = "startup"
             THEN [new |-> new, found |-> flash["startup"]] ELSE NoSave

(* What the task writes next.                                              *)
NextUnit(t) ==
  CASE job[t].op = "save" -> <<job[t].at + 1, data[job[t].at + 1]>>
    [] job[t].op = "mark" -> EndMark
    [] job[t].op = "clear" -> Blank

Step(t, op) == job' = [job EXCEPT ![t].op = op, ![t].at = @ + 1]
Finish(t) ==
  /\ job' = [job EXCEPT ![t] = Idle]
  /\ saved' = [saved EXCEPT ![job[t].part] = job[t].new]
  /\ last' = NoSave
  /\ UNCHANGED <<data, gen, temp, ops>>

\* Mutant: an update does not wait for the mutex.
ChangeAnyTime(n) ==
  /\ gen < MaxGen /\ job["db"] = Idle
  /\ gen' = gen + 1
  /\ data' = [c \in Cells |-> IF Table(c) = n THEN gen + 4 ELSE data[c]]
  /\ UNCHANGED <<flash, temp, w, mutex, job, ops, saved, last>>

(* The database task stores an update of a table.                          *)
Change(n) ==
  /\ gen < MaxGen /\ job["db"] = Idle /\ mutex = Nobody
  /\ gen' = gen + 1
  /\ data' = [c \in Cells |-> IF Table(c) = n THEN gen + 4 ELSE data[c]]
  /\ UNCHANGED <<flash, temp, w, mutex, job, ops, saved, last>>

(* _db_data_save_running: the mutex is held while the fields are written,  *)
(* and given back before the end mark is.                                  *)
Save(t, p) ==
  /\ t = "db" => p = "startup"
  /\ mutex = Nobody /\ mutex' = t
  /\ Begin(t, "save", p, data) /\ Open(p)
  /\ UNCHANGED <<data, gen, flash, temp>>

SaveField(t) ==
  /\ job[t].op = "save"
  /\ Put(NextUnit(t))
  /\ IF job[t].at + 1 < N THEN Step(t, "save") /\ UNCHANGED mutex
     ELSE Step(t, "mark") /\ mutex' = Nobody
  /\ UNCHANGED <<data, gen, temp, ops, saved, last>>

SaveMark(t) ==
  /\ job[t].op = "mark"
  /\ Put(NextUnit(t)) /\ Step(t, "end")
  /\ UNCHANGED <<data, gen, temp, mutex, ops, saved, last>>

SaveEnd(t) ==
  /\ job[t].op = "end"
  /\ Flush /\ Finish(t)
  /\ UNCHANGED mutex

(* _db_clear_cfgFile: zeros over the magic word.                           *)
Clear(t, p) ==
  /\ t # "db" /\ mutex = Nobody /\ mutex' = t
  /\ Begin(t, "clear", p, Nothing) /\ Open(p)
  /\ UNCHANGED <<data, gen, flash, temp>>

ClearWrite(t) ==
  /\ job[t].op = "clear"
  /\ Put(NextUnit(t)) /\ Step(t, "cleared")
  /\ UNCHANGED <<data, gen, temp, mutex, ops, saved, last>>

ClearEnd(t) ==
  /\ job[t].op = "cleared"
  /\ Flush /\ Finish(t)
  /\ mutex' = Nobody

(* _db_set_reset_factory_flag copies the whole factory file; restoring     *)
(* copies an uploaded file that has its magic word and end mark.           *)
Reset ==
  /\ Begin("db", "reset", "startup", saved["factory"])
  /\ UNCHANGED <<data, gen, flash, temp, w, mutex>>

Restore(t) ==
  /\ t # "db" /\ Exists(temp) /\ Text(temp) # Offsets
  /\ Begin(t, "restore", "startup", Load(temp))
  /\ UNCHANGED <<data, gen, flash, temp, w, mutex>>

(* The sectors that a copy still has to write: those of the whole          *)
(* partition, or those that the file reaches into.                         *)
Source(t) == IF job[t].op = "reset" THEN flash["factory"] ELSE temp
Size(t) ==
  IF job[t].op = "reset" THEN K * NumSectors ELSE Cardinality(Text(temp)) + 1
Copied(t) ==
  [i \in 0 .. K - 1 |->
     LET o == job[t].at * K + i
     IN  IF o < Size(t) THEN Source(t)[o] ELSE flash[job[t].part][o]]

(* flash_partition_copy: one sector with spinor_write.                     *)
CopySector(t) ==
  /\ job[t].op \in {"reset", "restore"} /\ job[t].at * K < Size(t)
  /\ flash' = [flash EXCEPT ![job[t].part] = Program(@, job[t].at, Copied(t))]
  /\ w' = [part |-> job[t].part, sector |-> job[t].at, buf |-> Copied(t),
           walker |-> 0, received |-> FALSE]
  /\ Step(t, job[t].op)
  /\ UNCHANGED <<data, gen, temp, mutex, ops, saved, last>>

CopyEnd(t) ==
  /\ job[t].op \in {"reset", "restore"} /\ job[t].at * K >= Size(t)
  /\ Finish(t)
  /\ UNCHANGED <<flash, w, mutex>>

(* A file is uploaded, whole or cut short.                                 *)
Upload(n) ==
  /\ \A t \in Writers : job[t] = Idle
  /\ temp = NoFile
  /\ temp' = [i \in Offsets |-> IF i < n THEN File(3)[i] ELSE Blank]
  /\ UNCHANGED <<flash, ram, ops, saved, last>>

-----------------------------------------------------------------------------
(* Loss of power.                                                          *)

(* The sector that the next step of a task programs, if it does, and its   *)
(* contents; when the power fails meanwhile it is erased, or programmed up *)
(* to some unit.                                                           *)
Pending(t) ==
  CASE job[t].op \in {"save", "mark", "clear"} /\ w.walker = K - 1 ->
         {[part |-> w.part, sector |-> w.sector, buf |-> Filled(NextUnit(t))]}
    [] job[t].op \in {"end", "cleared"} /\ w.received ->
         {[part |-> w.part, sector |-> w.sector, buf |-> w.buf]}
    [] job[t].op \in {"reset", "restore"} /\ job[t].at * K < Size(t) ->
         {[part |-> job[t].part, sector |-> job[t].at, buf |-> Copied(t)]}
    [] OTHER -> {}
Cut(b, n) == [i \in 0 .. K - 1 |-> IF i < n THEN b[i] ELSE Blank]

(* The boot that follows.                                                  *)
Boot(fl) ==
  /\ flash' = fl /\ data' = Image(fl)
  /\ w' = NoBuffer /\ mutex' = Nobody /\ job' = [t \in Writers |-> Idle]
  /\ UNCHANGED <<gen, temp, ops, saved, last>>

PowerLoss ==
  \/ Boot(flash)
  \/ \E t \in Writers : \E x \in Pending(t), n \in 0 .. K :
       Boot([flash EXCEPT ![x.part] = Program(@, x.sector, Cut(x.buf, n))])

Init ==
  /\ \E f \in {NoFile, File(1)}, g \in {NoFile, File(2)} :
       flash = [p \in Parts |-> IF p = "factory" THEN f ELSE g]
  /\ temp = NoFile
  /\ saved = [p \in Parts |-> Load(flash[p])]
  /\ data = Image(flash) /\ gen = 0
  /\ w = NoBuffer /\ mutex = Nobody
  /\ job = [t \in Writers |-> Idle] /\ ops = 0
  /\ last = NoSave

Next ==
  \/ \E n \in 1 .. NumTables : Change(n)
  \/ \E t \in Writers :
       \/ \E p \in Parts : Save(t, p) \/ Clear(t, p)
       \/ SaveField(t) \/ SaveMark(t) \/ SaveEnd(t)
       \/ ClearWrite(t) \/ ClearEnd(t)
       \/ Restore(t) \/ CopySector(t) \/ CopyEnd(t)
  \/ Reset
  \/ \E n \in 1 .. N + 1 : Upload(n)
  \/ PowerLoss

Spec == Init /\ [][Next]_vars

-----------------------------------------------------------------------------
(* A file that was saved, cleared, reset or restored to the end is what    *)
(* the next boot loads: all its fields come from the one moment when the   *)
(* save began, the two partitions do not disturb each other, and a loss of *)
(* power costs at most the file that was being written.                    *)
SavedIsLoaded ==
  \A p \in Parts : saved[p] # Unknown => Load(flash[p]) = saved[p]

(* A save of the startup file that is cut short leaves the new values up   *)
(* to some field, and after it only what that file or the factory file and *)
(* the defaults held: a boot finds a mixture, but in order.                *)
TornInOrder ==
  LET img == Image(flash)
      base == Over(Default, flash["factory"])
  IN  last # NoSave =>
        \E k \in 0 .. N : \A c \in Cells :
          \/ c <= k /\ img[c] = last.new[c]
          \/ c > k /\ (img[c] = base[c] \/ \E i \in Offsets : last.found[i] = <<c, img[c]>>)
===============================================================================
