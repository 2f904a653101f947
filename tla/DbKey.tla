------------------------------- MODULE DbKey -------------------------------
(***************************************************************************)
(* The request keys of the in-memory database and the subscription search. *)
(*                                                                         *)
(* A request names a table, a field and an entry (DB_REQUEST_TYPE_T).      *)
(* Fields and entries count from 1; 0 stands for all of them, so one key   *)
(* may cover many cells of a table.  Subscriptions are stored under the    *)
(* key they were asked for, and a notification is found by looking up a    *)
(* handful of derived keys, SearchKeys, never by testing for overlap.      *)
(***************************************************************************)
EXTENDS Integers

CONSTANTS
    Tables,   \* TABLES_T without SYSTEM, whose writes are commands
    Fields,   \* 1 .. field_num
    Entries   \* 1 .. entry_num

ASSUME KeyAssumption == Fields \subseteq Nat \ {0} /\ Entries \subseteq Nat \ {0}

\* DB_ALL_FIELDS and DB_ALL_ENTRIES.
ALL == 0

\* The keys that pass _db_parse_payload.
Key == [t : Tables, f : Fields \cup {ALL}, e : Entries \cup {ALL}]

\* The cells of the tables: one field of one entry.
Cell == [t : Tables, f : Fields, e : Entries]

Covers(k, x) == /\ k.t = x.t
                /\ k.f \in {ALL, x.f}
                /\ k.e \in {ALL, x.e}

CellsOf(k) == {x \in Cell : Covers(k, x)}

\* The key of another field and entry in the table of k.
At(k, f, e) == [t |-> k.t, f |-> f, e |-> e]

Overlap(j, k) == \E x \in Cell : Covers(j, x) /\ Covers(k, x)

\* The keys under which db_notificationsHandle looks for the subscribers of
\* an update of k: k itself, the whole table, and
\*   - for a cell, its whole field and its whole entry;
\*   - for a whole entry, every field of that entry;
\*   - for a whole field, every entry of that field.
SearchKeys(k) ==
    {k, At(k, ALL, ALL)}
    \cup (IF k.f # ALL /\ k.e # ALL THEN {At(k, k.f, ALL), At(k, ALL, k.e)} ELSE {})
    \cup (IF k.f = ALL /\ k.e # ALL THEN {At(k, g, k.e) : g \in Fields} ELSE {})
    \cup (IF k.f # ALL /\ k.e = ALL THEN {At(k, k.f, g) : g \in Entries} ELSE {})
=============================================================================
