------------------------------- MODULE AvlTree -------------------------------
(***************************************************************************)
(* The subscription tree of the database: an AVL tree of keys, with links  *)
(* to the parents, and a list of clients at each node.  A node has an      *)
(* address; when an inner node is deleted its predecessor's key and list   *)
(* move into it, and the predecessor's node is freed.                      *)
(*                                                                         *)
(* The functions take and return a tree t = [root, at], where at[n] is the *)
(* node at address n.  What the code writes twice, for left and right, is  *)
(* written once for a side d.  The depth of the recursions is that of the  *)
(* tree; in the code they are loops.                                       *)
(***************************************************************************)
EXTENDS Integers, FiniteSets, SequencesExt

CONSTANTS
  Keys,      \* the keys in the order of memcmp
  Clients,
  Wanted     \* who may subscribe to what: a set of <<key, client>>

ASSUME TreeAssumption == Keys \subseteq Int /\ Wanted \subseteq Keys \X Clients

Addr == 1..Cardinality(Keys)
Null == 0

VARIABLE tree

Blank == [key |-> Null, list |-> << >>, parent |-> Null,
          left |-> Null, right |-> Null, bf |-> 0]

Sides == {"left", "right"}
Other(d) == IF d = "left" THEN "right" ELSE "left"

(* bf counts the left side positive.                                       *)
Weight(d) == IF d = "left" THEN 1 ELSE -1

SideOf(t, n) == IF t.at[t.at[n].parent].left = n THEN "left" ELSE "right"

-----------------------------------------------------------------------------
(* Links.                                                                  *)

SetParent(t, n, p) == IF n = Null THEN t ELSE [t EXCEPT !.at[n].parent = p]

SetChild(t, n, d, c) == SetParent([t EXCEPT !.at[n][d] = c], c, n)

(* n takes the place of m below the parent of m, or at the root.           *)
Replace(t, m, n) ==
  LET p == t.at[m].parent
      u == IF p = Null THEN [t EXCEPT !.root = n]
           ELSE [t EXCEPT !.at[p][SideOf(t, m)] = n]
  IN  SetParent(u, n, p)

(* Node n goes up into the place of its parent, which becomes its child on *)
(* side d.                                                                 *)
Lift(t, n, d) ==
  LET p == t.at[n].parent
      u == SetChild(Replace(t, p, n), p, Other(d), t.at[n][d])
  IN  SetChild(u, n, d, p)

\* Mutant: an even node is lifted like one that leans.
RotateEven(t, n, d) ==
  [Lift(t, n, d) EXCEPT !.at[n].bf = 0, !.at[t.at[n].parent].bf = 0]

Rotate(t, n, d) ==
  LET b == t.at[n].bf + Weight(d)
  IN  [Lift(t, n, d) EXCEPT !.at[n].bf = b, !.at[t.at[n].parent].bf = - b]

(* Node n is the child on side d of its parent; its child m on the other   *)
(* side goes up two levels, between them.                                  *)
Twist(t, n, d) ==
  LET p == t.at[n].parent
      m == t.at[n][Other(d)]
      b == t.at[m].bf
      u == SetChild(Replace(t, p, m), n, Other(d), t.at[m][d])
      v == SetChild(u, p, d, t.at[m][Other(d)])
      w == SetChild(SetChild(v, m, d, n), m, Other(d), p)
  IN  [w EXCEPT !.at[w.at[m].left].bf = IF b = -1 THEN 1 ELSE 0,
                !.at[w.at[m].right].bf = IF b = 1 THEN -1 ELSE 0,
                !.at[m].bf = 0]

-----------------------------------------------------------------------------
(* Balance.                                                                *)

(* The tree below n became higher.                                         *)
RECURSIVE BalanceInsert(_, _)
BalanceInsert(t, n) ==
  LET p == t.at[n].parent
      d == SideOf(t, n)
      w == Weight(d)
  IN  IF p = Null THEN t
      ELSE CASE t.at[p].bf = w   -> IF t.at[n].bf = - w THEN Twist(t, n, d)
                                   ELSE Rotate(t, n, Other(d))
             [] t.at[p].bf = - w -> [t EXCEPT !.at[p].bf = 0]
             [] OTHER            -> BalanceInsert([t EXCEPT !.at[p].bf = w], p)

(* The tree below n became lower.  A rotation about the sibling m leaves   *)
(* the tree as high as it was only if m was even.                          *)
RECURSIVE BalanceRemove(_, _)
BalanceRemove(t, n) ==
  LET p == t.at[n].parent
      d == SideOf(t, n)
      w == Weight(d)
      m == t.at[p][Other(d)]
      u == IF t.at[m].bf = w THEN Twist(t, m, Other(d)) ELSE Rotate(t, m, d)
  IN  IF p = Null THEN t
      ELSE CASE t.at[p].bf = - w -> IF t.at[m].bf = 0 THEN u
                                    ELSE BalanceRemove(u, u.at[p].parent)
             [] t.at[p].bf = 0   -> [t EXCEPT !.at[p].bf = - w]
             [] OTHER             -> BalanceRemove([t EXCEPT !.at[p].bf = 0], p)

-----------------------------------------------------------------------------
(* Search and order.                                                       *)

Toward(t, n, k) == IF t.at[n].key < k THEN t.at[n].right ELSE t.at[n].left

(* The node of key k in the tree below n, or Null.                         *)
RECURSIVE Find(_, _, _)
Find(t, n, k) ==
  IF n = Null \/ t.at[n].key = k THEN n ELSE Find(t, Toward(t, n, k), k)

(* The node below which key k belongs.                                     *)
RECURSIVE Place(_, _, _)
Place(t, n, k) == IF Toward(t, n, k) = Null THEN n ELSE Place(t, Toward(t, n, k), k)

RECURSIVE Farthest(_, _, _)
Farthest(t, n, d) == IF t.at[n][d] = Null THEN n ELSE Farthest(t, t.at[n][d], d)

(* The first ancestor that n is to the left of; none for the last node,    *)
(* where the code goes on through the parent of the root.                  *)
RECURSIVE Climb(_, _)
Climb(t, n) ==
  LET p == t.at[n].parent
  IN  IF p = Null \/ t.at[p].left = n THEN p ELSE Climb(t, p)

\* Mutant: a node without a right child is followed by its parent.
FindNextUp(t, n) ==
  IF t.at[n].right = Null THEN t.at[n].parent ELSE Farthest(t, t.at[n].right, "left")

FindNext(t, n) ==
  IF t.at[n].right = Null THEN Climb(t, n) ELSE Farthest(t, t.at[n].right, "left")

FindFirst(t) == IF t.root = Null THEN Null ELSE Farthest(t, t.root, "left")

-----------------------------------------------------------------------------
(* Subscription.                                                           *)

ListOf(t, k) == LET n == Find(t, t.root, k) IN IF n = Null THEN << >> ELSE t.at[n].list

Free(t) == {n \in Addr : t.at[n] = Blank}

(* A new node of key k for client c.                                       *)
NewNode(t, k, c) ==
  LET n == CHOOSE x \in Free(t) : \A y \in Free(t) : x <= y
      p == Place(t, t.root, k)
      u == [t EXCEPT !.at[n] = [Blank EXCEPT !.key = k, !.list = <<c>>]]
  IN  IF t.root = Null THEN [u EXCEPT !.root = n]
      ELSE BalanceInsert(SetChild(u, p, IF t.at[p].key < k THEN "right" ELSE "left", n), n)

(* db_subscribe asks for the client before it adds it.                     *)
Add(k, c) ==
  LET n == Find(tree, tree.root, k)
  IN  /\ ~ Contains(ListOf(tree, k), c)
      /\ tree' = IF n = Null THEN NewNode(tree, k, c)
                 ELSE [tree EXCEPT !.at[n].list = Append(@, c)]

(* Node n, which has at most one child, leaves the tree and is freed.  A   *)
(* leaf still has its place while the tree is balanced.                    *)
Unlink(t, n) ==
  LET c == IF t.at[n].left = Null THEN t.at[n].right ELSE t.at[n].left
      u == IF c = Null THEN Replace(BalanceRemove(t, n), n, c)
           ELSE BalanceRemove(Replace(t, n, c), c)
  IN  [u EXCEPT !.at[n] = Blank]

\* Mutant: the key of the predecessor moves, its clients do not.
RemoveNodeKeyOnly(t, n) ==
  LET m == Farthest(t, t.at[n].left, "right")
  IN  IF t.at[n].left = Null THEN Unlink(t, n)
      ELSE Unlink([t EXCEPT !.at[n].key = t.at[m].key], m)

(* A node with a left child takes over the key and the clients of its      *)
(* predecessor, whose node goes instead.                                   *)
RemoveNode(t, n) ==
  LET m == Farthest(t, t.at[n].left, "right")
  IN  IF t.at[n].left = Null THEN Unlink(t, n)
      ELSE Unlink([t EXCEPT !.at[n].key = t.at[m].key, !.at[n].list = t.at[m].list], m)

Del(k, c) ==
  LET n == Find(tree, tree.root, k)
  IN  /\ Contains(ListOf(tree, k), c)
      /\ tree' = IF Len(tree.at[n].list) > 1
                 THEN [tree EXCEPT !.at[n].list = Remove(@, c)]
                 ELSE RemoveNode(tree, n)

Init == tree = [root |-> Null, at |-> [n \in Addr |-> Blank]]

Next == \E w \in Wanted : Add(w[1], w[2]) \/ Del(w[1], w[2])

Spec == Init /\ [][Next]_tree

-----------------------------------------------------------------------------
(* The values of the nodes: a node in use has a client.                    *)
TypeOK ==
  /\ tree.root \in Addr \cup {Null}
  /\ \A n \in Addr : tree.at[n] # Blank =>
       /\ tree.at[n].key \in Keys /\ tree.at[n].list # << >>
       /\ ToSet(tree.at[n].list) \subseteq {w[2] : w \in Wanted}
       /\ {tree.at[n][d] : d \in Sides} \cup {tree.at[n].parent} \subseteq Addr \cup {Null}
       /\ tree.at[n].bf \in -1 .. 1

RECURSIVE Height(_)
Height(n) ==
  IF n = Null THEN 0
  ELSE LET l == Height(tree.at[n].left)
           r == Height(tree.at[n].right)
       IN  1 + IF l > r THEN l ELSE r

(* The sides of every node differ in height by what its bf says, at most   *)
(* one, whatever was added and deleted in whatever order (all rotations,   *)
(* and the balance that goes on above them after a deletion).              *)
Balanced ==
  \A n \in Addr : tree.at[n] # Blank =>
    Height(tree.at[n].left) - Height(tree.at[n].right) = tree.at[n].bf

(* Links go both ways and no node in use is lost: the root has no parent,  *)
(* a child names its parent, and every other node is the child of one.     *)
Linked ==
  /\ tree.root # Null => tree.at[tree.root] # Blank /\ tree.at[tree.root].parent = Null
  /\ \A n \in Addr, d \in Sides : tree.at[n][d] # Null =>
       tree.at[tree.at[n][d]] # Blank /\ tree.at[tree.at[n][d]].parent = n
  /\ \A n \in Addr : tree.at[n] # Blank /\ n # tree.root =>
       LET p == tree.at[n].parent
       IN  p # Null /\ Cardinality({d \in Sides : tree.at[p][d] = n}) = 1

(* After any additions and deletions the nodes in use form one balanced    *)
(* tree whose links and balance values are right.                          *)
Shape == TypeOK /\ Linked /\ Balanced

RECURSIVE WalkFrom(_, _)
WalkFrom(n, limit) ==
  IF n = Null \/ limit = 0 THEN << >>
  ELSE <<tree.at[n].key>> \o WalkFrom(FindNext(tree, n), limit - 1)

Used == {n \in Addr : tree.at[n] # Blank}

(* From db_find_sub_first on, db_find_sub_next comes by every key once, in *)
(* their order, as db_dumpSubTree prints them.                             *)
Walked ==
  LET w == WalkFrom(FindFirst(tree), Cardinality(Addr) + 1)
  IN  /\ ToSet(w) = {tree.at[n].key : n \in Used} /\ Len(w) = Cardinality(Used)
      /\ \A i \in 2 .. Len(w) : w[i - 1] < w[i]

(* A search from the root comes to the one node of a key, and to none if   *)
(* the key has none (db_find_client_sub, db_find_client_head).             *)
Found ==
  \A k \in Keys :
    Find(tree, tree.root, k) \in
      IF \E n \in Used : tree.at[n].key = k THEN {n \in Used : tree.at[n].key = k} ELSE {Null}

(* The dump of the subscriptions and the search of a key both see exactly  *)
(* the keys that are subscribed.                                           *)
Ordered == Walked /\ Found

(* The keys and lists of the nodes change as a table of keys and clients   *)
(* does: deleting a key takes no other with it, and the client who came    *)
(* first stays first.                                                      *)
Table == INSTANCE SubTable WITH
  table <- {<<tree.at[n].key, tree.at[n].list>> : n \in Used}
IsTable == Table!Spec
=============================================================================
