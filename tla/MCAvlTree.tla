------------------------------ MODULE MCAvlTree ------------------------------
(***************************************************************************)
(* Subscriptions for the run of AvlTree, and the view that leaves out which*)
(* address a node happens to have.                                         *)
(***************************************************************************)
EXTENDS AvlTree

CONSTANTS one, two
MostByOne == {<<k, one>> : k \in Keys} \cup {<<6, two>>}

KeyOf(n) == IF n = Null THEN Null ELSE tree.at[n].key
ByKey ==
  <<KeyOf(tree.root),
    {[tree.at[n] EXCEPT !.parent = KeyOf(@), !.left = KeyOf(@), !.right = KeyOf(@)] : n \in Addr}>>
=============================================================================
