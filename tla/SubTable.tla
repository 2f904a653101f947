------------------------------ MODULE SubTable ------------------------------
(***************************************************************************)
(* What the subscription tree stands for: a set of entries, each a key and *)
(* its clients in the order in which they subscribed.                      *)
(***************************************************************************)
EXTENDS Sequences

CONSTANTS Keys, Clients

VARIABLE table

Init == table = {}

Lists(k) == {e[2] : e \in {x \in table : x[1] = k}}
In(c, list) == \E i \in DOMAIN list : list[i] = c

Becomes(k, old, new) == table' = (table \ {<<k, old>>}) \cup {<<k, new>>}

Add(k, c) ==
  IF Lists(k) = {} THEN table' = table \cup {<<k, <<c>>>>}
  ELSE \E list \in Lists(k) : ~ In(c, list) /\ Becomes(k, list, Append(list, c))

Del(k, c) ==
  \E list \in Lists(k) :
    /\ In(c, list)
    /\ IF list = <<c>> THEN table' = table \ {<<k, list>>}
       ELSE Becomes(k, list, SelectSeq(list, LAMBDA x : x # c))

Next == \E k \in Keys, c \in Clients : Add(k, c) \/ Del(k, c)

Spec == Init /\ [][Next]_table
=============================================================================
