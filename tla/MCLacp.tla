-------------------------------- MODULE MCLacp --------------------------------
(* Two ports and a third, the longest timers cut to a tick or two.         *)
EXTENDS LacpGroup

TwoPorts == {1, 2}
OneMoves == [p \in Ports |-> IF p = 1 THEN {1, 2} ELSE {1}]
SamePrio == [s \in {"own", "b", "nobody"} |-> 0]

Sync == {"act", "agg", "sync"}
Coll == Sync \cup {"coll"}
Heard(s, k, b, known) == [sys |-> s, key |-> k, state |-> b, known |-> known]
SomeFrames ==
  {Heard("own", 1, Sync, TRUE), Heard("b", 1, Coll, FALSE), Heard("b", 1, Sync, TRUE)}
    \cup {Heard("b", k, Coll, TRUE) : k \in {1, 2}}
===============================================================================
