------------------------------ MODULE MCLacpPair ------------------------------
EXTENDS LacpPair

TwoPorts == {1, 2}
TwoNodes == {"a", "b"}
OneActive == [n \in TwoNodes |-> IF n = "a" THEN {"act"} ELSE {}]
SamePrio == [s \in {"a", "b", "nobody"} |-> 0]
===============================================================================
