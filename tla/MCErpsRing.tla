------------------------------ MODULE MCErpsRing ------------------------------
(***************************************************************************)
(* Port roles for the run of ErpsRing.                                     *)
(***************************************************************************)
EXTENDS ErpsRing

(* The owner on its east port, and the neighbour at the other end of the   *)
(* RPL or a plain node.                                                    *)
Plain == [p \in Ports |-> "TRANSFER"]
Layout(o, neighbor) ==
  [n \in Nodes |->
     IF n = o THEN [Plain EXCEPT !["east"] = "OWNER"]
     ELSE IF neighbor /\ n = East(o, 1) THEN [Plain EXCEPT !["west"] = "NEIGHBOR"]
     ELSE Plain]
TwoOwners == {Layout(0, TRUE), Layout(2, FALSE)}
=============================================================================
