------------------------------ MODULE MCErpsTimer ------------------------------
(***************************************************************************)
(* Times for the runs of ErpsTimer.                                        *)
(***************************************************************************)
EXTENDS ErpsTimer

(* The WTR and WTB timers are long, the others short.                      *)
SomeDuration ==
  [k \in Kinds |-> IF k \in {"wtr", "wtb"} THEN {2} ELSE {1}]
===============================================================================
