-------------------------------- MODULE Alarms --------------------------------
(***************************************************************************)
(* What the timers of ERPS promise: an alarm that is set rings once, never *)
(* before its time and never after it was cancelled, and when one rings    *)
(* none that is due is left, unless the one that rang cancelled it.        *)
(***************************************************************************)
EXTENDS Integers

CONSTANTS Kinds, Duration, Places

VARIABLES
  alarm,  \* for each place: nothing, or a kind and the time that is left
  rang    \* the places whose alarm rang in the last step

vars == <<alarm, rang>>

Nothing == [kind |-> "none", left |-> 0]
Armed == {i \in Places : alarm[i] # Nothing}
Due == {i \in Armed : alarm[i].left <= 0}

Init == alarm = [i \in Places |-> Nothing] /\ rang = {}

Clear(S) == alarm' = [i \in Places |-> IF i \in S THEN Nothing ELSE alarm[i]]

Set(i, k) ==
  /\ rang' = {} /\ i \notin Armed
  /\ \E d \in Duration[k] : alarm' = [alarm EXCEPT ![i] = [kind |-> k, left |-> d]]

Cancel(S) == rang' = {} /\ Clear(S)

Tick ==
  /\ rang' = {}
  /\ alarm' = [i \in Places |->
                 IF i \in Armed THEN [alarm[i] EXCEPT !.left = @ - 1] ELSE Nothing]

(* Alarms ring; the rest of S are those that they cancel.                  *)
Ring(S) ==
  /\ rang' # {} /\ rang' \subseteq Due /\ Due \subseteq S
  /\ Clear(S)

Next ==
  \/ \E i \in Places, k \in Kinds : Set(i, k)
  \/ \E S \in SUBSET Armed : Cancel(S) \/ Ring(S)
  \/ Tick

Spec == Init /\ [][Next]_vars
===============================================================================
