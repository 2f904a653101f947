------------------------------- MODULE LacpPair -------------------------------
(***************************************************************************)
(* Two switches that run this code, port p of one linked to port p of the  *)
(* other.  What a switch learns, frames and the news of its links, waits   *)
(* in the queue of its sys_mgmt task.  Frames may be lost.                 *)
(*                                                                         *)
(* Each switch has its tick once in a second, before or after whatever     *)
(* else the second brings.                                                 *)
(***************************************************************************)
EXTENDS Lacp, SequencesExt

CONSTANTS
  Nodes,      \* the two switches
  Mode,       \* of each: its ports are active or passive
  Early,      \* bound: switches that may be configured before the other
  Fragile,    \* bound: links that may change and lose frames
  Changes,    \* bound: changes of links and of the configuration
  Losses      \* bound: frames that are lost

VARIABLES
  g,          \* the group of each switch
  queue,      \* of each switch: messages with their port
  up,         \* the links that are up
  ticked,     \* switches that had their tick in this second
  due,        \* switches whose timer that suppresses has ended
  changes, losses,
  blind       \* seconds for which a port has sent to one that does not collect

vars == <<g, queue, up, ticked, due, changes, losses, blind>>

Other(n) == CHOOSE m \in Nodes : m # n
Empty == [n \in Nodes |-> << >>]
Response == [kind |-> "response"]
News(s) == [kind |-> "news", up |-> s]
On(p, f) == [port |-> p, what |-> f]

Start(n, s) == Create(NoGroup(n), Mode[n], [p \in Ports |-> 1], s)

Init ==
  /\ \E s \in {Ports, Ports \ Fragile}, on \in {Nodes, Early} :
       /\ up = s /\ (s = Ports \/ on = Nodes)
       /\ g = [n \in Nodes |-> IF n \in on THEN Start(n, s) ELSE NoGroup(n)]
  /\ queue = Empty /\ ticked = {} /\ due = {} /\ changes = 0 /\ losses = 0
  /\ blind = [n \in Nodes |-> [p \in Ports |-> 0]]

-----------------------------------------------------------------------------
(* A new marker takes back the one before it, whose answer is ignored: no  *)
(* marker need have a number.                                              *)
Without(q, f, S) == SelectSeq(q, LAMBDA m : ~(m.what = f /\ m.port \in S))

(* A handler of switch n ends with group h, and q is left in its queue.    *)
Becomes(n, h, q) ==
  LET sent == [p \in Ports |-> IF p \in up THEN h.out[p] ELSE << >>]
      on(p) == [i \in DOMAIN sent[p] |-> On(p, sent[p][i])]
      S == {p \in Ports : Contains(sent[p], Marker)}
      all == FlattenSeq(SetToSortSeq({on(p) : p \in Ports} \ {<< >>},
                                     LAMBDA a, b : a[1].port < b[1].port))
  IN  /\ g' = [g EXCEPT ![n] = [h EXCEPT !.out = [p \in Ports |-> << >>]]]
      /\ queue' = [queue EXCEPT ![n] = Without(q, Response, S),
                                ![Other(n)] = Without(@, Marker, S) \o all]

Handled(n, m) ==
  CASE ~g[n].on -> g[n]
    [] g[n].on /\ m.what.kind = "pdu" -> Receive(g[n], m.port, m.what)
    [] g[n].on /\ m.what = Marker -> [g[n] EXCEPT !.out[m.port] = <<Response>>]
    [] g[n].on /\ m.what = Response -> MarkerResponse(g[n], m.port)
    [] g[n].on /\ m.what = News(TRUE) -> LinkUp(g[n], m.port, g[n].port[m.port].key)
    [] g[n].on /\ m.what = News(FALSE) -> PortDisable(g[n], m.port)

Handle(n) ==
  /\ queue[n] # << >>
  /\ Becomes(n, Handled(n, Head(queue[n])), Tail(queue[n]))
  /\ UNCHANGED <<up, ticked, due, changes, losses, blind>>

TickOf(n) ==
  /\ n \notin ticked
  /\ ticked' = ticked \cup {n}
  /\ Becomes(n, IF g[n].on THEN Tick(g[n]) ELSE g[n], queue[n])
  /\ UNCHANGED <<up, due, changes, losses, blind>>

Ended(n) ==
  /\ n \in due
  /\ due' = due \ {n}
  /\ Becomes(n, Transit(g[n]), queue[n])
  /\ UNCHANGED <<up, ticked, changes, losses, blind>>

-----------------------------------------------------------------------------
(* Links, frames and time.                                                 *)

Flip(p) ==
  /\ changes < Changes
  /\ changes' = changes + 1
  /\ up' = IF p \in up THEN up \ {p} ELSE up \cup {p}
  /\ queue' = [n \in Nodes |-> Append(queue[n], On(p, News(p \notin up)))]
  /\ UNCHANGED <<g, ticked, due, losses, blind>>

(* The user removes the group of a switch, or configures it again.         *)
Configure(n) ==
  /\ changes < Changes
  /\ changes' = changes + 1
  /\ Becomes(n, IF g[n].on THEN Destroy(g[n]) ELSE Start(n, up), queue[n])
  /\ UNCHANGED <<up, ticked, due, losses, blind>>

Lose(n, p) ==
  /\ losses < Losses
  /\ losses' = losses + 1
  /\ \E i \in DOMAIN queue[n] :
       /\ queue[n][i].port = p /\ queue[n][i].what.kind # "news"
       /\ queue' = [queue EXCEPT ![n] = RemoveAt(@, i)]
  /\ UNCHANGED <<g, up, ticked, due, changes, blind>>

(* Switch n sends on port p what the other one drops.                      *)
Blind(n, p) == p \in g[n].told /\ ~Is(g[Other(n)], p, "coll")

Second ==
  /\ ticked = Nodes /\ due = {} /\ queue = Empty
  /\ ticked' = {}
  /\ due' = {n \in Nodes : g[n].sd = 1}
  /\ g' = [n \in Nodes |-> [g[n] EXCEPT !.sd = IF @ = 0 THEN 0 ELSE @ - 1]]
  /\ blind' = [n \in Nodes |-> [p \in Ports |-> IF Blind(n, p) THEN blind[n][p] + 1 ELSE 0]]
  /\ UNCHANGED <<queue, up, changes, losses>>

Steps == Second \/ \E n \in Nodes : TickOf(n) \/ Ended(n) \/ Handle(n)

Next ==
  \/ Steps
  \/ \E p \in Fragile : Flip(p) \/ \E n \in Nodes : Lose(n, p)
  \/ \E n \in Nodes : Configure(n)

Spec == Init /\ [][Next]_vars

(* Time goes on, and what a second brings is handled: one of Steps is      *)
(* always enabled, so that this is its weak fairness.                      *)
FairSpec == Spec /\ []<><<Steps>>_vars

-----------------------------------------------------------------------------
(* When nothing changes any more, both switches aggregate just the links   *)
(* that are up, if both have the group, whatever was lost on the way.      *)
Converges ==
  <>[](\A n \in Nodes : g[n].told = IF \A m \in Nodes : g[m].on THEN up ELSE {})

(* A port stops being aggregated within two seconds when the other end no  *)
(* longer collects.                                                        *)
NoBlackHole == losses = 0 => \A n \in Nodes, p \in Ports : blind[n][p] <= 1
===============================================================================
