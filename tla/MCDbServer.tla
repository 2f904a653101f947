----------------------------- MODULE MCDbServer -----------------------------
(* Small instances of DbServer: one table, requests with one or two payloads. *)
EXTENDS DbAtomic, TLC

CONSTANTS sysm, lp, syncd, syd

Pay(f, e, val) == [key |-> [t |-> "T", f |-> f, e |-> e],
                   data |-> [x \in CellsOf([t |-> "T", f |-> f, e |-> e]) |-> val]]
Ask(f, e) == [key |-> [t |-> "T", f |-> f, e |-> e], data |-> NoData]
Req(q, method, pay) == [cq |-> q, method |-> method, pay |-> pay]

\* Replicas: two subscribers with an exact, a whole-field and a whole-table
\* key, updates of one cell and of both, a partly failing one, a deletion.
FreshRequests ==
    {Req(lp, "SUBSCRIBE", <<Ask(1, 0)>>), Req(sysm, "SUBSCRIBE", <<Ask(1, 1), Ask(0, 0)>>),
     Req(sysm, "UNSUBSCRIBE", <<Ask(0, 0), Ask(1, 1)>>),
     Req(lp, "UPDATE", <<Pay(1, 1, 1)>>), Req(NoName, "UPDATE", <<Pay(1, 1, 0), Pay(1, 0, 1)>>),
     Req(sysm, "UPDATE", <<Pay(1, 2, 1), Pay(1, 3, 1), Pay(1, 1, 0)>>),
     Req(NoName, "DELETE", <<Ask(0, 0)>>)}
NoBlk == [c \in {} |-> NoName]
FreshCap == (lp :> 1) @@ (sysm :> 2)

\* Calls: sys_mgmt reads and writes through its second queue "syd" while lp
\* and SYNCD, which is told without subscribing, keep the server busy.
CallRequests ==
    {Req(sysm, "SUBSCRIBE", <<Ask(1, 0)>>), Req(syd, "GET", <<Pay(1, 1, 0)>>),
     Req(syd, "UPDATE", <<Pay(1, 1, 1)>>), Req(syd, "DELETE", <<Ask(0, 0)>>),
     Req(syncd, "SUBSCRIBE", <<Ask(1, 1)>>),
     Req(lp, "UPDATE", <<Pay(1, 1, 0)>>), Req(lp, "UPDATE", <<Pay(1, 1, 1)>>)}
CallBlk == (sysm :> syd)
CallCap == (lp :> 1) @@ (sysm :> 2) @@ (syd :> 1) @@ (syncd :> 1)
CallSpecialFields == {<<"T", 1>>}
=============================================================================
