---------------------------- MODULE MCLoopPrev ----------------------------
(***************************************************************************)
(* Trunks and wirings for the run of LoopPrev.                             *)
(***************************************************************************)
EXTENDS LoopPrev

SomeMembers == {{}, {1, 2}, {2, 3}}
SomeWirings == {{}, {2, 3}, {1, 2, 3}}
=============================================================================
