------------------------------ MODULE MCErpsNode ------------------------------
(***************************************************************************)
(* Configurations and messages for the runs of ErpsNode.                   *)
(***************************************************************************)
EXTENDS ErpsNode

Conf(west, east, w, e, rev, holds) ==
  [roles |-> [p \in Ports |-> IF p = "west" THEN west ELSE east],
   pid |-> [p \in Ports |-> IF p = "west" THEN w ELSE e],
   revertive |-> rev, holds |-> holds]

(* An owner, a neighbour or a plain node of the ring, each way round.      *)
OwnerConf == {Conf("OWNER", "TRANSFER", 1, 2, TRUE, FALSE)}
HeldConf == {Conf("TRANSFER", "OWNER", 1, 2, TRUE, TRUE)}
PlainConf == {Conf("NEIGHBOR", "TRANSFER", 1, 2, TRUE, FALSE),
              Conf("TRANSFER", "TRANSFER", 1, 2, FALSE, FALSE)}
NodeConf == OwnerConf \cup HeldConf \cup PlainConf

(* Ports that move and swap, roles that change.                            *)
MovingConf == OwnerConf \cup
  {Conf("OWNER", "TRANSFER", 3, 2, TRUE, FALSE),
   Conf("TRANSFER", "TRANSFER", 2, 1, FALSE, FALSE)}

Msg(req, status) == [req |-> req, status |-> status]
MainInputs ==
  {Msg("NR", {}), Msg("NR", {"RB"}), Msg("SF", {}), Msg("MS", {}), Msg("FS", {})}
TwoInputs == {Msg("NR", {"RB"}), Msg("SF", {})}
=============================================================================
