---------------------------- MODULE MCPowerStream ----------------------------
(***************************************************************************)
(* An instance of PowerStream for TLC: the clamps where the server expects *)
(* them, on two other nodes, or on a pair of which the server has one      *)
(* right.                                                                  *)
(***************************************************************************)
EXTENDS PowerStream

Places == {Assign(1, 2), Assign(4, 3), Assign(5, 2)}
=============================================================================
