---------------------------- MODULE MCSupervisor ----------------------------
(***************************************************************************)
(* An instance of Supervisor for TLC: of the pids 71, 72 and 171, only 71  *)
(* has its digits inside another.                                          *)
(***************************************************************************)
EXTENDS Supervisor

Digits == {<<p, p>> : p \in Scripts \cup Pids} \cup {<<71, 171>>}
=============================================================================
