---------------------------- MODULE MCZWaveDriver ----------------------------
(* An instance of ZWaveDriver for TLC: a listening sensor, a meter that sleeps
   and a sleeping sensor. *)
EXTENDS ZWaveDriver

Classes == [n \in Nodes |-> IF n \in Meters THEN {Dynamic} ELSE {}]
MoreClasses == [n \in Nodes |-> IF n \in Meters THEN {} ELSE {Versions}]

Scenario(zwcfg, faults, unsolicited, changes) ==
  [zwcfg |-> zwcfg,
   budget |-> [faults |-> faults, unsolicited |-> unsolicited, changes |-> changes]]

\* The meter alone, known and new, with what disturbs it most; with the listening
\* sensor, each with the other's late frames; a node added or removed; a new
\* sensor beside the meter; a new sensor that sleeps and speaks unasked.
SmallScenarios ==
  {Scenario([n \in Meters |-> Complete], 1, 3, 0),
   Scenario([n \in Meters |-> None], 1, 1, 0),
   Scenario([n \in {1, 2} |-> Complete], 1, 1, 0),
   Scenario([n \in Meters |-> Complete], 0, 0, 1),
   Scenario([n \in {1, 2} |-> IF n \in Meters THEN Complete ELSE None], 0, 0, 0),
   Scenario([n \in Sleepers \ Meters |-> None], 0, 2, 0)}
=============================================================================
