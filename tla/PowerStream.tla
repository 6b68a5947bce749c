----------------------------- MODULE PowerStream -----------------------------
(***************************************************************************)
(* Two clamps on one mains cable, a 30 A and a 100 A one, and what the     *)
(* server makes of them: each timer tick turns the readings received since *)
(* the last tick into one power figure, and revises ID_30A and ID_100A.    *)
(* The server cannot know which node is which clamp; it infers it from the *)
(* larger mean.  The radio may lose any reading, the load may change       *)
(* between readings, and a restart forgets what was learned.               *)
(*                                                                         *)
(* Currents are in mA, powers in mW; a clamp sends its current in units of *)
(* the scaling factor, rounded down.                                       *)
(***************************************************************************)
EXTENDS Aggregate

CONSTANTS
  UNIT_30A,   \* ELECTRIC_SCALING_RMS_30A, in uA
  UNIT_100A,  \* ELECTRIC_SCALING_RMS_100A, in uA
  VOLTAGE,    \* UK_VOLTAGE
  Loads,      \* bound: the currents the household draws
  Installed,  \* the ways the clamps may have been assigned to nodes
  home,       \* the home of the clamps
  MaxWindow   \* bound: readings between two ticks

ASSUME PowerAssumption ==
  /\ UNIT_30A \in Nat \ {0} /\ UNIT_100A \in Nat \ {0}
  /\ 2 * UNIT_30A <= UNIT_100A
  /\ VOLTAGE \in Nat
  /\ Loads \subseteq Nat /\ Loads # {}
  /\ Installed \subseteq ClampMap /\ Installed # {}
  /\ \A m \in Installed : m.ID_30A # m.ID_100A
  /\ home \in Homes
  /\ MaxWindow \in Nat

\* The factors to mW are those of the clamps times the voltage, rounded up by so
\* little that at no load it makes more than a unit.
Excess(per, unit) == 1000 * per - unit * VOLTAGE
ASSUME FactorAssumption ==
  /\ Excess(PER_UNIT_30A, UNIT_30A) \in Nat /\ Excess(PER_UNIT_100A, UNIT_100A) \in Nat
  /\ \A l \in Loads :
       /\ Excess(PER_UNIT_30A, UNIT_30A) * ((l * 1000) \div UNIT_30A) <= 1000 * PER_UNIT_100A
       /\ Excess(PER_UNIT_100A, UNIT_100A) * ((l * 1000) \div UNIT_100A) <= 1000 * PER_UNIT_100A

VARIABLES
  installed,  \* the true assignment of clamps to nodes
  load,       \* the current drawn now
  window,     \* JSONbuffer, restricted to current readings
  clamps,     \* ID_30A and ID_100A
  power,      \* the last power figure published
  steady      \* history: the load did not change since the last tick

vars == <<installed, load, window, clamps, power, steady>>

Init ==
  /\ installed \in Installed
  /\ load \in Loads
  /\ window = <<>>
  /\ clamps = DefaultMap
  /\ power = <<0, 1>>
  /\ steady = TRUE

raw(n) == (load * 1000) \div (IF n = installed.ID_30A THEN UNIT_30A ELSE UNIT_100A)

CurrentPacket(n) ==
  [node_id |-> n, home_id |-> home, packet_type |-> CURRENT, val0 |-> 0, val1 |-> raw(n)]

\* A reading of node n arrives and is buffered.
OnCurrent(n) ==
  /\ Len(window) < MaxWindow
  /\ window' = Append(window, MakeReading(CurrentPacket(n), Undefined, Len(window) + 1))
  /\ UNCHANGED <<installed, load, clamps, power, steady>>

LoadChanges(l) ==
  /\ l # load
  /\ load' = l
  /\ steady' = (window = <<>>)
  /\ UNCHANGED <<installed, window, clamps, power>>

\* The interval timer: aggregate() on a non-empty buffer.  The figure is chosen
\* before the mapping is checked.
Tick ==
  /\ window # <<>>
  /\ power' = ChosenPower(window, clamps)
  /\ clamps' = CheckMappings(window, clamps)
  /\ window' = <<>>
  /\ steady' = TRUE
  /\ UNCHANGED <<installed, load>>

Restart ==
  /\ clamps' = DefaultMap
  /\ window' = <<>> /\ steady' = TRUE
  /\ UNCHANGED <<installed, load, power>>

Next ==
  \/ \E n \in {installed.ID_30A, installed.ID_100A} : OnCurrent(n)
  \/ \E l \in Loads : LoadChanges(l)
  \/ Tick
  \/ Restart

Spec == Init /\ [][Next]_vars

-----------------------------------------------------------------------------
(* Properties. *)

\* The belief is a pair of nodes, the window holds readings of the clamps.
TypeOK ==
  /\ installed \in Installed
  /\ load \in Loads
  /\ window \in Seq(Reading) /\ Len(window) <= MaxWindow
  /\ clamps \in ClampMap
  /\ power \in Nat \X (Nat \ {0})
  /\ steady \in BOOLEAN

\* The assignment in the node ids that readings carry.
seen == Assign(installed.ID_30A + HomeOffset, installed.ID_100A + HomeOffset)

Both(ids) == ids = {seen.ID_30A, seen.ID_100A}

\* The belief has one clamp right, where the 30 A clamp has the greater id: this
\* passes for a right mapping ("mappings are correct").
HalfRight ==
  /\ seen.ID_100A < seen.ID_30A
  /\ (clamps.ID_30A = seen.ID_30A) # (clamps.ID_100A = seen.ID_100A)

\* One steady window in which both clamps are heard is enough for aggregate()
\* to learn which node is which, whatever it believed before, unless that was half
\* right: then it believes it further.
MappingLearned ==
  [][ Tick /\ steady /\ Both(GroupIds(window)) => (clamps' = seen <=> ~HalfRight) ]_vars

\* A right mapping survives every window in which the load is steady, however
\* many readings of either clamp the radio loses.
MappingKept ==
  [][ Tick /\ steady /\ clamps = seen => clamps' = seen ]_vars

\* A figure made of both clamps under the right mapping, at a steady load, is
\* within one unit of the coarser clamp of the true power, or it is 0.
PowerAccurate ==
  [][ Tick /\ steady /\ clamps = seen /\ Both(GroupIds(window)) =>
        \/ power'[1] = 0
        \/ LET error == power'[1] - load * VOLTAGE * power'[2]
           IN  -PER_UNIT_100A * power'[2] <= error /\ error <= PER_UNIT_100A * power'[2]
    ]_vars
=============================================================================
