------------------------------ MODULE Aggregate ------------------------------
(***************************************************************************)
(* aggregate() of ideal_server.js as pure operators: it turns the readings *)
(* of one buffer into a single power figure, and revises the server's      *)
(* belief about which node carries the 30 A and which the 100 A clamp.     *)
(*                                                                         *)
(* A clamp's power is its mean raw RMS current times a fixed factor (the   *)
(* scaling of the clamp times UK_VOLTAGE).  Means are compared, and powers *)
(* kept, as fractions <<numerator, denominator>>.                          *)
(***************************************************************************)
EXTENDS Packet, Sequences, FiniteSets, FiniteSetsExt

CONSTANTS
  PER_UNIT_30A,   \* ELECTRIC_SCALING_RMS_30A * UK_VOLTAGE
  PER_UNIT_100A,  \* ELECTRIC_SCALING_RMS_100A * UK_VOLTAGE
  POWER_LIMIT     \* 4000 W: above it the 100 A clamp is believed

ASSUME AggregateAssumption ==
  /\ PER_UNIT_30A \in Nat \ {0}
  /\ PER_UNIT_100A \in Nat \ {0}
  /\ POWER_LIMIT \in Nat \ {0}

\* The belief: ID_30A and ID_100A.
ClampMap == [ID_30A : Nat, ID_100A : Nat]
DefaultMap == [ID_30A |-> 1, ID_100A |-> 2]

Electric(readings) == {i \in DOMAIN readings : IsElectric(readings[i])}

\* The keys of groupedvals.
GroupIds(readings) == {readings[i].node_id : i \in Electric(readings)}

Group(readings, n) == {i \in Electric(readings) : readings[i].node_id = n}
rms_count(readings, n) == Cardinality(Group(readings, n))
rms_current_total(readings, n) ==
  MapThenSumSet(LAMBDA i : rms_current(readings[i]), Group(readings, n))

\* Mutant: totals are compared in place of means.
TotalGreater(readings, n, m) ==
  rms_current_total(readings, n) > rms_current_total(readings, m)

MeanGreater(readings, n, m) ==
    rms_current_total(readings, n) * rms_count(readings, m)
  > rms_current_total(readings, m) * rms_count(readings, n)

\* Mutant: the power is made of the total in place of the mean.
PowerOfTotal(readings, n, map) ==
  << rms_current_total(readings, n) *
       (IF n = map.ID_30A THEN PER_UNIT_30A ELSE PER_UNIT_100A), 1 >>

\* Every node that is not believed to be the 30 A clamp is scaled as 100 A.
Power(readings, n, map) ==
  << rms_current_total(readings, n) *
       (IF n = map.ID_30A THEN PER_UNIT_30A ELSE PER_UNIT_100A),
     rms_count(readings, n) >>

Below(power) == power[1] < POWER_LIMIT * power[2]

\* Groups whose power the loop assigns to chosenpower.
Eligible(readings, map) ==
  LET ids == GroupIds(readings)
  IN  IF Cardinality(ids) = 1 THEN ids
      ELSE {n \in ids : Below(Power(readings, n, map)) <=> n = map.ID_30A}

\* The loop runs over ascending node ids and the last assignment stays.
ChosenPower(readings, map) ==
  LET ok == Eligible(readings, map)
  IN  IF ok = {} THEN <<0, 1>> ELSE Power(readings, Max(ok), map)

\* "check validity of mappings!": only with exactly two groups.
Assign(a, b) == [ID_30A |-> a, ID_100A |-> b]
CheckMappings(readings, map) ==
  LET ids == GroupIds(readings)
      lo == Min(ids)
      hi == Max(ids)
  IN  IF Cardinality(ids) # 2 THEN map
      ELSE IF lo = map.ID_30A /\ hi = map.ID_100A
      THEN IF MeanGreater(readings, lo, hi) THEN map ELSE Assign(hi, lo)
      ELSE IF hi = map.ID_30A \/ lo = map.ID_100A
      THEN IF MeanGreater(readings, hi, lo) THEN map ELSE Assign(lo, hi)
      ELSE IF MeanGreater(readings, lo, hi) THEN Assign(lo, hi) ELSE Assign(hi, lo)
=============================================================================
