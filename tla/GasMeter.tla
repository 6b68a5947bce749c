------------------------------ MODULE GasMeter ------------------------------
(***************************************************************************)
(* A gas sensor and the server's pulse arithmetic.  The sensor keeps a     *)
(* cumulative counter of limited width and sends, now and then, the pulses *)
(* since its last packet (val0) and the counter (val1).  The radio may     *)
(* lose the packet, the packet may carry no home, and the server may       *)
(* restart, which empties previousGasCumulativeByNodeId.                   *)
(*                                                                         *)
(* The sensor is not part of the repository: it is modelled from the way   *)
(* the serial handler reads its packets.                                   *)
(***************************************************************************)
EXTENDS Packet

CONSTANTS
  home,      \* the home of the meter
  node,      \* the node of the meter
  MaxTotal,  \* bound: pulses in a behaviour
  MaxPackets \* bound: packets since the server last started

ASSUME GasAssumption ==
  /\ home \in Homes
  /\ node \in Nat
  /\ MaxTotal \in Nat /\ MaxPackets \in Nat

VARIABLES
  total,     \* pulses the meter has given
  counter,   \* the sensor's cumulative counter
  unsent,    \* pulses since the sensor's last packet
  previous,  \* previousGasCumulativeByNodeId[node]
  packets,   \* packets the server received since it started
  reported,  \* history: sum of gas_pulse over the readings sendJSON accepted
  session,   \* history: sum of gas_pulse since the server's first gas packet
  first,     \* history: total at the server's first gas packet
  seen       \* history: total at the last packet received

vars == <<total, counter, unsent, previous, packets, reported, session, first, seen>>

Init ==
  /\ total = 0 /\ counter = 0 /\ unsent = 0
  /\ previous = Undefined
  /\ packets = 0 /\ reported = 0 /\ session = 0 /\ first = 0 /\ seen = 0

Pulse ==
  /\ total < MaxTotal
  /\ total' = total + 1
  /\ counter' = IF counter = PulseModulus - 1 THEN 0 ELSE counter + 1
  /\ unsent' = unsent + 1
  /\ UNCHANGED <<previous, packets, reported, session, first, seen>>

GasPacket(h) ==
  [node_id |-> node, home_id |-> h, packet_type |-> GAS, val0 |-> unsent, val1 |-> counter]

PacketLost ==
  /\ unsent > 0
  /\ unsent' = 0
  /\ UNCHANGED <<total, counter, previous, packets, reported, session, first, seen>>

\* The GAS case of the serial handler, and sendJSON's refusal of a reading
\* without a home: the counter is remembered either way.
OnGas(h) ==
  LET gas_pulse == GasPulse(previous, GasPacket(h))
  IN  /\ packets < MaxPackets
      /\ packets' = packets + 1
      /\ previous' = counter
      /\ reported' = IF h # NoHome THEN reported + gas_pulse ELSE reported
      /\ session' = IF previous = Undefined THEN 0 ELSE session + gas_pulse
      /\ first' = IF previous = Undefined THEN total ELSE first
      /\ seen' = total
      /\ unsent' = 0
      /\ UNCHANGED <<total, counter>>

Restart ==
  /\ previous # Undefined
  /\ previous' = Undefined
  /\ packets' = 0
  /\ UNCHANGED <<total, counter, unsent, reported, session, first, seen>>

Next ==
  \/ Pulse
  \/ PacketLost
  \/ \E h \in {home, NoHome} : OnGas(h)
  \/ Restart

Spec == Init /\ [][Next]_vars

-----------------------------------------------------------------------------
(* Properties. *)

\* The counters stay in their ranges; the server remembers a counter value or
\* nothing.
TypeOK ==
  /\ total \in Nat /\ unsent \in Nat /\ packets \in Nat
  /\ counter \in 0..(PulseModulus - 1)
  /\ previous \in (0..(PulseModulus - 1)) \cup {Undefined}
  /\ reported \in Int /\ session \in Int
  /\ first \in Nat /\ seen \in Nat

\* Whatever is lost, refused or forgotten at a restart, the pulses in the
\* readings never add up to more than the meter has given: the first reading
\* after a restart cannot count again what an earlier one reported.
NeverOverReports == reported <= seen

\* Lost packets cost no pulses: the gas_pulse values that follow the first gas
\* packet since a start add up to the gas used since then, less a full counter
\* for every time the counter wrapped (the remainder in the handler does not
\* bring a negative difference back into range).
ShortByWraps ==
  previous # Undefined =>
    session = seen - first
              - PulseModulus * (seen \div PulseModulus - first \div PulseModulus)
=============================================================================
