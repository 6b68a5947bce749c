------------------------------- MODULE Packet -------------------------------
(***************************************************************************)
(* What the serial handler of ideal_server.js makes of one JSON packet     *)
(* from the radio HAT: the reading handed to sendJSON.  Pure operators,    *)
(* shared by the server (IdealServer) and the gas meter (GasMeter).        *)
(*                                                                         *)
(* A packet is a record with node_id, home_id, packet_type, val0, val1.    *)
(* Its home_id is NoHome when the field is missing, empty or the string    *)
(* 'undefined', which sendJSON treats alike.                               *)
(***************************************************************************)
EXTENDS Integers

CONSTANTS
  Homes,        \* home identifiers a sensor may carry
  NoHome,       \* a home_id that sendJSON refuses
  Undefined,    \* JavaScript's undefined, for a gas counter never seen
  HomeOffset,   \* config.homeOffset
  PulseModulus  \* 65536, the range of the sensor's cumulative gas counter

ASSUME PacketAssumption ==
  /\ NoHome \notin Homes
  /\ Undefined \notin Int
  /\ HomeOffset \in Nat
  /\ PulseModulus \in Nat \ {0, 1}

TEMP_HUM  == 1
BROADCAST == 2
CURRENT   == 3
CLAMPS    == 4
LIGHT     == 5
GAS       == 6
BATTERY   == 7

Packet == [node_id : Nat, home_id : Homes \cup {NoHome}, packet_type : Nat,
           val0 : Int, val1 : Int]

Reading == [id : Nat, node_id : Nat, home_id : Homes, packet_type : 1..7,
            fields : Int \X Int]

\* The packet types whose case ends in sendJSON; BROADCAST and the types the
\* switch does not list build a reading and drop it.
Forwarded == {TEMP_HUM, CURRENT, CLAMPS, LIGHT, GAS, BATTERY}

\* Mutant: the remainder is brought into 0..b-1.
FlooredRem(a, b) == a % b

\* JavaScript's %: the result takes the sign of the dividend.
JsRem(a, b) == IF a >= 0 THEN a % b ELSE -((-a) % b)

\* Mutant: the first packet reports the cumulative count.
GasPulseCumulative(previous, p) ==
  IF previous = Undefined THEN p.val1 ELSE JsRem(p.val1 - previous, PulseModulus)

\* gas_pulse: the difference of two cumulative counts, or the packet's own
\* count when no earlier packet of that node was seen since start-up.
GasPulse(previous, p) ==
  IF previous = Undefined THEN p.val0 ELSE JsRem(p.val1 - previous, PulseModulus)

\* A clamp thermometer out of range leaves its field unset (0); in range it is
\* scaled by 0.625, here in eighths of a unit.
ClampTemperature(val) == IF val < 1300 /\ val > 0 THEN val * 5 ELSE 0

Fields(p, previous) ==
  IF p.packet_type = CLAMPS
  THEN <<ClampTemperature(p.val0), ClampTemperature(p.val1)>>
  ELSE IF p.packet_type = GAS
  THEN <<GasPulse(previous, p), 0>>
  ELSE <<p.val0, p.val1>>

\* JSON_data, stamped with its place n in the order of acceptance (the code
\* stamps the time of day).
MakeReading(p, previous, n) ==
  [id |-> n, node_id |-> p.node_id + HomeOffset, home_id |-> p.home_id,
   packet_type |-> p.packet_type, fields |-> Fields(p, previous)]

\* rms_current > 0 and light >= 0: the tests aggregate() and sendBuffer() make
\* on a reading, false for a reading that has no such field.
IsElectric(r) == r.packet_type = CURRENT /\ r.fields[2] > 0
HasLight(r)   == r.packet_type = LIGHT /\ r.fields[1] >= 0
rms_current(r) == r.fields[2]
=============================================================================
