---------------------------- MODULE MCIdealServer ----------------------------
(***************************************************************************)
(* Instances of IdealServer for TLC: environments of env.json and the      *)
(* packets that tell the branches of the serial handler apart.             *)
(***************************************************************************)
EXTENDS IdealServer

CONSTANTS h1, h2

\* "production" and "development"; JSONbuffersize is 15 there.
Production ==
  [JSONbuffertime |-> FALSE, JSONbuffersize |-> 2, compress |-> TRUE,
   mqtt |-> FALSE, savetodisk |-> FALSE, AggregatePower |-> FALSE]
\* "mqtt" of save_env.json.
MqttSave ==
  [JSONbuffertime |-> TRUE, JSONbuffersize |-> 20, compress |-> FALSE,
   mqtt |-> TRUE, savetodisk |-> TRUE, AggregatePower |-> TRUE]
P(node, home, type, v0, v1) ==
  [node_id |-> node, home_id |-> home, packet_type |-> type, val0 |-> v0, val1 |-> v1]

Mixed == { P(1, h1, TEMP_HUM, 20, 50), P(1, NoHome, BATTERY, 3, 3),
           P(2, h2, GAS, 1, 7), P(1, h1, BROADCAST, 0, 0) }
Saving == { P(3, h1, TEMP_HUM, 20, 50), P(1, h2, CURRENT, 9, 3) }
=============================================================================
