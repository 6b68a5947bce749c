--------------------------- MODULE StartupProofs ---------------------------
(***************************************************************************)
(* Proofs about Startup: startup.sh and get_mqtt_ip.sh side by side, for   *)
(* any number of releases, upgrade requests, outages, reboots and changes  *)
(* of the gateway, with and without the wait for the internet.             *)
(***************************************************************************)
EXTENDS Startup, TLAPS

\* The flag stays until the last step of the upgrade: a script that is killed
\* before finds it again.
FlagHeld == pc \in {"fetch", "reset", "rm"} => flag

\* What an upgrade has reached when it is not excused: after the fetch the
\* requested version is there, after the checkout it is in the tree.
Progress ==
  /\ pc = "reset" /\ ~excused => origin >= asked
  /\ pc = "rm" /\ ~excused => tree >= asked

\* The copy that get_mqtt_ip.sh is about to put in place is as good as env.json.
CopyOfRelease == fpc \in {"diff", "mv"} => tempenv.release = tree \/ raced

UpgradeInv == TypeOK /\ FlagHeld /\ Progress /\ UpgradeSurvivesReset
SettingsInv == TypeOK /\ CopyOfRelease /\ SettingsOfRelease

-----------------------------------------------------------------------------

LEMMA InitTypeOK == Init => TypeOK
<1> SUFFICES ASSUME Init PROVE TypeOK
  OBVIOUS
<1>1. {env, tempenv} \subseteq [release : Nat,
                               mqttBroker : Gateways \cup {NoGateway, Localhost}]
  BY DEF Init
<1>2. {gateway, mqip} \subseteq Gateways \cup {NoGateway}
  BY DEF Init
<1>3. flag \in BOOLEAN /\ net \in BOOLEAN /\ excused \in BOOLEAN /\ raced \in BOOLEAN
  BY Zenon DEF Init
<1> QED  BY <1>1, <1>2, <1>3 DEF Init, TypeOK, Entry

LEMMA NextTypeOK == TypeOK /\ [Next]_vars => TypeOK'
<1> SUFFICES ASSUME TypeOK, [Next]_vars PROVE TypeOK'
  OBVIOUS
<1> USE StartupAssumption DEF TypeOK, repo, follower, world, counters
<1>1. CASE InternetAnswers
  BY <1>1 DEF InternetAnswers
<1>2. CASE TestFlag
  BY <1>2 DEF TestFlag
<1>3. CASE Fetch
  BY <1>3 DEF Fetch
<1>4. CASE Reset
  BY <1>4 DEF Reset
<1>5. CASE RemoveFlag
  BY <1>5 DEF RemoveFlag
<1>6. CASE ReadGateway
  BY <1>6 DEF ReadGateway
<1>7. CASE Sed
  BY <1>7 DEF Sed
<1>8. CASE Diff
  BY <1>8 DEF Diff
<1>9. CASE Mv
  BY <1>9 DEF Mv
<1>10. CASE Restart
  BY <1>10 DEF Restart, Entry
<1>11. CASE ServerEnds
  BY <1>11 DEF ServerEnds, Entry
<1>12. CASE Reboot
  BY <1>12 DEF Reboot, Entry
<1>13. CASE Release
  BY <1>13 DEF Release
<1>14. CASE RequestUpgrade
  BY <1>14 DEF RequestUpgrade
<1>15. CASE NetUp \/ NetDown
  <2>1. CASE NetUp
    BY <2>1 DEF NetUp
  <2>2. CASE NetDown
    <3>0. outages' \in Nat
      <4>1. outages' = outages + 1
        BY <2>2 DEF NetDown
      <4> QED  BY <4>1
    <3>1. net' \in BOOLEAN
      BY <2>2, Zenon DEF NetDown
    <3>2. UNCHANGED <<pc, flag, repo, gateway, env, follower, broker, requests, reboots, moves,
                      intrusions, asked, excused>>
      BY <2>2 DEF NetDown
    <3> QED  BY <3>0, <3>1, <3>2
  <2> QED  BY <1>15, <2>1, <2>2
<1>16. CASE GatewayMoves
  BY <1>16 DEF GatewayMoves
<1>17. CASE UNCHANGED vars
  BY <1>17 DEF vars
<1> QED
  BY <1>1, <1>2, <1>3, <1>4, <1>5, <1>6, <1>7, <1>8, <1>9, <1>10, <1>11, <1>12, <1>13,
     <1>14, <1>15, <1>16, <1>17 DEF Next, Script, GetMqttIp

LEMMA NextUpgradeInv == UpgradeInv /\ [Next]_vars => UpgradeInv'
<1> SUFFICES ASSUME UpgradeInv, [Next]_vars PROVE (FlagHeld /\ Progress /\ UpgradeSurvivesReset)'
  BY NextTypeOK DEF UpgradeInv
<1> USE DEF UpgradeInv, FlagHeld, Progress, UpgradeSurvivesReset, TypeOK, repo, counters
<1>1. CASE InternetAnswers
  BY <1>1 DEF InternetAnswers
<1>2. CASE TestFlag
  BY <1>2 DEF TestFlag
<1>3. CASE Fetch
  BY <1>3 DEF Fetch
<1>4. CASE Reset
  BY <1>4 DEF Reset
<1>5. CASE RemoveFlag
  BY <1>5 DEF RemoveFlag
<1>6. CASE ReadGateway \/ Sed \/ Diff \/ Mv
  BY <1>6 DEF ReadGateway, Sed, Diff, Mv
<1>7. CASE Restart
  BY <1>7 DEF Restart, Entry
<1>8. CASE ServerEnds
  BY <1>8 DEF ServerEnds, Entry
<1>9. CASE Reboot
  BY <1>9 DEF Reboot, Entry
<1>10. CASE Release
  BY <1>10 DEF Release
<1>11. CASE RequestUpgrade
  BY <1>11 DEF RequestUpgrade
<1>12. CASE NetUp \/ NetDown \/ GatewayMoves
  BY <1>12 DEF NetUp, NetDown, GatewayMoves
<1>13. CASE UNCHANGED vars
  BY <1>13 DEF vars
<1> QED
  BY <1>1, <1>2, <1>3, <1>4, <1>5, <1>6, <1>7, <1>8, <1>9, <1>10, <1>11, <1>12, <1>13
  DEF Next, Script, GetMqttIp

LEMMA NextSettingsInv == SettingsInv /\ [Next]_vars => SettingsInv'
<1> SUFFICES ASSUME SettingsInv, [Next]_vars PROVE (CopyOfRelease /\ SettingsOfRelease)'
  BY NextTypeOK DEF SettingsInv
<1> USE DEF SettingsInv, CopyOfRelease, SettingsOfRelease, TypeOK, repo, follower
<1>1. CASE Reset
  BY <1>1 DEF Reset
<1>2. CASE Sed
  BY <1>2 DEF Sed
<1>3. CASE ReadGateway \/ Diff \/ Mv
  BY <1>3 DEF ReadGateway, Diff, Mv
<1>4. CASE Restart \/ Reboot
  BY <1>4 DEF Restart, Reboot
<1>5. CASE InternetAnswers \/ TestFlag \/ Fetch \/ RemoveFlag
  BY <1>5 DEF InternetAnswers, TestFlag, Fetch, RemoveFlag
<1>6. CASE ServerEnds \/ Release \/ RequestUpgrade \/ NetUp \/ NetDown \/ GatewayMoves
  BY <1>6 DEF ServerEnds, Release, RequestUpgrade, NetUp, NetDown, GatewayMoves
<1>7. CASE UNCHANGED vars
  BY <1>7 DEF vars
<1> QED
  BY <1>1, <1>2, <1>3, <1>4, <1>5, <1>6, <1>7 DEF Next, Script, GetMqttIp

-----------------------------------------------------------------------------

\* Every variable keeps its kind; what is checked out was fetched, and what was
\* fetched was published.
THEOREM TypeCorrect == Spec => []TypeOK
BY InitTypeOK, NextTypeOK, PTL DEF Spec

\* A script that is killed or a machine that is reset between any two commands
\* of the upgrade does not lose it: when the flag file is gone, the version
\* that was asked for is checked out, unless the fetch failed or the request
\* came after it.
THEOREM UpgradeIsNotLost == Spec => []UpgradeSurvivesReset
<1>1. Init => UpgradeInv
  BY InitTypeOK DEF Init, UpgradeInv, FlagHeld, Progress, UpgradeSurvivesReset, Entry
<1>2. UpgradeInv => UpgradeSurvivesReset
  BY DEF UpgradeInv
<1> QED  BY <1>1, <1>2, NextUpgradeInv, PTL DEF Spec

\* However the commands of startup.sh and get_mqtt_ip.sh interleave, env.json has
\* the settings of the version checked out, unless the last checkout fell
\* between the sed and the mv.
THEOREM SettingsStayCurrent == Spec => []SettingsOfRelease
<1>1. Init => SettingsInv
  BY InitTypeOK DEF Init, SettingsInv, CopyOfRelease, SettingsOfRelease
<1>2. SettingsInv => SettingsOfRelease
  BY DEF SettingsInv
<1> QED  BY <1>1, <1>2, NextSettingsInv, PTL DEF Spec
=============================================================================
