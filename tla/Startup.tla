------------------------------- MODULE Startup -------------------------------
(***************************************************************************)
(* startup.sh, the command behind "ideal start": if the upgrade flag file  *)
(* exists it fetches and checks out the latest software and removes the    *)
(* flag; then it runs the server.  The wait for the internet that comes    *)
(* before it is active in util/ideal and commented out in ideal.sh.        *)
(*                                                                         *)
(* No command's result is tested: a failed git fetch is followed by the    *)
(* same steps as a successful one.  A hard reboot may come between any two *)
(* commands; the flag and the files survive it.                            *)
(*                                                                         *)
(* get_mqtt_ip.sh runs beside it: it makes the default gateway the MQTT    *)
(* broker of env.json and restarts the service if that changed the file.   *)
(* env.json is tracked by git, so a checkout puts the original back.  The  *)
(* two scripts name the directory differently (/home/blackwood/pi2 and     *)
(* /home/pi/pi); it is taken to be the same.                               *)
(***************************************************************************)
EXTENDS Naturals

CONSTANTS
  WaitForNet,   \* the script waits for the internet before startup.sh
  Gateways,     \* addresses a default gateway may have
  MaxReleases,  \* bound: versions published
  MaxRequests,  \* bound: upgrade requests
  MaxOutages,   \* bound: times the internet goes away
  MaxReboots,   \* bound: hard reboots
  MaxMoves,     \* bound: changes of the default gateway
  MaxIntrusions \* bound: upgrades that get_mqtt_ip.sh interrupts

\* What `ip r | grep default` leaves when there is no gateway, and the broker of
\* the env.json that is under version control.
NoGateway == ""
Localhost == "localhost"

ASSUME StartupAssumption ==
  /\ WaitForNet \in BOOLEAN
  /\ {MaxReleases, MaxRequests, MaxOutages, MaxReboots, MaxMoves, MaxIntrusions} \subseteq Nat
  /\ Gateways \cap {NoGateway, Localhost} = {}

VARIABLES
  pc,        \* the next command of the scripts, "node" while the server runs
  flag,      \* /home/blackwood/ideal.upgrade exists
  master,    \* the version published in the remote repository
  origin,    \* origin/master: the version fetched last
  tree,      \* the version checked out
  net,
  gateway,   \* the default gateway
  env,       \* env.json: the version its settings are from, and its mqttBroker
  tempenv,   \* tempenv.json, likewise
  fpc,       \* the next command of get_mqtt_ip.sh, "off" when it does not run
  mqip,      \* its variable
  broker,    \* the broker the server connected to when it started
  requests, outages, reboots, moves, intrusions,  \* counters
  asked,     \* history: the version published at the last upgrade request
  excused,   \* history: a fetch failed, or a request came after the fetch
  raced      \* history: the last checkout came while get_mqtt_ip.sh held a copy

vars == <<pc, flag, master, origin, tree, net, gateway, env, tempenv, fpc, mqip, broker,
          requests, outages, reboots, moves, intrusions, asked, excused, raced>>
repo == <<master, origin, tree>>
follower == <<tempenv, fpc, mqip, raced>>
world == <<net, gateway>>
counters == <<requests, outages, reboots, moves, intrusions>>

Entry == IF WaitForNet THEN "wait" ELSE "test"

Init ==
  /\ pc = Entry
  /\ flag = FALSE
  /\ master = 0 /\ origin = 0 /\ tree = 0
  /\ net \in BOOLEAN /\ gateway \in Gateways \cup {NoGateway}
  /\ env = [release |-> 0, mqttBroker |-> Localhost]
  /\ tempenv = env
  /\ fpc = "off" /\ mqip = NoGateway
  /\ broker = Localhost
  /\ requests = 0 /\ outages = 0 /\ reboots = 0 /\ moves = 0 /\ intrusions = 0
  /\ asked = 0
  /\ excused = FALSE /\ raced = FALSE

-----------------------------------------------------------------------------
(* startup.sh. *)

InternetAnswers ==
  /\ pc = "wait" /\ net
  /\ pc' = "test"
  /\ UNCHANGED <<flag, repo, world, env, follower, broker, counters, asked, excused>>

\* The server reads env.json when it starts.
TestFlag ==
  /\ pc = "test"
  /\ IF flag THEN pc' = "fetch" /\ UNCHANGED broker
     ELSE pc' = "node" /\ broker' = env.mqttBroker
  /\ UNCHANGED <<flag, repo, world, env, follower, counters, asked, excused>>

\* Mutant: the flag is removed as soon as the fetch was tried.
FetchAndRemove ==
  /\ pc = "fetch"
  /\ pc' = "reset"
  /\ flag' = FALSE
  /\ origin' = IF net THEN master ELSE origin
  /\ excused' = ~net
  /\ UNCHANGED <<master, tree, world, env, follower, broker, counters, asked>>

\* git fetch --all
Fetch ==
  /\ pc = "fetch"
  /\ pc' = "reset"
  /\ origin' = IF net THEN master ELSE origin
  /\ excused' = ~net
  /\ UNCHANGED <<flag, master, tree, world, env, follower, broker, counters, asked>>

\* git reset --hard origin/master
Reset ==
  /\ pc = "reset"
  /\ pc' = "rm"
  /\ tree' = origin
  /\ env' = [release |-> origin, mqttBroker |-> Localhost]
  /\ raced' = (fpc \in {"diff", "mv"})
  /\ UNCHANGED <<flag, master, origin, world, tempenv, fpc, mqip, broker, counters, asked,
                 excused>>

\* Mutant: the flag stays, and the script begins again.
KeepFlag ==
  /\ pc = "rm"
  /\ pc' = "test"
  /\ UNCHANGED <<flag, repo, world, env, follower, broker, counters, asked, excused>>

RemoveFlag ==
  /\ pc = "rm"
  /\ pc' = "node" /\ broker' = env.mqttBroker
  /\ flag' = FALSE
  /\ UNCHANGED <<repo, world, env, follower, counters, asked, excused>>

Script == InternetAnswers \/ TestFlag \/ Fetch \/ Reset \/ RemoveFlag

-----------------------------------------------------------------------------
(* get_mqtt_ip.sh. *)

ReadGateway ==
  /\ fpc = "off"
  /\ fpc' = "sed" /\ mqip' = gateway
  /\ UNCHANGED <<pc, flag, repo, world, env, tempenv, broker, counters, asked, excused, raced>>

\* Mutant: a tempenv.json that is there already is used.
SedOnce ==
  /\ fpc = "sed"
  /\ fpc' = "diff"
  /\ tempenv' = [IF tempenv.mqttBroker = Localhost THEN env ELSE tempenv
                   EXCEPT !.mqttBroker = mqip]
  /\ UNCHANGED <<pc, flag, repo, world, env, mqip, broker, counters, asked, excused, raced>>
Sed ==
  /\ fpc = "sed"
  /\ fpc' = "diff"
  /\ tempenv' = [env EXCEPT !.mqttBroker = mqip]
  /\ UNCHANGED <<pc, flag, repo, world, env, mqip, broker, counters, asked, excused, raced>>

Diff ==
  /\ fpc = "diff"
  /\ fpc' = IF env # tempenv THEN "mv" ELSE "off"
  /\ UNCHANGED <<pc, flag, repo, world, env, tempenv, mqip, broker, counters, asked, excused,
                 raced>>

\* Mutant: the service is not restarted.
MvOnly ==
  /\ fpc = "mv"
  /\ fpc' = "off" /\ env' = tempenv
  /\ UNCHANGED <<pc, flag, repo, world, tempenv, mqip, broker, counters, asked, excused, raced>>
Mv ==
  /\ fpc = "mv"
  /\ fpc' = "restart" /\ env' = tempenv
  /\ UNCHANGED <<pc, flag, repo, world, tempenv, mqip, broker, counters, asked, excused, raced>>

\* ideal.sh restart, in whatever state startup.sh is: its group is killed, and
\* the scripts begin again.
Restart ==
  LET upgrading == pc \in {"fetch", "reset", "rm"}
  IN  /\ fpc = "restart"
      /\ upgrading => intrusions < MaxIntrusions
      /\ intrusions' = IF upgrading THEN intrusions + 1 ELSE intrusions
      /\ fpc' = "off" /\ pc' = Entry
      /\ UNCHANGED <<flag, repo, world, env, tempenv, mqip, broker, requests, outages, reboots,
                     moves, asked, excused, raced>>

GetMqttIp == ReadGateway \/ Sed \/ Diff \/ Mv \/ Restart

-----------------------------------------------------------------------------
(* The surroundings. *)

\* The server exits, and cron runs the scripts again.
ServerEnds ==
  /\ pc = "node"
  /\ pc' = Entry
  /\ UNCHANGED <<flag, repo, world, env, follower, broker, counters, asked, excused>>

\* A hard reboot, between any two commands.
Reboot ==
  /\ reboots < MaxReboots
  /\ reboots' = reboots + 1
  /\ pc' = Entry /\ fpc' = "off"
  /\ UNCHANGED <<flag, repo, world, env, tempenv, mqip, broker, requests, outages, moves,
                 intrusions, asked, excused, raced>>

Release ==
  /\ master < MaxReleases
  /\ master' = master + 1
  /\ UNCHANGED <<pc, flag, origin, tree, world, env, follower, broker, counters, asked, excused>>

\* Someone creates the flag file: the remote command that did so is commented
\* out in the server.
RequestUpgrade ==
  /\ requests < MaxRequests
  /\ requests' = requests + 1
  /\ flag' = TRUE
  /\ asked' = master
  /\ excused' = (excused \/ pc \in {"reset", "rm"})
  /\ UNCHANGED <<pc, repo, world, env, follower, broker, outages, reboots, moves, intrusions>>

NetUp ==
  /\ ~net
  /\ net' = TRUE
  /\ UNCHANGED <<pc, flag, repo, gateway, env, follower, broker, counters, asked, excused>>

NetDown ==
  /\ net /\ outages < MaxOutages
  /\ net' = FALSE
  /\ outages' = outages + 1
  /\ UNCHANGED <<pc, flag, repo, gateway, env, follower, broker, requests, reboots, moves,
                 intrusions, asked, excused>>

GatewayMoves ==
  /\ moves < MaxMoves
  /\ moves' = moves + 1
  /\ gateway' \in (Gateways \cup {NoGateway}) \ {gateway}
  /\ UNCHANGED <<pc, flag, repo, net, env, follower, broker, requests, outages, reboots,
                 intrusions, asked, excused>>

Next ==
  \/ Script
  \/ GetMqttIp
  \/ ServerEnds
  \/ Reboot
  \/ Release
  \/ RequestUpgrade
  \/ NetUp
  \/ NetDown
  \/ GatewayMoves

Spec == Init /\ [][Next]_vars

\* The scripts run on; get_mqtt_ip.sh is run again and again; the internet comes
\* back.
FairSpec == Spec /\ WF_vars(Script) /\ WF_vars(GetMqttIp) /\ WF_vars(NetUp)

-----------------------------------------------------------------------------
(* Properties. *)

\* Every variable holds a value of its kind; only what was fetched is checked
\* out, and only what was published is fetched.
TypeOK ==
  /\ pc \in {"wait", "test", "fetch", "reset", "rm", "node"}
  /\ flag \in BOOLEAN /\ net \in BOOLEAN /\ excused \in BOOLEAN
  /\ raced \in BOOLEAN
  /\ fpc \in {"off", "sed", "diff", "mv", "restart"}
  /\ {gateway, mqip} \subseteq Gateways \cup {NoGateway}
  /\ {env, tempenv} \subseteq [release : Nat,
                              mqttBroker : Gateways \cup {NoGateway, Localhost}]
  /\ broker \in Gateways \cup {NoGateway, Localhost}
  /\ {master, origin, tree, asked, requests, outages, reboots, moves, intrusions} \subseteq Nat
  /\ tree <= origin /\ origin <= master /\ asked <= master

\* Once the flag is gone the software is at least the version that was asked
\* for, if the fetch reached the repository and no request came after it: a
\* reset of the machine between any two commands does not lose an upgrade.
UpgradeSurvivesReset == ~flag /\ ~excused => tree >= asked

\* Once the flag is gone the software is at least the version that was asked
\* for.
UpgradeHappened == ~flag => tree >= asked

\* The settings are those of the version checked out, however get_mqtt_ip.sh and
\* reboots fall between the commands; unless the checkout came between its
\* sed and its mv, which then puts the old settings back.
SettingsOfRelease == env.release = tree \/ raced

\* The server ends up with the last gateway as its broker, although upgrades put
\* the original broker back and reboots come between rewriting and restart.
FollowsGateway == <>[](pc = "node" => broker = gateway)

\* The server is started however the upgrade goes, and although get_mqtt_ip.sh
\* may restart it on the way.
ServerStarts == (pc # "node") ~> (pc = "node")
=============================================================================
