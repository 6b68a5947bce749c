----------------------------- MODULE Supervisor -----------------------------
(***************************************************************************)
(* ideal.sh (and util/ideal, its /etc/init.d variant): the script by which *)
(* the boot sequence, cron (through startutils.pl), get_mqtt_ip.sh and     *)
(* people start, stop and restart the server, coordinating only through a  *)
(* PID file.                                                               *)
(*                                                                         *)
(* Every run of the script is a process of its own, and runs interleave    *)
(* between any two of its commands.  A server belongs to the process group *)
(* of the run that started it.  A hard reboot ends all processes at once.  *)
(***************************************************************************)
EXTENDS Naturals, FiniteSets, FiniteSetsExt

CONSTANTS
  Scripts,     \* pids of the script runs that may be active at a time
  Pids,        \* pids of servers and of unrelated processes
  None,        \* no PID file
  Within,      \* <<p, q>>: the decimal digits of p occur in those of q
  Variants,    \* the scripts that may be installed
  MaxOps,      \* bound: runs started by people and by get_mqtt_ip.sh
  MaxReboots,  \* bound: hard reboots
  MaxOthers,   \* bound: unrelated processes started
  MaxOutages   \* bound: times the internet goes away

ASSUME SupervisorAssumption ==
  /\ Scripts \subseteq Nat /\ Pids \subseteq Nat /\ Scripts \cap Pids = {}
  /\ None \notin Pids
  /\ \A p, q \in Scripts \cup Pids :
       (p = q => <<p, q>> \in Within) /\ (<<p, q>> \in Within => p <= q)
  /\ Variants \subseteq {"ideal.sh", "util/ideal"} /\ Variants # {}
  /\ {MaxOps, MaxReboots, MaxOthers, MaxOutages} \subseteq Nat

VARIABLES
  variant,  \* the script that is installed
  procs,    \* servers and unrelated processes, by pid: [kind, group]
  script,   \* where each run of the script stands
  pidfile,  \* IDEAL_PID_FILE
  net,      \* the default gateway answers
  ops, reboots, others, outages,  \* counters
  booting,  \* history: no server was started since the last boot
  overlap   \* history: two runs of the script were active at the same time

vars == <<variant, procs, script, pidfile, net, ops, reboots, others, outages, booting, overlap>>
counters == <<ops, reboots, others, outages>>

\* util/ideal keeps its PID file in /var/run, which a reboot empties, and first
\* waits for the internet; in ideal.sh that loop is commented out.
Volatile == variant = "util/ideal"
WaitForNet == variant = "util/ideal"

Op == {"start", "stop", "restart"}
PC == {"idle", "wait", "test", "launch", "record", "find", "kill", "rm"}
Idle == [pc |-> "idle", op |-> "start", arg |-> None]

Active == {s \in Scripts : script[s].pc # "idle"}
Servers == {p \in DOMAIN procs : procs[p].kind = "server"}
Running == DOMAIN procs \cup Active
Group(p) == IF p \in DOMAIN procs THEN procs[p].group ELSE p

Entry(op) == IF WaitForNet THEN "wait" ELSE IF op = "start" THEN "test" ELSE "find"
Run(op) == [pc |-> Entry(op), op |-> op, arg |-> None]

Init ==
  /\ variant \in Variants
  /\ procs = <<>>
  /\ script \in {[s \in Scripts |-> IF s = b THEN Run("start") ELSE Idle] : b \in Scripts}
  /\ pidfile = None
  /\ net \in BOOLEAN
  /\ ops = 0 /\ reboots = 0 /\ others = 0 /\ outages = 0
  /\ booting = TRUE
  /\ overlap = FALSE

-----------------------------------------------------------------------------
(* The steps of one run of the script. *)

Goto(s, pc, arg) == script' = [script EXCEPT ![s].pc = pc, ![s].arg = arg]
Exit(s) == script' = [script EXCEPT ![s] = Idle]

\* A new run may take pid s: no process has it as its pid or its group.
Invoke(s, op) ==
  /\ s \notin Active
  /\ \A p \in DOMAIN procs : procs[p].group # s
  /\ script' = [script EXCEPT ![s] = Run(op)]
  /\ overlap' = (overlap \/ Active # {})
  /\ UNCHANGED <<variant, procs, pidfile, net, reboots, others, outages, booting>>

\* The loop that pings the default gateway.
InternetAnswers(s) ==
  /\ script[s].pc = "wait" /\ net
  /\ Goto(s, IF script[s].op = "start" THEN "test" ELSE "find", None)
  /\ UNCHANGED <<variant, procs, pidfile, net, counters, booting, overlap>>

\* Mutants: start makes no check, checks the PID file alone, or checks it the
\* wrong way round.
TestNothing(s) ==
  /\ script[s].pc = "test"
  /\ Goto(s, "launch", None)
  /\ UNCHANGED <<variant, procs, pidfile, net, counters, booting, overlap>>
TestFileOnly(s) ==
  /\ script[s].pc = "test"
  /\ IF pidfile # None THEN Exit(s) ELSE Goto(s, "launch", None)
  /\ UNCHANGED <<variant, procs, pidfile, net, counters, booting, overlap>>
TestInverted(s) ==
  /\ script[s].pc = "test"
  /\ IF pidfile = None \/ pidfile \in Running THEN Exit(s) ELSE Goto(s, "launch", None)
  /\ UNCHANGED <<variant, procs, pidfile, net, counters, booting, overlap>>

\* start: "2 checks - PID file, and process actually running".
TestStarted(s) ==
  /\ script[s].pc = "test"
  /\ IF pidfile # None /\ pidfile \in Running THEN Exit(s) ELSE Goto(s, "launch", None)
  /\ UNCHANGED <<variant, procs, pidfile, net, counters, booting, overlap>>

\* sh $IDEAL_START_COMMAND & ...
Launch(s) ==
  /\ script[s].pc = "launch"
  /\ \E p \in Pids \ DOMAIN procs :
       /\ procs' = [q \in DOMAIN procs \cup {p} |->
                      IF q = p THEN [kind |-> "server", group |-> s] ELSE procs[q]]
       /\ Goto(s, "record", p)
  /\ booting' = FALSE
  /\ UNCHANGED <<variant, pidfile, net, counters, overlap>>

\* Mutant: an existing file is kept.
RecordIfMissing(s) ==
  /\ script[s].pc = "record"
  /\ pidfile' = IF pidfile = None THEN script[s].arg ELSE pidfile
  /\ Exit(s)
  /\ UNCHANGED <<variant, procs, net, counters, booting, overlap>>

\* ... echo $! > $IDEAL_PID_FILE
Record(s) ==
  /\ script[s].pc = "record"
  /\ pidfile' = script[s].arg
  /\ Exit(s)
  /\ UNCHANGED <<variant, procs, net, counters, booting, overlap>>

\* Mutant: the first column of ps is taken, the pid.
FindPid(s) ==
  /\ script[s].pc = "find"
  /\ IF pidfile # None
     THEN Goto(s, "kill", pidfile)
     ELSE IF script[s].op = "restart"
     THEN script' = [script EXCEPT ![s] = Run("start")]
     ELSE Exit(s)
  /\ UNCHANGED <<variant, procs, pidfile, net, counters, booting, overlap>>

\* stop: the first line of ps (by pid) that contains the recorded number gives
\* the group to kill.  Without a PID file there is nothing to stop.
Matches == {p \in Running : <<pidfile, p>> \in Within \/ <<pidfile, Group(p)>> \in Within}
FindGroup(s) ==
  /\ script[s].pc = "find"
  /\ IF pidfile # None
     THEN Goto(s, "kill", IF Matches = {} THEN None ELSE Group(Min(Matches)))
     ELSE IF script[s].op = "restart"
     THEN script' = [script EXCEPT ![s] = Run("start")]
     ELSE Exit(s)
  /\ UNCHANGED <<variant, procs, pidfile, net, counters, booting, overlap>>

\* pkill -TERM -g: every member dies, a run of the script included; with no
\* group to name, pkill only complains.
PkillGroup(s) ==
  /\ script[s].pc = "kill"
  /\ LET g == script[s].arg
         dead == {p \in DOMAIN procs : procs[p].group = g}
     IN  /\ procs' = [p \in DOMAIN procs \ dead |-> procs[p]]
         /\ script' = [r \in Scripts |->
              IF r = g THEN Idle
              ELSE IF r = s THEN [script[s] EXCEPT !.pc = "rm"] ELSE script[r]]
  /\ UNCHANGED <<variant, pidfile, net, counters, booting, overlap>>

RemovePidFile(s) ==
  /\ script[s].pc = "rm"
  /\ pidfile' = None
  /\ IF script[s].op = "restart"
     THEN script' = [script EXCEPT ![s] = Run("start")]
     ELSE Exit(s)
  /\ UNCHANGED <<variant, procs, net, counters, booting, overlap>>

Step(s) ==
  \/ InternetAnswers(s) \/ TestStarted(s) \/ Launch(s) \/ Record(s)
  \/ FindGroup(s) \/ PkillGroup(s) \/ RemovePidFile(s)

-----------------------------------------------------------------------------
(* The surroundings. *)

\* startutils.pl, every ten minutes.
Cron == /\ \E s \in Scripts : Invoke(s, "start")
        /\ UNCHANGED ops

\* A person, or get_mqtt_ip.sh after a change of the gateway.
Operator == /\ ops < MaxOps
            /\ \E s \in Scripts, op \in Op : Invoke(s, op)
            /\ ops' = ops + 1

\* Any process may end; startup.sh does when node does.
ProcessEnds(p) ==
  /\ p \in DOMAIN procs
  /\ procs' = [q \in DOMAIN procs \ {p} |-> procs[q]]
  /\ UNCHANGED <<variant, script, pidfile, net, counters, booting, overlap>>

OtherStarts ==
  /\ others < MaxOthers
  /\ others' = others + 1
  /\ \E p \in Pids \ DOMAIN procs :
       procs' = [q \in DOMAIN procs \cup {p} |->
                   IF q = p THEN [kind |-> "other", group |-> p] ELSE procs[q]]
  /\ UNCHANGED <<variant, script, pidfile, net, ops, reboots, outages, booting, overlap>>

\* A hard reboot; the boot sequence runs the script once.
Reboot ==
  /\ reboots < MaxReboots
  /\ reboots' = reboots + 1
  /\ procs' = <<>>
  /\ \E b \in Scripts :
       script' = [s \in Scripts |-> IF s = b THEN Run("start") ELSE Idle]
  /\ pidfile' = IF Volatile THEN None ELSE pidfile
  /\ booting' = TRUE
  /\ overlap' = FALSE
  /\ UNCHANGED <<variant, net, ops, others, outages>>

NetUp ==
  /\ ~net
  /\ net' = TRUE
  /\ UNCHANGED <<variant, procs, script, pidfile, counters, booting, overlap>>

NetDown ==
  /\ net /\ outages < MaxOutages
  /\ net' = FALSE
  /\ outages' = outages + 1
  /\ UNCHANGED <<variant, procs, script, pidfile, ops, reboots, others, booting, overlap>>

Next ==
  \/ \E s \in Scripts : Step(s)
  \/ Cron
  \/ Operator
  \/ \E p \in Pids : ProcessEnds(p)
  \/ OtherStarts
  \/ Reboot
  \/ NetUp
  \/ NetDown

Spec == Init /\ [][Next]_vars

\* The scheduler runs every script, cron keeps its timetable, and the internet
\* comes back.
Fairness ==
  /\ \A s \in Scripts : WF_vars(Step(s))
  /\ WF_vars(Cron)
  /\ WF_vars(NetUp)

FairSpec == Spec /\ Fairness

-----------------------------------------------------------------------------
(* Properties. *)

\* Every variable holds a value of its kind; a run of the script that is about
\* to record a pid carries one.
TypeOK ==
  /\ variant \in Variants
  /\ DOMAIN procs \subseteq Pids
  /\ \A p \in DOMAIN procs : procs[p] \in [kind : {"server", "other"}, group : Scripts \cup Pids]
  /\ script \in [Scripts -> [pc : PC, op : Op, arg : Scripts \cup Pids \cup {None}]]
  /\ \A s \in Scripts : script[s].pc = "record" => script[s].arg \in Pids
  /\ pidfile \in Pids \cup {None}
  /\ net \in BOOLEAN /\ booting \in BOOLEAN /\ overlap \in BOOLEAN
  /\ {ops, reboots, others, outages} \subseteq Nat

\* Unless two runs of the script overlap, there is never a second server, even
\* after exits, restarts and reboots that leave a stale PID file behind.
SingleServer == ~overlap => Cardinality(Servers) <= 1

\* Unless runs overlap, the server that runs is the one the PID file names, so
\* that a later start finds it and a later stop reaches it.
ServerIsRecorded ==
  ~overlap => \A p \in Servers :
    \/ pidfile = p
    \/ \E s \in Scripts : script[s].pc = "record" /\ script[s].arg = p

\* Unless runs overlap, no server is left when stop removes the PID file.
StopStops == ~overlap => \A s \in Scripts : script[s].pc = "rm" => Servers = {}

\* Whatever ends the server, cron brings it back, unless an unrelated process
\* has got the recorded pid.
ServerComesBack ==
  []<>(Servers # {} \/ pidfile \in DOMAIN procs \ Servers)

\* A boot, a hard one included, is followed by the start of a server.
RebootStartsServer == booting ~> ~booting

\* That holds of util/ideal, whose PID file does not survive the boot, however
\* long the internet is away.
InitdRebootStartsServer == (booting /\ variant = "util/ideal") ~> ~booting
=============================================================================
