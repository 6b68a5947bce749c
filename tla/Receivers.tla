------------------------------ MODULE Receivers ------------------------------
(***************************************************************************)
(* The receivers of other meters and the files and scripts they depend on. *)
(* heatmeter_receive.py and currentcost_receive.py learn their home from   *)
(* the home_id file, which a child process of the server writes, and keep  *)
(* it.  startutils.pl, run by cron, starts the service and then each       *)
(* receiver whose adapter was attached and which pgrep does not find.  The *)
(* start of the service may wait for the internet, so runs pile up.        *)
(*                                                                         *)
(* Adapters get the lowest free ttyUSB number when they are plugged in.    *)
(* Without its adapter the one receiver ends and the other goes deaf; how  *)
(* serial ports behave is modelled from the use the scripts make of them.  *)
(*                                                                         *)
(* In homes of the BigSmall project cron runs bigsmallstartutils.pl too    *)
(* (util/crontab_bigsmall): it starts idealoz, with the home as argument,  *)
(* and oem_receive.pl, which reads the file once.  The launchers share     *)
(* nothing but the home_id file, so one of them is looked at at a time.    *)
(***************************************************************************)
EXTENDS HeatPacket, FiniteSets, FiniteSetsExt

CONSTANTS
  Scripts,       \* launchers: one of them is looked at
  Runs,          \* bound: runs of the launcher that may be active at a time
  Procs,         \* bound: ids of receiver processes
  Homes,         \* home identifiers
  None,          \* no number
  Missing,       \* there is no home_id file
  Empty,         \* an empty home_id file; a receiver that has no home
  MaxWrites,     \* bound: times the server writes the home_id file
  MaxUnplugs,    \* bound: times an adapter is unplugged
  MaxErrors      \* bound: errors that end a receiver

ASSUME ReceiversAssumption ==
  /\ Scripts \subseteq {"startutils", "bigsmallstartutils"}
  /\ Procs \subseteq Nat /\ None \notin Nat
  /\ Missing \notin Homes /\ Empty \notin Homes /\ Missing # Empty
  /\ {MaxWrites, MaxUnplugs, MaxErrors} \subseteq Nat

VARIABLES
  file,      \* the home_id file
  writer,    \* the home a child process of the server is writing, or Empty
  tty,       \* the ttyUSB number of each adapter, or None
  dmesg,     \* the number at which each adapter was last attached, or None
  script,    \* the launcher looked at
  run,       \* where each run of it stands
  procs,     \* receiver processes: [kind, stage, input, home, late]
  writes, unplugs, errors,  \* counters
  overlap    \* history: two runs of the launcher were active at a time

counters == <<writes, unplugs, errors>>
vars == <<file, writer, tty, dmesg, script, run, procs, counters, overlap>>

\* knownDataProviders
Providers ==
  IF script = "startutils" THEN <<"CurrentCost", "HeatMeter">> ELSE <<"zwave", "oem">>
Wired == {"CurrentCost", "HeatMeter"}
Kinds == Wired \cup {"zwave", "oem"}

\* Bound: ttyUSB numbers.
Ports == 0..2

Idle == [pc |-> "idle", next |-> 1, input |-> None, home |-> Empty]
Of(k) == {p \in DOMAIN procs : procs[p].kind = k}

Init ==
  /\ file \in Homes \cup {Missing}
  /\ writer = Empty
  /\ tty = [k \in Wired |-> None]
  /\ dmesg = tty
  /\ script \in Scripts
  /\ run = [r \in Runs |-> Idle]
  /\ procs = <<>>
  /\ writes = 0 /\ unplugs = 0 /\ errors = 0
  /\ overlap = FALSE

-----------------------------------------------------------------------------
(* The home_id file. *)

\* The first reading since a start of the server: the shell truncates the file ...
WriteHome(h) ==
  /\ writer = Empty /\ writes < MaxWrites
  /\ writes' = writes + 1
  /\ writer' = h
  /\ file' = Empty
  /\ UNCHANGED <<tty, dmesg, run, procs, unplugs, errors, overlap>>

\* ... and echo writes the line, or fails, which is not tried again before the
\* server starts once more.
HomeWritten ==
  /\ writer # Empty
  /\ file' \in {writer, Empty}
  /\ writer' = Empty
  /\ UNCHANGED <<tty, dmesg, run, procs, counters, overlap>>

-----------------------------------------------------------------------------
(* startutils.pl and bigsmallstartutils.pl *)

Goto(r, pc) == run' = [run EXCEPT ![r].pc = pc]

\* The next provider, or the end of the run.
Continue(r) ==
  run' = [run EXCEPT ![r] =
    IF run[r].next = Len(Providers) THEN Idle
    ELSE [run[r] EXCEPT !.pc = "find", !.next = run[r].next + 1, !.input = None]]

Cron(r) ==
  /\ run[r].pc = "idle"
  /\ Goto(r, IF script = "startutils" THEN "service" ELSE "cat")
  /\ overlap' = (overlap \/ \E s \in Runs : run[s].pc # "idle")
  /\ UNCHANGED <<file, writer, tty, dmesg, procs, counters>>

\* sudo service ideal start, which may wait for the internet as long as it likes.
ServiceStarted(r) ==
  /\ run[r].pc = "service"
  /\ Goto(r, "find")
  /\ UNCHANGED <<file, writer, tty, dmesg, procs, counters, overlap>>

\* cat ~/home_id
cat == IF file = Missing THEN Empty ELSE file

\* bigsmallstartutils.pl takes the home first ...
CatHome(r) ==
  /\ run[r].pc = "cat"
  /\ run' = [run EXCEPT ![r].pc = "test", ![r].home = cat]
  /\ UNCHANGED <<file, writer, tty, dmesg, procs, counters, overlap>>

\* ... and then asks whether the file exists; its own marker file does.
TestFile(r) ==
  /\ run[r].pc = "test"
  /\ run' = [run EXCEPT ![r] = IF file = Missing THEN Idle ELSE [run[r] EXCEPT !.pc = "find"]]
  /\ UNCHANGED <<file, writer, tty, dmesg, procs, counters, overlap>>

Provider(r) == Providers[run[r].next]
StartWith(r, input) == run' = [run EXCEPT ![r].pc = "launch", ![r].input = input]

\* The number at which dmesg says the receiver's adapter was attached;
\* bigsmallstartutils.pl does not look.
Attached(k) == IF k \in Wired THEN dmesg[k] ELSE 0

\* Mutants: pgrep is not asked, or it finds the receivers of either kind.
NoPgrep(r) ==
  /\ run[r].pc = "find"
  /\ IF Attached(Provider(r)) # None THEN StartWith(r, Attached(Provider(r))) ELSE Continue(r)
  /\ UNCHANGED <<file, writer, tty, dmesg, procs, counters, overlap>>
PgrepAny(r) ==
  /\ run[r].pc = "find"
  /\ IF Attached(Provider(r)) # None /\ procs = <<>>
     THEN StartWith(r, Attached(Provider(r))) ELSE Continue(r)
  /\ UNCHANGED <<file, writer, tty, dmesg, procs, counters, overlap>>

\* dmesg | grep attach | tail -1, and then pgrep -f, which finds a receiver from
\* its launch on, even one that hears nothing.
FindReceiver(r) ==
  /\ run[r].pc = "find"
  /\ IF Attached(Provider(r)) # None /\ Of(Provider(r)) = {}
     THEN StartWith(r, Attached(Provider(r))) ELSE Continue(r)
  /\ UNCHANGED <<file, writer, tty, dmesg, procs, counters, overlap>>

\* The heat meter receiver looks for -input in an argument list of length 2,
\* which has 3 elements then, and takes ttyUSB0.
Launch(r) ==
  /\ run[r].pc = "launch"
  /\ LET free == Procs \ DOMAIN procs
         proc == [kind |-> Provider(r), stage |-> "opening", late |-> 0,
                  home |-> IF Provider(r) = "zwave" THEN run[r].home ELSE Empty,
                  input |-> IF Provider(r) = "HeatMeter" THEN 0 ELSE run[r].input]
     IN  /\ free # {}
         /\ procs' = [p \in DOMAIN procs \cup {Min(free)} |-> IF p = Min(free) THEN proc ELSE procs[p]]
  /\ Continue(r)
  /\ UNCHANGED <<file, writer, tty, dmesg, counters, overlap>>

Step(r) == ServiceStarted(r) \/ CatHome(r) \/ TestFile(r) \/ FindReceiver(r) \/ Launch(r)

-----------------------------------------------------------------------------
(* The receivers. *)

End(S) == procs' = [p \in DOMAIN procs \ S |-> procs[p]]

\* getHomeID: what HOME_ID is afterwards.
getHomeID(home) == IF file = Missing THEN home ELSE file

\* The serial port is opened outside any try.  The heat meter receiver then
\* reads the home_id file; the other one waits for its first reading.
Open(p) ==
  /\ procs[p].stage = "opening" /\ procs[p].kind \in Wired
  /\ IF \E k \in Wired : tty[k] = procs[p].input
     THEN procs' = [procs EXCEPT ![p].stage = "reading",
            ![p].home = IF procs[p].kind = "HeatMeter" THEN getHomeID(@) ELSE @]
     ELSE End({p})
  /\ UNCHANGED <<file, writer, tty, dmesg, run, counters, overlap>>

\* Mutant: idealoz does not insist on a home.
StartAnyZwave(p) ==
  /\ procs[p].stage = "opening" /\ procs[p].kind = "zwave"
  /\ procs' = [procs EXCEPT ![p].stage = "reading"]
  /\ UNCHANGED <<file, writer, tty, dmesg, run, counters, overlap>>
\* idealoz ends without a home on its command line.
StartZwave(p) ==
  /\ procs[p].stage = "opening" /\ procs[p].kind = "zwave"
  /\ IF procs[p].home = Empty THEN End({p})
     ELSE procs' = [procs EXCEPT ![p].stage = "reading"]
  /\ UNCHANGED <<file, writer, tty, dmesg, run, counters, overlap>>

\* oem_receive.pl takes whatever the file holds.
StartOem(p) ==
  /\ procs[p].stage = "opening" /\ procs[p].kind = "oem"
  /\ procs' = [procs EXCEPT ![p].stage = "reading", ![p].home = cat]
  /\ UNCHANGED <<file, writer, tty, dmesg, run, counters, overlap>>

Begin(p) == Open(p) \/ StartZwave(p) \/ StartOem(p)

Hears(p) ==
  procs[p].stage = "reading" /\ procs[p].kind \in Wired /\ procs[p].input = tty[procs[p].kind]

\* Mutant: the file is not read again.
ReadingKeepsHome(p) ==
  /\ Hears(p) /\ procs[p].home = Empty
  /\ procs' = [procs EXCEPT ![p].late = IF file \in Homes THEN @ + 1 ELSE @]
  /\ UNCHANGED <<file, writer, tty, dmesg, run, counters, overlap>>

\* A reading arrives at a receiver without a home: it is sent as 'unknown' (heat
\* meter) or dropped (CurrentCost), and the file is read again.  With a home
\* the reading is sent, and nothing changes.
ReadingWithoutHome(p) ==
  /\ Hears(p) /\ procs[p].home = Empty
  /\ procs' = [procs EXCEPT ![p].home = getHomeID(@),
                            ![p].late = IF file \in Homes THEN @ + 1 ELSE @]
  /\ UNCHANGED <<file, writer, tty, dmesg, run, counters, overlap>>

\* A packet whose data blocks do not come to an end.
Endless == decode(Packet(24, 190, <<>>))

\* Decoding such a packet raises, and nothing in the heat meter receiver catches
\* it; nor does oem_receive.pl expect an answer that is not JSON, or no feeds.
ReceiverError(p) ==
  /\ \/ procs[p].kind = "HeatMeter" /\ procs[p].stage = "reading" /\ Endless = Raises
     \/ procs[p].kind = "oem"
  /\ errors < MaxErrors
  /\ errors' = errors + 1
  /\ End({p})
  /\ UNCHANGED <<file, writer, tty, dmesg, run, writes, unplugs, overlap>>

\* Without an adapter inWaiting raises, which ends the heat meter receiver;
\* readline raises too, and the CurrentCost receiver catches it for ever.
Unplug(k) ==
  /\ tty[k] # None /\ unplugs < MaxUnplugs
  /\ unplugs' = unplugs + 1
  /\ tty' = [tty EXCEPT ![k] = None]
  /\ LET cut == {p \in DOMAIN procs : procs[p].stage = "reading" /\ procs[p].input = tty[k]}
     IN  procs' = [p \in DOMAIN procs \ (cut \cap Of("HeatMeter")) |->
           IF p \in cut THEN [procs[p] EXCEPT !.stage = "deaf"] ELSE procs[p]]
  /\ UNCHANGED <<file, writer, dmesg, run, writes, errors, overlap>>

\* A number stays taken while a deaf receiver has it open.
Plug(k) ==
  /\ tty[k] = None
  /\ LET taken == {tty[j] : j \in Wired}
                  \cup {procs[p].input : p \in {q \in DOMAIN procs : procs[q].stage = "deaf"}}
         number == Min(Ports \ taken)
     IN  /\ Ports \ taken # {}
         /\ tty' = [tty EXCEPT ![k] = number]
         /\ dmesg' = [dmesg EXCEPT ![k] = number]
  /\ UNCHANGED <<file, writer, run, procs, counters, overlap>>

Next ==
  /\ \/ \E h \in Homes : WriteHome(h)
     \/ HomeWritten
     \/ \E r \in Runs : Cron(r) \/ Step(r)
     \/ \E p \in DOMAIN procs : Begin(p) \/ ReadingWithoutHome(p) \/ ReceiverError(p)
     \/ script = "startutils" /\ \E k \in Wired : Unplug(k) \/ Plug(k)
  /\ UNCHANGED script

Spec == Init /\ [][Next]_vars

\* cron keeps its timetable, processes run on, and the start of the service
\* returns, which needs the internet to come back.
Fairness ==
  /\ \A r \in Runs : WF_vars(Cron(r) /\ UNCHANGED script) /\ WF_vars(Step(r) /\ UNCHANGED script)
  /\ \A p \in Procs : WF_vars(p \in DOMAIN procs /\ Begin(p) /\ UNCHANGED script)
  /\ WF_vars(HomeWritten /\ UNCHANGED script)

FairSpec == Spec /\ Fairness

-----------------------------------------------------------------------------
(* Properties. *)

\* Every variable holds a value of its kind.
TypeOK ==
  /\ file \in Homes \cup {Missing, Empty} /\ writer \in Homes \cup {Empty}
  /\ overlap \in BOOLEAN
  /\ tty \in [Wired -> Ports \cup {None}] /\ dmesg \in [Wired -> Ports \cup {None}]
  /\ script \in Scripts
  /\ run \in [Runs -> [pc : {"idle", "service", "cat", "test", "find", "launch"},
                       next : DOMAIN Providers, input : Ports \cup {None},
                       home : Homes \cup {Empty}]]
  /\ DOMAIN procs \subseteq Procs
  /\ \A p \in DOMAIN procs : procs[p] \in
       [kind : Kinds, stage : {"opening", "reading", "deaf"}, input : Ports,
        home : Homes \cup {Empty}, late : Nat]
  /\ {writes, unplugs, errors} \subseteq Nat

\* Unless runs of the launcher overlapped, there is one receiver of a kind,
\* whatever ended the earlier ones.
SingleReceiver == ~overlap => \A k \in Kinds : Cardinality(Of(k)) <= 1

\* However the writing of the home_id file, the restarts of a receiver and its
\* readings interleave, a receiver mislabels or drops at most one reading that
\* arrives while the file holds a home.
OneLateReading == \A p \in DOMAIN procs : procs[p].late <= 1

\* An adapter that is there has, again and again, a receiver that hears it: the
\* heat meter's if it is ttyUSB0, however often receivers end and adapters are
\* unplugged; the CurrentCost one's as long as no adapter was unplugged.
ReceiversHear ==
  \A k \in Wired : []<>(
    \/ tty[k] = None
    \/ \E p \in Of(k) : Hears(p)
    \/ k = "HeatMeter" /\ tty[k] # 0
    \/ k = "CurrentCost" /\ unplugs > 0)

\* Once the home_id file holds a home idealoz runs again and again with one, even
\* if the file was empty when it was first started; oem_receive.pl runs too, but
\* one that started with an empty file never gets a home.
BigSmallRuns ==
  \A k \in {"zwave", "oem"} : []<>(
    \/ script = "startutils" \/ file \in {Missing, Empty}
    \/ \E p \in Of(k) : procs[p].stage = "reading" /\ (procs[p].home # Empty \/ k = "oem"))

=============================================================================
