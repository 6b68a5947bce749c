-------------------------- MODULE SupervisorProofs --------------------------
(***************************************************************************)
(* Proofs about Supervisor, for any set of pids (and so any digits one     *)
(* pid's number may share with another's), any number of concurrent runs   *)
(* of the script, reboots and unrelated processes.                         *)
(***************************************************************************)
EXTENDS Supervisor, FiniteSetTheorems, WellFoundedInduction, TLAPS

\* A server is in the group of the run that started it, an unrelated process
\* leads its own.
GroupsOK ==
  \A p \in DOMAIN procs :
    /\ procs[p].kind = "server" => procs[p].group \in Scripts
    /\ procs[p].kind = "other" => procs[p].group = p

\* Two active runs of the script mean that runs have overlapped.
OneRun == ~overlap => \A s, t \in Active : s = t

\* What a run that is alone knows of the servers at each of its commands.
Launching == ~overlap => \A s \in Scripts : script[s].pc = "launch" => Servers = {}
Recording == ~overlap => \A s \in Scripts :
               script[s].pc = "record" => Servers \subseteq {script[s].arg}
Killing == ~overlap => \A s \in Scripts :
             script[s].pc = "kill" => \A p \in Servers : procs[p].group = script[s].arg

Solo == OneRun /\ Launching /\ Recording /\ Killing /\ StopStops /\ ServerIsRecorded

IInv == TypeOK /\ GroupsOK /\ Solo

-----------------------------------------------------------------------------
(* The pid of a set that ps lists first. *)

LEMMA LeastNatural ==
  ASSUME NEW T, T \subseteq Nat, T # {}
  PROVE  \E x \in T : \A y \in T : x <= y
<1> DEFINE R == {ss \in Nat \X Nat : ss[1] < ss[2]}
<1>1. IsWellFoundedOn(R, Nat)
  BY NatLessThanWellFounded DEF OpToRel
<1> HIDE DEF R
<1>2. PICK x \in T : \A y \in T : ~ (<<y, x>> \in R)
  BY <1>1, WFMin
<1>3. \A y \in T : ~(y < x)
  BY <1>2 DEF R
<1> QED  BY <1>2, <1>3

LEMMA MinIsLeast ==
  ASSUME NEW T, T \subseteq Nat, T # {}
  PROVE  Min(T) \in T /\ \A y \in T : Min(T) <= y
BY LeastNatural DEF Min

-----------------------------------------------------------------------------
(* Types. *)

LEMMA EntryType ==
  ASSUME NEW op \in Op
  PROVE  /\ Run(op) \in [pc : PC, op : Op, arg : Scripts \cup Pids \cup {None}]
         /\ Idle \in [pc : PC, op : Op, arg : Scripts \cup Pids \cup {None}]
         /\ Run(op).pc \in {"wait", "test", "find"}
         /\ Idle.pc = "idle"
BY DEF Run, Idle, Entry, PC, Op

\* The group that stop finds is that of a process or of a run of the script.
LEMMA GroupType ==
  ASSUME TypeOK
  PROVE  /\ Matches \subseteq Nat
         /\ \A p \in Matches : p \in Scripts \cup Pids /\ Group(p) \in Scripts \cup Pids
BY SupervisorAssumption DEF TypeOK, Matches, Running, Active, Group

\* What the assignments of the actions do to one run's record.
LEMMA GotoType ==
  ASSUME TypeOK, NEW s \in Scripts, NEW pc \in PC, NEW arg \in Scripts \cup Pids \cup {None},
         pc = "record" => arg \in Pids, Goto(s, pc, arg)
  PROVE  /\ script' \in [Scripts -> [pc : PC, op : Op, arg : Scripts \cup Pids \cup {None}]]
         /\ \A t \in Scripts : script'[t].pc = "record" => script'[t].arg \in Pids
<1> DEFINE x == [script[s] EXCEPT !.pc = pc, !.arg = arg]
<1>0. /\ script \in [Scripts -> [pc : PC, op : Op, arg : Scripts \cup Pids \cup {None}]]
      /\ \A t \in Scripts : script[t].pc = "record" => script[t].arg \in Pids
  BY DEF TypeOK
<1>1. script' = [script EXCEPT ![s] = x]  BY <1>0 DEF Goto
<1>2. /\ x \in [pc : PC, op : Op, arg : Scripts \cup Pids \cup {None}]
      /\ x.pc = pc /\ x.arg = arg
  BY <1>0
<1> HIDE DEF x
<1> QED  BY <1>0, <1>1, <1>2

LEMMA SetType ==
  ASSUME TypeOK, NEW s \in Scripts,
         NEW r \in [pc : PC, op : Op, arg : Scripts \cup Pids \cup {None}],
         r.pc # "record", script' = [script EXCEPT ![s] = r]
  PROVE  /\ script' \in [Scripts -> [pc : PC, op : Op, arg : Scripts \cup Pids \cup {None}]]
         /\ \A t \in Scripts : script'[t].pc = "record" => script'[t].arg \in Pids
BY DEF TypeOK

LEMMA InitTypeOK == Init => TypeOK /\ GroupsOK
<1> SUFFICES ASSUME Init PROVE TypeOK /\ GroupsOK
  OBVIOUS
<1>1. DOMAIN procs = {}
  BY DEF Init
<1>2. PICK b \in Scripts : script = [s \in Scripts |-> IF s = b THEN Run("start") ELSE Idle]
  BY DEF Init
<1>3. script \in [Scripts -> [pc : PC, op : Op, arg : Scripts \cup Pids \cup {None}]]
  BY <1>2, EntryType DEF Op
<1>4. \A s \in Scripts : script[s].pc # "record"
  BY <1>2, EntryType DEF Op
<1>5. net \in BOOLEAN /\ booting \in BOOLEAN /\ overlap \in BOOLEAN
  BY Zenon DEF Init
<1> QED  BY <1>1, <1>3, <1>4, <1>5 DEF Init, TypeOK, GroupsOK

\* A step of one run of the script keeps the types.
LEMMA StepTypeOK ==
  ASSUME TypeOK, GroupsOK, NEW s \in Scripts, Step(s)
  PROVE  TypeOK' /\ GroupsOK'
<1> USE DEF counters
<1>1. CASE InternetAnswers(s)
  <2>1. (IF script[s].op = "start" THEN "test" ELSE "find") \in PC
    BY DEF PC
  <2> QED  BY <1>1, <2>1, GotoType DEF InternetAnswers, TypeOK, GroupsOK
<1>2. CASE TestStarted(s)
  <2>1. "launch" \in PC /\ "start" \in Op
    BY DEF PC, Op
  <2>2. CASE Goto(s, "launch", None)
    BY <1>2, <2>1, <2>2, GotoType DEF TestStarted, TypeOK, GroupsOK
  <2>3. CASE Exit(s)
    BY <1>2, <2>1, <2>3, SetType, EntryType DEF Exit, TestStarted, TypeOK, GroupsOK
  <2> QED  BY <1>2, <2>2, <2>3 DEF TestStarted
<1>3. CASE Launch(s)
  <2>1. PICK p \in Pids \ DOMAIN procs :
          /\ procs' = [q \in DOMAIN procs \cup {p} |->
                         IF q = p THEN [kind |-> "server", group |-> s] ELSE procs[q]]
          /\ Goto(s, "record", p)
    BY <1>3 DEF Launch
  <2>2. "record" \in PC
    BY DEF PC
  <2>3. /\ script' \in [Scripts -> [pc : PC, op : Op, arg : Scripts \cup Pids \cup {None}]]
        /\ \A t \in Scripts : script'[t].pc = "record" => script'[t].arg \in Pids
    BY <2>1, <2>2, GotoType
  <2>4. /\ DOMAIN procs' \subseteq Pids
        /\ \A q \in DOMAIN procs' :
             procs'[q] \in [kind : {"server", "other"}, group : Scripts \cup Pids]
    BY <2>1 DEF TypeOK
  <2>5. GroupsOK'
    BY <2>1 DEF GroupsOK
  <2> QED  BY <1>3, <2>3, <2>4, <2>5 DEF Launch, TypeOK
<1>4. CASE Record(s)
  <2>1. "start" \in Op
    BY DEF Op
  <2> QED  BY <1>4, <2>1, SetType, EntryType DEF Record, Exit, TypeOK, GroupsOK
<1>5. CASE FindGroup(s)
  <2> DEFINE g == IF Matches = {} THEN None ELSE Group(Min(Matches))
  <2>1. "kill" \in PC /\ "start" \in Op
    BY DEF PC, Op
  <2>2. g \in Scripts \cup Pids \cup {None}
    BY GroupType, MinIsLeast
  <2> HIDE DEF g
  <2>3. \/ Goto(s, "kill", g)
        \/ script' = [script EXCEPT ![s] = Run("start")]
        \/ Exit(s)
    BY <1>5 DEF FindGroup, g
  <2>4. /\ script' \in [Scripts -> [pc : PC, op : Op, arg : Scripts \cup Pids \cup {None}]]
        /\ \A t \in Scripts : script'[t].pc = "record" => script'[t].arg \in Pids
    <3>1. CASE Goto(s, "kill", g)
      BY <2>1, <2>2, <3>1, GotoType
    <3>2. CASE script' = [script EXCEPT ![s] = Run("start")]
      BY <2>1, <3>2, SetType, EntryType
    <3>3. CASE Exit(s)
      BY <2>1, <3>3, SetType, EntryType DEF Exit
    <3> QED  BY <2>3, <3>1, <3>2, <3>3
  <2> QED  BY <1>5, <2>4 DEF FindGroup, TypeOK, GroupsOK
<1>6. CASE PkillGroup(s)
  <2>1. /\ DOMAIN procs' \subseteq DOMAIN procs
        /\ \A p \in DOMAIN procs' : procs'[p] = procs[p]
    BY <1>6 DEF PkillGroup
  <2>2. /\ script' \in [Scripts -> [pc : PC, op : Op, arg : Scripts \cup Pids \cup {None}]]
        /\ \A t \in Scripts : script'[t].pc = "record" => script'[t].arg \in Pids
    BY <1>6, EntryType DEF PkillGroup, TypeOK, PC, Op
  <2> QED  BY <1>6, <2>1, <2>2 DEF PkillGroup, TypeOK, GroupsOK
<1>7. CASE RemovePidFile(s)
  <2>1. "start" \in Op
    BY DEF Op
  <2> QED  BY <1>7, <2>1, SetType, EntryType DEF RemovePidFile, Exit, TypeOK, GroupsOK
<1> QED  BY <1>1, <1>2, <1>3, <1>4, <1>5, <1>6, <1>7 DEF Step

LEMMA InvokeTypeOK ==
  ASSUME TypeOK, GroupsOK, NEW s \in Scripts, NEW op \in Op, Invoke(s, op), ops' \in Nat
  PROVE  TypeOK' /\ GroupsOK'
<1>1. /\ script' \in [Scripts -> [pc : PC, op : Op, arg : Scripts \cup Pids \cup {None}]]
      /\ \A t \in Scripts : script'[t].pc = "record" => script'[t].arg \in Pids
  BY SetType, EntryType DEF Invoke
<1>2. overlap' \in BOOLEAN
  BY Zenon DEF Invoke
<1> QED  BY <1>1, <1>2 DEF Invoke, TypeOK, GroupsOK

LEMMA NextTypeOK == TypeOK /\ GroupsOK /\ [Next]_vars => TypeOK' /\ GroupsOK'
<1> SUFFICES ASSUME TypeOK, GroupsOK, [Next]_vars PROVE TypeOK' /\ GroupsOK'
  OBVIOUS
<1> USE DEF counters
<1>1. ASSUME NEW s \in Scripts, Step(s) PROVE TypeOK' /\ GroupsOK'
  BY <1>1, StepTypeOK
<1>2. CASE Cron
  <2>1. PICK s \in Scripts : Invoke(s, "start")
    BY <1>2 DEF Cron
  <2>2. ops' \in Nat /\ "start" \in Op
    BY <1>2 DEF Cron, TypeOK, Op
  <2> QED  BY <2>1, <2>2, InvokeTypeOK
<1>3. CASE Operator
  <2>1. PICK s \in Scripts, op \in Op : Invoke(s, op)
    BY <1>3 DEF Operator
  <2>2. ops' \in Nat
    BY <1>3 DEF Operator, TypeOK
  <2> QED  BY <2>1, <2>2, InvokeTypeOK
<1>4. ASSUME NEW p \in Pids, ProcessEnds(p) PROVE TypeOK' /\ GroupsOK'
  BY <1>4 DEF ProcessEnds, TypeOK, GroupsOK
<1>5. CASE OtherStarts
  <2>1. PICK p \in Pids \ DOMAIN procs :
          procs' = [q \in DOMAIN procs \cup {p} |->
                      IF q = p THEN [kind |-> "other", group |-> p] ELSE procs[q]]
    BY <1>5 DEF OtherStarts
  <2>2. /\ DOMAIN procs' \subseteq Pids
        /\ \A q \in DOMAIN procs' :
             procs'[q] \in [kind : {"server", "other"}, group : Scripts \cup Pids]
    BY <2>1 DEF TypeOK
  <2>3. GroupsOK'
    BY <2>1 DEF GroupsOK
  <2> QED  BY <1>5, <2>2, <2>3 DEF OtherStarts, TypeOK
<1>6. CASE Reboot
  <2>1. PICK b \in Scripts : script' = [s \in Scripts |-> IF s = b THEN Run("start") ELSE Idle]
    BY <1>6 DEF Reboot
  <2>2. /\ script' \in [Scripts -> [pc : PC, op : Op, arg : Scripts \cup Pids \cup {None}]]
        /\ \A s \in Scripts : script'[s].pc # "record"
    BY <2>1, EntryType DEF Op
  <2>3. DOMAIN procs' = {}
    BY <1>6 DEF Reboot
  <2>4. booting' \in BOOLEAN /\ overlap' \in BOOLEAN
    BY <1>6, Zenon DEF Reboot
  <2> QED  BY <1>6, <2>2, <2>3, <2>4 DEF Reboot, TypeOK, GroupsOK
<1>7. CASE NetUp
  BY <1>7 DEF NetUp, TypeOK, GroupsOK
<1>8. CASE NetDown
  <2>1. net' \in BOOLEAN
    BY <1>8, Zenon DEF NetDown
  <2>2. outages' = outages + 1
    BY <1>8 DEF NetDown
  <2> QED  BY <1>8, <2>1, <2>2 DEF NetDown, TypeOK, GroupsOK
<1>9. CASE UNCHANGED vars
  BY <1>9 DEF vars, TypeOK, GroupsOK
<1> QED
  BY <1>1, <1>2, <1>3, <1>4, <1>5, <1>6, <1>7, <1>8, <1>9 DEF Next

-----------------------------------------------------------------------------
(* Runs that do not overlap. *)

\* A run that is alone at its find reaches the server by the number in the PID
\* file: the group that it takes from ps is the server's, whatever other
\* numbers contain the digits.
LEMMA FindsTheServer ==
  ASSUME IInv, ~overlap, NEW s \in Scripts, script[s].pc = "find",
         NEW p \in Servers
  PROVE  pidfile = p /\ Matches # {} /\ Group(Min(Matches)) = procs[p].group
<1>1. p \in Pids /\ p \in DOMAIN procs /\ p \in Nat
  BY SupervisorAssumption DEF IInv, TypeOK, Servers
<1>2. \A t \in Scripts : script[t].pc # "record"
  BY DEF IInv, Solo, OneRun, Active
<1>3. \A q \in Servers : pidfile = q
  BY <1>2 DEF IInv, Solo, ServerIsRecorded
<1>4. p \in Matches
  BY <1>1, <1>3, SupervisorAssumption DEF Matches, Running
<1>5. ASSUME NEW q \in Matches PROVE p <= q
  <2>1. q \in Scripts \cup Pids /\ q \in Running
    BY GroupType DEF IInv, Matches
  <2>2. CASE <<p, q>> \in Within
    BY <1>1, <2>1, <2>2, SupervisorAssumption
  <2>3. CASE <<p, Group(q)>> \in Within
    <3>1. CASE q \in Servers
      BY <1>1, <1>3, <3>1
    <3>2. CASE q \notin Servers
      <4>1. Group(q) = q
        BY <2>1, <3>2 DEF IInv, TypeOK, GroupsOK, Servers, Group, Running
      <4> QED  BY <1>1, <2>1, <2>3, <4>1, SupervisorAssumption
    <3> QED  BY <3>1, <3>2
  <2> QED  BY <1>3, <1>5, <2>2, <2>3 DEF Matches
<1>6. Min(Matches) = p
  <2>1. Min(Matches) \in Matches /\ Min(Matches) <= p
    BY <1>4, GroupType, MinIsLeast DEF IInv
  <2>2. p <= Min(Matches) /\ Min(Matches) \in Nat
    BY <1>5, <2>1, GroupType DEF IInv
  <2> QED  BY <1>1, <2>1, <2>2
<1> QED  BY <1>1, <1>3, <1>4, <1>6 DEF Group

\* A step of the only active run preserves what that run knows.
LEMMA StepSolo ==
  ASSUME IInv, ~overlap, NEW s \in Scripts, Step(s)
  PROVE  Solo'
<1> USE DEF Solo, OneRun, Launching, Recording, Killing, StopStops, ServerIsRecorded
<1>1. script \in [Scripts -> [pc : PC, op : Op, arg : Scripts \cup Pids \cup {None}]]
  BY DEF IInv, TypeOK
<1>2. script[s].pc # "idle"
  BY DEF Step, InternetAnswers, TestStarted, Launch, Record, FindGroup, PkillGroup,
         RemovePidFile
<1>3. \A t \in Scripts : t # s => script[t].pc = "idle"
  BY <1>2 DEF IInv, Active
<1>4. CASE InternetAnswers(s)
  <2>1. /\ \A t \in Scripts : t # s => script'[t].pc = "idle"
        /\ script'[s].pc \in {"test", "find"}
    BY <1>1, <1>3, <1>4 DEF InternetAnswers, Goto
  <2>2. UNCHANGED <<procs, pidfile, overlap>>
    BY <1>4 DEF InternetAnswers
  <2> QED  BY <1>3, <1>4, <2>1, <2>2 DEF InternetAnswers, IInv, Active, Servers
<1>5. CASE TestStarted(s)
  <2>1. /\ \A t \in Scripts : t # s => script'[t].pc = "idle"
        /\ script'[s].pc \in {"idle", "launch"}
    BY <1>1, <1>3, <1>5 DEF TestStarted, Goto, Exit, Idle
  <2>2. UNCHANGED <<procs, pidfile, overlap>>
    BY <1>5 DEF TestStarted
  <2>3. \A p \in Servers : pidfile = p
    BY <1>3, <1>5 DEF IInv, TestStarted
  <2>4. script'[s].pc = "launch" => Servers = {}
    <3> SUFFICES ASSUME script'[s].pc = "launch", NEW p \in Servers PROVE FALSE
      OBVIOUS
    <3>1. p \in Pids /\ p \in DOMAIN procs
      BY DEF IInv, TypeOK, Servers
    <3>2. pidfile # None /\ pidfile \in Running
      BY <2>3, <3>1, SupervisorAssumption DEF Running
    <3>3. script'[s].pc = "idle"
      BY <1>1, <1>5, <3>2 DEF TestStarted, Exit, Idle
    <3> QED  BY <3>3
  <2> QED  BY <2>1, <2>2, <2>3, <2>4 DEF Active, Servers
<1>6. CASE Launch(s)
  <2>1. PICK p \in Pids \ DOMAIN procs :
          /\ procs' = [q \in DOMAIN procs \cup {p} |->
                         IF q = p THEN [kind |-> "server", group |-> s] ELSE procs[q]]
          /\ Goto(s, "record", p)
    BY <1>6 DEF Launch
  <2>2. /\ \A t \in Scripts : t # s => script'[t].pc = "idle"
        /\ script'[s].pc = "record" /\ script'[s].arg = p
    BY <1>1, <1>3, <2>1 DEF Goto
  <2>3. Servers = {}
    BY <1>6 DEF IInv, Launch
  <2>4. Servers' = {p}
    BY <2>1, <2>3 DEF Servers
  <2> QED  BY <2>2, <2>4 DEF Active
<1>7. CASE Record(s)
  <2>1. \A t \in Scripts : script'[t].pc = "idle"
    BY <1>1, <1>3, <1>7 DEF Record, Exit, Idle
  <2>2. Servers \subseteq {script[s].arg}
    BY <1>7 DEF IInv, Record
  <2>3. Servers' = Servers /\ pidfile' = script[s].arg
    BY <1>7 DEF Record, Servers
  <2> QED  BY <2>1, <2>2, <2>3 DEF Active
<1>8. CASE FindGroup(s)
  <2>1. /\ \A t \in Scripts : t # s => script'[t].pc = "idle"
        /\ script'[s].pc \in {"idle", "kill", "wait", "test", "find"}
    BY <1>1, <1>3, <1>8, EntryType DEF FindGroup, Goto, Exit, Op
  <2>2. UNCHANGED <<procs, pidfile, overlap>>
    BY <1>8 DEF FindGroup
  <2>3. ASSUME script'[s].pc = "kill", NEW p \in Servers
        PROVE  procs[p].group = script'[s].arg
    <3>1. pidfile = p /\ Matches # {} /\ Group(Min(Matches)) = procs[p].group
      BY <1>8, FindsTheServer DEF FindGroup
    <3>2. pidfile # None
      BY <3>1, SupervisorAssumption DEF IInv, TypeOK, Servers
    <3>3. script' = [script EXCEPT ![s].pc = "kill", ![s].arg = Group(Min(Matches))]
      BY <1>8, <3>1, <3>2 DEF FindGroup, Goto
    <3> QED  BY <1>1, <3>1, <3>3
  <2>4. \A p \in Servers : pidfile = p
    BY <1>3, <1>8 DEF IInv, FindGroup
  <2> QED  BY <2>1, <2>2, <2>3, <2>4 DEF Active, Servers
<1>9. CASE PkillGroup(s)
  <2>1. \A t \in Scripts : t # s => script'[t].pc = "idle"
    BY <1>1, <1>3, <1>9 DEF PkillGroup, Idle
  <2>2. script'[s].pc \in {"idle", "rm"}
    BY <1>1, <1>9 DEF PkillGroup, Idle
  <2>3. \A p \in Servers : procs[p].group = script[s].arg
    BY <1>9 DEF IInv, PkillGroup
  <2>4. Servers' = {}
    BY <1>9, <2>3 DEF PkillGroup, Servers
  <2> QED  BY <2>1, <2>2, <2>4 DEF Active
<1>10. CASE RemovePidFile(s)
  <2>1. /\ \A t \in Scripts : t # s => script'[t].pc = "idle"
        /\ script'[s].pc \in {"idle", "wait", "test", "find"}
    BY <1>1, <1>3, <1>10, EntryType DEF RemovePidFile, Exit, Op
  <2>2. Servers' = {}
    BY <1>10 DEF IInv, RemovePidFile, Servers
  <2> QED  BY <2>1, <2>2 DEF Active
<1> QED
  BY <1>4, <1>5, <1>6, <1>7, <1>8, <1>9, <1>10 DEF Step

\* The surroundings preserve it too: a run that begins while another is active
\* makes an overlap, processes only leave or are no servers, and a reboot
\* leaves one run and no process.
LEMMA SurroundingsSolo ==
  ASSUME IInv, Next, ~ \E s \in Scripts : Step(s)
  PROVE  Solo'
<1> USE DEF Solo, OneRun, Launching, Recording, Killing, StopStops, ServerIsRecorded
<1>1. script \in [Scripts -> [pc : PC, op : Op, arg : Scripts \cup Pids \cup {None}]]
  BY DEF IInv, TypeOK
<1>2. ASSUME NEW s \in Scripts, NEW op \in Op, Invoke(s, op)
      PROVE  Solo'
  <2>1. overlap' = (overlap \/ Active # {}) /\ UNCHANGED <<procs, pidfile>>
    BY <1>2 DEF Invoke
  <2>2. CASE overlap'
    BY <2>2
  <2>3. CASE ~overlap'
    <3>1. ~overlap /\ Active = {}
      BY <2>1, <2>3
    <3>2. /\ \A t \in Scripts : t # s => script'[t].pc = "idle"
          /\ script'[s].pc \in {"wait", "test", "find"}
      BY <1>1, <1>2, <3>1, EntryType DEF Invoke, Active
    <3>3. \A p \in Servers : pidfile = p
      BY <3>1 DEF IInv, Active
    <3> QED  BY <2>1, <3>2, <3>3 DEF Active, Servers
  <2> QED  BY <2>2, <2>3
<1>3. ASSUME NEW p \in Pids, ProcessEnds(p) PROVE Solo'
  <2>1. /\ Servers' \subseteq Servers
        /\ \A q \in Servers' : procs'[q] = procs[q]
    BY <1>3 DEF ProcessEnds, Servers
  <2>2. UNCHANGED <<script, pidfile, overlap>>
    BY <1>3 DEF ProcessEnds
  <2>3. Servers = {} => Servers' = {}
    BY <2>1
  <2> QED  BY <2>1, <2>2, <2>3 DEF IInv, Active
<1>4. CASE OtherStarts
  <2>1. PICK p \in Pids \ DOMAIN procs :
          procs' = [q \in DOMAIN procs \cup {p} |->
                      IF q = p THEN [kind |-> "other", group |-> p] ELSE procs[q]]
    BY <1>4 DEF OtherStarts
  <2>2. /\ Servers' = Servers
        /\ \A q \in Servers' : procs'[q] = procs[q]
    BY <2>1 DEF Servers
  <2>3. UNCHANGED <<script, pidfile, overlap>>
    BY <1>4 DEF OtherStarts
  <2> QED  BY <2>2, <2>3 DEF IInv, Active
<1>5. CASE Reboot
  <2>1. PICK b \in Scripts : script' = [s \in Scripts |-> IF s = b THEN Run("start") ELSE Idle]
    BY <1>5 DEF Reboot
  <2>2. /\ \A t \in Scripts : t # b => script'[t].pc = "idle"
        /\ script'[b].pc \in {"wait", "test", "find"}
    BY <2>1, EntryType DEF Op
  <2>3. Servers' = {}
    BY <1>5 DEF Reboot, Servers
  <2> QED  BY <2>2, <2>3 DEF Active
<1>6. CASE NetUp \/ NetDown
  <2>1. UNCHANGED <<procs, script, pidfile, overlap>>
    BY <1>6 DEF NetUp, NetDown
  <2> QED  BY <2>1 DEF IInv, Active, Servers
<1>7. CASE Cron
  <2>1. PICK s \in Scripts : Invoke(s, "start")
    BY <1>7 DEF Cron
  <2> QED  BY <1>2, <2>1 DEF Op
<1>8. CASE Operator
  BY <1>2, <1>8 DEF Operator
<1> QED
  BY <1>3, <1>4, <1>5, <1>6, <1>7, <1>8 DEF Next

LEMMA InitIInv == Init => IInv
<1> SUFFICES ASSUME Init PROVE Solo
  BY InitTypeOK DEF IInv
<1>1. PICK b \in Scripts : script = [s \in Scripts |-> IF s = b THEN Run("start") ELSE Idle]
  BY DEF Init
<1>2. /\ \A t \in Scripts : t # b => script[t].pc = "idle"
      /\ script[b].pc \in {"wait", "test", "find"}
  BY <1>1, EntryType DEF Op
<1>3. Servers = {}
  BY DEF Init, Servers
<1> QED
  BY <1>2, <1>3 DEF Active, Solo, OneRun, Launching, Recording, Killing, StopStops,
                    ServerIsRecorded

LEMMA NextIInv == IInv /\ [Next]_vars => IInv'
<1> SUFFICES ASSUME IInv, [Next]_vars PROVE Solo'
  BY NextTypeOK DEF IInv
<1>1. ASSUME NEW s \in Scripts, Step(s) PROVE Solo'
  <2>1. CASE overlap
    <3>1. overlap' = overlap
      BY <1>1 DEF Step, InternetAnswers, TestStarted, Launch, Record, FindGroup, PkillGroup,
                  RemovePidFile
    <3> QED  BY <2>1, <3>1 DEF Solo, OneRun, Launching, Recording, Killing, StopStops,
                               ServerIsRecorded
  <2> QED  BY <1>1, <2>1, StepSolo
<1>2. CASE Next
  BY <1>1, <1>2, SurroundingsSolo
<1>3. CASE UNCHANGED vars
  BY <1>3 DEF vars, IInv, Solo, OneRun, Launching, Recording, Killing, StopStops,
              ServerIsRecorded, Active, Servers
<1> QED  BY <1>2, <1>3

\* At most one server follows: it is the recorded one, or the one about to be.
LEMMA IInvSingleServer == IInv => SingleServer
<1> SUFFICES ASSUME IInv, ~overlap PROVE Cardinality(Servers) <= 1
  BY DEF SingleServer
<1>1. \A p, q \in Servers : p = q
  BY DEF IInv, Solo, OneRun, Recording, ServerIsRecorded, Active
<1>2. CASE Servers = {}
  BY <1>2, FS_EmptySet
<1>3. CASE Servers # {}
  <2>1. PICK p \in Servers : TRUE
    BY <1>3
  <2>2. Servers = {p}
    BY <1>1, <2>1
  <2>3. Cardinality(Servers) = 1
    BY <2>2, FS_Singleton
  <2> QED  BY <2>3
<1> QED  BY <1>2, <1>3

-----------------------------------------------------------------------------

\* Every variable of the service script's model keeps its kind.
THEOREM TypeCorrect == Spec => []TypeOK
<1>1. IInv => TypeOK
  BY DEF IInv
<1> QED  BY <1>1, InitIInv, NextIInv, PTL DEF Spec

\* Unless two runs of ideal.sh overlap there is never a second server, whatever
\* ends, is killed or rebooted, and however stale the PID file is.
THEOREM OneServer == Spec => []SingleServer
BY IInvSingleServer, InitIInv, NextIInv, PTL DEF Spec

\* Unless runs overlap, the server that runs is the one the PID file names, or
\* the run that launched it is about to write its pid.
THEOREM PidFileNamesServer == Spec => []ServerIsRecorded
<1>1. IInv => ServerIsRecorded
  BY DEF IInv, Solo
<1> QED  BY <1>1, InitIInv, NextIInv, PTL DEF Spec

\* Unless runs overlap, stop removes the PID file only when no server is left,
\* although it picks the group to kill by searching ps for the digits.
THEOREM StopEndsServer == Spec => []StopStops
<1>1. IInv => StopStops
  BY DEF IInv, Solo
<1> QED  BY <1>1, InitIInv, NextIInv, PTL DEF Spec
=============================================================================
