-------------------------- MODULE ReceiversProofs --------------------------
(***************************************************************************)
(* Proofs about Receivers, for any homes, any number of runs of the        *)
(* launchers and of receiver processes, and any number of unplugged        *)
(* adapters, errors and rewritings of the home_id file.                    *)
(***************************************************************************)
EXTENDS Receivers, FiniteSetTheorems, WellFoundedInduction, TLAPS

PCs == {"idle", "service", "cat", "test", "find", "launch"}
RunType == [pc : PCs, next : DOMAIN Providers, input : Ports \cup {None},
            home : Homes \cup {Empty}]
ProcType == [kind : Kinds, stage : {"opening", "reading", "deaf"}, input : Ports,
             home : Homes \cup {Empty}, late : Nat]

\* A run that is about to launch a receiver has the port for it.
PortKnown == \A r \in Runs : run[r].pc = "launch" => run[r].input \in Ports

Typed == TypeOK /\ PortKnown

\* A receiver counts a late reading only when it takes the home of the file, and
\* it looks at its readings only once it is open.
LateInv ==
  \A p \in DOMAIN procs :
    /\ procs[p].stage = "opening" => procs[p].late = 0
    /\ procs[p].late <= 1
    /\ procs[p].late = 1 => procs[p].home \in Homes

\* Two active runs of the launcher mean that runs have overlapped; a run that is
\* alone and about to launch a receiver knows that there is none of its kind.
AloneInv ==
  ~overlap =>
    /\ \A r, s \in Runs : run[r].pc # "idle" /\ run[s].pc # "idle" => r = s
    /\ \A r \in Runs : run[r].pc = "launch" => Of(Provider(r)) = {}
    /\ \A p, q \in DOMAIN procs : procs[p].kind = procs[q].kind => p = q

IInv == Typed /\ LateInv /\ AloneInv

-----------------------------------------------------------------------------
(* Operators. *)

\* Min is the least element.
LEMMA MinIsLeast ==
  ASSUME NEW T, T \subseteq Nat, T # {}
  PROVE  Min(T) \in T
<1> DEFINE R == {ss \in Nat \X Nat : ss[1] < ss[2]}
<1>1. IsWellFoundedOn(R, Nat)
  BY NatLessThanWellFounded DEF OpToRel
<1> HIDE DEF R
<1>2. PICK x \in T : \A y \in T : ~ (<<y, x>> \in R)
  BY <1>1, WFMin
<1>3. \A y \in T : ~ (y < x)
  BY <1>2 DEF R
<1>4. \A y \in T : x <= y
  BY <1>3
<1> QED  BY <1>4 DEF Min

\* Both launchers know two providers.
LEMMA ProvidersAre ==
  /\ Len(Providers) = 2 /\ DOMAIN Providers = 1..2
  /\ Providers[1] \in Kinds /\ Providers[2] \in Kinds
BY DEF Providers, Kinds, Wired

\* What the launcher does next: it ends, or looks for the second provider.
LEMMA ContinueRun ==
  ASSUME Typed, NEW r \in Runs, Continue(r)
  PROVE  /\ run' \in [Runs -> RunType]
         /\ run'[r].pc \in {"idle", "find"}
         /\ \A s \in Runs : s # r => run'[s] = run[s]
<1>1. run \in [Runs -> RunType]
  BY DEF Typed, TypeOK, RunType, PCs
<1>2. Idle \in RunType /\ Idle.pc = "idle"
  BY ProvidersAre DEF Idle, RunType, PCs
<1>3. CASE run[r].next = Len(Providers)
  BY <1>1, <1>2, <1>3 DEF Continue
<1>4. CASE run[r].next # Len(Providers)
  <2> DEFINE x == [run[r] EXCEPT !.pc = "find", !.next = run[r].next + 1, !.input = None]
  <2>0. run[r].next = 1
    BY <1>1, <1>4, ProvidersAre DEF RunType
  <2>1. x \in RunType /\ x.pc = "find"
    <3>1. run[r] \in RunType
      BY <1>1
    <3>2. run[r].next + 1 \in DOMAIN Providers
      BY <2>0, ProvidersAre
    <3> QED  BY <3>1, <3>2 DEF RunType, PCs
  <2>2. run' = [run EXCEPT ![r] = x]
    BY <1>4 DEF Continue
  <2> HIDE DEF x
  <2> QED  BY <1>1, <2>1, <2>2
<1> QED  BY <1>3, <1>4

LEMMA GotoRun ==
  ASSUME Typed, NEW r \in Runs, NEW pc \in PCs \ {"launch"}, Goto(r, pc)
  PROVE  /\ run' \in [Runs -> RunType]
         /\ run'[r].pc = pc
         /\ \A s \in Runs : s # r => run'[s] = run[s]
BY DEF Typed, TypeOK, RunType, PCs, Goto

-----------------------------------------------------------------------------
(* A step of a launcher: what it may do to its run and to the processes. *)

RunStep(r) ==
  /\ run' \in [Runs -> RunType]
  /\ \A s \in Runs : s # r => run'[s] = run[s]
  /\ UNCHANGED <<file, writer, tty, dmesg, script, counters>>

LEMMA StepKinds ==
  ASSUME Typed, NEW r \in Runs, Cron(r) \/ Step(r), UNCHANGED script
  PROVE  /\ RunStep(r)
         /\ \/ /\ run[r].pc = "idle" /\ run'[r].pc \in {"service", "cat"}
               /\ overlap' = (overlap \/ \E s \in Runs : run[s].pc # "idle")
               /\ UNCHANGED procs
            \/ /\ run[r].pc # "idle" /\ run'[r].pc # "launch"
               /\ UNCHANGED <<procs, overlap>>
            \/ /\ run[r].pc = "find" /\ run'[r].pc = "launch"
               /\ run'[r].input \in Ports /\ run'[r].next = run[r].next
               /\ Of(Provider(r)) = {}
               /\ UNCHANGED <<procs, overlap>>
            \/ /\ run[r].pc = "launch" /\ run'[r].pc \in {"idle", "find"}
               /\ UNCHANGED overlap
               /\ \E p \in Procs \ DOMAIN procs, x \in ProcType :
                    /\ x.kind = Provider(r) /\ x.stage = "opening" /\ x.late = 0
                    /\ procs' = [q \in DOMAIN procs \cup {p} |-> IF q = p THEN x ELSE procs[q]]
<1>0. run \in [Runs -> RunType]
  BY DEF Typed, TypeOK, RunType, PCs
<1>1. CASE Cron(r)
  <2>1. (IF script = "startutils" THEN "service" ELSE "cat") \in PCs \ {"launch"}
    BY DEF PCs
  <2> QED  BY <1>1, <2>1, GotoRun DEF Cron, RunStep
<1>2. CASE ServiceStarted(r)
  <2>1. "find" \in PCs \ {"launch"}
    BY DEF PCs
  <2> QED  BY <1>2, <2>1, GotoRun DEF ServiceStarted, RunStep
<1>3. CASE CatHome(r)
  <2>1. cat \in Homes \cup {Empty}
    BY DEF Typed, TypeOK, cat
  <2> DEFINE x == [run[r] EXCEPT !.pc = "test", !.home = cat]
  <2>2. run' = [run EXCEPT ![r] = x]  BY <1>0, <1>3 DEF CatHome
  <2>3. x \in RunType /\ x.pc = "test"  BY <1>0, <2>1 DEF RunType, PCs
  <2> HIDE DEF x
  <2>4. run' \in [Runs -> RunType] /\ run'[r].pc = "test"  BY <1>0, <2>2, <2>3
  <2>5. \A s \in Runs : s # r => run'[s] = run[s]  BY <1>0, <2>2
  <2> QED  BY <1>3, <2>4, <2>5 DEF CatHome, RunStep
<1>4. CASE TestFile(r)
  <2>1. Idle \in RunType /\ Idle.pc = "idle"
    BY ProvidersAre DEF Idle, RunType, PCs
  <2>2. [run[r] EXCEPT !.pc = "find"] \in RunType /\ [run[r] EXCEPT !.pc = "find"].pc = "find"
    BY <1>0 DEF RunType, PCs
  <2>3. run' = [run EXCEPT ![r] = IF file = Missing THEN Idle ELSE [run[r] EXCEPT !.pc = "find"]]
    BY <1>4 DEF TestFile
  <2>4. /\ run' \in [Runs -> RunType] /\ run'[r].pc \in {"idle", "find"}
        /\ \A s \in Runs : s # r => run'[s] = run[s]
    BY <1>0, <2>1, <2>2, <2>3
  <2> QED  BY <1>4, <2>4 DEF TestFile, RunStep
<1>5. CASE FindReceiver(r)
  <2>1. CASE Attached(Provider(r)) # None /\ Of(Provider(r)) = {}
    <3>1. Attached(Provider(r)) \in Ports
      BY <2>1 DEF Attached, Typed, TypeOK, Ports
    <3>2. run' = [run EXCEPT ![r].pc = "launch", ![r].input = Attached(Provider(r))]
      BY <1>5, <2>1 DEF FindReceiver, StartWith
    <3>3. /\ run' \in [Runs -> RunType] /\ run'[r].pc = "launch"
          /\ run'[r].input \in Ports /\ run'[r].next = run[r].next
          /\ \A s \in Runs : s # r => run'[s] = run[s]
      BY <1>0, <3>1, <3>2 DEF RunType, PCs
    <3> QED  BY <1>5, <2>1, <3>3 DEF FindReceiver, RunStep
  <2>2. CASE ~(Attached(Provider(r)) # None /\ Of(Provider(r)) = {})
    <3>1. Continue(r)
      BY <1>5, <2>2 DEF FindReceiver
    <3> QED  BY <1>5, <3>1, ContinueRun DEF FindReceiver, RunStep
  <2> QED  BY <2>1, <2>2
<1>6. CASE Launch(r)
  <2> DEFINE free == Procs \ DOMAIN procs
             x == [kind |-> Provider(r), stage |-> "opening", late |-> 0,
                   home |-> IF Provider(r) = "zwave" THEN run[r].home ELSE Empty,
                   input |-> IF Provider(r) = "HeatMeter" THEN 0 ELSE run[r].input]
  <2>1. Min(free) \in free
    BY <1>6, MinIsLeast, ReceiversAssumption DEF Launch
  <2>2. Provider(r) \in Kinds
    BY <1>0, ProvidersAre DEF Provider, RunType
  <2>3. x \in ProcType /\ x.kind = Provider(r) /\ x.stage = "opening" /\ x.late = 0
    BY <1>0, <1>6, <2>2 DEF Launch, ProcType, RunType, Ports, Typed, PortKnown
  <2>4. procs' = [q \in DOMAIN procs \cup {Min(free)} |-> IF q = Min(free) THEN x ELSE procs[q]]
    BY <1>6 DEF Launch
  <2>5. Continue(r)
    BY <1>6 DEF Launch
  <2> HIDE DEF free, x
  <2>6. \E p \in Procs \ DOMAIN procs, y \in ProcType :
          /\ y.kind = Provider(r) /\ y.stage = "opening" /\ y.late = 0
          /\ procs' = [q \in DOMAIN procs \cup {p} |-> IF q = p THEN y ELSE procs[q]]
    BY <2>1, <2>3, <2>4 DEF free
  <2> QED  BY <1>6, <2>5, <2>6, ContinueRun DEF Launch, RunStep
<1> QED  BY <1>1, <1>2, <1>3, <1>4, <1>5, <1>6 DEF Step

\* A step of a receiver, or of its adapter: processes end or keep their kind,
\* and the launchers do not notice.
ProcStep ==
  /\ UNCHANGED <<run, overlap, script>>
  /\ DOMAIN procs' \subseteq DOMAIN procs
  /\ \A p \in DOMAIN procs' : procs'[p] \in ProcType /\ procs'[p].kind = procs[p].kind

LEMMA EndStep ==
  ASSUME Typed, LateInv, NEW S, End(S)
  PROVE  /\ DOMAIN procs' \subseteq DOMAIN procs
         /\ \A p \in DOMAIN procs' : procs'[p] \in ProcType /\ procs'[p].kind = procs[p].kind
         /\ LateInv'
BY DEF Typed, TypeOK, LateInv, End, ProcType

\* One receiver changes and keeps its kind.
LEMMA OneProc ==
  ASSUME Typed, LateInv, NEW p \in DOMAIN procs, NEW x \in ProcType, x.kind = procs[p].kind,
         x.stage = "opening" => x.late = 0, x.late <= 1, x.late = 1 => x.home \in Homes,
         procs' = [procs EXCEPT ![p] = x]
  PROVE  /\ DOMAIN procs' \subseteq DOMAIN procs
         /\ \A q \in DOMAIN procs' : procs'[q] \in ProcType /\ procs'[q].kind = procs[q].kind
         /\ LateInv'
BY DEF Typed, TypeOK, LateInv, ProcType

LEMMA BeginStep ==
  ASSUME Typed, LateInv, NEW p \in DOMAIN procs, Begin(p), UNCHANGED script
  PROVE  ProcStep /\ LateInv' /\ UNCHANGED <<file, writer, tty, dmesg, counters>>
<1>0. procs[p] \in ProcType /\ procs[p].stage = "opening" /\ procs[p].late = 0
  BY DEF Begin, Open, StartZwave, StartOem, Typed, TypeOK, ProcType, LateInv
<1>1. UNCHANGED <<file, writer, tty, dmesg, run, counters, overlap>>
  BY DEF Begin, Open, StartZwave, StartOem
<1>2. CASE End({p})
  BY <1>1, <1>2, EndStep DEF ProcStep
<1>3. ASSUME NEW h \in Homes \cup {Empty},
             procs' = [procs EXCEPT ![p].stage = "reading", ![p].home = h]
      PROVE  ProcStep /\ LateInv'
  <2> DEFINE x == [procs[p] EXCEPT !.stage = "reading", !.home = h]
  <2>1. x \in ProcType /\ x.kind = procs[p].kind /\ x.stage = "reading" /\ x.late = 0
    BY <1>0 DEF ProcType
  <2>2. procs' = [procs EXCEPT ![p] = x]
    BY <1>3
  <2> HIDE DEF x
  <2>3. x.late <= 1 /\ x.late # 1
    BY <2>1
  <2> QED  BY <1>1, <2>1, <2>2, <2>3, OneProc DEF ProcStep
<1>4. CASE Open(p)
  <2>1. getHomeID(procs[p].home) \in Homes \cup {Empty} /\ procs[p].home \in Homes \cup {Empty}
    BY <1>0 DEF getHomeID, Typed, TypeOK, ProcType
  <2>2. \/ End({p})
        \/ procs' = [procs EXCEPT ![p].stage = "reading",
             ![p].home = IF procs[p].kind = "HeatMeter" THEN getHomeID(procs[p].home)
                         ELSE procs[p].home]
    BY <1>4 DEF Open
  <2> QED  BY <1>1, <1>2, <1>3, <2>1, <2>2
<1>5. CASE StartZwave(p)
  <2>1. CASE procs' = [procs EXCEPT ![p].stage = "reading"]
    <3> DEFINE x == [procs[p] EXCEPT !.stage = "reading"]
    <3>1. x \in ProcType /\ x.kind = procs[p].kind /\ x.stage = "reading" /\ x.late = 0
      BY <1>0 DEF ProcType
    <3>2. procs' = [procs EXCEPT ![p] = x]
      BY <2>1
    <3> HIDE DEF x
    <3>3. x.late <= 1 /\ x.late # 1
      BY <3>1
    <3> QED  BY <1>1, <3>1, <3>2, <3>3, OneProc DEF ProcStep
  <2> QED  BY <1>1, <1>2, <1>5, <2>1 DEF StartZwave
<1>6. CASE StartOem(p)
  <2>1. cat \in Homes \cup {Empty}
    BY DEF Typed, TypeOK, cat
  <2> QED  BY <1>1, <1>3, <1>6, <2>1 DEF StartOem
<1> QED  BY <1>4, <1>5, <1>6 DEF Begin

\* A reading without a home is late only if the file has one, which the receiver
\* then takes.
LEMMA ReadingStep ==
  ASSUME Typed, LateInv, NEW p \in DOMAIN procs, ReadingWithoutHome(p), UNCHANGED script
  PROVE  ProcStep /\ LateInv' /\ UNCHANGED <<file, writer, tty, dmesg, counters>>
<1>1. UNCHANGED <<file, writer, tty, dmesg, run, counters, overlap>>
  BY DEF ReadingWithoutHome
<1>2. procs[p] \in ProcType /\ procs[p].stage = "reading" /\ procs[p].home = Empty
  BY DEF ReadingWithoutHome, Hears, Typed, TypeOK, ProcType
<1>3. procs[p].late = 0
  BY <1>2, ReceiversAssumption DEF LateInv, ProcType
<1> DEFINE h == getHomeID(procs[p].home)
           n == IF file \in Homes THEN procs[p].late + 1 ELSE procs[p].late
           x == [procs[p] EXCEPT !.home = h, !.late = n]
<1>4. procs' = [procs EXCEPT ![p] = x]
  BY DEF ReadingWithoutHome
<1>5. h \in Homes \cup {Empty} /\ (file \in Homes => h = file)
  BY <1>2, ReceiversAssumption DEF getHomeID, Typed, TypeOK
<1>6. n \in Nat /\ n <= 1 /\ (n = 1 => file \in Homes)
  BY <1>3
<1> HIDE DEF h, n
<1>7. /\ x \in ProcType /\ x.kind = procs[p].kind /\ x.stage = "reading"
      /\ x.late = n /\ x.home = h
  BY <1>2, <1>5, <1>6 DEF ProcType
<1> HIDE DEF x
<1>8. x.late <= 1 /\ (x.late = 1 => x.home \in Homes)
  BY <1>5, <1>6, <1>7
<1> QED  BY <1>1, <1>2, <1>4, <1>7, <1>8, OneProc DEF ProcStep

LEMMA UnplugStep ==
  ASSUME Typed, LateInv, NEW k \in Wired, Unplug(k), UNCHANGED script
  PROVE  /\ ProcStep /\ LateInv'
         /\ UNCHANGED <<file, writer, dmesg, writes, errors>> /\ unplugs' = unplugs + 1
         /\ tty' \in [Wired -> Ports \cup {None}]
<1>1. /\ UNCHANGED <<file, writer, dmesg, run, writes, errors, overlap>>
      /\ unplugs' = unplugs + 1 /\ tty' = [tty EXCEPT ![k] = None]
  BY DEF Unplug
<1>2. /\ DOMAIN procs' \subseteq DOMAIN procs
      /\ \A p \in DOMAIN procs' :
           \/ procs'[p] = procs[p]
           \/ procs'[p] = [procs[p] EXCEPT !.stage = "deaf"]
  BY DEF Unplug
<1>3. \A x \in ProcType :
        LET y == [x EXCEPT !.stage = "deaf"]
        IN  /\ y \in ProcType /\ y.kind = x.kind /\ y.late = x.late /\ y.home = x.home
            /\ y.stage = "deaf"
  BY DEF ProcType
<1>4. \A p \in DOMAIN procs : procs[p] \in ProcType
  BY DEF Typed, TypeOK, ProcType
<1>5. \A p \in DOMAIN procs' :
        /\ procs'[p] \in ProcType /\ procs'[p].kind = procs[p].kind
        /\ procs'[p].late = procs[p].late /\ procs'[p].home = procs[p].home
        /\ procs'[p].stage \in {"deaf", procs[p].stage}
  <2> SUFFICES ASSUME NEW p \in DOMAIN procs'
               PROVE  /\ procs'[p] \in ProcType /\ procs'[p].kind = procs[p].kind
                      /\ procs'[p].late = procs[p].late /\ procs'[p].home = procs[p].home
                      /\ procs'[p].stage \in {"deaf", procs[p].stage}
    OBVIOUS
  <2>1. procs[p] \in ProcType
    BY <1>2, <1>4
  <2> QED  BY <1>2, <1>3, <2>1
<1>6. LateInv'
  BY <1>2, <1>5 DEF LateInv
<1> QED  BY <1>1, <1>2, <1>5, <1>6 DEF ProcStep, Typed, TypeOK

-----------------------------------------------------------------------------
(* Invariance. *)

LEMMA InitIInv == Init => IInv
<1> SUFFICES ASSUME Init PROVE IInv
  OBVIOUS
<1>1. DOMAIN procs = {}
  BY DEF Init
<1>2. run \in [Runs -> RunType] /\ \A r \in Runs : run[r].pc = "idle"
  BY ProvidersAre DEF Init, Idle, RunType, PCs
<1>3. overlap \in BOOLEAN
  BY Zenon DEF Init
<1>4. tty \in [Wired -> Ports \cup {None}] /\ dmesg \in [Wired -> Ports \cup {None}]
  BY DEF Init
<1>5. TypeOK
  BY <1>1, <1>2, <1>3, <1>4 DEF Init, TypeOK, RunType, PCs
<1> QED  BY <1>1, <1>2, <1>5 DEF IInv, Typed, PortKnown, LateInv, AloneInv

\* A step of a receiver or its adapter disturbs nothing the launchers know.
LEMMA ProcStepKeeps ==
  ASSUME IInv, ProcStep,
         file' \in Homes \cup {Missing, Empty}, writer' \in Homes \cup {Empty},
         tty' \in [Wired -> Ports \cup {None}], dmesg' \in [Wired -> Ports \cup {None}],
         {writes', unplugs', errors'} \subseteq Nat
  PROVE  Typed' /\ AloneInv'
<1>1. /\ UNCHANGED <<run, overlap, script>>
      /\ DOMAIN procs' \subseteq DOMAIN procs
      /\ \A p \in DOMAIN procs' : procs'[p] \in ProcType /\ procs'[p].kind = procs[p].kind
  BY DEF ProcStep
<1>2. TypeOK'
  BY <1>1 DEF IInv, Typed, TypeOK, ProcType, Providers
<1>3. PortKnown'
  BY <1>1 DEF IInv, Typed, PortKnown
<1>4. AloneInv'
  <2>1. Providers' = Providers
    BY <1>1 DEF Providers
  <2>2. \A r \in Runs : Provider(r)' = Provider(r)
    BY <1>1, <2>1 DEF Provider
  <2>3. \A k : Of(k)' \subseteq Of(k)
    BY <1>1 DEF Of
  <2>4. \A k : Of(k) = {} => Of(k)' = {}
    BY <2>3
  <2> QED  BY <1>1, <2>2, <2>4 DEF IInv, AloneInv
<1> QED  BY <1>2, <1>3, <1>4 DEF Typed

\* A step of a launcher.
LEMMA RunStepKeeps ==
  ASSUME IInv, NEW r \in Runs, Cron(r) \/ Step(r), UNCHANGED script
  PROVE  IInv'
<1>0. Typed /\ LateInv /\ AloneInv /\ \A p \in DOMAIN procs : procs[p] \in ProcType
  BY DEF IInv, Typed, TypeOK, ProcType
<1>1. RunStep(r)
  BY <1>0, StepKinds
<1>2. /\ run' \in [Runs -> RunType]
      /\ \A s \in Runs : s # r => run'[s] = run[s]
      /\ UNCHANGED <<file, writer, tty, dmesg, script, counters>>
      /\ Providers' = Providers
  BY <1>1 DEF RunStep, Providers
<1>3. \A s \in Runs : s # r => Provider(s)' = Provider(s)
  BY <1>2 DEF Provider
<1>4. ASSUME UNCHANGED procs, run'[r].pc = "launch" => run'[r].input \in Ports,
             overlap' \in BOOLEAN
      PROVE  Typed' /\ LateInv'
  <2>1. TypeOK'
    BY <1>0, <1>2, <1>4 DEF Typed, TypeOK, RunType, PCs, counters
  <2>2. PortKnown'
    BY <1>0, <1>2, <1>4 DEF Typed, PortKnown
  <2>3. LateInv'
    BY <1>0, <1>4 DEF LateInv
  <2> QED  BY <2>1, <2>2, <2>3 DEF Typed
<1>5. overlap \in BOOLEAN
  BY <1>0 DEF Typed, TypeOK
<1>6. CASE /\ run[r].pc = "idle" /\ run'[r].pc \in {"service", "cat"}
           /\ overlap' = (overlap \/ \E s \in Runs : run[s].pc # "idle")
           /\ UNCHANGED procs
  <2>1. overlap' \in BOOLEAN
    BY <1>6, Zenon
  <2>2. AloneInv'
    <3> SUFFICES ASSUME ~overlap'
                 PROVE  AloneInv'
      BY DEF AloneInv
    <3>1. ~overlap /\ \A s \in Runs : run[s].pc = "idle"
      BY <1>6
    <3>2. \A s \in Runs : s # r => run'[s].pc = "idle"
      BY <1>2, <3>1
    <3>3. \A p, q \in DOMAIN procs : procs[p].kind = procs[q].kind => p = q
      BY <1>0, <3>1 DEF AloneInv
    <3> QED  BY <1>6, <3>2, <3>3 DEF AloneInv
  <2> QED  BY <1>4, <1>6, <2>1, <2>2 DEF IInv
<1>7. CASE /\ run[r].pc # "idle" /\ run'[r].pc # "launch"
           /\ UNCHANGED <<procs, overlap>>
  <2>1. AloneInv'
    <3> SUFFICES ASSUME ~overlap
                 PROVE  AloneInv'
      BY <1>7 DEF AloneInv
    <3>1. \A s \in Runs : s # r => run'[s].pc = "idle"
      BY <1>0, <1>2, <1>7 DEF AloneInv
    <3>2. \A p, q \in DOMAIN procs : procs[p].kind = procs[q].kind => p = q
      BY <1>0 DEF AloneInv
    <3> QED  BY <1>7, <3>1, <3>2 DEF AloneInv
  <2> QED  BY <1>4, <1>5, <1>7, <2>1 DEF IInv
<1>8. CASE /\ run[r].pc = "find" /\ run'[r].pc = "launch"
           /\ run'[r].input \in Ports /\ run'[r].next = run[r].next
           /\ Of(Provider(r)) = {}
           /\ UNCHANGED <<procs, overlap>>
  <2>1. AloneInv'
    <3> SUFFICES ASSUME ~overlap
                 PROVE  AloneInv'
      BY <1>8 DEF AloneInv
    <3>1. \A s \in Runs : s # r => run'[s].pc = "idle"
      BY <1>0, <1>2, <1>8 DEF AloneInv
    <3>2. \A p, q \in DOMAIN procs : procs[p].kind = procs[q].kind => p = q
      BY <1>0 DEF AloneInv
    <3>3. Provider(r)' = Provider(r)
      BY <1>2, <1>8 DEF Provider
    <3>4. (Of(Provider(r)))' = {}
      BY <1>8, <3>3 DEF Of
    <3> QED  BY <1>8, <3>1, <3>2, <3>4 DEF AloneInv
  <2> QED  BY <1>4, <1>5, <1>8, <2>1 DEF IInv
<1>9. CASE /\ run[r].pc = "launch" /\ run'[r].pc \in {"idle", "find"}
           /\ UNCHANGED overlap
           /\ \E p \in Procs \ DOMAIN procs, x \in ProcType :
                /\ x.kind = Provider(r) /\ x.stage = "opening" /\ x.late = 0
                /\ procs' = [q \in DOMAIN procs \cup {p} |-> IF q = p THEN x ELSE procs[q]]
  <2>1. PICK p \in Procs \ DOMAIN procs, x \in ProcType :
          /\ x.kind = Provider(r) /\ x.stage = "opening" /\ x.late = 0
          /\ procs' = [q \in DOMAIN procs \cup {p} |-> IF q = p THEN x ELSE procs[q]]
    BY <1>9
  <2>2. /\ DOMAIN procs' = DOMAIN procs \cup {p}
        /\ procs'[p] = x
        /\ \A q \in DOMAIN procs : procs'[q] = procs[q]
    BY <2>1
  <2>3. TypeOK'
    <3>1. DOMAIN procs' \subseteq Procs /\ \A q \in DOMAIN procs' : procs'[q] \in ProcType
      BY <1>0, <2>1, <2>2 DEF Typed, TypeOK
    <3> QED  BY <1>0, <1>2, <1>5, <1>9, <3>1 DEF Typed, TypeOK, RunType, ProcType, PCs, counters
  <2>4. PortKnown'
    BY <1>0, <1>2, <1>9 DEF Typed, PortKnown
  <2>5. LateInv'
    <3>1. x.late <= 1 /\ x.late # 1
      BY <2>1
    <3> QED  BY <1>0, <2>1, <2>2, <3>1 DEF LateInv
  <2>6. AloneInv'
    <3> SUFFICES ASSUME ~overlap
                 PROVE  AloneInv'
      BY <1>9 DEF AloneInv
    <3>1. \A s \in Runs : s # r => run'[s].pc = "idle"
      BY <1>0, <1>2, <1>9 DEF AloneInv
    <3>2. \A q \in DOMAIN procs : procs[q].kind # Provider(r)
      BY <1>0, <1>9 DEF AloneInv, Of
    <3>3. \A q, t \in DOMAIN procs' : procs'[q].kind = procs'[t].kind => q = t
      BY <1>0, <2>1, <2>2, <3>2 DEF AloneInv
    <3> QED  BY <1>9, <3>1, <3>3 DEF AloneInv
  <2> QED  BY <2>3, <2>4, <2>5, <2>6 DEF IInv, Typed
<1> QED  BY <1>0, <1>6, <1>7, <1>8, <1>9, StepKinds

\* The home_id file and the adapters.
LEMMA WorldKeeps ==
  ASSUME IInv, UNCHANGED <<run, procs, overlap, script>>,
         file' \in Homes \cup {Missing, Empty}, writer' \in Homes \cup {Empty},
         tty' \in [Wired -> Ports \cup {None}], dmesg' \in [Wired -> Ports \cup {None}],
         {writes', unplugs', errors'} \subseteq Nat
  PROVE  IInv'
<1>1. ProcStep
  BY DEF ProcStep, IInv, Typed, TypeOK, ProcType
<1>2. Typed' /\ AloneInv'
  BY <1>1, ProcStepKeeps
<1>3. LateInv'
  BY DEF IInv, LateInv
<1> QED  BY <1>2, <1>3 DEF IInv

LEMMA NextIInv == IInv /\ [Next]_vars => IInv'
<1> SUFFICES ASSUME IInv, [Next]_vars PROVE IInv'
  OBVIOUS
<1>0. /\ Typed /\ LateInv
      /\ file \in Homes \cup {Missing, Empty} /\ writer \in Homes \cup {Empty}
      /\ tty \in [Wired -> Ports \cup {None}] /\ dmesg \in [Wired -> Ports \cup {None}]
      /\ writes \in Nat /\ unplugs \in Nat /\ errors \in Nat
  BY DEF IInv, Typed, TypeOK
<1> USE DEF counters
<1>1. ASSUME NEW h \in Homes, WriteHome(h), UNCHANGED script PROVE IInv'
  BY <1>0, <1>1, WorldKeeps DEF WriteHome
<1>2. ASSUME HomeWritten, UNCHANGED script PROVE IInv'
  BY <1>0, <1>2, WorldKeeps DEF HomeWritten
<1>3. ASSUME NEW r \in Runs, Cron(r) \/ Step(r), UNCHANGED script PROVE IInv'
  BY <1>3, RunStepKeeps
<1>4. ASSUME NEW p \in DOMAIN procs, Begin(p), UNCHANGED script PROVE IInv'
  <2>1. ProcStep /\ LateInv' /\ UNCHANGED <<file, writer, tty, dmesg, counters>>
    BY <1>0, <1>4, BeginStep
  <2>2. Typed' /\ AloneInv'
    BY <1>0, <2>1, ProcStepKeeps
  <2> QED  BY <2>1, <2>2 DEF IInv
<1>5. ASSUME NEW p \in DOMAIN procs, ReadingWithoutHome(p), UNCHANGED script PROVE IInv'
  <2>1. ProcStep /\ LateInv' /\ UNCHANGED <<file, writer, tty, dmesg, counters>>
    BY <1>0, <1>5, ReadingStep
  <2>2. Typed' /\ AloneInv'
    BY <1>0, <2>1, ProcStepKeeps
  <2> QED  BY <2>1, <2>2 DEF IInv
<1>6. ASSUME NEW p \in DOMAIN procs, ReceiverError(p), UNCHANGED script PROVE IInv'
  <2>1. /\ End({p}) /\ errors' = errors + 1
        /\ UNCHANGED <<file, writer, tty, dmesg, run, writes, unplugs, overlap>>
    BY <1>6 DEF ReceiverError
  <2>2. ProcStep /\ LateInv'
    BY <1>0, <1>6, <2>1, EndStep DEF ProcStep
  <2>3. Typed' /\ AloneInv'
    BY <1>0, <2>1, <2>2, ProcStepKeeps
  <2> QED  BY <2>2, <2>3 DEF IInv
<1>7. ASSUME NEW k \in Wired, Unplug(k), UNCHANGED script PROVE IInv'
  <2>1. /\ ProcStep /\ LateInv'
        /\ UNCHANGED <<file, writer, dmesg, writes, errors>> /\ unplugs' = unplugs + 1
        /\ tty' \in [Wired -> Ports \cup {None}]
    BY <1>0, <1>7, UnplugStep
  <2>2. Typed' /\ AloneInv'
    BY <1>0, <2>1, ProcStepKeeps
  <2> QED  BY <2>1, <2>2 DEF IInv
<1>8. ASSUME NEW k \in Wired, Plug(k), UNCHANGED script PROVE IInv'
  <2> DEFINE taken == {tty[j] : j \in Wired}
               \cup {procs[p].input : p \in {q \in DOMAIN procs : procs[q].stage = "deaf"}}
             number == Min(Ports \ taken)
  <2>1. /\ Ports \ taken # {}
        /\ tty' = [tty EXCEPT ![k] = number] /\ dmesg' = [dmesg EXCEPT ![k] = number]
        /\ UNCHANGED <<file, writer, run, procs, counters, overlap>>
    BY <1>8 DEF Plug
  <2>2. number \in Ports
    <3>1. Ports \ taken \subseteq Nat
      BY DEF Ports
    <3> QED  BY <2>1, <3>1, MinIsLeast
  <2> HIDE DEF number, taken
  <2>3. tty' \in [Wired -> Ports \cup {None}] /\ dmesg' \in [Wired -> Ports \cup {None}]
    BY <1>0, <2>1, <2>2
  <2> QED  BY <1>0, <1>8, <2>1, <2>3, WorldKeeps
<1>9. CASE UNCHANGED vars
  BY <1>0, <1>9, WorldKeeps DEF vars
<1> QED
  BY <1>1, <1>2, <1>3, <1>4, <1>5, <1>6, <1>7, <1>8, <1>9 DEF Next

LEMMA AlwaysIInv == Spec => []IInv
BY InitIInv, NextIInv, PTL DEF Spec

-----------------------------------------------------------------------------

\* Every variable of the launchers and the receivers keeps its kind.
THEOREM TypeCorrect == Spec => []TypeOK
<1>1. IInv => TypeOK
  BY DEF IInv, Typed
<1> QED  BY AlwaysIInv, <1>1, PTL

\* Unless runs of a launcher overlap there is at most one receiver of a kind:
\* between pgrep and the launch nobody else starts one.
THEOREM OneReceiver == Spec => []SingleReceiver
<1>1. IInv => SingleReceiver
  <2> SUFFICES ASSUME IInv, ~overlap, NEW k \in Kinds PROVE Cardinality(Of(k)) <= 1
    BY DEF SingleReceiver
  <2>1. \A p, q \in Of(k) : p = q
    BY DEF IInv, AloneInv, Of
  <2>2. CASE Of(k) = {}
    BY <2>2, FS_EmptySet
  <2>3. CASE Of(k) # {}
    <3>1. PICK p \in Of(k) : TRUE
      BY <2>3
    <3>2. Of(k) = {p}
      BY <2>1, <3>1
    <3>3. Cardinality(Of(k)) = 1
      BY <3>2, FS_Singleton
    <3> QED  BY <3>3
  <2> QED  BY <2>2, <2>3
<1> QED  BY AlwaysIInv, <1>1, PTL

\* However the writing of the home_id file and the readings of a receiver
\* interleave, a receiver mislabels or drops at most one reading that arrives
\* while the file holds a home.
THEOREM AtMostOneLateReading == Spec => []OneLateReading
<1>1. IInv => OneLateReading
  BY DEF IInv, LateInv, OneLateReading
<1> QED  BY AlwaysIInv, <1>1, PTL
=============================================================================
