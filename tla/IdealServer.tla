----------------------------- MODULE IdealServer -----------------------------
(***************************************************************************)
(* ideal_server.js: the node.js process that takes sensor packets from the *)
(* serial port, buffers them, sends each buffer to the IDEAL server or to  *)
(* an MQTT broker, and keeps part of them on disk.                         *)
(*                                                                         *)
(* One event-loop turn is one action: the serial handler (OnData, OnJunk,  *)
(* OnNull), the interval timer (TimerTick), and the callbacks of the work  *)
(* the turn left behind in libuv: compression (DeflateDone), the POST or   *)
(* publish (SendDone), the save file (WriteDone) and child processes       *)
(* (ExecDone).  An uncaught exception arms a kill timer; until it fires    *)
(* every handler keeps running.                                            *)
(***************************************************************************)
EXTENDS Aggregate

CONSTANTS
  config,          \* the environment chosen from env.json, see Config
  SaveBufferSize,  \* save calls between two writes of the save file (50)
  Packets,         \* packets the radio HAT may deliver
  Unknown,         \* the initial homeID, "unknown"
  HostName,        \* the \h still to be replaced in ~/.bashrc
  Failing,         \* bound: the commands whose child process may fail
  MaxLines,        \* bound: lines delivered by the serial port
  MaxExceptions,   \* bound: uncaught exceptions
  MaxIdleTicks     \* bound: timer ticks that find an empty buffer

Config == [JSONbuffertime : BOOLEAN, JSONbuffersize : Nat, compress : BOOLEAN,
           mqtt : BOOLEAN, savetodisk : BOOLEAN, AggregatePower : BOOLEAN]

ASSUME ServerAssumption ==
  /\ config \in Config
  /\ SaveBufferSize \in Nat \ {0}
  /\ Packets \subseteq Packet
  /\ Unknown \notin Homes
  /\ HostName \notin Homes
  /\ Failing \subseteq {"prompt", "home_id"}
  /\ MaxLines \in Nat /\ MaxExceptions \in Nat /\ MaxIdleTicks \in Nat

VARIABLES
  status,          \* "running", "dying" (kill timer armed) or "down"
  homeID,
  JSONbuffer,
  JSONcount,
  timer,           \* firstReadingReceived = 1: the interval timer is set
  previousGas,     \* previousGasCumulativeByNodeId
  clamps,          \* ID_30A and ID_100A
  SaveJSONBuffer,
  SaveBufferCount,
  shell,           \* child processes of executeShellCommand, running
  homefile,        \* contents of ~/home_id
  echoFailed,      \* history: an echo to ~/home_id failed since one was last
                   \* started or succeeded
  prompt,          \* the host part of the prompt in ~/.bashrc
  batches,         \* every buffer sendBuffer gave away, in order, and its fate
  sent,            \* history: the batches whose POST or publish was started, in
                   \* the order of these calls
  writes,          \* every write of the save file, in order, and its fate
  lines, accepted, exceptions, idle,  \* counters; accepted numbers readings
  lost,            \* history: readings that were buffered at an exit
  calm             \* history: readings handed to saveJSONbuffered while no
                   \* write was in progress, since the process started

loopVars == <<homeID, JSONbuffer, JSONcount, timer, previousGas, clamps>>
saveVars == <<SaveJSONBuffer, SaveBufferCount, writes, calm>>
sendVars == <<batches, sent>>
fileVars == <<shell, homefile, prompt, echoFailed>>
histVars == <<lines, accepted, exceptions, idle, lost>>
vars == <<status, loopVars, saveVars, fileVars, sendVars, histVars>>

Stage == {"deflating", "sending", "delivered", "failed"}
Batch == [readings : Seq(Reading), stage : Stage, homeid : Homes \cup {Unknown}]
Outcome == {"writing", "saved", "failed"}
Write == [items : Seq(SUBSET Reading), outcome : Outcome]
Command == [cmd : {"prompt", "home_id"}, home : Homes, by : Nat]

Ids(readings) == {readings[i].id : i \in DOMAIN readings}
ItemIds(items) == UNION {{r.id : r \in items[i]} : i \in DOMAIN items}
Alive == status \in {"running", "dying"}
Writing == {k \in DOMAIN writes : writes[k].outcome = "writing"}

Init ==
  /\ status = "running"
  /\ homeID = Unknown
  /\ JSONbuffer = <<>>
  /\ JSONcount = 0
  /\ timer = FALSE
  /\ previousGas = [n \in {p.node_id : p \in Packets} |-> Undefined]
  /\ clamps = DefaultMap
  /\ SaveJSONBuffer = <<>>
  /\ SaveBufferCount = 0
  /\ shell = {}
  /\ homefile = NoHome
  /\ prompt = HostName
  /\ echoFailed = FALSE
  /\ batches = <<>>
  /\ sent = <<>>
  /\ writes = <<>>
  /\ lines = 0 /\ accepted = 0 /\ exceptions = 0 /\ idle = 0
  /\ lost = {}
  /\ calm = {}

-----------------------------------------------------------------------------
(* Sending and saving a buffer. *)

\* Mutant: the data is pushed after the write was started.
SaveJSONbufferedLate(data) ==
  LET full == SaveBufferCount + 1 >= SaveBufferSize
  IN  /\ SaveJSONBuffer' = Append(SaveJSONBuffer, data)
      /\ SaveBufferCount' = IF full THEN 0 ELSE SaveBufferCount + 1
      /\ writes' = IF full
                   THEN Append(writes, [items |-> SaveJSONBuffer, outcome |-> "writing"])
                   ELSE writes
      /\ calm' = IF Writing = {} THEN calm \cup {r.id : r \in data} ELSE calm

\* saveJSONbuffered(data): the count is reset at once, the buffer only when the
\* write completes.
SaveJSONbuffered(data) ==
  LET items == Append(SaveJSONBuffer, data)
      full == SaveBufferCount + 1 >= SaveBufferSize
  IN  /\ SaveJSONBuffer' = items
      /\ SaveBufferCount' = IF full THEN 0 ELSE SaveBufferCount + 1
      /\ writes' = IF full
                   THEN Append(writes, [items |-> items, outcome |-> "writing"])
                   ELSE writes
      /\ calm' = IF Writing = {} THEN calm \cup {r.id : r \in data} ELSE calm

\* What sendBuffer keeps for the save file (non_light_data), as a set: the
\* readings carry their order in their ids.
Savable(readings) ==
  {readings[i] : i \in {j \in DOMAIN readings :
     ~IsElectric(readings[j]) /\ ~HasLight(readings[j])}}

\* aggregateIfRequired, for its effect on the clamp map.  aggregate() returns
\* early on an empty buffer; CheckMappings leaves the map alone there.
AggregateIfRequired(readings) ==
  clamps' = IF config.AggregatePower THEN CheckMappings(readings, clamps) ELSE clamps

\* Mutants: only one of the two resets at the end of sendBuffer.
ResetCountOnly == JSONcount' = 0 /\ UNCHANGED JSONbuffer
ResetBufferOnly == JSONbuffer' = <<>> /\ UNCHANGED JSONcount

\* JSONbuffer is replaced, not emptied: whoever holds the old array keeps it.
ResetBuffer == JSONbuffer' = <<>> /\ JSONcount' = 0

\* sendBuffer(), called while JSONbuffer holds readings.  With compression the
\* POST or publish is left to the callback of zlib.
SendBuffer(readings) ==
  /\ ResetBuffer
  /\ batches' = Append(batches,
       [readings |-> readings,
        stage |-> IF config.compress THEN "deflating" ELSE "sending",
        homeid |-> homeID'])
  /\ sent' = IF config.compress THEN sent ELSE Append(sent, Len(batches) + 1)
  /\ IF ~config.compress /\ config.mqtt
     THEN AggregateIfRequired(readings)
     ELSE UNCHANGED clamps
  /\ IF ~config.compress /\ config.savetodisk /\ Savable(readings) # {}
     THEN SaveJSONbuffered(Savable(readings))
     ELSE UNCHANGED saveVars

-----------------------------------------------------------------------------
(* The serial handler. *)

\* Without buffering the reading is posted by itself.
PostReading(r) ==
  /\ batches' = Append(batches,
       [readings |-> <<r>>, stage |-> "sending", homeid |-> homeID'])
  /\ sent' = Append(sent, Len(batches) + 1)
  /\ UNCHANGED <<JSONbuffer, JSONcount, timer, clamps, saveVars>>

SendJSONbuffered(r) ==
  /\ IF JSONcount + 1 >= config.JSONbuffersize
     THEN SendBuffer(Append(JSONbuffer, r))
     ELSE /\ JSONbuffer' = Append(JSONbuffer, r)
          /\ JSONcount' = JSONcount + 1
          /\ UNCHANGED <<sendVars, clamps, saveVars>>
  /\ UNCHANGED timer

HomeCommands(r) == [cmd : {"prompt", "home_id"}, home : {r.home_id}, by : {r.id}]

\* Mutants: the home is kept once known, or the files are written only when a
\* known home changes.
LearnFirstHome(r) ==
  /\ homeID' = IF homeID = Unknown THEN r.home_id ELSE homeID
  /\ shell' = IF homeID = Unknown
              THEN shell \cup HomeCommands(r) ELSE shell
  /\ echoFailed' = IF homeID = Unknown THEN FALSE ELSE echoFailed
LearnChangedHome(r) ==
  /\ homeID' = r.home_id
  /\ shell' = IF homeID # Unknown /\ homeID # r.home_id
              THEN shell \cup HomeCommands(r) ELSE shell
  /\ echoFailed' = IF homeID # Unknown /\ homeID # r.home_id THEN FALSE ELSE echoFailed

\* The first reading since the start has the prompt and the home_id file written;
\* the home counts as known at once, whatever becomes of the two commands.
LearnHome(r) ==
  /\ homeID' = r.home_id
  /\ shell' = IF homeID = Unknown
              THEN shell \cup HomeCommands(r) ELSE shell
  /\ echoFailed' = IF homeID = Unknown THEN FALSE ELSE echoFailed

SendJSON(r) ==
  /\ accepted' = accepted + 1
  /\ LearnHome(r)
  /\ IF config.JSONbuffertime
     THEN /\ JSONbuffer' = Append(JSONbuffer, r)
          /\ timer' = TRUE
          /\ UNCHANGED <<JSONcount, sendVars, clamps, saveVars>>
     ELSE IF config.JSONbuffersize # 0
     THEN SendJSONbuffered(r)
     ELSE PostReading(r)

\* Mutant: sendJSON does not look at the home.
AcceptsAnyHome(p) == p.packet_type \in Forwarded

\* The packets that become readings: sendJSON refuses one without a home.
Accepts(p) == p.packet_type \in Forwarded /\ p.home_id # NoHome

\* A well-formed packet.  The gas counter is remembered even when sendJSON
\* then refuses the reading for want of a home.
OnData(p) ==
  /\ Alive /\ lines < MaxLines
  /\ lines' = lines + 1
  /\ previousGas' = IF p.packet_type = GAS
                    THEN [previousGas EXCEPT ![p.node_id] = p.val1]
                    ELSE previousGas
  /\ IF Accepts(p)
     THEN SendJSON(MakeReading(p, previousGas[p.node_id], accepted + 1))
     ELSE UNCHANGED <<homeID, JSONbuffer, JSONcount, timer, clamps, saveVars,
                      shell, echoFailed, sendVars, accepted>>
  /\ UNCHANGED <<status, homefile, prompt, exceptions, idle, lost>>

\* A line JSON.parse rejects is skipped, and leaves no trace.
OnJunk ==
  /\ Alive
  /\ UNCHANGED vars

\* The line "null" parses, and reading its node_id throws outside the try.
OnNull ==
  /\ Alive /\ lines < MaxLines /\ exceptions < MaxExceptions
  /\ lines' = lines + 1
  /\ exceptions' = exceptions + 1
  /\ status' = "dying"
  /\ UNCHANGED <<loopVars, saveVars, fileVars, sendVars, accepted, idle, lost>>

-----------------------------------------------------------------------------
(* The interval timer and the callbacks. *)

\* Mutant: the timer waits for a second reading.
TimerTickLater ==
  /\ Alive /\ timer /\ Len(JSONbuffer) >= 2
  /\ UNCHANGED <<homeID, idle>>
  /\ SendBuffer(JSONbuffer)
  /\ UNCHANGED <<status, timer, previousGas, fileVars, lines, accepted,
                 exceptions, lost>>

TimerTick ==
  /\ Alive /\ timer
  /\ JSONbuffer = <<>> => idle < MaxIdleTicks
  /\ idle' = IF JSONbuffer = <<>> THEN idle + 1 ELSE idle
  /\ UNCHANGED homeID
  /\ SendBuffer(JSONbuffer)
  /\ UNCHANGED <<status, timer, previousGas, fileVars, lines, accepted,
                 exceptions, lost>>

\* Mutant: the callback sends what JSONbuffer holds by then.
DeflateDoneReadsLate(k) ==
  /\ Alive /\ batches[k].stage = "deflating"
  /\ batches' = [batches EXCEPT ![k].stage = "sending", ![k].readings = JSONbuffer]
  /\ sent' = Append(sent, k)
  /\ UNCHANGED <<status, loopVars, saveVars, fileVars, histVars>>

\* The zlib callback: compressions run in parallel and may finish in any order.
DeflateDone(k) ==
  /\ Alive /\ batches[k].stage = "deflating"
  /\ \/ /\ batches' = [batches EXCEPT ![k].stage = "sending", ![k].homeid = homeID]
        /\ sent' = Append(sent, k)
        /\ IF config.mqtt THEN AggregateIfRequired(batches[k].readings)
                          ELSE UNCHANGED clamps
     \/ /\ batches' = [batches EXCEPT ![k].stage = "failed"]
        /\ UNCHANGED <<clamps, sent>>
  /\ UNCHANGED <<status, homeID, JSONbuffer, JSONcount, timer, previousGas,
                 saveVars, fileVars, histVars>>

\* Mutant: the callback sends a failed batch again.
SendDoneRetry(k, stage) ==
  /\ Alive /\ batches[k].stage = "sending"
  /\ LET settled == [batches EXCEPT ![k].stage = stage]
     IN  batches' = IF stage = "failed" THEN Append(settled, batches[k]) ELSE settled
  /\ sent' = IF stage = "failed" THEN Append(sent, Len(batches) + 1) ELSE sent
  /\ UNCHANGED <<status, loopVars, saveVars, fileVars, histVars>>

\* The POST is answered or fails; a publish reaches the broker or is dropped.
\* The callback only logs: nothing is sent again.
SendDone(k, stage) ==
  /\ Alive /\ batches[k].stage = "sending"
  /\ batches' = [batches EXCEPT ![k].stage = stage]
  /\ UNCHANGED <<status, loopVars, saveVars, fileVars, sent, histVars>>

\* Mutant: the count is left as it is.
WriteDoneKeepsCount(k, outcome) ==
  /\ Alive /\ writes[k].outcome = "writing"
  /\ writes' = [writes EXCEPT ![k].outcome = outcome]
  /\ SaveJSONBuffer' = <<>>
  /\ UNCHANGED <<status, loopVars, SaveBufferCount, calm, fileVars, sendVars, histVars>>

\* The promise of writeFile: .then and .catch both drop the whole save buffer.
WriteDone(k, outcome) ==
  /\ Alive /\ writes[k].outcome = "writing"
  /\ writes' = [writes EXCEPT ![k].outcome = outcome]
  /\ SaveBufferCount' = 0
  /\ SaveJSONBuffer' = <<>>
  /\ UNCHANGED <<status, loopVars, calm, fileVars, sendVars, histVars>>

\* A child process outlives the server.  sed finds a host name to replace only
\* the first time; echo replaces the file.  Either may fail, echo before or after
\* the shell has emptied the file; the callback only logs the error.
ExecDone(c) ==
  /\ shell' = shell \ {c}
  /\ \/ /\ homefile' = IF c.cmd = "home_id" THEN c.home ELSE homefile
        /\ prompt' = IF c.cmd = "prompt" /\ prompt = HostName THEN c.home ELSE prompt
        /\ echoFailed' = (echoFailed /\ c.cmd # "home_id")
     \/ /\ c.cmd \in Failing
        /\ homefile' \in IF c.cmd = "home_id" THEN {homefile, NoHome} ELSE {homefile}
        /\ echoFailed' = (echoFailed \/ c.cmd = "home_id")
        /\ UNCHANGED prompt
  /\ UNCHANGED <<status, loopVars, saveVars, sendVars, histVars>>

-----------------------------------------------------------------------------
(* Failure and restart. *)

\* An 'error' event of the serial port or of the MQTT client, for which the
\* program installs no handler.
UncaughtException ==
  /\ Alive /\ exceptions < MaxExceptions
  /\ exceptions' = exceptions + 1
  /\ status' = "dying"
  /\ UNCHANGED <<loopVars, saveVars, fileVars, sendVars, lines, accepted, idle, lost>>

\* process.exit(1): memory is gone; what was on its way to the server or to
\* the file arrives or does not.
KillTimer ==
  /\ status = "dying"
  /\ status' = "down"
  /\ \E arrived \in SUBSET {k \in DOMAIN batches : batches[k].stage = "sending"} :
       batches' = [k \in DOMAIN batches |->
         IF k \in arrived THEN [batches[k] EXCEPT !.stage = "delivered"]
         ELSE IF batches[k].stage \in {"deflating", "sending"}
         THEN [batches[k] EXCEPT !.stage = "failed"] ELSE batches[k]]
  /\ \E arrived \in SUBSET Writing :
       writes' = [k \in DOMAIN writes |->
         IF k \in arrived THEN [writes[k] EXCEPT !.outcome = "saved"]
         ELSE IF k \in Writing THEN [writes[k] EXCEPT !.outcome = "failed"]
         ELSE writes[k]]
  /\ lost' = lost \cup Ids(JSONbuffer)
  /\ homeID' = Unknown
  /\ JSONbuffer' = <<>> /\ JSONcount' = 0 /\ timer' = FALSE
  /\ previousGas' = [n \in DOMAIN previousGas |-> Undefined]
  /\ clamps' = DefaultMap
  /\ SaveJSONBuffer' = <<>> /\ SaveBufferCount' = 0
  /\ calm' = {}
  /\ UNCHANGED <<fileVars, sent, lines, accepted, exceptions, idle>>

\* The service manager starts the process again.
Start ==
  /\ status = "down"
  /\ status' = "running"
  /\ UNCHANGED <<loopVars, saveVars, fileVars, sendVars, histVars>>

Next ==
  \/ \E p \in Packets : OnData(p)
  \/ OnJunk
  \/ OnNull
  \/ TimerTick
  \/ \E k \in DOMAIN batches : DeflateDone(k)
  \/ \E k \in DOMAIN batches : \E s \in {"delivered", "failed"} : SendDone(k, s)
  \/ \E k \in DOMAIN writes : \E o \in {"saved", "failed"} : WriteDone(k, o)
  \/ \E c \in shell : ExecDone(c)
  \/ UncaughtException
  \/ KillTimer
  \/ Start

Spec == Init /\ [][Next]_vars

\* libuv runs every callback it owes, an interval timer goes on firing, the
\* kill timer fires, child processes end, the service manager restarts.
Fairness ==
  /\ WF_vars(TimerTick)
  /\ WF_vars(\E k \in DOMAIN batches : DeflateDone(k))
  /\ WF_vars(\E k \in DOMAIN batches : \E s \in {"delivered", "failed"} : SendDone(k, s))
  /\ WF_vars(\E k \in DOMAIN writes : \E o \in {"saved", "failed"} : WriteDone(k, o))
  /\ WF_vars(\E c \in shell : ExecDone(c))
  /\ WF_vars(KillTimer)
  /\ WF_vars(Start)

FairSpec == Spec /\ Fairness

-----------------------------------------------------------------------------
(* Properties. *)

Counted == ~config.JSONbuffertime /\ config.JSONbuffersize # 0

\* Every variable holds a value of the kind the program's variable holds.
TypeOK ==
  /\ status \in {"running", "dying", "down"}
  /\ homeID \in Homes \cup {Unknown}
  /\ JSONbuffer \in Seq(Reading)
  /\ JSONcount \in Nat
  /\ timer \in BOOLEAN
  /\ previousGas \in [{p.node_id : p \in Packets} -> Int \cup {Undefined}]
  /\ clamps \in ClampMap
  /\ SaveJSONBuffer \in Seq(SUBSET Reading)
  /\ SaveBufferCount \in Nat
  /\ shell \subseteq Command
  /\ homefile \in Homes \cup {NoHome}
  /\ prompt \in Homes \cup {HostName}
  /\ echoFailed \in BOOLEAN
  /\ batches \in Seq(Batch)
  /\ sent \in Seq(Nat)
  /\ writes \in Seq(Write)
  /\ lines \in Nat /\ accepted \in Nat /\ exceptions \in Nat /\ idle \in Nat
  /\ lost \subseteq Nat
  /\ calm \subseteq Nat

\* sendJSON loses nothing on the way out: a reading it accepted is still in
\* JSONbuffer, or in a batch that sendBuffer gave to the compressor or the
\* network, or was in memory when the process exited.  No run checks it, since
\* ImplementsRelay says more.
EveryReadingAccountedFor ==
  \A n \in 1..accepted :
    \/ n \in Ids(JSONbuffer)
    \/ \E k \in DOMAIN batches : n \in Ids(batches[k].readings)
    \/ n \in lost

\* The server keeps the promise of an at-most-once relay: no accepted reading
\* is sent twice, and none disappears but by a failed send or an exit.
InStage(stages) ==
  UNION {Ids(batches[k].readings) : k \in {b \in DOMAIN batches : batches[b].stage \in stages}}
R == INSTANCE Relay WITH
  count <- accepted,
  buffered <- Ids(JSONbuffer),
  inflight <- InStage({"deflating", "sending"}),
  delivered <- InStage({"delivered"}),
  dropped <- InStage({"failed"}) \cup lost
ImplementsRelay == R!Spec

\* Replacing JSONbuffer in sendBuffer, while the compression of the old array is
\* still to come, sends nothing twice: whatever order the callbacks of zlib run
\* in, a reading is handed to the network at most once, and neither while it
\* still waits in JSONbuffer nor after it was lost at an exit.
Sent(a) == batches[sent[a]].readings
SentOnce ==
  /\ \A a, b \in DOMAIN sent : \A i \in DOMAIN Sent(a) : \A j \in DOMAIN Sent(b) :
       Sent(a)[i].id = Sent(b)[j].id => a = b /\ i = j
  /\ \A a \in DOMAIN sent : Ids(Sent(a)) \cap (Ids(JSONbuffer) \cup lost) = {}

\* Readings are handed to the network in the order in which they were accepted,
\* across batches, ticks and restarts, and those that wait come after all of them.
\* With compression this is true only within a batch: the POST follows the
\* callback of zlib, and batches may overtake each other.
SentInOrder ==
  /\ \A a, b \in DOMAIN sent : \A i \in DOMAIN Sent(a) : \A j \in DOMAIN Sent(b) :
       (a < b /\ ~config.compress) \/ (a = b /\ i < j) => Sent(a)[i].id < Sent(b)[j].id
  /\ \A a \in DOMAIN sent : \A i \in DOMAIN Sent(a) : \A j \in DOMAIN JSONbuffer :
       Sent(a)[i].id < JSONbuffer[j].id

\* With a buffer size and no buffer time, JSONcount counts JSONbuffer across
\* sends, exits and restarts, so that every batch holds exactly
\* JSONbuffersize readings.
FullBatches ==
  Counted =>
    /\ JSONcount = Len(JSONbuffer)
    /\ JSONcount < config.JSONbuffersize
    /\ \A k \in DOMAIN batches : Len(batches[k].readings) = config.JSONbuffersize

\* saveJSONbuffered resets its count and its buffer at different times; once no
\* write is in progress they agree again, whatever came in between.
SaveCountExact ==
  /\ SaveBufferCount <= Len(SaveJSONBuffer)
  /\ SaveBufferCount < SaveBufferSize
  /\ Writing = {} => SaveBufferCount = Len(SaveJSONBuffer)

\* The save buffer loses only what its comment admits: readings handed to
\* saveJSONbuffered while no write was in progress are still buffered or are
\* part of some write.
SavedUnlessOverlapping ==
  calm \subseteq ItemIds(SaveJSONBuffer)
               \cup UNION {ItemIds(writes[k].items) : k \in DOMAIN writes}

\* aggregate() labels the power figure with the server's homeID: published at
\* once, that is the home of the last reading it was made from.
LabelledByLastReading ==
  config.mqtt /\ ~config.compress =>
    \A k \in DOMAIN batches : batches[k].readings # <<>> =>
      batches[k].homeid = batches[k].readings[Len(batches[k].readings)].home_id

\* At most one write of the save file at a time.
OneWriteAtATime == Cardinality(Writing) <= 1

\* With a buffer time, or with no buffer, every accepted reading is eventually
\* delivered, refused by the network, or lost at an exit: none waits for ever.
Settled(n) ==
  \/ n \in lost
  \/ \E k \in DOMAIN batches :
       batches[k].stage \in {"delivered", "failed"} /\ n \in Ids(batches[k].readings)
EventuallySettled ==
  ~Counted => \A n \in 1..MaxLines : (accepted >= n) ~> Settled(n)

\* In every life of the server that knows its home the home_id file, which the
\* other receivers wait for, gets written, even if the server exits in between,
\* unless an echo fails: homeID is set all the same, so that only the next life
\* tries again.
HomeFileWritten == (homeID # Unknown) ~> (homefile # NoHome \/ echoFailed)
=============================================================================
