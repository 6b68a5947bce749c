----------------------------- MODULE ZWaveDriver -----------------------------
(***************************************************************************)
(* The OpenZWave driver behind idealoz: its send queues, the one message   *)
(* it waits for, and the staged queries by which it learns what a node is. *)
(*                                                                         *)
(* AdvanceQueries queues the question of a node's stage and, behind it, a  *)
(* QueryStageComplete item; when that item comes up the stage is over and  *)
(* the next one is asked.  Messages for a sleeping node wait in the node   *)
(* until it wakes up.  Frames of the controller come late, in any order,   *)
(* or not at all.                                                          *)
(*                                                                         *)
(* The handlers call one another, so each is an operator from one state of *)
(* the driver to the next; an action applies the handler of one turn of    *)
(* DriverThreadProc.                                                       *)
(*                                                                         *)
(* A stage asks one question here, where the code may ask several through  *)
(* the same queue.  Every message expects an answer, so the wait for its   *)
(* ACK only shortens the timeout and is left out.  Controller commands,    *)
(* polling, security (no network key is set) and configuration queries are *)
(* not used by idealoz.                                                    *)
(***************************************************************************)
EXTENDS Integers, SequencesExt

CONSTANTS
  MaxNode,         \* the greatest node id; 232, or less where no higher one is used
  Nodes,           \* nodes the network may have, the controller not among them
  Sleepers,        \* nodes that do not listen all the time
  Meters,          \* nodes idealoz asks for their values when they fall asleep
  Mandatory,       \* questions of the classes a node's device type implies
  Optional,        \* questions of the classes its node info adds
  Retarget,        \* sleepers that tell another controller when they wake up
  Scenarios,       \* networks to start with, and what may disturb them
  StartIds         \* values of the callback id counter to start from

\* Node::QueryStage; SecurityReport (7) and Configuration (17) ask nothing.
None == 0
ProtocolInfo == 1
Probe == 2
WakeUp == 3
ManufacturerSpecific1 == 4
NodeInfo == 5
NodePlusInfo == 6
ManufacturerSpecific2 == 8
Versions == 9
Instances == 10
Static == 11
Probe1 == 12
Associations == 13
Neighbors == 14
Session == 15
Dynamic == 16
Complete == 18
\* Messages that belong to no stage.
NoMoreInformation == 19
IntervalSet == 20

StaticQuestions == {NodePlusInfo, ManufacturerSpecific2, Versions, Instances, Static}
Questions == StaticQuestions \cup {Associations, Session, Dynamic}

\* The send queues that are used, in the order they are served.
CommandQueue == 1
NoOpQueue == 2
WakeUpQueue == 3
SendQueue == 4
QueryQueue == 5
Queues == 1..5

MAX_TRIES == 1
MAX_MAX_TRIES == 7
FirstId == 10           \* callback ids of ordinary messages are 10..255
\* Update states, which stand in the place of a callback id.
DELETE_DONE == 32
NEW_ID_ASSIGNED == 64
NODE_INFO_REQ_FAILED == 129
NODE_INFO_RECEIVED == 132

\* What a scenario bounds: late frames and CANs, frames that nobody asked for,
\* and nodes added or removed.
Disturbances == {"faults", "unsolicited", "changes"}

\* Versions and instances are asked only of the classes node info lists.
\* A scenario gives the stage zwcfg saved for each node, None for a node it does
\* not have, and the number of disturbances of each kind.
ASSUME DriverAssumption ==
  /\ MaxNode \in 1..232 /\ Nodes \subseteq 1..MaxNode
  /\ Sleepers \subseteq Nodes /\ Meters \subseteq Nodes /\ Retarget \subseteq Sleepers
  /\ \A n \in Meters : Dynamic \in Mandatory[n]
  /\ Mandatory \in [Nodes -> SUBSET (Questions \ {Versions, Instances})]
  /\ Optional \in [Nodes -> SUBSET Questions]
  /\ Scenarios \subseteq [zwcfg : UNION {[net -> None..Complete] : net \in SUBSET Nodes},
                           budget : [Disturbances -> Nat]]
  /\ StartIds \subseteq {0} \cup FirstId..255

VARIABLES
  drv,     \* the driver, a record:
           \*   queue: the items of each send queue
           \*   cur: m_currentMsg;  cb: m_expectedCallbackId;  reply: m_expectedReply
           \*   nodes: m_nodes, the nodes that are there
           \*   nextId: Msg::s_nextCallbackId
           \*   awakeQueried, allQueried: the notifications that were sent
           \*   notify: nodes whose Sleep notification is queued
  wire,    \* frames that may still arrive
  budget,  \* disturbances that may still come
  removed, \* history: a node was removed
  crossed  \* history: a node fell asleep with items in the send queues

vars == <<drv, wire, budget, removed, crossed>>
history == <<removed, crossed>>

-----------------------------------------------------------------------------
(* Messages and the answers they expect. *)

NULL == [cmd |-> "NULL", node |-> 0, ask |-> None, id |-> 0, tries |-> 0, max |-> 0]
NoReply == "none"

IsNoOperation(m) == m.ask \in {Probe, Probe1}
\* "Wake Up No More Information" and NoOperations never wait for a node.
NeverWaits(m) == m.cmd = "SendMsg" /\ (IsNoOperation(m) \/ m.ask = NoMoreInformation)

CallbackRequired(ask) == ask \notin {ProtocolInfo, NodeInfo, Neighbors}
ExpectedReply(ask) ==
  CASE ask = ProtocolInfo -> "protocolInfo"
    [] ask = Neighbors -> "routingInfo"
    [] ask = NodeInfo -> "update"
    [] ask \in {Probe, Probe1, NoMoreInformation, IntervalSet} -> "sendData"
    [] OTHER -> "command"

\* The command class of a question or report; a session asks for the wake-up
\* interval again.
CommandClass(ask) == IF ask = Session THEN WakeUp ELSE ask

\* The same question is asked in both manufacturer stages.
Question(stage) == IF stage = ManufacturerSpecific1 THEN ManufacturerSpecific2 ELSE stage
QueueOf(stage) ==
  CASE stage \in {Probe, Probe1} -> NoOpQueue
    [] stage = WakeUp -> WakeUpQueue
    [] stage \in {Versions, Associations, Dynamic} -> SendQueue
    [] stage = Neighbors -> CommandQueue
    [] OTHER -> QueryQueue

\* Mutant: the counter is used as it is after it overflowed.
NextIdOverflow(next) == next
\* Finalize, UpdateCallbackId: the counter is a byte that skips 0..9.
NextId(next) == IF next = 0 THEN FirstId ELSE next

\* What the controller sends in answer to message m.  Byte 2 is the callback id,
\* or what stands in its place: the update state, or 0 for bytes of other answers.
Answers(m) ==
  LET Frame(func, byte2) ==
        [func |-> func, byte2 |-> byte2, node |-> m.node, ask |-> m.ask, late |-> FALSE]
      reply == ExpectedReply(m.ask)
  IN  CASE reply = "update" -> {Frame(reply, NODE_INFO_RECEIVED)}
        [] reply = "sendData" -> {Frame(reply, m.id)}
        [] reply = "command" -> {Frame("sendData", m.id), Frame(reply, 0)}
        [] OTHER -> {Frame(reply, 0)}

-----------------------------------------------------------------------------
(* Queueing. *)

\* The items of s that are in K, in their order (SelectSeq).
Only(s, K) ==
  LET kept[i \in 0..Len(s)] ==
        IF i = 0 THEN <<>>
        ELSE IF s[i] \in K THEN Append(kept[i - 1], s[i]) ELSE kept[i - 1]
  IN  kept[Len(s)]
Without(s, n) == Only(s, {i \in ToSet(s) : i.node # n})

Asleep(S, n) ==
  /\ n \in DOMAIN S.nodes
  /\ ~S.nodes[n].listening /\ S.nodes[n].wake /\ ~S.nodes[n].awake

Same(a, b) == a.cmd = b.cmd /\ a.node = b.node /\ a.ask = b.ask

\* WakeUp::QueueMsg: an earlier copy is deleted, the attempts start again.
QueueMsg(waiting, item) ==
  Append(Only(waiting, {i \in ToSet(waiting) : ~Same(i, item)}),
         IF item.cmd = "SendMsg" THEN [item EXCEPT !.tries = 0] ELSE item)

\* The same for items one after another.
QueueAll(waiting, items) ==
  LET after[i \in 0..Len(items)] ==
        IF i = 0 THEN waiting ELSE QueueMsg(after[i - 1], items[i])
  IN  after[Len(items)]

Enqueue(S, item, q) ==
  IF Asleep(S, item.node)
  THEN [S EXCEPT !.nodes[item.node].waiting = QueueMsg(@, item)]
  ELSE [S EXCEPT !.queue[q] = Append(@, item)]

SendMsg(S, n, ask, q) ==
  LET id == IF CallbackRequired(ask) THEN NextId(S.nextId) ELSE 0
      msg == [cmd |-> "SendMsg", node |-> n, ask |-> ask, id |-> id,
              tries |-> 0, max |-> MAX_TRIES]
  IN  Enqueue([S EXCEPT !.nextId = IF id = 0 THEN @ ELSE (id + 1) % 256], msg, q)

\* Mutant: the item goes through the queue of woken nodes.
SendQueryStageCompleteEarly(S, n, stage) ==
  Enqueue(S, [cmd |-> "QueryStageComplete", node |-> n, ask |-> stage, retry |-> FALSE],
          WakeUpQueue)
SendQueryStageComplete(S, n, stage) ==
  Enqueue(S, [cmd |-> "QueryStageComplete", node |-> n, ask |-> stage, retry |-> FALSE],
          QueryQueue)

\* The first such item of the query queue will repeat its stage.
RetryQueryStageComplete(S, n, stage) ==
  LET q == S.queue[QueryQueue]
      marks == {i \in DOMAIN q :
                  q[i].cmd = "QueryStageComplete" /\ q[i].node = n /\ q[i].ask = stage}
  IN  IF marks = {} THEN S ELSE [S EXCEPT !.queue[QueryQueue][Min(marks)].retry = TRUE]

RemoveCurrentMsg(S) == [S EXCEPT !.cur = NULL, !.cb = 0, !.reply = NoReply]

\* Mutant: only the queues are searched.
RemoveQueuesOnly(S, n) ==
  [S EXCEPT !.queue = [q \in Queues |-> Without(S.queue[q], n)],
            !.cur = IF @.node = n THEN NULL ELSE @]
RemoveQueues(S, n) ==
  LET T == IF S.cur.node = n THEN RemoveCurrentMsg(S) ELSE S
  IN  [T EXCEPT !.queue = [q \in Queues |-> Without(T.queue[q], n)]]

-----------------------------------------------------------------------------
(* The query stages of a node. *)

\* The questions of the command classes the driver knows of.
Known(n, x) ==
  (IF x.info THEN Mandatory[n] ELSE {}) \cup (IF x.optional THEN Optional[n] ELSE {})

\* Does the stage ask anything?
Asks(n, x, stage) ==
  CASE stage = ProtocolInfo -> ~x.info
    [] stage = Probe1 -> x.stage = Probe1
    [] stage \in {Probe, Neighbors} -> TRUE
    [] stage = WakeUp -> x.wake
    [] stage = NodeInfo -> ~x.nif
    [] stage = Session -> x.wake \/ Session \in Known(n, x)
    [] stage \in {Associations, Dynamic} -> stage \in Known(n, x)
    [] OTHER -> Question(stage) \in Known(n, x) \ x.answered

CheckCompletedNodeQueries(S) ==
  LET open == {m \in DOMAIN S.nodes : S.nodes[m].stage # Complete /\ S.nodes[m].alive}
  IN  IF S.allQueried THEN S
      ELSE IF open = {} THEN [S EXCEPT !.allQueried = TRUE, !.awakeQueried = TRUE]
      ELSE IF \A m \in open : ~S.nodes[m].listening THEN [S EXCEPT !.awakeQueried = TRUE]
      ELSE S

\* On to the first stage that asks something, unless one is being asked.
AdvanceQueries(S, n) ==
  LET x == S.nodes[n]
      stage == Min({Complete} \cup {s \in x.stage..Complete : Asks(n, x, s)})
      T == [S EXCEPT !.nodes[n].stage = stage,
                     !.nodes[n].retries = IF stage = x.stage THEN @ ELSE 0,
                     !.nodes[n].pending = stage # Complete]
  IN  IF x.pending \/ ~x.alive THEN S
      ELSE IF stage = Complete THEN CheckCompletedNodeQueries(T)
      ELSE SendQueryStageComplete(
             SendMsg(T, n, Question(stage), QueueOf(stage)), n, stage)

QueryStageComplete(S, n, stage) ==
  IF stage # S.nodes[n].stage \/ stage = Complete THEN S
  ELSE [S EXCEPT !.nodes[n].pending = FALSE,
                 !.nodes[n].stage = IF stage = Static THEN Associations ELSE @ + 1,
                 !.nodes[n].retries = 0]

\* Mutant: the retries are not counted.
QueryStageRetryForEver(S, n, stage, maxAttempts) ==
  IF stage # S.nodes[n].stage THEN S
  ELSE RetryQueryStageComplete([S EXCEPT !.nodes[n].pending = FALSE], n, stage)
\* Too many retries end a stage, but not a probe.
QueryStageRetry(S, n, stage, maxAttempts) ==
  LET last == S.nodes[n].retries + 1 >= maxAttempts
      next == IF last /\ stage \notin {Probe, Probe1} THEN stage + 1 ELSE stage
  IN  IF stage # S.nodes[n].stage THEN S
      ELSE RetryQueryStageComplete(
             [S EXCEPT !.nodes[n].pending = FALSE,
                       !.nodes[n].retries = IF last THEN 0 ELSE @ + 1,
                       !.nodes[n].stage = next], n, next)

\* Back to an earlier stage, or on with the present one.
SetQueryStage(S, n, stage) ==
  AdvanceQueries(IF stage >= S.nodes[n].stage THEN S
                 ELSE [S EXCEPT !.nodes[n].stage = stage, !.nodes[n].pending = FALSE], n)

\* Mutant: a death is not taken for the end of the node's queries.
SetNodeAliveQuietly(S, n, alive) ==
  LET T == [S EXCEPT !.nodes[n].alive = alive, !.nodes[n].errors = IF alive THEN 0 ELSE @]
  IN  IF alive /\ S.nodes[n].stage # Complete
      THEN AdvanceQueries([T EXCEPT !.nodes[n].retries = 0], n) ELSE T
SetNodeAlive(S, n, alive) ==
  LET T == [S EXCEPT !.nodes[n].alive = alive, !.nodes[n].errors = IF alive THEN 0 ELSE @]
  IN  IF S.nodes[n].stage = Complete THEN T
      ELSE IF alive THEN AdvanceQueries([T EXCEPT !.nodes[n].retries = 0], n)
      ELSE CheckCompletedNodeQueries(T)

Revive(S, n) ==
  IF n \in DOMAIN S.nodes /\ ~S.nodes[n].alive THEN SetNodeAlive(S, n, TRUE) ELSE S

-----------------------------------------------------------------------------
(* Sleeping nodes. *)

\* The node is awake, so what waited goes to the send queues again; then it may
\* sleep, unless it still has queries.
SendPending(S, n) ==
  LET waiting == S.nodes[n].waiting
      Of(cmd) == Only(waiting, {i \in ToSet(waiting) : i.cmd = cmd})
      marks == Of("QueryStageComplete")
      T == [S EXCEPT !.nodes[n].waiting = <<>>,
                     !.queue[WakeUpQueue] = @ \o Of("SendMsg"),
                     !.queue[QueryQueue] =
                       @ \o [i \in DOMAIN marks |-> [marks[i] EXCEPT !.retry = FALSE]]]
  IN  IF T.nodes[n].notified /\ T.nodes[n].stage = Complete
      THEN SendMsg([T EXCEPT !.nodes[n].notified = FALSE], n, NoMoreInformation, WakeUpQueue)
      ELSE T

SetAwake(S, n, awake) ==
  LET T == [S EXCEPT !.nodes[n].awake = awake,
                     !.notify = IF S.nodes[n].awake /\ ~awake THEN Append(@, n) ELSE @]
  IN  IF awake THEN SendPending(T, n) ELSE T

\* Does the node go to sleep, so that its messages can wait for it?
CanWait(S, n) == n \in DOMAIN S.nodes /\ ~S.nodes[n].listening /\ S.nodes[n].wake

\* The current message and the queued items, if they are of node n.
ItemsOf(S, n) ==
  LET all == <<S.cur>> \o S.queue[CommandQueue] \o S.queue[NoOpQueue] \o S.queue[WakeUpQueue]
                       \o S.queue[SendQueue] \o S.queue[QueryQueue]
  IN  Only(all, {i \in ToSet(all) : i.node = n})

\* Mutant: only messages are kept.
MoveMessagesOnly(S, n) ==
  LET mine == ItemsOf(S, n)
      moved == Only(mine, {i \in ToSet(mine) : i.cmd = "SendMsg" /\ ~NeverWaits(i)})
  IN  [RemoveQueues(SetAwake(S, n, FALSE), n) EXCEPT !.nodes[n].waiting = QueueAll(@, moved)]
\* The node is asleep: the current message and every queued item of the node
\* go to its own queue.
MoveMessagesToWakeUpQueue(S, n) ==
  LET mine == ItemsOf(S, n)
      moved == Only(mine, {i \in ToSet(mine) : ~NeverWaits(i)})
  IN  [RemoveQueues(SetAwake(S, n, FALSE), n) EXCEPT !.nodes[n].waiting = QueueAll(@, moved)]

-----------------------------------------------------------------------------
(* Writing a message. *)

\* The current message is written, or dropped when it was tried often enough
\* or its node is dead.
WriteMsg(S) ==
  LET m == S.cur
      id == IF CallbackRequired(m.ask) /\ m.tries # 0 THEN NextId(S.nextId) ELSE m.id
  IN  IF \/ m.tries >= m.max
         \/ m.node \in DOMAIN S.nodes /\ ~S.nodes[m.node].alive /\ ~IsNoOperation(m)
      THEN RemoveCurrentMsg(S)
      ELSE [S EXCEPT !.cur.tries = @ + 1, !.cur.id = id, !.cb = id,
                     !.reply = ExpectedReply(m.ask),
                     !.nextId = IF id = m.id THEN @ ELSE (id + 1) % 256]

-----------------------------------------------------------------------------
(* Received frames. *)

\* Generic callback handling: byte 2 of any frame may end the wait for the
\* callback; what expects no node accepts the answer of any.
GenericCallback(S, f) ==
  LET cb == IF S.cb = f.byte2 THEN 0 ELSE S.cb
      expected == /\ S.reply = f.func
                  /\ f.func = "command" =>
                       /\ cb = 0 /\ f.node = S.cur.node
                       /\ CommandClass(f.ask) = CommandClass(S.cur.ask)
                  /\ f.func = "update" => f.node \in {0, S.cur.node}
      reply == IF expected THEN NoReply ELSE S.reply
  IN  IF S.cb = 0 /\ S.reply = NoReply THEN S
      ELSE IF cb = 0 /\ reply = NoReply THEN RemoveCurrentMsg(S)
      ELSE [S EXCEPT !.cb = cb, !.reply = reply]

\* The answer does not say which node it is about; the current one is assumed.
HandleGetNodeProtocolInfoResponse(S, f, exists) ==
  LET n == S.cur.node
  IN  IF n \notin DOMAIN S.nodes \/ S.nodes[n].info THEN S
      ELSE IF ~exists THEN SetNodeAlive(S, n, FALSE)
      ELSE [S EXCEPT !.nodes[n].info = TRUE,
                     !.nodes[n].listening = f.node \notin Sleepers,
                     !.nodes[n].wake = f.node \in Sleepers]

\* A sleeping node's messages wait for it; three errors kill another node.
HandleErrorResponse(S, n, status) ==
  LET T == [S EXCEPT !.nodes[n].errors = Min({@ + 1, 3})]
  IN  IF status = "noAck" /\ CanWait(S, n) THEN MoveMessagesToWakeUpQueue(S, n)
      ELSE IF T.nodes[n].errors >= 3 THEN SetNodeAlive(T, n, FALSE)
      ELSE T

\* Mutant: the callback id is not looked at.
HandleAnySendDataRequest(S, id, status) ==
  LET n == S.cur.node
      T == HandleErrorResponse(S, n, status)
  IN  IF n \notin DOMAIN S.nodes THEN S
      ELSE IF status = "ok" THEN Revive(S, n)
      ELSE T
\* A callback with another id is ignored, if the id is above 10.
HandleSendDataRequest(S, id, status) ==
  LET n == S.cur.node
      T == HandleErrorResponse(S, n, status)
  IN  IF n \notin DOMAIN S.nodes \/ (id > FirstId /\ id # S.cb) THEN S
      ELSE IF status = "ok"
      THEN Revive(IF S.cur.ask = NoMoreInformation THEN SetAwake(S, n, FALSE) ELSE S, n)
      ELSE IF IsNoOperation(T.cur) /\ T.nodes[n].stage \in {Probe, Probe1}
      THEN QueryStageRetry(T, n, T.nodes[n].stage, 3)
      ELSE T

\* WakeUp::HandleMsg, and the command classes whose answers end a static
\* request.
HandleMsg(S, f) ==
  LET n == f.node
  IN  CASE /\ f.ask \in {WakeUp, Session} /\ n \in Retarget
           /\ S.nodes[n].wake /\ ~S.nodes[n].listening ->
             SendMsg(S, n, IntervalSet, WakeUpQueue)
        [] f.ask \in StaticQuestions -> [S EXCEPT !.nodes[n].answered = @ \cup {f.ask}]
        [] OTHER -> S

HandleWakeUpNotification(S, n) ==
  IF ~S.nodes[n].wake THEN S
  ELSE SetAwake([S EXCEPT !.nodes[n].notified = TRUE], n, TRUE)

\* Any message of a node shows that it lives.
Heard(S, n) == Revive([S EXCEPT !.nodes[n].errors = 0], n)

\* UpdateNodeInfo, SetStaticRequests: the first node info adds classes, and
\* may ask for their versions and instances; a later one refreshes.
UpdateNodeInfo(S, n) ==
  LET T == [S EXCEPT !.nodes[n].optional = TRUE]
      U == IF {Versions, Instances} \cap Known(n, T.nodes[n]) # {}
           THEN SetQueryStage(T, n, ManufacturerSpecific2) ELSE T
      V == IF S.nodes[n].nif THEN SetQueryStage(S, n, Dynamic)
           ELSE [U EXCEPT !.nodes[n].nif = TRUE]
  IN  IF V.nodes[n].wake THEN SetAwake(V, n, TRUE) ELSE V

\* HandleApplicationUpdateRequest with UPDATE_STATE_NODE_INFO_RECEIVED.
HandleNodeInfo(S, f) ==
  GenericCallback(IF f.node \in DOMAIN S.nodes THEN UpdateNodeInfo(Revive(S, f.node), f.node)
                  ELSE S, f)

\* ... with UPDATE_STATE_NODE_INFO_REQ_FAILED, which names no node.
HandleNodeInfoFailed(S, f) ==
  LET n == S.cur.node
      T == QueryStageRetry(S, n, NodeInfo, 2)
      g == [f EXCEPT !.node = 0, !.byte2 = NODE_INFO_REQ_FAILED]
  IN  IF n \notin DOMAIN S.nodes THEN GenericCallback(S, g)
      ELSE IF CanWait(T, n) THEN MoveMessagesToWakeUpQueue(T, n)
      ELSE GenericCallback(T, g)

-----------------------------------------------------------------------------
(* The table of nodes. *)

NewNode ==
  [stage |-> None, pending |-> FALSE, retries |-> 0, alive |-> TRUE, errors |-> 0,
   info |-> FALSE, nif |-> FALSE, optional |-> FALSE, answered |-> {},
   listening |-> TRUE, wake |-> FALSE, awake |-> TRUE, notified |-> FALSE, waiting |-> <<>>]

\* Node::ReadXML: queries are taken up at the saved stage, the associations at
\* the latest.
ReadXML(n, saved) ==
  LET stage == Min({saved, Associations})
      info == stage > ProtocolInfo
  IN  [NewNode EXCEPT !.stage = stage, !.info = info,
         !.nif = stage > NodeInfo, !.optional = stage > NodeInfo,
         !.answered = IF stage > Static THEN StaticQuestions ELSE {},
         !.listening = ~info \/ n \notin Sleepers, !.wake = info /\ n \in Sleepers]

WithNode(S, n, x) ==
  [S EXCEPT !.nodes = [m \in DOMAIN S.nodes \cup {n} |-> IF m = n THEN x ELSE S.nodes[m]]]

DeleteNode(S, n) ==
  [RemoveQueues(S, n) EXCEPT !.nodes = [m \in DOMAIN S.nodes \ {n} |-> S.nodes[m]]]

\* An existing node is replaced.
InitNode(S, n) == SetQueryStage(WithNode(DeleteNode(S, n), n, NewNode), n, ProtocolInfo)

\* ReadConfig: the driver with the nodes of zwcfg, before it asks anything.
ReadConfig(id, zwcfg) ==
  [queue |-> [q \in Queues |-> <<>>], cur |-> NULL, cb |-> 0, reply |-> NoReply,
   nodes |-> [n \in {m \in DOMAIN zwcfg : zwcfg[m] # None} |-> ReadXML(n, zwcfg[n])],
   nextId |-> id, awakeQueried |-> FALSE, allQueried |-> FALSE, notify |-> <<>>]

\* One bit of the controller's list: the node is not there, known, or new.
HandleNodeBit(S, n, zwcfg) ==
  IF n \notin DOMAIN zwcfg THEN S
  ELSE IF n \in DOMAIN S.nodes THEN SetQueryStage(S, n, Probe1)
  ELSE InitNode(S, n)

\* The driver after each bit.
NodeBits(id, zwcfg) ==
  LET after[n \in 0..MaxNode] ==
        IF n = 0 THEN ReadConfig(id, zwcfg) ELSE HandleNodeBit(after[n - 1], n, zwcfg)
  IN  after

HandleSerialAPIGetInitDataResponse(id, zwcfg) == NodeBits(id, zwcfg)[MaxNode]

Init ==
  /\ \E id \in StartIds, scenario \in Scenarios :
       /\ drv = HandleSerialAPIGetInitDataResponse(id, scenario.zwcfg)
       /\ budget = scenario.budget
  /\ wire = {}
  /\ removed = FALSE /\ crossed = FALSE

-----------------------------------------------------------------------------
(* The turns of DriverThreadProc. *)

Waiting == drv.cb # 0 \/ drv.reply # NoReply

\* Notifications come before everything else.
Turn == drv.notify = <<>>

Disturb(kind, k) ==
  /\ k <= budget[kind]
  /\ budget' = [budget EXCEPT ![kind] = @ - k]

\* WriteMsg, and the frames the controller will send for it; frames of the
\* message before may still come.
Write(S, k) ==
  LET T == WriteMsg(S)
  IN  /\ drv' = T
      /\ IF T.cur = NULL THEN Disturb("faults", k) /\ UNCHANGED wire
         ELSE \E kept \in SUBSET {f \in wire : ~f.late} :
                /\ Disturb("faults", k + Cardinality(kept))
                /\ wire' = {[f EXCEPT !.late = TRUE] : f \in kept} \cup Answers(T.cur)
      /\ UNCHANGED history

\* Mutant: the values are not asked for.
NotifyWatchersOnly ==
  /\ drv.notify # <<>>
  /\ drv' = [drv EXCEPT !.notify = Tail(@)]
  /\ UNCHANGED <<wire, budget, history>>
\* idealoz hears that a node fell asleep and, if it is a meter, calls
\* RequestNodeDynamic.
NotifyWatchers ==
  /\ drv.notify # <<>>
  /\ LET n == Head(drv.notify)
         S == [drv EXCEPT !.notify = Tail(@)]
     IN  drv' = IF n \in Meters \cap DOMAIN S.nodes THEN SetQueryStage(S, n, Dynamic) ELSE S
  /\ UNCHANGED <<wire, budget, history>>

\* WriteNextMsg, for the first queue that has an item.
NextQueue == Min({q \in Queues : drv.queue[q] # <<>>})
NextItem == Head(drv.queue[NextQueue])
CanTakeNext == Turn /\ ~Waiting /\ \E q \in Queues : drv.queue[q] # <<>>
TakeNext == [drv EXCEPT !.queue[NextQueue] = Tail(@)]

WriteNextMsg ==
  /\ CanTakeNext /\ NextItem.cmd = "SendMsg"
  /\ Write([TakeNext EXCEPT !.cur = NextItem], 0)

CompleteStage ==
  /\ CanTakeNext /\ NextItem.cmd = "QueryStageComplete"
  /\ LET n == NextItem.node
         S == IF NextItem.retry THEN TakeNext
              ELSE QueryStageComplete(TakeNext, n, NextItem.ask)
     IN  drv' = AdvanceQueries(S, n)
  /\ UNCHANGED <<wire, budget, history>>

\* The wait times out, or the controller sends a NAK.
Timeout ==
  /\ Turn /\ Waiting
  /\ Write(drv, 0)

\* ReadMsg, CAN: one more attempt, up to a limit.
ReadCan ==
  /\ Turn /\ Waiting
  /\ Write([drv EXCEPT !.cur.max = IF @ + 1 < MAX_MAX_TRIES THEN @ + 1 ELSE @], 1)

Arrives(f) ==
  /\ Turn /\ f \in wire
  /\ wire' = wire \ {f}
  /\ UNCHANGED <<budget, removed>>

ReadProtocolInfo(f) ==
  /\ f.func = "protocolInfo" /\ Arrives(f) /\ UNCHANGED crossed
  /\ \E exists \in BOOLEAN :
       drv' = GenericCallback(HandleGetNodeProtocolInfoResponse(drv, f, exists), f)
ReadRoutingInfo(f) ==
  /\ f.func = "routingInfo" /\ Arrives(f) /\ UNCHANGED crossed
  /\ drv' = GenericCallback(drv, f)
ReadSendData(f) ==
  /\ f.func = "sendData" /\ Arrives(f)
  /\ \E status \in {"ok", "noAck", "fail"} :
       drv' = GenericCallback(HandleSendDataRequest(drv, f.byte2, status), f)
  /\ crossed' = (crossed \/ \E q \in Queues : \E i \in ToSet(drv'.queue[q]) : Asleep(drv', i.node))
ReadCommand(f) ==
  /\ f.func = "command" /\ Arrives(f) /\ UNCHANGED crossed
  /\ drv' = GenericCallback(IF f.node \in DOMAIN drv.nodes
                            THEN HandleMsg(Heard(drv, f.node), f) ELSE drv, f)
ReadUpdate(f) ==
  /\ f.func = "update" /\ Arrives(f) /\ UNCHANGED crossed
  /\ drv' \in {HandleNodeInfo(drv, f), HandleNodeInfoFailed(drv, f)}

\* A frame that nobody asked for.
Unsolicited == Turn /\ Disturb("unsolicited", 1) /\ UNCHANGED <<wire, crossed>>
NodesChange == Turn /\ Disturb("changes", 1) /\ UNCHANGED <<wire, crossed>>
Frame(func, byte2, n, ask) ==
  [func |-> func, byte2 |-> byte2, node |-> n, ask |-> ask, late |-> FALSE]

WakeUpNotification(n) ==
  /\ Unsolicited /\ UNCHANGED removed /\ n \in Sleepers \cap DOMAIN drv.nodes
  /\ drv' = GenericCallback(HandleWakeUpNotification(Heard(drv, n), n),
                            Frame("command", 0, n, WakeUp))
NodeInfoSent(n) ==
  /\ Unsolicited /\ UNCHANGED removed
  /\ drv' = HandleNodeInfo(drv, Frame("update", NODE_INFO_RECEIVED, n, NodeInfo))
ReportSent(n) ==
  /\ Unsolicited /\ UNCHANGED removed /\ n \in DOMAIN drv.nodes
  /\ drv' = GenericCallback(Heard(drv, n), Frame("command", 0, n, Dynamic))

\* UPDATE_STATE_NEW_ID_ASSIGNED and UPDATE_STATE_DELETE_DONE.
NewIdAssigned(n) ==
  /\ NodesChange /\ UNCHANGED removed
  /\ drv' = GenericCallback(InitNode(Revive(drv, n), n),
                            Frame("update", NEW_ID_ASSIGNED, n, NodeInfo))
DeleteDone(n) ==
  /\ NodesChange
  /\ drv' = GenericCallback(DeleteNode(Revive(drv, n), n),
                            Frame("update", DELETE_DONE, n, NodeInfo))
  /\ removed' = TRUE

ReadMsg ==
  \/ \E f \in wire : ReadProtocolInfo(f) \/ ReadRoutingInfo(f) \/ ReadSendData(f)
                       \/ ReadCommand(f) \/ ReadUpdate(f)
  \/ \E n \in Nodes : WakeUpNotification(n) \/ NodeInfoSent(n) \/ ReportSent(n)
                        \/ NewIdAssigned(n) \/ DeleteDone(n)
  \/ ReadCan

Next == NotifyWatchers \/ WriteNextMsg \/ CompleteStage \/ Timeout \/ ReadMsg

Spec == Init /\ [][Next]_vars

\* The thread goes on: the watcher returns (its curl ends), what can be
\* written is, and a wait times out.  The first two are weak fairness with the
\* condition that enables the action written out, which TLC evaluates faster.
FairSpec ==
  /\ Spec
  /\ (<>[](drv.notify # <<>>) => []<><<NotifyWatchers>>_vars)
  /\ (<>[]CanTakeNext => []<><<WriteNextMsg \/ CompleteStage>>_vars)
  /\ WF_vars(Timeout)

-----------------------------------------------------------------------------
(* Properties. *)

Item(i) ==
  \/ /\ i.cmd = "SendMsg"
     /\ i.ask \in None..IntervalSet /\ i.tries \in 0..i.max /\ i.max \in 1..MAX_MAX_TRIES - 1
     /\ IF CallbackRequired(i.ask) THEN i.id \in FirstId..255 ELSE i.id = 0
  \/ i.cmd = "QueryStageComplete" /\ i.ask \in None..Complete /\ i.retry \in BOOLEAN

\* Queues hold messages and stage items of nodes that are there; a message
\* that needs one has a callback id outside the range of special messages.
TypeOK ==
  /\ \A q \in Queues : \A i \in ToSet(drv.queue[q]) : i.node \in DOMAIN drv.nodes /\ Item(i)
  /\ drv.cur # NULL => drv.cur.node \in DOMAIN drv.nodes /\ Item(drv.cur)
  /\ \A n \in DOMAIN drv.nodes :
       LET x == drv.nodes[n]
       IN  /\ n \in Nodes /\ x.stage \in ProtocolInfo..Complete
           /\ x.retries \in 0..2 /\ x.errors \in 0..3
           /\ \A i \in ToSet(x.waiting) : i.node = n /\ Item(i) /\ (i.cmd = "SendMsg" => i.tries = 0)
  /\ drv.nextId \in {0} \cup FirstId..255

\* The thread only waits for an answer to a message it still has.
NeverWaitsForNothing == Waiting <=> drv.cur # NULL

Marks(items, n) == \E i \in ToSet(items) : i.cmd = "QueryStageComplete" /\ i.node = n

\* The queries of a live node never get stuck: until they are complete there
\* is an item that will take them further, in the query queue or in the node,
\* which is asleep then, so that waking up finds it.
QueriesGoOn ==
  \A n \in DOMAIN drv.nodes :
    drv.nodes[n].alive /\ drv.nodes[n].stage # Complete =>
      \/ Marks(drv.queue[QueryQueue], n)
      \/ Asleep(drv, n) /\ Marks(drv.nodes[n].waiting, n)

\* When a stage is about to be completed its question is nowhere left: it was
\* answered or given up.  Only if it was asked twice the second one may be left,
\* and then the item behind that one is left as well.
StageSettled ==
  CanTakeNext /\ NextItem.cmd = "QueryStageComplete" =>
    LET x == drv.nodes[NextItem.node]
        left == ToSet(x.waiting) \cup UNION {ToSet(TakeNext.queue[q]) : q \in Queues}
    IN  ~NextItem.retry /\ NextItem.ask = x.stage =>
          \A i \in left :
            i.cmd = "SendMsg" /\ i.node = NextItem.node /\ i.ask = Question(x.stage) =>
              \E k \in left : /\ k.cmd = "QueryStageComplete" /\ k.node = i.node
                             /\ Question(k.ask) = i.ask

\* Once every node is complete or dead the watcher was told so, unless a node
\* was removed: a removal does not look.
TellsWhenDone ==
  ( /\ ~removed /\ DOMAIN drv.nodes # {}
    /\ \A n \in DOMAIN drv.nodes : drv.nodes[n].stage = Complete \/ ~drv.nodes[n].alive )
  => drv.allQueried

\* A meter that fell asleep has a request for its values waiting, so its next
\* wake-up brings them; unless a message crossed its falling asleep.
SleepingMeterAsked ==
  ~crossed => \A n \in Meters \cap DOMAIN drv.nodes :
    Asleep(drv, n) /\ drv.nodes[n].alive /\ n \notin ToSet(drv.notify) =>
      drv.nodes[n].stage # Complete

\* The callback of another message is not taken for that of the current one,
\* however late it is and although ids wrap around and are kept by messages that
\* waited for their node.  Id 10 is excepted, see HandleSendDataRequest.
LateCallbackIgnored ==
  [][\A f \in wire :
       ( /\ f.byte2 # FirstId /\ <<f.node, f.ask>> # <<drv.cur.node, drv.cur.ask>>
         /\ ReadSendData(f) ) => drv'.nodes = drv.nodes]_vars

Settled(n) ==
  n \in DOMAIN drv.nodes =>
    LET x == drv.nodes[n]
    IN  \/ x.stage = Complete \/ ~x.alive
        \/ Asleep(drv, n) /\ Marks(x.waiting, n)

\* The queries of each node come to an end: it is complete, dead, asleep with
\* its next stage waiting, or gone.
QueriesSettle == \A n \in Nodes : []<>Settled(n)
=============================================================================
