-------------------------- MODULE ZWaveDriverProofs --------------------------
(***************************************************************************)
(* Proofs about the OpenZWave driver.                                      *)
(*                                                                         *)
(* That the thread never waits for nothing only depends on the current     *)
(* message, the expected callback and the expected reply.  Every handler   *)
(* leaves the three alone or clears them together, except for WriteMsg and *)
(* the generic callback handling.                                          *)
(*                                                                         *)
(* That queries go on needs more: while the question of a stage is pending *)
(* an item that ends this stage is in the query queue, not marked to be    *)
(* repeated, or in the node, which sleeps then (Pending); and a node that  *)
(* is not complete has an item at all (Going).  Each handler is about one  *)
(* node and leaves the records and the items of the others alone (Step).   *)
(*                                                                         *)
(* That the watcher is told of the end of all queries is shown by a        *)
(* relation between the states before and after a handler (Tells): where   *)
(* a handler brings the last open node to its end, it also looks at all of *)
(* them.                                                                   *)
(*                                                                         *)
(* That a stage ends after its question, and that a sleeping meter is      *)
(* asked again, follow from the order of the items (Orderly): a question   *)
(* that is queued, sent or waits in a node has the item that ends its      *)
(* stage behind it in the query queue, which is served last, or in the     *)
(* same node; and unless a message crossed a node's falling asleep,        *)
(* nothing is queued for a node that sleeps, so none of its stages ends.   *)
(***************************************************************************)
EXTENDS ZWaveDriver, SequenceTheorems, WellFoundedInduction, NaturalsInduction, TLAPS

LEMMA LeastNatural ==
  ASSUME NEW T, T \subseteq Nat, T # {}
  PROVE  \E x \in T : \A y \in T : x <= y
<1> DEFINE R == {ss \in Nat \X Nat : ss[1] < ss[2]}
<1>1. IsWellFoundedOn(R, Nat)
  BY NatLessThanWellFounded DEF OpToRel
<1> HIDE DEF R
<1>2. PICK x \in T : \A y \in T : ~ (<<y, x>> \in R)
  BY <1>1, WFMin
<1>3. \A y \in T : ~(y < x)
  BY <1>2 DEF R
<1> QED  BY <1>2, <1>3

-----------------------------------------------------------------------------
(* What the thread waits for. *)

HasWait(S) == {"cur", "cb", "reply"} \subseteq DOMAIN S

\* T waits for the same message as S.
Keeps(S, T) ==
  DOMAIN T = DOMAIN S /\ T.cur = S.cur /\ T.cb = S.cb /\ T.reply = S.reply

Cleared(T) == T.cur = NULL /\ T.cb = 0 /\ T.reply = NoReply

\* T waits for the same message as S, or for nothing.
Drops(S, T) == DOMAIN T = DOMAIN S /\ (Keeps(S, T) \/ Cleared(T))

\* The three fields agree, and what is waited for is a message.
IsMsg(m) == "cmd" \in DOMAIN m => m.cmd = "SendMsg"
Coupled(S) ==
  /\ HasWait(S)
  /\ (S.cb # 0 \/ S.reply # NoReply) <=> S.cur # NULL
  /\ S.cur # NULL => IsMsg(S.cur)

LEMMA DropsCoupled ==
  ASSUME NEW S, NEW T, Coupled(S), Drops(S, T)
  PROVE  Coupled(T)
BY DEF Coupled, Drops, Keeps, Cleared, HasWait

LEMMA EnqueueKeeps ==
  ASSUME NEW S, HasWait(S), NEW item, NEW q
  PROVE  Keeps(S, Enqueue(S, item, q))
BY DEF HasWait, Keeps, Enqueue

LEMMA SendMsgKeeps ==
  ASSUME NEW S, HasWait(S), NEW n, NEW ask, NEW q
  PROVE  Keeps(S, SendMsg(S, n, ask, q))
<1> DEFINE id == IF CallbackRequired(ask) THEN NextId(S.nextId) ELSE 0
           T == [S EXCEPT !.nextId = IF id = 0 THEN @ ELSE (id + 1) % 256]
           msg == [cmd |-> "SendMsg", node |-> n, ask |-> ask, id |-> id,
                   tries |-> 0, max |-> MAX_TRIES]
<1>1. Keeps(S, T) /\ HasWait(T)  BY DEF Keeps, HasWait
<1> HIDE DEF T, msg
<1>2. Keeps(T, Enqueue(T, msg, q))  BY <1>1, EnqueueKeeps
<1> USE DEF T, msg
<1>3. SendMsg(S, n, ask, q) = Enqueue(T, msg, q)  BY DEF SendMsg
<1> HIDE DEF T, msg
<1> QED  BY <1>1, <1>2, <1>3 DEF Keeps

LEMMA SendQueryStageCompleteKeeps ==
  ASSUME NEW S, HasWait(S), NEW n, NEW stage
  PROVE  Keeps(S, SendQueryStageComplete(S, n, stage))
BY EnqueueKeeps DEF SendQueryStageComplete

LEMMA RetryQueryStageCompleteKeeps ==
  ASSUME NEW S, HasWait(S), NEW n, NEW stage
  PROVE  Keeps(S, RetryQueryStageComplete(S, n, stage))
BY DEF HasWait, Keeps, RetryQueryStageComplete

LEMMA RemoveQueuesDrops ==
  ASSUME NEW S, HasWait(S), NEW n
  PROVE  Drops(S, RemoveQueues(S, n))
BY DEF HasWait, Drops, Keeps, Cleared, RemoveQueues, RemoveCurrentMsg

LEMMA CheckCompletedNodeQueriesKeeps ==
  ASSUME NEW S, HasWait(S)
  PROVE  Keeps(S, CheckCompletedNodeQueries(S))
BY DEF HasWait, Keeps, CheckCompletedNodeQueries

LEMMA KeepsTransitive ==
  ASSUME NEW S, NEW T, NEW U, HasWait(S), Keeps(S, T)
  PROVE  HasWait(T) /\ (Keeps(T, U) => Keeps(S, U)) /\ (Drops(T, U) => Drops(S, U))
BY DEF HasWait, Keeps, Drops

LEMMA DropsTransitive ==
  ASSUME NEW S, NEW T, NEW U, HasWait(S), Drops(S, T)
  PROVE  HasWait(T) /\ (Keeps(T, U) \/ Drops(T, U) => Drops(S, U))
BY DEF HasWait, Keeps, Drops, Cleared

\* An assignment to the table of nodes or to the notifications keeps the wait.
LEMMA NodesKeep ==
  ASSUME NEW S, HasWait(S), NEW nodes, NEW notify
  PROVE  /\ Keeps(S, [S EXCEPT !.nodes = nodes])
         /\ Keeps(S, [S EXCEPT !.nodes = nodes, !.notify = notify])
BY DEF HasWait, Keeps

LEMMA AdvanceQueriesKeeps ==
  ASSUME NEW S, HasWait(S), NEW n
  PROVE  Keeps(S, AdvanceQueries(S, n))
<1> DEFINE x == S.nodes[n]
           stage == Min({Complete} \cup {s \in x.stage..Complete : Asks(n, x, s)})
           T == [S EXCEPT !.nodes[n].stage = stage,
                          !.nodes[n].retries = IF stage = x.stage THEN @ ELSE 0,
                          !.nodes[n].pending = stage # Complete]
           U == SendMsg(T, n, Question(stage), QueueOf(stage))
           V == SendQueryStageComplete(U, n, stage)
<1>1. Keeps(S, T)  BY DEF Keeps, HasWait
<1>2. Keeps(S, S)  BY DEF Keeps
<1>3. AdvanceQueries(S, n) \in {S, CheckCompletedNodeQueries(T), V}
  BY DEF AdvanceQueries
<1> HIDE DEF x, stage, T
<1>4. HasWait(T) /\ Keeps(T, CheckCompletedNodeQueries(T)) /\ Keeps(T, U)
  BY <1>1, KeepsTransitive, CheckCompletedNodeQueriesKeeps, SendMsgKeeps
<1>5. HasWait(U) /\ Keeps(U, V)
  BY <1>4, KeepsTransitive, SendQueryStageCompleteKeeps
<1>6. Keeps(S, CheckCompletedNodeQueries(T)) /\ Keeps(S, U)
  BY <1>1, <1>4, KeepsTransitive
<1>7. Keeps(S, V)
  BY <1>5, <1>6, KeepsTransitive
<1> QED  BY <1>2, <1>3, <1>6, <1>7

LEMMA QueryStageCompleteKeeps ==
  ASSUME NEW S, HasWait(S), NEW n, NEW stage
  PROVE  Keeps(S, QueryStageComplete(S, n, stage))
BY DEF HasWait, Keeps, QueryStageComplete

LEMMA QueryStageRetryKeeps ==
  ASSUME NEW S, HasWait(S), NEW n, NEW stage, NEW maxAttempts
  PROVE  Keeps(S, QueryStageRetry(S, n, stage, maxAttempts))
<1> DEFINE last == S.nodes[n].retries + 1 >= maxAttempts
           next == IF last /\ stage \notin {Probe, Probe1} THEN stage + 1 ELSE stage
           T == [S EXCEPT !.nodes[n].pending = FALSE,
                          !.nodes[n].retries = IF last THEN 0 ELSE @ + 1,
                          !.nodes[n].stage = next]
<1>1. Keeps(S, T)  BY DEF Keeps, HasWait
<1>2. Keeps(S, S)  BY DEF Keeps
<1>3. QueryStageRetry(S, n, stage, maxAttempts) \in {S, RetryQueryStageComplete(T, n, next)}
  BY DEF QueryStageRetry
<1> HIDE DEF T, next
<1>4. Keeps(S, RetryQueryStageComplete(T, n, next))
  BY <1>1, KeepsTransitive, RetryQueryStageCompleteKeeps
<1> QED  BY <1>2, <1>3, <1>4

LEMMA SetQueryStageKeeps ==
  ASSUME NEW S, HasWait(S), NEW n, NEW stage
  PROVE  Keeps(S, SetQueryStage(S, n, stage))
<1> DEFINE T == IF stage >= S.nodes[n].stage THEN S
                ELSE [S EXCEPT !.nodes[n].stage = stage, !.nodes[n].pending = FALSE]
<1>1. Keeps(S, T)  BY DEF Keeps, HasWait
<1>2. SetQueryStage(S, n, stage) = AdvanceQueries(T, n)  BY DEF SetQueryStage
<1> HIDE DEF T
<1> QED  BY <1>1, <1>2, KeepsTransitive, AdvanceQueriesKeeps

LEMMA SetNodeAliveKeeps ==
  ASSUME NEW S, HasWait(S), NEW n, NEW alive
  PROVE  Keeps(S, SetNodeAlive(S, n, alive))
<1> DEFINE T == [S EXCEPT !.nodes[n].alive = alive, !.nodes[n].errors = IF alive THEN 0 ELSE @]
           U == [T EXCEPT !.nodes[n].retries = 0]
<1>1. Keeps(S, T)  BY DEF Keeps, HasWait
<1>2. Keeps(S, U)  BY DEF Keeps, HasWait
<1>3. SetNodeAlive(S, n, alive) \in {T, AdvanceQueries(U, n), CheckCompletedNodeQueries(T)}
  BY DEF SetNodeAlive
<1> HIDE DEF T, U
<1>4. Keeps(S, AdvanceQueries(U, n))
  BY <1>2, KeepsTransitive, AdvanceQueriesKeeps
<1>5. Keeps(S, CheckCompletedNodeQueries(T))
  BY <1>1, KeepsTransitive, CheckCompletedNodeQueriesKeeps
<1> QED  BY <1>1, <1>3, <1>4, <1>5

LEMMA ReviveKeeps ==
  ASSUME NEW S, HasWait(S), NEW n
  PROVE  Keeps(S, Revive(S, n))
BY SetNodeAliveKeeps DEF Revive, Keeps

LEMMA HeardKeeps ==
  ASSUME NEW S, HasWait(S), NEW n
  PROVE  Keeps(S, Heard(S, n))
<1> DEFINE T == [S EXCEPT !.nodes[n].errors = 0]
<1>1. Keeps(S, T)  BY DEF Keeps, HasWait
<1>2. Heard(S, n) = Revive(T, n)  BY DEF Heard
<1> HIDE DEF T
<1> QED  BY <1>1, <1>2, KeepsTransitive, ReviveKeeps

LEMMA SendPendingKeeps ==
  ASSUME NEW S, HasWait(S), NEW n
  PROVE  Keeps(S, SendPending(S, n))
<1> DEFINE waiting == S.nodes[n].waiting
           Of(cmd) == Only(waiting, {i \in ToSet(waiting) : i.cmd = cmd})
           marks == Of("QueryStageComplete")
           T == [S EXCEPT !.nodes[n].waiting = <<>>,
                          !.queue[WakeUpQueue] = @ \o Of("SendMsg"),
                          !.queue[QueryQueue] =
                            @ \o [i \in DOMAIN marks |-> [marks[i] EXCEPT !.retry = FALSE]]]
           U == [T EXCEPT !.nodes[n].notified = FALSE]
<1>1. Keeps(S, T)  BY DEF Keeps, HasWait
<1>2. Keeps(S, U)  BY DEF Keeps, HasWait
<1>3. SendPending(S, n) \in {T, SendMsg(U, n, NoMoreInformation, WakeUpQueue)}
  BY DEF SendPending
<1> HIDE DEF T, U
<1>4. Keeps(S, SendMsg(U, n, NoMoreInformation, WakeUpQueue))
  BY <1>2, KeepsTransitive, SendMsgKeeps
<1> QED  BY <1>1, <1>3, <1>4

LEMMA SetAwakeKeeps ==
  ASSUME NEW S, HasWait(S), NEW n, NEW awake
  PROVE  Keeps(S, SetAwake(S, n, awake))
<1> DEFINE T == [S EXCEPT !.nodes[n].awake = awake,
                          !.notify = IF S.nodes[n].awake /\ ~awake THEN Append(@, n) ELSE @]
<1>1. Keeps(S, T)  BY DEF Keeps, HasWait
<1>2. SetAwake(S, n, awake) \in {T, SendPending(T, n)}  BY DEF SetAwake
<1> HIDE DEF T
<1>3. Keeps(S, SendPending(T, n))
  BY <1>1, KeepsTransitive, SendPendingKeeps
<1> QED  BY <1>1, <1>2, <1>3

LEMMA MoveMessagesDrops ==
  ASSUME NEW S, HasWait(S), NEW n
  PROVE  Drops(S, MoveMessagesToWakeUpQueue(S, n))
<1> DEFINE T == SetAwake(S, n, FALSE)
           U == RemoveQueues(T, n)
<1>1. HasWait(T) /\ Drops(S, U)
  BY SetAwakeKeeps, KeepsTransitive, RemoveQueuesDrops
<1>2. HasWait(U)  BY <1>1, DropsTransitive
<1>3. PICK moved : MoveMessagesToWakeUpQueue(S, n) =
                     [U EXCEPT !.nodes[n].waiting = QueueAll(@, moved)]
  BY DEF MoveMessagesToWakeUpQueue
<1> HIDE DEF U
<1>4. Keeps(U, MoveMessagesToWakeUpQueue(S, n))  BY <1>2, <1>3 DEF Keeps, HasWait
<1> QED  BY <1>1, <1>4, DropsTransitive

-----------------------------------------------------------------------------
(* The handlers of frames. *)

LEMMA HandleGetNodeProtocolInfoResponseKeeps ==
  ASSUME NEW S, HasWait(S), NEW f, NEW exists
  PROVE  Keeps(S, HandleGetNodeProtocolInfoResponse(S, f, exists))
<1> DEFINE n == S.cur.node
           T == [S EXCEPT !.nodes[n].info = TRUE,
                          !.nodes[n].listening = f.node \notin Sleepers,
                          !.nodes[n].wake = f.node \in Sleepers]
<1>1. Keeps(S, T) /\ Keeps(S, S)  BY DEF Keeps, HasWait
<1>2. HandleGetNodeProtocolInfoResponse(S, f, exists) \in {S, SetNodeAlive(S, n, FALSE), T}
  BY DEF HandleGetNodeProtocolInfoResponse
<1> HIDE DEF T, n
<1> QED  BY <1>1, <1>2, SetNodeAliveKeeps

LEMMA HandleErrorResponseDrops ==
  ASSUME NEW S, HasWait(S), NEW n, NEW status
  PROVE  Drops(S, HandleErrorResponse(S, n, status))
<1> DEFINE T == [S EXCEPT !.nodes[n].errors = Min({@ + 1, 3})]
<1>1. Keeps(S, T)  BY DEF Keeps, HasWait
<1>2. HandleErrorResponse(S, n, status) \in
        {MoveMessagesToWakeUpQueue(S, n), SetNodeAlive(T, n, FALSE), T}
  BY DEF HandleErrorResponse
<1> HIDE DEF T
<1>3. Keeps(S, SetNodeAlive(T, n, FALSE))
  BY <1>1, KeepsTransitive, SetNodeAliveKeeps
<1> QED  BY <1>1, <1>2, <1>3, MoveMessagesDrops DEF Drops, Keeps

LEMMA HandleSendDataRequestDrops ==
  ASSUME NEW S, HasWait(S), NEW id, NEW status
  PROVE  Drops(S, HandleSendDataRequest(S, id, status))
<1> DEFINE n == S.cur.node
           T == HandleErrorResponse(S, n, status)
           U == IF S.cur.ask = NoMoreInformation THEN SetAwake(S, n, FALSE) ELSE S
           V == QueryStageRetry(T, n, T.nodes[n].stage, 3)
<1>1. HandleSendDataRequest(S, id, status) \in {S, Revive(U, n), V, T}
  BY DEF HandleSendDataRequest
<1>2. Keeps(S, S)  BY DEF Keeps
<1>3. Keeps(S, U)  BY <1>2, SetAwakeKeeps
<1>4. Drops(S, T)  BY HandleErrorResponseDrops
<1> HIDE DEF T, U, n
<1>5. Keeps(S, Revive(U, n))  BY <1>3, KeepsTransitive, ReviveKeeps
<1>6. Drops(S, V)  BY <1>4, DropsTransitive, QueryStageRetryKeeps
<1> QED  BY <1>1, <1>2, <1>4, <1>5, <1>6 DEF Drops, Keeps

LEMMA HandleMsgKeeps ==
  ASSUME NEW S, HasWait(S), NEW f
  PROVE  Keeps(S, HandleMsg(S, f))
<1> DEFINE n == f.node
           T == [S EXCEPT !.nodes[n].answered = @ \cup {f.ask}]
<1>1. Keeps(S, T) /\ Keeps(S, S)  BY DEF Keeps, HasWait
<1>2. HandleMsg(S, f) \in {SendMsg(S, n, IntervalSet, WakeUpQueue), T, S}
  BY DEF HandleMsg
<1> QED  BY <1>1, <1>2, SendMsgKeeps

LEMMA HandleWakeUpNotificationKeeps ==
  ASSUME NEW S, HasWait(S), NEW n
  PROVE  Keeps(S, HandleWakeUpNotification(S, n))
<1> DEFINE T == [S EXCEPT !.nodes[n].notified = TRUE]
<1>1. Keeps(S, T) /\ Keeps(S, S)  BY DEF Keeps, HasWait
<1>2. HandleWakeUpNotification(S, n) \in {S, SetAwake(T, n, TRUE)}
  BY DEF HandleWakeUpNotification
<1> HIDE DEF T
<1> QED  BY <1>1, <1>2, KeepsTransitive, SetAwakeKeeps

LEMMA UpdateNodeInfoKeeps ==
  ASSUME NEW S, HasWait(S), NEW n
  PROVE  Keeps(S, UpdateNodeInfo(S, n))
<1> DEFINE T == [S EXCEPT !.nodes[n].optional = TRUE]
           U == IF {Versions, Instances} \cap Known(n, T.nodes[n]) # {}
                THEN SetQueryStage(T, n, ManufacturerSpecific2) ELSE T
           V == IF S.nodes[n].nif THEN SetQueryStage(S, n, Dynamic)
                ELSE [U EXCEPT !.nodes[n].nif = TRUE]
<1>1. UpdateNodeInfo(S, n) \in {SetAwake(V, n, TRUE), V}  BY DEF UpdateNodeInfo
<1>2. Keeps(S, T)  BY DEF Keeps, HasWait
<1>3. Keeps(S, U)
  <2> HIDE DEF T
  <2> QED  BY <1>2, KeepsTransitive, SetQueryStageKeeps
<1>4. Keeps(S, V)
  <2> HIDE DEF U
  <2>1. Keeps(U, [U EXCEPT !.nodes[n].nif = TRUE])
    BY <1>3 DEF Keeps, HasWait
  <2> QED  BY <1>3, <2>1, KeepsTransitive, SetQueryStageKeeps
<1> HIDE DEF V
<1> QED  BY <1>1, <1>4, KeepsTransitive, SetAwakeKeeps

LEMMA DeleteNodeDrops ==
  ASSUME NEW S, HasWait(S), NEW n
  PROVE  Drops(S, DeleteNode(S, n))
<1> DEFINE T == RemoveQueues(S, n)
           U == [T EXCEPT !.nodes = [m \in DOMAIN S.nodes \ {n} |-> S.nodes[m]]]
<1>1. Drops(S, T)  BY RemoveQueuesDrops
<1>2. DeleteNode(S, n) = U  BY DEF DeleteNode
<1> HIDE DEF T
<1>3. Keeps(T, U)  BY <1>1 DEF Keeps, Drops, HasWait
<1> HIDE DEF U
<1> QED  BY <1>1, <1>2, <1>3, DropsTransitive

LEMMA InitNodeDrops ==
  ASSUME NEW S, HasWait(S), NEW n
  PROVE  Drops(S, InitNode(S, n))
<1> DEFINE T == DeleteNode(S, n)
           U == WithNode(T, n, NewNode)
<1>1. Drops(S, T) /\ HasWait(T)  BY DeleteNodeDrops, DropsTransitive
<1>2. InitNode(S, n) = SetQueryStage(U, n, ProtocolInfo)  BY DEF InitNode
<1> HIDE DEF T
<1>3. Keeps(T, U)  BY <1>1 DEF Keeps, HasWait, WithNode
<1> HIDE DEF U
<1>4. Keeps(T, SetQueryStage(U, n, ProtocolInfo))
  BY <1>1, <1>3, KeepsTransitive, SetQueryStageKeeps
<1> QED  BY <1>1, <1>2, <1>4, DropsTransitive

\* The wait may end in part, but the message stays until it ended altogether.
LEMMA GenericCallbackCoupled ==
  ASSUME NEW S, Coupled(S), NEW f
  PROVE  Coupled(GenericCallback(S, f))
<1> DEFINE cb == IF S.cb = f.byte2 THEN 0 ELSE S.cb
           expected == /\ S.reply = f.func
                       /\ f.func = "command" =>
                            /\ cb = 0 /\ f.node = S.cur.node
                            /\ CommandClass(f.ask) = CommandClass(S.cur.ask)
                       /\ f.func = "update" => f.node \in {0, S.cur.node}
           reply == IF expected THEN NoReply ELSE S.reply
           T == [S EXCEPT !.cb = cb, !.reply = reply]
<1>1. GenericCallback(S, f) =
        IF S.cb = 0 /\ S.reply = NoReply THEN S
        ELSE IF cb = 0 /\ reply = NoReply THEN RemoveCurrentMsg(S)
        ELSE T
  BY DEF GenericCallback
<1> HIDE DEF cb, reply
<1>2. Coupled(RemoveCurrentMsg(S))  BY DEF Coupled, HasWait, RemoveCurrentMsg
<1>3. ASSUME ~(S.cb = 0 /\ S.reply = NoReply), ~(cb = 0 /\ reply = NoReply)
      PROVE  Coupled(T)
  BY <1>3 DEF Coupled, HasWait
<1> QED  BY <1>1, <1>2, <1>3

LEMMA HandleNodeInfoCoupled ==
  ASSUME NEW S, Coupled(S), NEW f
  PROVE  Coupled(HandleNodeInfo(S, f))
<1> DEFINE T == Revive(S, f.node)
           U == IF f.node \in DOMAIN S.nodes THEN UpdateNodeInfo(T, f.node) ELSE S
<1>1. HasWait(S) /\ Keeps(S, S)  BY DEF Coupled, Keeps
<1>2. Keeps(S, U)  BY <1>1, ReviveKeeps, KeepsTransitive, UpdateNodeInfoKeeps
<1>3. HandleNodeInfo(S, f) = GenericCallback(U, f)  BY DEF HandleNodeInfo
<1> HIDE DEF U
<1> QED  BY <1>2, <1>3, DropsCoupled, GenericCallbackCoupled DEF Drops, Keeps

LEMMA HandleNodeInfoFailedCoupled ==
  ASSUME NEW S, Coupled(S), NEW f
  PROVE  Coupled(HandleNodeInfoFailed(S, f))
<1> DEFINE n == S.cur.node
           T == QueryStageRetry(S, n, NodeInfo, 2)
           g == [f EXCEPT !.node = 0, !.byte2 = NODE_INFO_REQ_FAILED]
<1>1. HandleNodeInfoFailed(S, f) \in
        {GenericCallback(S, g), MoveMessagesToWakeUpQueue(T, n), GenericCallback(T, g)}
  BY DEF HandleNodeInfoFailed
<1>2. HasWait(S)  BY DEF Coupled
<1>3. Keeps(S, T)  BY <1>2, QueryStageRetryKeeps
<1> HIDE DEF T, n, g
<1>4. Coupled(T) /\ HasWait(T)  BY <1>3, DropsCoupled DEF Drops, Keeps, Coupled
<1>5. Coupled(MoveMessagesToWakeUpQueue(T, n))  BY <1>4, MoveMessagesDrops, DropsCoupled
<1> QED  BY <1>1, <1>4, <1>5, GenericCallbackCoupled

\* A message that was written is waited for, one that was given up is gone.
LEMMA WriteMsgCoupled ==
  ASSUME NEW S, HasWait(S), IsMsg(S.cur)
  PROVE  Coupled(WriteMsg(S))
<1> DEFINE m == S.cur
           id == IF CallbackRequired(m.ask) /\ m.tries # 0 THEN NextId(S.nextId) ELSE m.id
           T == [S EXCEPT !.cur.tries = @ + 1, !.cur.id = id, !.cb = id,
                          !.reply = ExpectedReply(m.ask),
                          !.nextId = IF id = m.id THEN @ ELSE (id + 1) % 256]
<1>1. WriteMsg(S) \in {RemoveCurrentMsg(S), T}  BY DEF WriteMsg
<1>2. Coupled(RemoveCurrentMsg(S))  BY DEF Coupled, HasWait, RemoveCurrentMsg
<1>3. ExpectedReply(m.ask) # NoReply  BY DEF ExpectedReply, NoReply
<1>4. /\ HasWait(T) /\ T.reply = ExpectedReply(m.ask)
      /\ DOMAIN T.cur = DOMAIN m /\ ("cmd" \in DOMAIN m => T.cur.cmd = m.cmd)
  BY DEF HasWait
<1> HIDE DEF T
<1>5. T.cur # NULL /\ IsMsg(T.cur)  BY <1>4 DEF IsMsg, NULL
<1> QED  BY <1>1, <1>2, <1>3, <1>4, <1>5 DEF Coupled

-----------------------------------------------------------------------------
(* The steps. *)

\* The recursion over the controller's list of nodes is well-founded.
LEMMA NodeBitsDef ==
  ASSUME NEW id, NEW zwcfg
  PROVE  /\ NodeBits(id, zwcfg)[0] = ReadConfig(id, zwcfg)
         /\ \A n \in 1..MaxNode :
              NodeBits(id, zwcfg)[n] = HandleNodeBit(NodeBits(id, zwcfg)[n - 1], n, zwcfg)
<1> DEFINE Upto(f, k) ==
             /\ f = [n \in 0..k |-> f[n]]
             /\ f = [n \in 0..k |-> IF n = 0 THEN ReadConfig(id, zwcfg)
                                     ELSE HandleNodeBit(f[n - 1], n, zwcfg)]
           Short == {k \in Nat : ~\E f : Upto(f, k)}
<1>1. Short = {}
  <2> SUFFICES ASSUME Short # {} PROVE FALSE
    OBVIOUS
  <2>1. PICK k \in Short : \A j \in Short : k <= j
    BY LeastNatural
  <2>2. CASE k = 0
    <3> DEFINE g == [n \in 0..0 |-> ReadConfig(id, zwcfg)]
    <3>1. Upto(g, 0)  OBVIOUS
    <3> QED  BY <2>1, <2>2, <3>1
  <2>3. CASE k # 0
    <3>1. k - 1 \in Nat /\ k - 1 \notin Short  BY <2>1, <2>3
    <3>2. PICK f : Upto(f, k - 1)  BY <3>1
    <3> DEFINE g == [n \in 0..k |-> IF n = k THEN HandleNodeBit(f[k - 1], k, zwcfg) ELSE f[n]]
    <3>3. \A n \in 0..k - 1 : g[n] = f[n]  BY <2>1
    <3>4. \A n \in 0..k : g[n] = IF n = 0 THEN ReadConfig(id, zwcfg)
                                 ELSE HandleNodeBit(g[n - 1], n, zwcfg)
      <4> TAKE n \in 0..k
      <4>1. CASE n = k
        BY <2>1, <2>3, <3>3, <4>1
      <4>2. CASE n # k
        <5>1. n \in 0..k - 1 /\ (n # 0 => n - 1 \in 0..k - 1)  BY <2>1, <4>2
        <5> QED  BY <3>2, <3>3, <5>1
      <4> QED  BY <4>1, <4>2
    <3>5. g = [n \in 0..k |-> g[n]]  OBVIOUS
    <3> HIDE DEF g
    <3>6. Upto(g, k)  BY <3>4, <3>5
    <3> QED  BY <2>1, <3>6
  <2> QED  BY <2>2, <2>3
<1>2. MaxNode \in Nat /\ MaxNode >= 1  BY DriverAssumption
<1>3. \E f : Upto(f, MaxNode)  BY <1>1, <1>2
<1>4. \E f : f = [n \in 0..MaxNode |-> IF n = 0 THEN ReadConfig(id, zwcfg)
                                       ELSE HandleNodeBit(f[n - 1], n, zwcfg)]
  BY <1>3
<1>5. NodeBits(id, zwcfg) =
        [n \in 0..MaxNode |-> IF n = 0 THEN ReadConfig(id, zwcfg)
                              ELSE HandleNodeBit(NodeBits(id, zwcfg)[n - 1], n, zwcfg)]
  BY <1>4, Zenon DEF NodeBits
<1> QED  BY <1>2, <1>5

LEMMA HandleNodeBitCoupled ==
  ASSUME NEW S, Coupled(S), NEW n, NEW zwcfg
  PROVE  Coupled(HandleNodeBit(S, n, zwcfg))
<1>1. HasWait(S)  BY DEF Coupled
<1>2. Drops(S, SetQueryStage(S, n, Probe1)) /\ Drops(S, InitNode(S, n))
  BY <1>1, SetQueryStageKeeps, InitNodeDrops DEF Drops, Keeps
<1>3. HandleNodeBit(S, n, zwcfg) \in {S, SetQueryStage(S, n, Probe1), InitNode(S, n)}
  BY DEF HandleNodeBit
<1> QED  BY <1>2, <1>3, DropsCoupled

LEMMA InitCoupled ==
  ASSUME Init
  PROVE  Coupled(drv)
<1>1. PICK id, zwcfg : drv = NodeBits(id, zwcfg)[MaxNode]
  BY DEF Init, HandleSerialAPIGetInitDataResponse
<1> DEFINE After(n) == NodeBits(id, zwcfg)[n]
           Bad == {n \in 0..MaxNode : ~Coupled(After(n))}
<1>2. MaxNode \in Nat  BY DriverAssumption
<1>3. Coupled(After(0))
  <2>1. Coupled(ReadConfig(id, zwcfg))  BY DEF ReadConfig, Coupled, HasWait, NULL, NoReply
  <2> QED  BY <2>1, NodeBitsDef
<1>4. \A n \in 1..MaxNode : After(n) = HandleNodeBit(After(n - 1), n, zwcfg)
  BY NodeBitsDef
<1> HIDE DEF After
<1>5. Bad = {}
  <2> SUFFICES ASSUME Bad # {} PROVE FALSE
    OBVIOUS
  <2>1. PICK n \in Bad : \A m \in Bad : n <= m
    <3>1. Bad \subseteq Nat  BY <1>2
    <3> HIDE DEF Bad
    <3> QED  BY <3>1, LeastNatural
  <2>2. n \in 1..MaxNode /\ n - 1 \in 0..MaxNode /\ n - 1 \notin Bad
    BY <1>2, <1>3, <2>1
  <2> QED  BY <1>4, <2>1, <2>2, HandleNodeBitCoupled
<1> QED  BY <1>1, <1>2, <1>5 DEF After

LEMMA NextCoupled ==
  ASSUME Coupled(drv), [Next]_vars
  PROVE  Coupled(drv')
<1> USE DEF Coupled
<1>0. HasWait(drv)  OBVIOUS
<1> HIDE DEF Coupled
<1>1. CASE NotifyWatchers
  <2> DEFINE S == [drv EXCEPT !.notify = Tail(@)]
  <2>1. Keeps(drv, S)  BY <1>0 DEF Keeps, HasWait
  <2>2. PICK n : drv' \in {S, SetQueryStage(S, n, Dynamic)}
    BY <1>1 DEF NotifyWatchers
  <2> HIDE DEF S
  <2>3. Keeps(drv, SetQueryStage(S, n, Dynamic))
    BY <1>0, <2>1, KeepsTransitive, SetQueryStageKeeps
  <2> QED  BY <2>1, <2>2, <2>3, DropsCoupled DEF Drops, Keeps
<1>2. Keeps(drv, TakeNext)  BY <1>0 DEF Keeps, HasWait, TakeNext
<1>3. CASE WriteNextMsg
  <2> DEFINE S == [TakeNext EXCEPT !.cur = NextItem]
  <2>1. HasWait(S) /\ S.cur = NextItem  BY <1>0, <1>2 DEF Keeps, HasWait
  <2>2. drv' = WriteMsg(S) /\ NextItem.cmd = "SendMsg"  BY <1>3 DEF WriteNextMsg, Write
  <2> HIDE DEF S
  <2> QED  BY <2>1, <2>2, WriteMsgCoupled DEF IsMsg
<1>4. CASE CompleteStage
  <2> DEFINE n == NextItem.node
             S == IF NextItem.retry THEN TakeNext
                  ELSE QueryStageComplete(TakeNext, n, NextItem.ask)
  <2>1. drv' = AdvanceQueries(S, n)  BY <1>4 DEF CompleteStage
  <2>2. Keeps(drv, S)
    BY <1>0, <1>2, KeepsTransitive, QueryStageCompleteKeeps
  <2> HIDE DEF S, n
  <2>3. Keeps(drv, drv')
    BY <1>0, <2>1, <2>2, KeepsTransitive, AdvanceQueriesKeeps
  <2> QED  BY <2>3, DropsCoupled DEF Drops, Keeps
<1>5. CASE Timeout
  <2>1. drv' = WriteMsg(drv) /\ IsMsg(drv.cur)
    BY <1>5 DEF Timeout, Write, Waiting, Coupled
  <2> QED  BY <1>0, <2>1, WriteMsgCoupled
<1>6. CASE ReadCan
  <2> DEFINE S == [drv EXCEPT !.cur.max = IF @ + 1 < MAX_MAX_TRIES THEN @ + 1 ELSE @]
  <2>1. drv' = WriteMsg(S) /\ IsMsg(drv.cur)
    BY <1>6 DEF ReadCan, Write, Waiting, Coupled
  <2>2. /\ HasWait(S) /\ DOMAIN S.cur = DOMAIN drv.cur
        /\ "cmd" \in DOMAIN drv.cur => S.cur.cmd = drv.cur.cmd
    BY <1>0 DEF HasWait
  <2> HIDE DEF S
  <2> QED  BY <2>1, <2>2, WriteMsgCoupled DEF IsMsg
<1>7. ASSUME NEW f \in wire, ReadProtocolInfo(f) \/ ReadRoutingInfo(f) \/ ReadSendData(f)
                               \/ ReadCommand(f) \/ ReadUpdate(f)
      PROVE  Coupled(drv')
  <2>1. CASE ReadProtocolInfo(f)
    <3>1. PICK exists : drv' = GenericCallback(HandleGetNodeProtocolInfoResponse(drv, f, exists), f)
      BY <2>1 DEF ReadProtocolInfo
    <3> QED
      BY <1>0, <3>1, HandleGetNodeProtocolInfoResponseKeeps, DropsCoupled,
         GenericCallbackCoupled DEF Drops, Keeps
  <2>2. CASE ReadRoutingInfo(f)
    BY <2>2, GenericCallbackCoupled DEF ReadRoutingInfo
  <2>3. CASE ReadSendData(f)
    <3>1. PICK status : drv' = GenericCallback(HandleSendDataRequest(drv, f.byte2, status), f)
      BY <2>3 DEF ReadSendData
    <3> QED
      BY <1>0, <3>1, HandleSendDataRequestDrops, DropsCoupled, GenericCallbackCoupled
  <2>4. CASE ReadCommand(f)
    <3> DEFINE S == Heard(drv, f.node)
               T == IF f.node \in DOMAIN drv.nodes THEN HandleMsg(S, f) ELSE drv
    <3>1. drv' = GenericCallback(T, f)  BY <2>4 DEF ReadCommand
    <3>2. HasWait(S) /\ Keeps(drv, S)  BY <1>0, HeardKeeps, KeepsTransitive
    <3>3. Keeps(drv, T)
      <4>1. Keeps(S, HandleMsg(S, f)) /\ Keeps(drv, drv)
        BY <3>2, HandleMsgKeeps DEF Keeps
      <4> QED  BY <1>0, <3>2, <4>1, KeepsTransitive
    <3> HIDE DEF T
    <3> QED  BY <3>1, <3>3, DropsCoupled, GenericCallbackCoupled DEF Drops, Keeps
  <2>5. CASE ReadUpdate(f)
    BY <2>5, HandleNodeInfoCoupled, HandleNodeInfoFailedCoupled DEF ReadUpdate
  <2> QED  BY <1>7, <2>1, <2>2, <2>3, <2>4, <2>5
<1>8. ASSUME NEW n \in Nodes, WakeUpNotification(n) \/ NodeInfoSent(n) \/ ReportSent(n)
                                \/ NewIdAssigned(n) \/ DeleteDone(n)
      PROVE  Coupled(drv')
  <2>1. CASE WakeUpNotification(n)
    <3> DEFINE S == Heard(drv, n)
               T == HandleWakeUpNotification(S, n)
    <3>1. PICK g : drv' = GenericCallback(T, g)  BY <2>1 DEF WakeUpNotification
    <3>2. HasWait(S) /\ Keeps(drv, S)  BY <1>0, HeardKeeps, KeepsTransitive
    <3>3. Keeps(drv, T)  BY <1>0, <3>2, HandleWakeUpNotificationKeeps, KeepsTransitive
    <3> HIDE DEF T
    <3> QED  BY <3>1, <3>3, DropsCoupled, GenericCallbackCoupled DEF Drops, Keeps
  <2>2. CASE NodeInfoSent(n)
    BY <2>2, HandleNodeInfoCoupled DEF NodeInfoSent
  <2>3. CASE ReportSent(n)
    <3>1. PICK g : drv' = GenericCallback(Heard(drv, n), g)  BY <2>3 DEF ReportSent
    <3> QED  BY <1>0, <3>1, HeardKeeps, DropsCoupled, GenericCallbackCoupled DEF Drops, Keeps
  <2>4. HasWait(Revive(drv, n)) /\ Keeps(drv, Revive(drv, n))
    BY <1>0, ReviveKeeps, KeepsTransitive
  <2>5. CASE NewIdAssigned(n)
    <3> DEFINE T == InitNode(Revive(drv, n), n)
    <3>1. PICK g : drv' = GenericCallback(T, g)  BY <2>5 DEF NewIdAssigned
    <3>2. Drops(drv, T)  BY <1>0, <2>4, InitNodeDrops, KeepsTransitive
    <3> HIDE DEF T
    <3> QED  BY <3>1, <3>2, DropsCoupled, GenericCallbackCoupled
  <2>6. CASE DeleteDone(n)
    <3> DEFINE T == DeleteNode(Revive(drv, n), n)
    <3>1. PICK g : drv' = GenericCallback(T, g)  BY <2>6 DEF DeleteDone
    <3>2. Drops(drv, T)  BY <1>0, <2>4, DeleteNodeDrops, KeepsTransitive
    <3> HIDE DEF T
    <3> QED  BY <3>1, <3>2, DropsCoupled, GenericCallbackCoupled
  <2> QED  BY <1>8, <2>1, <2>2, <2>3, <2>5, <2>6
<1>9. CASE UNCHANGED vars
  BY <1>9 DEF vars
<1> QED  BY <1>1, <1>3, <1>4, <1>5, <1>6, <1>7, <1>8, <1>9 DEF Next, ReadMsg

\* In DriverThreadProc the thread waits for an answer exactly while it has a
\* current message, whatever frames come, late, lost or unsolicited, and
\* whichever nodes sleep, die, come and go: m_currentMsg, m_expectedCallbackId
\* and m_expectedReply are cleared together.
THEOREM WaitsForItsMessage == Spec => []NeverWaitsForNothing
<1>1. Init => Coupled(drv)  BY InitCoupled
<1>2. Coupled(drv) /\ [Next]_vars => Coupled(drv)'  BY NextCoupled
<1>3. Coupled(drv) => NeverWaitsForNothing
  BY DEF Coupled, NeverWaitsForNothing, Waiting
<1> QED  BY <1>1, <1>2, <1>3, PTL DEF Spec

-----------------------------------------------------------------------------
(* Sequences and the items in them. *)

LEMMA SeqSet ==
  ASSUME NEW X, NEW s \in Seq(X)
  PROVE  /\ ToSet(s) \subseteq X
         /\ ToSet(s) = {s[i] : i \in 1..Len(s)}
         /\ Len(s) \in Nat
<1>1. DOMAIN s = 1..Len(s) /\ Len(s) \in Nat  BY LenProperties
<1>2. \A i \in 1..Len(s) : s[i] \in X  BY ElementOfSeq
<1> QED  BY <1>1, <1>2 DEF ToSet

LEMMA EmptySet ==
  ASSUME NEW X
  PROVE  <<>> \in Seq(X) /\ ToSet(<<>>) = {}
BY DEF ToSet

LEMMA AppendSet ==
  ASSUME NEW X, NEW s \in Seq(X), NEW e \in X
  PROVE  Append(s, e) \in Seq(X) /\ ToSet(Append(s, e)) = ToSet(s) \cup {e}
<1> DEFINE t == Append(s, e)
<1>1. /\ t \in Seq(X) /\ Len(t) = Len(s) + 1 /\ t[Len(s) + 1] = e
      /\ \A i \in 1..Len(s) : t[i] = s[i]
  BY AppendProperties
<1>2. ToSet(s) = {s[i] : i \in 1..Len(s)} /\ Len(s) \in Nat  BY SeqSet
<1>3. ToSet(t) = {t[i] : i \in 1..Len(s) + 1}  BY <1>1, SeqSet
<1> HIDE DEF t
<1>4. \A i \in 1..Len(s) + 1 : i \in 1..Len(s) \/ i = Len(s) + 1  BY <1>2
<1>5. \A i \in 1..Len(s) : i \in 1..Len(s) + 1  BY <1>2
<1>6. Len(s) + 1 \in 1..Len(s) + 1  BY <1>2
<1>7. ToSet(t) \subseteq ToSet(s) \cup {e}  BY <1>1, <1>2, <1>3, <1>4
<1>8. ToSet(s) \cup {e} \subseteq ToSet(t)  BY <1>1, <1>2, <1>3, <1>5, <1>6
<1> QED  BY <1>1, <1>7, <1>8 DEF t

LEMMA ConcatSet ==
  ASSUME NEW X, NEW s \in Seq(X), NEW t \in Seq(X)
  PROVE  s \o t \in Seq(X) /\ ToSet(s \o t) = ToSet(s) \cup ToSet(t)
<1>1. s \o t \in Seq(X)  OBVIOUS
<1>2. Range(s \o t) = Range(s) \cup Range(t)  BY RangeConcatenation
<1> QED  BY <1>1, <1>2 DEF Range, ToSet

LEMMA TailSet ==
  ASSUME NEW X, NEW s \in Seq(X), s # <<>>
  PROVE  /\ Head(s) \in X /\ Tail(s) \in Seq(X)
         /\ ToSet(s) = ToSet(Tail(s)) \cup {Head(s)}
<1> DEFINE h == <<Head(s)>>
           t == Tail(s)
<1>1. Head(s) \in X /\ t \in Seq(X) /\ s = h \o t
  OBVIOUS
<1>2. h \in Seq(X) /\ ToSet(h) = {Head(s)}
  BY <1>1 DEF ToSet
<1> HIDE DEF h, t
<1>3. ToSet(h \o t) = ToSet(h) \cup ToSet(t)
  BY <1>1, <1>2, ConcatSet
<1> QED  BY <1>1, <1>2, <1>3 DEF t

\* The recursion of Only is well-founded.
LEMMA OnlyDef ==
  ASSUME NEW X, NEW s \in Seq(X), NEW K
  PROVE  \E kept : /\ Only(s, K) = kept[Len(s)] /\ kept[0] = <<>>
                   /\ \A i \in 1..Len(s) :
                        kept[i] = IF s[i] \in K THEN Append(kept[i - 1], s[i]) ELSE kept[i - 1]
<1> DEFINE Body(f, i) == IF i = 0 THEN <<>>
                         ELSE IF s[i] \in K THEN Append(f[i - 1], s[i]) ELSE f[i - 1]
           Upto(f, k) == f = [i \in 0..k |-> Body(f, i)]
           Short == {k \in Nat : ~\E f : Upto(f, k)}
<1>1. Short = {}
  <2> SUFFICES ASSUME Short # {} PROVE FALSE
    OBVIOUS
  <2>1. PICK k \in Short : \A j \in Short : k <= j
    BY LeastNatural
  <2>2. CASE k = 0
    <3> DEFINE g == [i \in 0..0 |-> <<>>]
    <3>1. Upto(g, 0)  OBVIOUS
    <3> QED  BY <2>1, <2>2, <3>1
  <2>3. CASE k # 0
    <3>1. k - 1 \in Nat /\ k - 1 \notin Short
      <4> HIDE DEF Upto
      <4> QED  BY <2>1, <2>3
    <3>2. PICK f : Upto(f, k - 1)  BY <3>1
    <3> DEFINE g == [i \in 0..k |-> IF i = k THEN Body(f, k) ELSE f[i]]
    <3>3. \A i \in 0..k - 1 : g[i] = f[i]  BY <2>1
    <3>4. \A i \in 0..k : g[i] = Body(g, i)
      <4> TAKE i \in 0..k
      <4>1. CASE i = k
        BY <2>1, <2>3, <3>3, <4>1
      <4>2. CASE i # k
        <5>1. i \in 0..k - 1 /\ (i # 0 => i - 1 \in 0..k - 1)  BY <2>1, <4>2
        <5>2. f[i] = Body(f, i)  BY <3>2, <5>1
        <5>3. g[i] = f[i] /\ (i # 0 => g[i - 1] = f[i - 1])  BY <3>3, <5>1
        <5> HIDE DEF g
        <5> QED  BY <5>2, <5>3
      <4> QED  BY <4>1, <4>2
    <3>5. g = [i \in 0..k |-> g[i]]  OBVIOUS
    <3> HIDE DEF g
    <3>6. Upto(g, k)  BY <3>4, <3>5
    <3> QED  BY <2>1, <3>6
  <2> QED  BY <2>2, <2>3
<1>2. Len(s) \in Nat  OBVIOUS
<1>3. \E f : f = [i \in 0..Len(s) |->
                   IF i = 0 THEN <<>>
                   ELSE IF s[i] \in K THEN Append(f[i - 1], s[i]) ELSE f[i - 1]]
  BY <1>1, <1>2
<1> DEFINE F == CHOOSE f : f = [i \in 0..Len(s) |->
                   IF i = 0 THEN <<>>
                   ELSE IF s[i] \in K THEN Append(f[i - 1], s[i]) ELSE f[i - 1]]
<1>4. F = [i \in 0..Len(s) |->
                   IF i = 0 THEN <<>>
                   ELSE IF s[i] \in K THEN Append(F[i - 1], s[i]) ELSE F[i - 1]]
  BY <1>3, Zenon
<1>5. Only(s, K) = F[Len(s)]  BY Zenon DEF Only
<1> HIDE DEF F
<1>6. F[0] = <<>>  BY <1>2, <1>4
<1>7. \A i \in 1..Len(s) :
        F[i] = IF s[i] \in K THEN Append(F[i - 1], s[i]) ELSE F[i - 1]
  <2> TAKE i \in 1..Len(s)
  <2>1. i \in 0..Len(s) /\ i # 0  BY <1>2
  <2> QED  BY <1>4, <2>1, Zenon
<1> QED  BY <1>5, <1>6, <1>7, Zenon

LEMMA OnlySet ==
  ASSUME NEW X, NEW s \in Seq(X), NEW K
  PROVE  Only(s, K) \in Seq(X) /\ ToSet(Only(s, K)) = ToSet(s) \cap K
<1>1. PICK kept : /\ Only(s, K) = kept[Len(s)] /\ kept[0] = <<>>
                  /\ \A i \in 1..Len(s) :
                        kept[i] = IF s[i] \in K THEN Append(kept[i - 1], s[i]) ELSE kept[i - 1]
  BY OnlyDef
<1>2. Len(s) \in Nat /\ \A i \in 1..Len(s) : s[i] \in X  OBVIOUS
<1> DEFINE First(i) == {s[j] : j \in 1..i} \cap K
           Good(i) == kept[i] \in Seq(X) /\ ToSet(kept[i]) = First(i)
           Bad == {i \in 0..Len(s) : ~Good(i)}
<1>3. Good(0)  BY <1>1, EmptySet
<1>4. ASSUME NEW i \in 1..Len(s), Good(i - 1) PROVE Good(i)
  <2>1. \A j \in 1..i : j \in 1..i - 1 \/ j = i  BY <1>2
  <2>2. i \in 1..i /\ \A j \in 1..i - 1 : j \in 1..i  BY <1>2
  <2>3. First(i) = First(i - 1) \cup ({s[i]} \cap K)  BY <2>1, <2>2
  <2>4. CASE s[i] \in K
    <3>1. kept[i] = Append(kept[i - 1], s[i])  BY <1>1, <2>4
    <3>2. Append(kept[i - 1], s[i]) \in Seq(X) /\
            ToSet(Append(kept[i - 1], s[i])) = ToSet(kept[i - 1]) \cup {s[i]}
      BY <1>2, <1>4, AppendSet
    <3> HIDE DEF First
    <3> QED  BY <1>4, <2>3, <2>4, <3>1, <3>2
  <2>5. CASE s[i] \notin K
    <3> HIDE DEF First
    <3> QED  BY <1>1, <1>4, <2>3, <2>5
  <2> QED  BY <2>4, <2>5
<1> HIDE DEF Good
<1>5. Bad = {}
  <2> SUFFICES ASSUME Bad # {} PROVE FALSE
    OBVIOUS
  <2>1. PICK i \in Bad : \A j \in Bad : i <= j
    <3>1. Bad \subseteq Nat  BY <1>2
    <3> HIDE DEF Bad
    <3> QED  BY <3>1, LeastNatural
  <2>2. i \in 1..Len(s) /\ i - 1 \in 0..Len(s) /\ i - 1 \notin Bad
    BY <1>2, <1>3, <2>1
  <2> QED  BY <1>4, <2>1, <2>2
<1>6. Good(Len(s))  BY <1>2, <1>5
<1>7. First(Len(s)) = ToSet(s) \cap K  BY SeqSet
<1> QED  BY <1>1, <1>6, <1>7 DEF Good

-----------------------------------------------------------------------------
(* Messages and stage items. *)

Message ==
  [cmd : {"SendMsg"}, node : Nodes, ask : None..IntervalSet, id : 0..255,
   tries : 0..MAX_MAX_TRIES - 1, max : 1..MAX_MAX_TRIES - 1]
Mark == [cmd : {"QueryStageComplete"}, node : Nodes, ask : None..Complete, retry : BOOLEAN]
Items == {m \in Message : Item(m)} \cup Mark

IsMark(i) == i.cmd = "QueryStageComplete"

\* The items that wait in node n, and whether the end of a stage is among them.
WaitsIn(w, n) ==
  /\ w \in Seq(Items)
  /\ \A i \in ToSet(w) : i.node = n /\ (i.cmd = "SendMsg" => i.tries = 0)
HasMark(w, stage) == \E i \in ToSet(w) : IsMark(i) /\ i.ask = stage

LEMMA ItemKinds ==
  /\ \A i \in Items : IsMark(i) => i \in Mark
  /\ \A i \in Items : i.cmd = "SendMsg" => i \in Message /\ Item(i)
  /\ \A i \in Items : i.node \in Nodes /\ Item(i) /\ i.cmd \in {"SendMsg", "QueryStageComplete"}
<1>1. \A i \in Mark : Item(i) /\ i.cmd = "QueryStageComplete" /\ i.node \in Nodes
  BY DEF Mark, Item
<1>2. \A i \in Message : i.cmd = "SendMsg" /\ i.node \in Nodes
  BY DEF Message
<1> QED  BY <1>1, <1>2 DEF Items, IsMark

LEMMA ResetItem ==
  ASSUME NEW item \in Items, item.cmd = "SendMsg"
  PROVE  LET m == [item EXCEPT !.tries = 0]
         IN  m \in Items /\ m.node = item.node /\ m.cmd = "SendMsg" /\ m.tries = 0
<1> DEFINE m == [item EXCEPT !.tries = 0]
<1>1. item \in Message /\ Item(item)  BY ItemKinds
<1>2. m \in Message  BY <1>1 DEF Message, MAX_MAX_TRIES
<1>3. m.node = item.node /\ m.cmd = "SendMsg" /\ m.tries = 0 /\ m.ask = item.ask
        /\ m.id = item.id /\ m.max = item.max
  BY <1>1 DEF Message
<1> HIDE DEF m
<1>4. Item(m)  BY <1>1, <1>3 DEF Item, MAX_MAX_TRIES
<1>5. m \in Items  BY <1>2, <1>4 DEF Items
<1> QED  BY <1>3, <1>5 DEF m

LEMMA QueueMsgWaits ==
  ASSUME NEW n, NEW w, WaitsIn(w, n), NEW item \in Items, item.node = n
  PROVE  /\ WaitsIn(QueueMsg(w, item), n)
         /\ \A a : HasMark(w, a) => HasMark(QueueMsg(w, item), a)
         /\ IsMark(item) => HasMark(QueueMsg(w, item), item.ask)
<1> DEFINE K == {i \in ToSet(w) : ~Same(i, item)}
           m == IF item.cmd = "SendMsg" THEN [item EXCEPT !.tries = 0] ELSE item
<1>1. w \in Seq(Items)  BY DEF WaitsIn
<1>2. m \in Items /\ m.node = n /\ (m.cmd = "SendMsg" => m.tries = 0) /\ (IsMark(item) => m = item)
  BY ResetItem DEF IsMark
<1>3. QueueMsg(w, item) = Append(Only(w, K), m)  BY DEF QueueMsg
<1> HIDE DEF m, K
<1>4. Only(w, K) \in Seq(Items) /\ ToSet(Only(w, K)) = ToSet(w) \cap K
  BY <1>1, OnlySet
<1>5. /\ QueueMsg(w, item) \in Seq(Items)
      /\ ToSet(QueueMsg(w, item)) = (ToSet(w) \cap K) \cup {m}
  BY <1>2, <1>3, <1>4, AppendSet
<1>6. WaitsIn(QueueMsg(w, item), n)
  BY <1>2, <1>5 DEF WaitsIn
<1>7. ASSUME NEW a, HasMark(w, a) PROVE HasMark(QueueMsg(w, item), a)
  <2>1. PICK i \in ToSet(w) : IsMark(i) /\ i.ask = a  BY <1>7 DEF HasMark
  <2>2. CASE Same(i, item)
    <3>1. IsMark(item) /\ item.ask = a  BY <2>1, <2>2 DEF Same, IsMark
    <3> QED  BY <1>2, <1>5, <3>1 DEF HasMark
  <2>3. CASE ~Same(i, item)
    BY <1>5, <2>1, <2>3 DEF HasMark, K
  <2> QED  BY <2>2, <2>3
<1>8. IsMark(item) => HasMark(QueueMsg(w, item), item.ask)
  BY <1>2, <1>5 DEF HasMark
<1> QED  BY <1>6, <1>7, <1>8

\* The recursion of QueueAll is well-founded.
LEMMA QueueAllDef ==
  ASSUME NEW w, NEW X, NEW items \in Seq(X)
  PROVE  \E after : /\ QueueAll(w, items) = after[Len(items)] /\ after[0] = w
                    /\ \A i \in 1..Len(items) : after[i] = QueueMsg(after[i - 1], items[i])
<1> DEFINE Body(f, i) == IF i = 0 THEN w ELSE QueueMsg(f[i - 1], items[i])
           Upto(f, k) == f = [i \in 0..k |-> Body(f, i)]
           Short == {k \in Nat : ~\E f : Upto(f, k)}
<1>1. Short = {}
  <2> SUFFICES ASSUME Short # {} PROVE FALSE
    OBVIOUS
  <2>1. PICK k \in Short : \A j \in Short : k <= j
    BY LeastNatural
  <2>2. CASE k = 0
    <3> DEFINE g == [i \in 0..0 |-> w]
    <3>1. Upto(g, 0)  OBVIOUS
    <3> QED  BY <2>1, <2>2, <3>1
  <2>3. CASE k # 0
    <3>1. k - 1 \in Nat /\ k - 1 \notin Short
      <4> HIDE DEF Upto
      <4> QED  BY <2>1, <2>3
    <3>2. PICK f : Upto(f, k - 1)  BY <3>1
    <3> DEFINE g == [i \in 0..k |-> IF i = k THEN Body(f, k) ELSE f[i]]
    <3>3. \A i \in 0..k - 1 : g[i] = f[i]  BY <2>1
    <3>4. \A i \in 0..k : g[i] = Body(g, i)
      <4> TAKE i \in 0..k
      <4>1. CASE i = k
        BY <2>1, <2>3, <3>3, <4>1
      <4>2. CASE i # k
        <5>1. i \in 0..k - 1 /\ (i # 0 => i - 1 \in 0..k - 1)  BY <2>1, <4>2
        <5>2. f[i] = Body(f, i)  BY <3>2, <5>1
        <5>3. g[i] = f[i] /\ (i # 0 => g[i - 1] = f[i - 1])  BY <3>3, <5>1
        <5> HIDE DEF g
        <5> QED  BY <5>2, <5>3
      <4> QED  BY <4>1, <4>2
    <3>5. g = [i \in 0..k |-> g[i]]  OBVIOUS
    <3> HIDE DEF g
    <3>6. Upto(g, k)  BY <3>4, <3>5
    <3> QED  BY <2>1, <3>6
  <2> QED  BY <2>2, <2>3
<1>2. Len(items) \in Nat  OBVIOUS
<1>3. \E f : f = [i \in 0..Len(items) |-> IF i = 0 THEN w ELSE QueueMsg(f[i - 1], items[i])]
  BY <1>1, <1>2
<1> DEFINE F == CHOOSE f : f = [i \in 0..Len(items) |->
                                  IF i = 0 THEN w ELSE QueueMsg(f[i - 1], items[i])]
<1>4. F = [i \in 0..Len(items) |-> IF i = 0 THEN w ELSE QueueMsg(F[i - 1], items[i])]
  BY <1>3, Zenon
<1>5. QueueAll(w, items) = F[Len(items)]  BY Zenon DEF QueueAll
<1> HIDE DEF F
<1>6. F[0] = w  BY <1>2, <1>4
<1>7. \A i \in 1..Len(items) : F[i] = QueueMsg(F[i - 1], items[i])
  <2> TAKE i \in 1..Len(items)
  <2>1. i \in 0..Len(items) /\ i # 0  BY <1>2
  <2> QED  BY <1>4, <2>1, Zenon
<1> QED  BY <1>5, <1>6, <1>7, Zenon

LEMMA QueueAllWaits ==
  ASSUME NEW n, NEW w, WaitsIn(w, n), NEW items \in Seq(Items),
         \A i \in ToSet(items) : i.node = n
  PROVE  /\ WaitsIn(QueueAll(w, items), n)
         /\ \A a : HasMark(w, a) \/ HasMark(items, a) => HasMark(QueueAll(w, items), a)
<1>1. PICK after : /\ QueueAll(w, items) = after[Len(items)] /\ after[0] = w
                   /\ \A i \in 1..Len(items) : after[i] = QueueMsg(after[i - 1], items[i])
  BY QueueAllDef
<1>2. Len(items) \in Nat /\ \A i \in 1..Len(items) : items[i] \in Items /\ items[i].node = n
  BY SeqSet
<1> DEFINE Good(k) ==
             /\ WaitsIn(after[k], n)
             /\ \A a : HasMark(w, a) => HasMark(after[k], a)
             /\ \A j \in 1..k : IsMark(items[j]) => HasMark(after[k], items[j].ask)
           Bad == {k \in 0..Len(items) : ~Good(k)}
<1>3. Good(0)  BY <1>1
<1>4. ASSUME NEW k \in 1..Len(items), Good(k - 1) PROVE Good(k)
  <2>1. /\ WaitsIn(after[k], n)
        /\ \A a : HasMark(after[k - 1], a) => HasMark(after[k], a)
        /\ IsMark(items[k]) => HasMark(after[k], items[k].ask)
    BY <1>1, <1>2, <1>4, QueueMsgWaits
  <2>2. \A j \in 1..k : j \in 1..k - 1 \/ j = k  BY <1>2
  <2> QED  BY <1>4, <2>1, <2>2
<1> HIDE DEF Good
<1>5. Bad = {}
  <2> SUFFICES ASSUME Bad # {} PROVE FALSE
    OBVIOUS
  <2>1. PICK k \in Bad : \A j \in Bad : k <= j
    <3>1. Bad \subseteq Nat  BY <1>2
    <3> HIDE DEF Bad
    <3> QED  BY <3>1, LeastNatural
  <2>2. k \in 1..Len(items) /\ k - 1 \in 0..Len(items) /\ k - 1 \notin Bad
    BY <1>2, <1>3, <2>1
  <2> QED  BY <1>4, <2>1, <2>2
<1>6. Good(Len(items))  BY <1>2, <1>5
<1>7. \A a : HasMark(items, a) =>
              \E j \in 1..Len(items) : IsMark(items[j]) /\ items[j].ask = a
  BY SeqSet DEF HasMark
<1> QED  BY <1>1, <1>6, <1>7 DEF Good

-----------------------------------------------------------------------------
(* What keeps the queries of a node going. *)

DriverFields ==
  {"queue", "cur", "cb", "reply", "nodes", "nextId", "awakeQueried", "allQueried", "notify"}
NodeFields ==
  {"stage", "pending", "retries", "alive", "errors", "info", "nif", "optional", "answered",
   "listening", "wake", "awake", "notified", "waiting"}

NodeOK(x, n) ==
  /\ DOMAIN x = NodeFields
  /\ x.stage \in None..Complete /\ x.retries \in 0..2 /\ x.errors \in 0..3
  /\ WaitsIn(x.waiting, n)

Typed(S) ==
  /\ DOMAIN S = DriverFields
  /\ DOMAIN S.queue = Queues
  /\ \A q \in Queues : /\ S.queue[q] \in Seq(Items)
                       /\ \A i \in ToSet(S.queue[q]) : i.node \in DOMAIN S.nodes
  /\ S.cur # NULL => S.cur \in Items /\ S.cur.cmd = "SendMsg" /\ S.cur.node \in DOMAIN S.nodes
  /\ DOMAIN S.nodes \subseteq Nodes
  /\ \A n \in DOMAIN S.nodes : NodeOK(S.nodes[n], n)
  /\ S.nextId \in {0} \cup FirstId..255

\* A step that is about node n only.
Step(S, T, n) ==
  /\ Typed(T)
  /\ DOMAIN T.nodes = DOMAIN S.nodes
  /\ \A m \in DOMAIN S.nodes : m # n => T.nodes[m] = S.nodes[m]
  /\ \A i \in ToSet(S.queue[QueryQueue]) : i.node # n => i \in ToSet(T.queue[QueryQueue])

\* The end of a stage of node n is in the query queue, to be carried out, or in
\* the node, which sleeps.
FreshMark(S, n, stage) ==
  \/ \E i \in ToSet(S.queue[QueryQueue]) :
       IsMark(i) /\ i.node = n /\ i.ask = stage /\ i.retry = FALSE
  \/ Asleep(S, n) /\ HasMark(S.nodes[n].waiting, stage)
Marked(S, n) ==
  \/ Marks(S.queue[QueryQueue], n)
  \/ Asleep(S, n) /\ Marks(S.nodes[n].waiting, n)

\* While the question of a stage is pending, the end of that stage is queued.
Pending(S, n) ==
  /\ S.nodes[n].pending => S.nodes[n].stage # Complete /\ FreshMark(S, n, S.nodes[n].stage)
  /\ S.nodes[n].wake => S.nodes[n].info
  /\ S.nodes[n].pending \/ ~S.nodes[n].alive => S.nodes[n].stage # None
Going(S, n) ==
  /\ Pending(S, n) /\ S.nodes[n].stage # None
  /\ S.nodes[n].alive /\ S.nodes[n].stage # Complete => Marked(S, n)

\* A step of n that keeps its marks and what they are for.
Carries(S, T, n) ==
  /\ Step(S, T, n)
  /\ \A i \in ToSet(S.queue[QueryQueue]) : i \in ToSet(T.queue[QueryQueue])
  /\ \A a : HasMark(S.nodes[n].waiting, a) => HasMark(T.nodes[n].waiting, a)
  /\ Asleep(S, n) => Asleep(T, n)

\* The record of node n is the same but for the items that wait.
SameNode(S, T, n) ==
  \A a \in NodeFields \ {"waiting"} : T.nodes[n][a] = S.nodes[n][a]

LEMMA StepTransitive ==
  ASSUME NEW S, NEW T, NEW U, NEW n, Step(S, T, n), Step(T, U, n)
  PROVE  Step(S, U, n)
BY DEF Step

LEMMA CarriesTransitive ==
  ASSUME NEW S, NEW T, NEW U, NEW n, Carries(S, T, n), Carries(T, U, n)
  PROVE  Carries(S, U, n)
<1>1. Step(S, U, n)  BY StepTransitive DEF Carries
<1> QED  BY <1>1 DEF Carries

LEMMA CarriesMarks ==
  ASSUME NEW S, NEW T, NEW n, Typed(S), n \in DOMAIN S.nodes, Carries(S, T, n)
  PROVE  /\ \A a : FreshMark(S, n, a) => FreshMark(T, n, a)
         /\ Marked(S, n) => Marked(T, n)
<1>1. \A a : FreshMark(S, n, a) => FreshMark(T, n, a)
  BY DEF Carries, FreshMark
<1>2. Typed(T) /\ n \in DOMAIN T.nodes  BY DEF Carries, Step
<1>3. \A i \in ToSet(T.nodes[n].waiting) : i.node = n
  BY <1>2 DEF Typed, NodeOK, WaitsIn
<1>4. Marks(S.nodes[n].waiting, n) => Marks(T.nodes[n].waiting, n)
  BY <1>3 DEF Carries, Marks, HasMark, IsMark
<1>5. Marks(S.queue[QueryQueue], n) => Marks(T.queue[QueryQueue], n)
  BY DEF Carries, Marks
<1> QED  BY <1>1, <1>4, <1>5 DEF Marked, Carries

LEMMA FreshIsMarked ==
  ASSUME NEW S, NEW n, NEW a, Typed(S), n \in DOMAIN S.nodes, FreshMark(S, n, a)
  PROVE  Marked(S, n)
<1>1. \A i \in ToSet(S.nodes[n].waiting) : i.node = n
  BY DEF Typed, NodeOK, WaitsIn
<1> QED  BY <1>1 DEF FreshMark, Marked, Marks, HasMark, IsMark

\* A new record for node n.
LEMMA NodeStep ==
  ASSUME NEW S, NEW T, NEW n, NEW y, Typed(S), n \in DOMAIN S.nodes, NodeOK(y, n),
         DOMAIN T = DOMAIN S, T.queue = S.queue, T.cur = S.cur, T.nextId = S.nextId,
         T.nodes = [S.nodes EXCEPT ![n] = y]
  PROVE  Step(S, T, n) /\ T.nodes[n] = y
<1>1. DOMAIN T.nodes = DOMAIN S.nodes /\ T.nodes[n] = y
        /\ \A m \in DOMAIN S.nodes : m # n => T.nodes[m] = S.nodes[m]
  OBVIOUS
<1>2. \A m \in DOMAIN T.nodes : NodeOK(T.nodes[m], m)
  BY <1>1 DEF Typed
<1>3. Typed(T)  BY <1>1, <1>2 DEF Typed
<1> QED  BY <1>1, <1>3 DEF Step

\* ... that leaves the items that wait, and whether it sleeps.
LEMMA NodeCarries ==
  ASSUME NEW S, NEW T, NEW n, NEW y, Typed(S), n \in DOMAIN S.nodes, NodeOK(y, n),
         DOMAIN T = DOMAIN S, T.queue = S.queue, T.cur = S.cur, T.nextId = S.nextId,
         T.nodes = [S.nodes EXCEPT ![n] = y],
         y.waiting = S.nodes[n].waiting, y.listening = S.nodes[n].listening,
         y.wake = S.nodes[n].wake, y.awake = S.nodes[n].awake
  PROVE  Carries(S, T, n) /\ T.nodes[n] = y
<1>1. Step(S, T, n) /\ T.nodes[n] = y  BY NodeStep
<1> QED  BY <1>1 DEF Carries, Asleep, Step

LEMMA EnqueueCarries ==
  ASSUME NEW S, NEW n, NEW item, NEW q \in Queues, Typed(S), n \in DOMAIN S.nodes,
         item \in Items, item.node = n
  PROVE  /\ Carries(S, Enqueue(S, item, q), n)
         /\ SameNode(S, Enqueue(S, item, q), n)
         /\ IsMark(item) /\ item.retry = FALSE /\ q = QueryQueue =>
              FreshMark(Enqueue(S, item, q), n, item.ask)
<1> DEFINE T == Enqueue(S, item, q)
           x == S.nodes[n]
           w == QueueMsg(x.waiting, item)
           y == [x EXCEPT !.waiting = w]
<1>0. NodeOK(x, n)  BY DEF Typed
<1>1. CASE Asleep(S, n)
  <2>1. /\ WaitsIn(w, n)
        /\ \A a : HasMark(x.waiting, a) => HasMark(w, a)
        /\ IsMark(item) => HasMark(w, item.ask)
    BY <1>0, QueueMsgWaits DEF NodeOK
  <2>2. T = [S EXCEPT !.nodes[n].waiting = w]
    BY <1>1 DEF Enqueue
  <2>3. /\ DOMAIN T = DOMAIN S /\ T.queue = S.queue /\ T.cur = S.cur /\ T.nextId = S.nextId
        /\ T.nodes = [S.nodes EXCEPT ![n] = y]
    <3> HIDE DEF w
    <3> QED  BY <2>2 DEF Typed, DriverFields
  <2> HIDE DEF w, T
  <2>4. NodeOK(y, n) /\ y.waiting = w /\ \A a \in NodeFields \ {"waiting"} : y[a] = x[a]
    BY <1>0, <2>1 DEF NodeOK, NodeFields
  <2> HIDE DEF y
  <2>5. Step(S, T, n) /\ T.nodes[n] = y  BY <2>3, <2>4, NodeStep
  <2>6. Asleep(T, n)
    BY <1>1, <2>4, <2>5 DEF Asleep, Step, NodeFields
  <2>7. Carries(S, T, n)  BY <2>1, <2>3, <2>4, <2>5, <2>6 DEF Carries
  <2>8. IsMark(item) => FreshMark(T, n, item.ask)
    BY <2>1, <2>4, <2>5, <2>6 DEF FreshMark
  <2>9. SameNode(S, T, n)  BY <2>4, <2>5 DEF SameNode
  <2> QED  BY <2>7, <2>8, <2>9 DEF T
<1>2. CASE ~Asleep(S, n)
  <2>1. T = [S EXCEPT !.queue[q] = Append(@, item)]
    BY <1>2 DEF Enqueue
  <2>2. /\ DOMAIN T = DOMAIN S /\ T.nodes = S.nodes /\ T.cur = S.cur /\ T.nextId = S.nextId
        /\ DOMAIN T.queue = Queues /\ T.queue[q] = Append(S.queue[q], item)
        /\ \A r \in Queues : r # q => T.queue[r] = S.queue[r]
    BY <2>1 DEF Typed, DriverFields
  <2> HIDE DEF T
  <2>3. S.queue[q] \in Seq(Items)  BY DEF Typed
  <2>4. T.queue[q] \in Seq(Items) /\ ToSet(T.queue[q]) = ToSet(S.queue[q]) \cup {item}
    BY <2>2, <2>3, AppendSet
  <2>5. Typed(T)  BY <2>2, <2>4 DEF Typed
  <2>6. \A r \in Queues : ToSet(S.queue[r]) \subseteq ToSet(T.queue[r])
    BY <2>2, <2>4
  <2>7. QueryQueue \in Queues  BY DEF QueryQueue, Queues
  <2>8. Carries(S, T, n)
    BY <2>2, <2>5, <2>6, <2>7 DEF Carries, Step, Asleep
  <2>9. IsMark(item) /\ item.retry = FALSE /\ q = QueryQueue => FreshMark(T, n, item.ask)
    BY <2>4 DEF FreshMark
  <2>10. SameNode(S, T, n)  BY <2>2 DEF SameNode
  <2> QED  BY <2>8, <2>9, <2>10 DEF T
<1> QED  BY <1>1, <1>2

-----------------------------------------------------------------------------
(* The query stages. *)

LEMMA MinIsLeast ==
  ASSUME NEW T, T \subseteq Nat, T # {}
  PROVE  Min(T) \in T /\ \A y \in T : Min(T) <= y
BY LeastNatural DEF Min

LEMMA SameNodeGoing ==
  ASSUME NEW S, NEW T, NEW n, Typed(S), n \in DOMAIN S.nodes, Carries(S, T, n),
         SameNode(S, T, n)
  PROVE  /\ Pending(S, n) => Pending(T, n)
         /\ Going(S, n) => Going(T, n)
<1>1. /\ T.nodes[n].stage = S.nodes[n].stage /\ T.nodes[n].pending = S.nodes[n].pending
      /\ T.nodes[n].alive = S.nodes[n].alive /\ T.nodes[n].wake = S.nodes[n].wake
      /\ T.nodes[n].info = S.nodes[n].info
  BY DEF SameNode, NodeFields
<1>2. /\ \A a : FreshMark(S, n, a) => FreshMark(T, n, a)
      /\ Marked(S, n) => Marked(T, n)
  BY CarriesMarks
<1> QED  BY <1>1, <1>2 DEF Pending, Going

LEMMA SendMsgCarries ==
  ASSUME NEW S, NEW n, NEW ask \in None..IntervalSet, NEW q \in Queues, Typed(S),
         n \in DOMAIN S.nodes
  PROVE  /\ Carries(S, SendMsg(S, n, ask, q), n)
         /\ SameNode(S, SendMsg(S, n, ask, q), n)
<1> DEFINE id == IF CallbackRequired(ask) THEN NextId(S.nextId) ELSE 0
           next == IF id = 0 THEN S.nextId ELSE (id + 1) % 256
           T == [S EXCEPT !.nextId = next]
           msg == [cmd |-> "SendMsg", node |-> n, ask |-> ask, id |-> id,
                   tries |-> 0, max |-> MAX_TRIES]
<1>1. SendMsg(S, n, ask, q) = Enqueue(T, msg, q)  BY DEF SendMsg
<1>2. S.nextId \in {0} \cup FirstId..255  BY DEF Typed
<1>3. id \in {0} \cup FirstId..255 /\ (CallbackRequired(ask) => id \in FirstId..255)
        /\ (~CallbackRequired(ask) => id = 0)
  BY <1>2 DEF NextId, FirstId
<1> HIDE DEF id
<1>4. next \in {0} \cup FirstId..255
  BY <1>2, <1>3 DEF FirstId
<1> HIDE DEF next
<1>5. /\ DOMAIN T = DOMAIN S /\ T.nodes = S.nodes /\ T.queue = S.queue /\ T.cur = S.cur
      /\ T.nextId = next
  BY DEF Typed, DriverFields
<1> HIDE DEF T
<1>6. Typed(T)  BY <1>4, <1>5 DEF Typed
<1>7. Carries(S, T, n)  BY <1>5, <1>6 DEF Carries, Step, Asleep
<1>8. msg \in Items /\ msg.node = n
  <2>1. n \in Nodes  BY DEF Typed
  <2>2. msg \in Message  BY <1>3, <2>1 DEF Message, MAX_TRIES, MAX_MAX_TRIES, FirstId
  <2>3. Item(msg)  BY <1>3 DEF Item, MAX_TRIES, MAX_MAX_TRIES, FirstId
  <2> QED  BY <2>2, <2>3 DEF Items
<1> HIDE DEF msg
<1>9. /\ Carries(T, Enqueue(T, msg, q), n)
      /\ SameNode(T, Enqueue(T, msg, q), n)
  <2>1. n \in DOMAIN T.nodes  BY <1>5
  <2> QED  BY <1>6, <1>8, <2>1, EnqueueCarries
<1> QED  BY <1>1, <1>5, <1>7, <1>9, CarriesTransitive DEF SameNode

LEMMA SendQueryStageCompleteMarks ==
  ASSUME NEW S, NEW n, NEW stage \in None..Complete, Typed(S), n \in DOMAIN S.nodes
  PROVE  LET T == SendQueryStageComplete(S, n, stage)
         IN  Carries(S, T, n) /\ SameNode(S, T, n) /\ FreshMark(T, n, stage)
<1> DEFINE item == [cmd |-> "QueryStageComplete", node |-> n, ask |-> stage, retry |-> FALSE]
<1>1. SendQueryStageComplete(S, n, stage) = Enqueue(S, item, QueryQueue)
  BY DEF SendQueryStageComplete
<1>2. n \in Nodes  BY DEF Typed
<1>3. item \in Mark  BY <1>2 DEF Mark
<1>4. item \in Items /\ item.node = n /\ IsMark(item) /\ item.retry = FALSE /\ item.ask = stage
  BY <1>3 DEF Items, IsMark
<1>5. QueryQueue \in Queues  BY DEF QueryQueue, Queues
<1> HIDE DEF item
<1>6. /\ Carries(S, Enqueue(S, item, QueryQueue), n)
      /\ SameNode(S, Enqueue(S, item, QueryQueue), n)
      /\ FreshMark(Enqueue(S, item, QueryQueue), n, item.ask)
  BY <1>4, <1>5, EnqueueCarries
<1> QED  BY <1>1, <1>4, <1>6

LEMMA CheckCompletedNodeQueriesCarries ==
  ASSUME NEW S, NEW n, Typed(S)
  PROVE  LET T == CheckCompletedNodeQueries(S)
         IN  Carries(S, T, n) /\ T.nodes = S.nodes /\ T.queue = S.queue
<1> DEFINE T == CheckCompletedNodeQueries(S)
<1>1. /\ DOMAIN T = DOMAIN S /\ T.nodes = S.nodes /\ T.queue = S.queue /\ T.cur = S.cur
      /\ T.nextId = S.nextId
  BY DEF Typed, DriverFields, CheckCompletedNodeQueries
<1> HIDE DEF T
<1>2. Typed(T)  BY <1>1 DEF Typed
<1>3. Carries(S, T, n)  BY <1>1, <1>2 DEF Carries, Step, Asleep
<1> QED  BY <1>1, <1>3 DEF T

LEMMA FirstStage ==
  ASSUME NEW n \in Nodes, NEW x, x.stage \in None..Complete
  PROVE  LET stage == Min({Complete} \cup {s \in x.stage..Complete : Asks(n, x, s)})
         IN  stage \in ProtocolInfo..Complete /\ stage >= x.stage
<1> DEFINE M == {Complete} \cup {s \in x.stage..Complete : Asks(n, x, s)}
<1>1. M \subseteq Nat /\ M # {} /\ \A s \in M : s \in None..Complete /\ s >= x.stage
  BY DEF None, Complete
<1>2. ~Asks(n, x, None)
  <2>1. Known(n, x) \subseteq Questions
    BY DriverAssumption DEF Known
  <2>2. None \notin Questions /\ Question(None) = None
    BY DEF Questions, StaticQuestions, Question, None, NodePlusInfo, ManufacturerSpecific1,
           ManufacturerSpecific2, Versions, Instances, Static, Associations, Session, Dynamic
  <2>3. Asks(n, x, None) = (None \in Known(n, x) \ x.answered)
    BY <2>2 DEF Asks, None, ProtocolInfo, Probe, Probe1, Neighbors, WakeUp, NodeInfo, Session,
                Associations, Dynamic
  <2> QED  BY <2>1, <2>2, <2>3
<1>3. None \notin M  BY <1>2 DEF None, Complete
<1> HIDE DEF M
<1>4. Min(M) \in M  BY <1>1, MinIsLeast
<1>5. \A s \in M : s \in ProtocolInfo..Complete /\ s >= x.stage
  BY <1>1, <1>3 DEF None, Complete, ProtocolInfo
<1> QED  BY <1>4, <1>5 DEF M

LEMMA AdvanceQueriesGoes ==
  ASSUME NEW S, NEW n, Typed(S), n \in DOMAIN S.nodes, Pending(S, n)
  PROVE  LET T == AdvanceQueries(S, n)
         IN  Step(S, T, n) /\ Going(T, n)
<1> DEFINE x == S.nodes[n]
           stage == Min({Complete} \cup {s \in x.stage..Complete : Asks(n, x, s)})
           retries == IF stage = x.stage THEN x.retries ELSE 0
           open == stage # Complete
           y == [x EXCEPT !.stage = stage, !.retries = retries, !.pending = open]
           T == [S EXCEPT !.nodes[n].stage = stage,
                          !.nodes[n].retries = IF stage = x.stage THEN @ ELSE 0,
                          !.nodes[n].pending = open]
           U == SendMsg(T, n, Question(stage), QueueOf(stage))
           V == SendQueryStageComplete(U, n, stage)
<1>1. AdvanceQueries(S, n) =
        IF x.pending \/ ~x.alive THEN S
        ELSE IF stage = Complete THEN CheckCompletedNodeQueries(T)
        ELSE V
  BY DEF AdvanceQueries
<1>2. n \in Nodes /\ NodeOK(x, n)  BY DEF Typed
<1>3. stage \in ProtocolInfo..Complete  BY <1>2, FirstStage DEF NodeOK
<1> HIDE DEF stage, open
<1>4. CASE x.pending \/ ~x.alive
  <2> HIDE DEF x, T, V
  <2>1. AdvanceQueries(S, n) = S  BY <1>1, <1>4
  <2> USE DEF x
  <2>2. Step(S, S, n)  BY DEF Step
  <2>3. Going(S, n)  BY <1>4, FreshIsMarked DEF Going, Pending
  <2> QED  BY <2>1, <2>2, <2>3
<1>5. CASE ~(x.pending \/ ~x.alive)
  <2>1. /\ DOMAIN T = DOMAIN S /\ T.queue = S.queue /\ T.cur = S.cur /\ T.nextId = S.nextId
        /\ T.nodes = [S.nodes EXCEPT ![n] = y]
    BY DEF Typed, DriverFields
  <2>2. /\ NodeOK(y, n) /\ y.stage = stage /\ y.pending = open
        /\ \A a \in NodeFields \ {"stage", "retries", "pending"} : y[a] = x[a]
    <3>1. retries \in 0..2  BY <1>2 DEF NodeOK
    <3>2. stage \in None..Complete  BY <1>3 DEF None, ProtocolInfo, Complete
    <3> HIDE DEF retries, x, T
    <3>3. /\ DOMAIN y = NodeFields
          /\ y.stage = stage /\ y.pending = open /\ y.retries = retries
          /\ \A a \in NodeFields \ {"stage", "retries", "pending"} : y[a] = x[a]
      BY <1>2 DEF NodeOK, NodeFields
    <3>4. y.errors = x.errors /\ y.waiting = x.waiting  BY <3>3 DEF NodeFields
    <3> HIDE DEF y
    <3> QED  BY <1>2, <3>1, <3>2, <3>3, <3>4 DEF NodeOK
  <2>3. /\ y.waiting = x.waiting /\ y.listening = x.listening /\ y.wake = x.wake
        /\ y.awake = x.awake /\ y.info = x.info /\ y.alive = x.alive
    BY <2>2 DEF NodeFields
  <2> HIDE DEF T, y
  <2>4. Carries(S, T, n) /\ T.nodes[n] = y  BY <2>1, <2>2, <2>3, NodeCarries
  <2>5. Typed(T) /\ n \in DOMAIN T.nodes /\ Step(S, T, n)  BY <2>4 DEF Carries, Step
  <2>6. stage # None /\ (y.wake => y.info) /\ x.alive
    BY <1>3, <1>5, <2>3 DEF Pending, None, ProtocolInfo, Complete
  <2>7. CASE stage = Complete
    <3> HIDE DEF x, V
    <3> DEFINE C == CheckCompletedNodeQueries(T)
    <3>1. AdvanceQueries(S, n) = C  BY <1>1, <1>5, <2>7
    <3>2. Carries(T, C, n) /\ C.nodes = T.nodes
      BY <2>5, CheckCompletedNodeQueriesCarries
    <3> HIDE DEF C
    <3>3. Step(S, C, n)  BY <2>5, <3>2, StepTransitive DEF Carries
    <3>4. C.nodes[n] = y  BY <2>4, <3>2
    <3>5. ~y.pending  BY <2>2, <2>7 DEF open
    <3>6. Going(C, n)
      BY <2>2, <2>3, <2>6, <2>7, <3>4, <3>5 DEF Going, Pending
    <3> QED  BY <3>1, <3>3, <3>6
  <2>8. CASE stage # Complete
    <3> HIDE DEF x
    <3>1. AdvanceQueries(S, n) = V  BY <1>1, <1>5, <2>8
    <3>2. Question(stage) \in None..IntervalSet /\ QueueOf(stage) \in Queues
      BY <1>3 DEF Question, QueueOf, Queues, None, IntervalSet, ProtocolInfo, Complete,
                  ManufacturerSpecific1, ManufacturerSpecific2, CommandQueue, NoOpQueue,
                  WakeUpQueue, SendQueue, QueryQueue
    <3>3. Carries(T, U, n) /\ SameNode(T, U, n)  BY <2>5, <3>2, SendMsgCarries
    <3>4. Typed(U) /\ n \in DOMAIN U.nodes /\ Step(T, U, n)  BY <2>5, <3>3 DEF Carries, Step
    <3> HIDE DEF U
    <3>5. stage \in None..Complete  BY <1>3 DEF None, ProtocolInfo, Complete
    <3>6. Carries(U, V, n) /\ SameNode(U, V, n) /\ FreshMark(V, n, stage)
      BY <3>4, <3>5, SendQueryStageCompleteMarks
    <3> HIDE DEF V
    <3>7. Step(S, V, n)
      BY <2>5, <3>4, <3>6, StepTransitive DEF Carries
    <3>8. /\ V.nodes[n].stage = stage /\ V.nodes[n].wake = y.wake /\ V.nodes[n].info = y.info
      BY <2>2, <2>4, <3>3, <3>6 DEF SameNode, NodeFields
    <3>9. Typed(V) /\ n \in DOMAIN V.nodes  BY <2>5, <3>7 DEF Step
    <3>10. Marked(V, n)  BY <3>6, <3>9, FreshIsMarked
    <3>11. Going(V, n)  BY <2>6, <2>8, <3>6, <3>8, <3>10 DEF Going, Pending
    <3> QED  BY <3>1, <3>7, <3>11
  <2> QED  BY <2>7, <2>8
<1> QED  BY <1>4, <1>5

\* One node's step leaves the others going.
LEMMA OthersGo ==
  ASSUME NEW S, NEW T, NEW n, NEW m, Typed(S), Step(S, T, n), m \in DOMAIN S.nodes, m # n
  PROVE  (Pending(S, m) => Pending(T, m)) /\ (Going(S, m) => Going(T, m))
<1>1. T.nodes[m] = S.nodes[m] /\ (Asleep(S, m) <=> Asleep(T, m))
  BY DEF Step, Asleep
<1>2. \A i \in ToSet(S.queue[QueryQueue]) : i.node = m => i \in ToSet(T.queue[QueryQueue])
  BY DEF Step
<1>3. \A a : FreshMark(S, m, a) => FreshMark(T, m, a)
  BY <1>1, <1>2 DEF FreshMark
<1>4. Marked(S, m) => Marked(T, m)
  BY <1>1, <1>2 DEF Marked, Marks
<1> QED  BY <1>1, <1>3, <1>4 DEF Pending, Going

LEMMA RetryQueryStageCompleteCarries ==
  ASSUME NEW S, NEW n, NEW stage, Typed(S), n \in DOMAIN S.nodes
  PROVE  LET T == RetryQueryStageComplete(S, n, stage)
         IN  Step(S, T, n) /\ T.nodes = S.nodes /\ (Marked(S, n) => Marked(T, n))
<1> DEFINE q == S.queue[QueryQueue]
           marks == {i \in DOMAIN q :
                       q[i].cmd = "QueryStageComplete" /\ q[i].node = n /\ q[i].ask = stage}
           k == Min(marks)
           e == [q[k] EXCEPT !.retry = TRUE]
           r == [q EXCEPT ![k] = e]
           T == [S EXCEPT !.queue[QueryQueue][k].retry = TRUE]
<1>1. RetryQueryStageComplete(S, n, stage) = IF marks = {} THEN S ELSE T
  BY DEF RetryQueryStageComplete
<1>2. CASE marks = {}
  BY <1>1, <1>2 DEF Step
<1>3. CASE marks # {}
  <2>1. QueryQueue \in Queues  BY DEF QueryQueue, Queues
  <2>2. q \in Seq(Items)  BY <2>1 DEF Typed
  <2>3. DOMAIN q = 1..Len(q) /\ Len(q) \in Nat  BY <2>2
  <2>4. k \in marks
    <3>1. marks \subseteq Nat  BY <2>3
    <3> QED  BY <1>3, <3>1, MinIsLeast
  <2> HIDE DEF k
  <2>5. k \in DOMAIN q /\ q[k] \in Items /\ IsMark(q[k]) /\ q[k].node = n
    BY <2>2, <2>3, <2>4 DEF IsMark
  <2>6. q[k] \in Mark  BY <2>5, ItemKinds
  <2>7. e \in Mark /\ IsMark(e) /\ e.node = n  BY <2>5, <2>6 DEF Mark, IsMark
  <2>8. e \in Items  BY <2>7 DEF Items
  <2>9. /\ DOMAIN T = DOMAIN S /\ T.nodes = S.nodes /\ T.cur = S.cur /\ T.nextId = S.nextId
        /\ DOMAIN T.queue = Queues /\ T.queue[QueryQueue] = r
        /\ \A p \in Queues : p # QueryQueue => T.queue[p] = S.queue[p]
    <3> HIDE DEF marks
    <3> QED  BY <2>1 DEF Typed, DriverFields
  <2> HIDE DEF e, T
  <2>10. r \in Seq(Items) /\ DOMAIN r = DOMAIN q /\ r[k] = e /\ \A i \in DOMAIN q : i # k => r[i] = q[i]
    BY <2>2, <2>3, <2>5, <2>8
  <2> HIDE DEF r
  <2>11. \A i \in ToSet(r) : i.node \in DOMAIN S.nodes
    <3>1. \A i \in ToSet(q) : i.node \in DOMAIN S.nodes  BY <2>1 DEF Typed
    <3> QED  BY <2>7, <2>10, <3>1 DEF ToSet
  <2>12. Typed(T)  BY <2>9, <2>10, <2>11 DEF Typed
  <2>13. \A i \in ToSet(q) : i.node # n => i \in ToSet(r)
    BY <2>5, <2>10 DEF ToSet
  <2>14. Step(S, T, n)  BY <2>9, <2>12, <2>13 DEF Step
  <2>15. e \in ToSet(r)  BY <2>5, <2>10 DEF ToSet
  <2>16. Marked(T, n)  BY <2>7, <2>9, <2>15 DEF Marked, Marks, IsMark
  <2> QED  BY <1>1, <1>3, <2>9, <2>14, <2>16
<1> QED  BY <1>2, <1>3

LEMMA QueryStageRetryGoes ==
  ASSUME NEW S, NEW n, NEW stage \in ProtocolInfo..Dynamic, NEW maxAttempts \in 2..3,
         Typed(S), n \in DOMAIN S.nodes, Going(S, n)
  PROVE  LET T == QueryStageRetry(S, n, stage, maxAttempts)
         IN  Step(S, T, n) /\ Going(T, n)
<1> DEFINE x == S.nodes[n]
           last == x.retries + 1 >= maxAttempts
           next == IF last /\ stage \notin {Probe, Probe1} THEN stage + 1 ELSE stage
           retries == IF last THEN 0 ELSE x.retries + 1
           y == [x EXCEPT !.pending = FALSE, !.retries = retries, !.stage = next]
           T == [S EXCEPT !.nodes[n].pending = FALSE,
                          !.nodes[n].retries = IF last THEN 0 ELSE @ + 1,
                          !.nodes[n].stage = next]
           U == RetryQueryStageComplete(T, n, next)
<1>1. QueryStageRetry(S, n, stage, maxAttempts) = IF stage # x.stage THEN S ELSE U
  BY DEF QueryStageRetry
<1>2. NodeOK(x, n)  BY DEF Typed
<1>3. retries \in 0..2  BY <1>2 DEF NodeOK
<1>4. next \in None..Complete /\ next # None
  BY DEF None, Complete, ProtocolInfo, Dynamic
<1>5. CASE stage # x.stage
  BY <1>1, <1>5 DEF Step
<1>6. CASE stage = x.stage
  <2>1. /\ DOMAIN T = DOMAIN S /\ T.queue = S.queue /\ T.cur = S.cur /\ T.nextId = S.nextId
        /\ T.nodes = [S.nodes EXCEPT ![n] = y]
    <3> HIDE DEF last, next
    <3> QED  BY DEF Typed, DriverFields
  <2> HIDE DEF retries, next, T
  <2>2. /\ DOMAIN y = NodeFields
        /\ y.stage = next /\ ~y.pending /\ y.retries = retries /\ y.errors = x.errors
        /\ y.waiting = x.waiting /\ y.listening = x.listening /\ y.wake = x.wake
        /\ y.awake = x.awake /\ y.info = x.info /\ y.alive = x.alive
    BY <1>2 DEF NodeOK, NodeFields
  <2> HIDE DEF y
  <2>3. NodeOK(y, n)  BY <1>2, <1>3, <1>4, <2>2 DEF NodeOK
  <2>4. Carries(S, T, n) /\ T.nodes[n] = y  BY <2>1, <2>2, <2>3, NodeCarries
  <2>5. Typed(T) /\ n \in DOMAIN T.nodes /\ Step(S, T, n)  BY <2>4 DEF Carries, Step
  <2>6. Step(T, U, n) /\ U.nodes = T.nodes /\ (Marked(T, n) => Marked(U, n))
    BY <2>5, RetryQueryStageCompleteCarries
  <2> HIDE DEF U
  <2>7. Step(S, U, n)  BY <2>5, <2>6, StepTransitive
  <2>8. x.alive => Marked(U, n)
    <3>1. x.alive => Marked(S, n)  BY <1>6 DEF Going, Complete, Dynamic, ProtocolInfo
    <3> QED  BY <2>4, <2>6, <3>1, CarriesMarks
  <2>9. x.wake => x.info  BY DEF Going, Pending
  <2>10. Going(U, n)  BY <1>4, <2>2, <2>4, <2>6, <2>8, <2>9 DEF Going, Pending
  <2> QED  BY <1>1, <1>6, <2>7, <2>10
<1> QED  BY <1>5, <1>6

LEMMA SetQueryStageGoes ==
  ASSUME NEW S, NEW n, NEW stage \in ProtocolInfo..Complete, Typed(S), n \in DOMAIN S.nodes,
         Pending(S, n)
  PROVE  LET T == SetQueryStage(S, n, stage)
         IN  Step(S, T, n) /\ Going(T, n)
<1> DEFINE x == S.nodes[n]
           y == [x EXCEPT !.stage = stage, !.pending = FALSE]
           T == [S EXCEPT !.nodes[n].stage = stage, !.nodes[n].pending = FALSE]
<1>1. SetQueryStage(S, n, stage) = AdvanceQueries(IF stage >= x.stage THEN S ELSE T, n)
  BY DEF SetQueryStage
<1>2. CASE stage >= x.stage
  BY <1>1, <1>2, AdvanceQueriesGoes
<1>3. CASE ~(stage >= x.stage)
  <2>0. NodeOK(x, n)  BY DEF Typed
  <2>1. /\ DOMAIN T = DOMAIN S /\ T.queue = S.queue /\ T.cur = S.cur /\ T.nextId = S.nextId
        /\ T.nodes = [S.nodes EXCEPT ![n] = y]
    BY DEF Typed, DriverFields
  <2>2. /\ DOMAIN y = NodeFields
        /\ y.stage = stage /\ ~y.pending /\ y.retries = x.retries /\ y.errors = x.errors
        /\ y.waiting = x.waiting /\ y.wake = x.wake /\ y.info = x.info
    BY <2>0 DEF NodeOK, NodeFields
  <2> HIDE DEF y, T
  <2>3. stage \in None..Complete /\ stage # None  BY DEF None, Complete, ProtocolInfo
  <2>4. NodeOK(y, n)  BY <2>0, <2>2, <2>3 DEF NodeOK
  <2>5. Step(S, T, n) /\ T.nodes[n] = y  BY <2>1, <2>2, <2>4, NodeStep
  <2>6. Typed(T) /\ n \in DOMAIN T.nodes  BY <2>5 DEF Step
  <2>7. Pending(T, n)  BY <2>2, <2>3, <2>5 DEF Pending
  <2>8. Step(T, AdvanceQueries(T, n), n) /\ Going(AdvanceQueries(T, n), n)
    BY <2>6, <2>7, AdvanceQueriesGoes
  <2> QED  BY <1>1, <1>3, <2>5, <2>8, StepTransitive
<1> QED  BY <1>2, <1>3

\* Death takes a node's queries for done, a sign of life takes them up again.
LEMMA SetNodeAliveGoes ==
  ASSUME NEW S, NEW n, NEW alive \in BOOLEAN, Typed(S), n \in DOMAIN S.nodes,
         Pending(S, n), S.nodes[n].stage # None
  PROVE  LET T == SetNodeAlive(S, n, alive)
         IN  Step(S, T, n) /\ Going(T, n)
<1> DEFINE x == S.nodes[n]
           errors == IF alive THEN 0 ELSE x.errors
           y == [x EXCEPT !.alive = alive, !.errors = errors]
           z == [x EXCEPT !.alive = alive, !.errors = errors, !.retries = 0]
           T == [S EXCEPT !.nodes[n].alive = alive, !.nodes[n].errors = IF alive THEN 0 ELSE @]
           U == [T EXCEPT !.nodes[n].retries = 0]
<1>1. SetNodeAlive(S, n, alive) =
        IF x.stage = Complete THEN T
        ELSE IF alive THEN AdvanceQueries(U, n)
        ELSE CheckCompletedNodeQueries(T)
  BY DEF SetNodeAlive
<1>2. NodeOK(x, n)  BY DEF Typed
<1>3. errors \in 0..3  BY <1>2 DEF NodeOK
<1>4. /\ DOMAIN T = DOMAIN S /\ T.queue = S.queue /\ T.cur = S.cur /\ T.nextId = S.nextId
      /\ T.nodes = [S.nodes EXCEPT ![n] = y]
  BY DEF Typed, DriverFields
<1>5. /\ DOMAIN U = DOMAIN S /\ U.queue = S.queue /\ U.cur = S.cur /\ U.nextId = S.nextId
      /\ U.nodes = [S.nodes EXCEPT ![n] = z]
  BY DEF Typed, DriverFields
<1> HIDE DEF errors, T, U
<1>6. /\ DOMAIN y = NodeFields
      /\ y.stage = x.stage /\ y.pending = x.pending /\ y.retries = x.retries
      /\ y.errors = errors /\ y.waiting = x.waiting /\ y.wake = x.wake /\ y.info = x.info
      /\ y.listening = x.listening /\ y.awake = x.awake /\ y.alive = alive
  BY <1>2 DEF NodeOK, NodeFields
<1>7. /\ DOMAIN z = NodeFields
      /\ z.stage = x.stage /\ z.pending = x.pending /\ z.retries = 0
      /\ z.errors = errors /\ z.waiting = x.waiting /\ z.wake = x.wake /\ z.info = x.info
      /\ z.listening = x.listening /\ z.awake = x.awake
  BY <1>2 DEF NodeOK, NodeFields
<1> HIDE DEF y, z
<1>8. NodeOK(y, n) /\ NodeOK(z, n)  BY <1>2, <1>3, <1>6, <1>7 DEF NodeOK
<1>9. Carries(S, T, n) /\ T.nodes[n] = y  BY <1>4, <1>6, <1>8, NodeCarries
<1>10. Carries(S, U, n) /\ U.nodes[n] = z  BY <1>5, <1>7, <1>8, NodeCarries
<1>11. /\ Step(S, T, n) /\ Typed(T) /\ n \in DOMAIN T.nodes
       /\ Step(S, U, n) /\ Typed(U) /\ n \in DOMAIN U.nodes
  BY <1>9, <1>10 DEF Carries, Step
<1>12. Pending(T, n)  BY <1>6, <1>9, CarriesMarks DEF Pending
<1>13. Pending(U, n)  BY <1>7, <1>10, CarriesMarks DEF Pending
<1>14. CASE x.stage = Complete
  <2>1. Going(T, n)  BY <1>6, <1>9, <1>12, <1>14 DEF Going
  <2> QED  BY <1>1, <1>11, <1>14, <2>1
<1>15. CASE x.stage # Complete /\ alive
  <2>1. Step(U, AdvanceQueries(U, n), n) /\ Going(AdvanceQueries(U, n), n)
    BY <1>11, <1>13, AdvanceQueriesGoes
  <2> QED  BY <1>1, <1>11, <1>15, <2>1, StepTransitive
<1>16. CASE x.stage # Complete /\ ~alive
  <2> DEFINE C == CheckCompletedNodeQueries(T)
  <2>1. Carries(T, C, n) /\ C.nodes = T.nodes  BY <1>11, CheckCompletedNodeQueriesCarries
  <2> HIDE DEF C
  <2>2. Step(S, C, n)  BY <1>11, <2>1, StepTransitive DEF Carries
  <2>3. Pending(C, n)  BY <1>11, <1>12, <2>1, SameNodeGoing DEF SameNode
  <2>4. ~C.nodes[n].alive /\ C.nodes[n].stage # None  BY <1>6, <1>9, <1>16, <2>1
  <2>5. Going(C, n)  BY <2>3, <2>4 DEF Going
  <2> QED  BY <1>1, <1>16, <2>2, <2>5 DEF C
<1> QED  BY <1>14, <1>15, <1>16

LEMMA ReviveGoes ==
  ASSUME NEW S, NEW n, Typed(S), n \in DOMAIN S.nodes, Going(S, n)
  PROVE  LET T == Revive(S, n)
         IN  Step(S, T, n) /\ Going(T, n)
<1>1. Step(S, S, n)  BY DEF Step
<1>2. Step(S, SetNodeAlive(S, n, TRUE), n) /\ Going(SetNodeAlive(S, n, TRUE), n)
  BY SetNodeAliveGoes DEF Going
<1> QED  BY <1>1, <1>2 DEF Revive

-----------------------------------------------------------------------------
(* Sleeping nodes. *)

\* An assignment to fields of node n that its queries do not depend on.
LEMMA FieldGoes ==
  ASSUME NEW S, NEW T, NEW n, NEW y, Typed(S), n \in DOMAIN S.nodes, NodeOK(y, n),
         DOMAIN T = DOMAIN S, T.queue = S.queue, T.cur = S.cur, T.nextId = S.nextId,
         T.nodes = [S.nodes EXCEPT ![n] = y],
         y.waiting = S.nodes[n].waiting, y.listening = S.nodes[n].listening,
         y.wake = S.nodes[n].wake, y.awake = S.nodes[n].awake,
         y.stage = S.nodes[n].stage, y.pending = S.nodes[n].pending,
         y.alive = S.nodes[n].alive, y.info = S.nodes[n].info
  PROVE  /\ Step(S, T, n) /\ Typed(T) /\ n \in DOMAIN T.nodes /\ T.nodes[n] = y
         /\ Pending(S, n) => Pending(T, n)
         /\ Going(S, n) => Going(T, n)
<1>1. Carries(S, T, n) /\ T.nodes[n] = y  BY NodeCarries
<1>2. Step(S, T, n) /\ Typed(T) /\ n \in DOMAIN T.nodes  BY <1>1 DEF Carries, Step
<1>3. /\ \A a : FreshMark(S, n, a) => FreshMark(T, n, a)
      /\ Marked(S, n) => Marked(T, n)
  BY <1>1, CarriesMarks
<1> QED  BY <1>1, <1>2, <1>3 DEF Pending, Going

LEMMA ErrorsGo ==
  ASSUME NEW S, NEW n, NEW errors \in 0..3, Typed(S), n \in DOMAIN S.nodes, Going(S, n)
  PROVE  LET T == [S EXCEPT !.nodes[n].errors = errors]
         IN  /\ Step(S, T, n) /\ Typed(T) /\ n \in DOMAIN T.nodes /\ Going(T, n)
             /\ T.cur = S.cur
<1> DEFINE x == S.nodes[n]
           y == [x EXCEPT !.errors = errors]
           T == [S EXCEPT !.nodes[n].errors = errors]
<1>1. NodeOK(x, n)  BY DEF Typed
<1>2. /\ DOMAIN T = DOMAIN S /\ T.queue = S.queue /\ T.cur = S.cur /\ T.nextId = S.nextId
      /\ T.nodes = [S.nodes EXCEPT ![n] = y]
  BY DEF Typed, DriverFields
<1>3. /\ DOMAIN y = NodeFields /\ y.errors = errors /\ y.retries = x.retries
      /\ y.waiting = x.waiting /\ y.listening = x.listening
      /\ y.wake = x.wake /\ y.awake = x.awake /\ y.stage = x.stage /\ y.pending = x.pending
      /\ y.alive = x.alive /\ y.info = x.info
  BY <1>1 DEF NodeOK, NodeFields
<1> HIDE DEF y, T
<1>4. NodeOK(y, n)  BY <1>1, <1>3 DEF NodeOK
<1>5. Step(S, T, n) /\ Typed(T) /\ n \in DOMAIN T.nodes /\ Going(T, n)
  BY <1>2, <1>3, <1>4, FieldGoes
<1> QED  BY <1>2, <1>5 DEF T

LEMMA HeardGoes ==
  ASSUME NEW S, NEW n, Typed(S), n \in DOMAIN S.nodes, Going(S, n)
  PROVE  LET T == Heard(S, n)
         IN  Step(S, T, n) /\ Going(T, n)
<1> DEFINE T == [S EXCEPT !.nodes[n].errors = 0]
<1>0. 0 \in 0..3  OBVIOUS
<1>1. Step(S, T, n) /\ Typed(T) /\ n \in DOMAIN T.nodes /\ Going(T, n)
  BY <1>0, ErrorsGo
<1>2. Heard(S, n) = Revive(T, n)  BY DEF Heard
<1> HIDE DEF T
<1>3. Step(T, Revive(T, n), n) /\ Going(Revive(T, n), n)  BY <1>1, ReviveGoes
<1> QED  BY <1>1, <1>2, <1>3, StepTransitive

\* A node that is awake gets what waited for it into the send queues.
LEMMA SendPendingGoes ==
  ASSUME NEW S, NEW T, NEW n, Typed(S), n \in DOMAIN S.nodes, Step(S, T, n),
         T.queue = S.queue, T.nodes[n] = [S.nodes[n] EXCEPT !.awake = TRUE]
  PROVE  LET U == SendPending(T, n)
         IN  /\ Step(S, U, n)
             /\ Pending(S, n) => Pending(U, n)
             /\ Going(S, n) => Going(U, n)
<1> DEFINE x == S.nodes[n]
           w == T.nodes[n].waiting
           Of(cmd) == Only(w, {i \in ToSet(w) : i.cmd = cmd})
           marks == Of("QueryStageComplete")
           msgs == Of("SendMsg")
           fresh == [i \in DOMAIN marks |-> [marks[i] EXCEPT !.retry = FALSE]]
           y == [T.nodes[n] EXCEPT !.waiting = <<>>]
           z == [T.nodes[n] EXCEPT !.waiting = <<>>, !.notified = FALSE]
           V == [T EXCEPT !.nodes[n].waiting = <<>>,
                          !.queue[WakeUpQueue] = @ \o msgs,
                          !.queue[QueryQueue] = @ \o fresh]
           N == [V EXCEPT !.nodes[n].notified = FALSE]
           U == SendMsg(N, n, NoMoreInformation, WakeUpQueue)
<1>1. SendPending(T, n) \in {V, U}
  BY DEF SendPending
<1>2. Typed(T) /\ n \in DOMAIN T.nodes /\ DOMAIN T.nodes = DOMAIN S.nodes  BY DEF Step
<1>3. NodeOK(x, n) /\ NodeOK(T.nodes[n], n)  BY <1>2 DEF Typed
<1>4. /\ w = x.waiting /\ \A a \in NodeFields \ {"awake"} : T.nodes[n][a] = x[a]
      /\ T.nodes[n].awake
  BY <1>3 DEF NodeOK, NodeFields
<1>5. w \in Seq(Items) /\ \A i \in ToSet(w) : i.node = n  BY <1>3 DEF NodeOK, WaitsIn
<1> HIDE DEF w
<1>6. /\ msgs \in Seq(Items) /\ ToSet(msgs) \subseteq ToSet(w)
      /\ marks \in Seq(Items) /\ ToSet(marks) = {i \in ToSet(w) : IsMark(i)}
  BY <1>5, OnlySet DEF IsMark
<1> HIDE DEF msgs, marks
<1>7. /\ fresh \in Seq(Items) /\ \A i \in ToSet(fresh) : i.node = n
      /\ \A i \in ToSet(w) : IsMark(i) =>
           \E j \in ToSet(fresh) : IsMark(j) /\ j.node = n /\ j.ask = i.ask /\ j.retry = FALSE
  <2>1. DOMAIN marks = 1..Len(marks) /\ Len(marks) \in Nat  BY <1>6
  <2>2. \A i \in DOMAIN marks : marks[i] \in Mark /\ marks[i].node = n
    <3>1. \A i \in DOMAIN marks : marks[i] \in ToSet(marks)  BY DEF ToSet
    <3>2. ToSet(marks) \subseteq Items  BY <1>6, SeqSet
    <3> QED  BY <1>5, <1>6, <3>1, <3>2, ItemKinds
  <2>3. \A m \in Mark : LET e == [m EXCEPT !.retry = FALSE]
                        IN  /\ e \in Mark /\ e.node = m.node /\ e.ask = m.ask
                            /\ e.retry = FALSE /\ IsMark(e)
    BY DEF Mark, IsMark
  <2>4. \A i \in DOMAIN marks :
          /\ fresh[i] \in Mark /\ fresh[i].node = n /\ fresh[i].ask = marks[i].ask
          /\ fresh[i].retry = FALSE /\ IsMark(fresh[i])
    BY <2>2, <2>3
  <2>5. DOMAIN fresh = DOMAIN marks  OBVIOUS
  <2>6. fresh = [i \in 1..Len(marks) |-> fresh[i]]  BY <2>1
  <2> HIDE DEF fresh
  <2>7. \A i \in 1..Len(marks) : fresh[i] \in Items  BY <2>1, <2>4 DEF Items
  <2>8. fresh \in Seq(Items)  BY <2>1, <2>6, <2>7, IsASeq
  <2>9. \A i \in ToSet(fresh) : i.node = n  BY <2>4, <2>5 DEF ToSet
  <2>10. ASSUME NEW i \in ToSet(w), IsMark(i)
         PROVE  \E j \in ToSet(fresh) :
                  IsMark(j) /\ j.node = n /\ j.ask = i.ask /\ j.retry = FALSE
    <3>1. PICK k \in DOMAIN marks : marks[k] = i  BY <1>6, <2>10 DEF ToSet
    <3>2. fresh[k] \in ToSet(fresh)  BY <2>5 DEF ToSet
    <3> QED  BY <2>4, <3>1, <3>2
  <2> QED  BY <2>8, <2>9, <2>10
<1> HIDE DEF fresh
<1>8. /\ DOMAIN V = DOMAIN T /\ V.cur = T.cur /\ V.nextId = T.nextId
      /\ V.nodes = [T.nodes EXCEPT ![n] = y]
      /\ DOMAIN V.queue = Queues
      /\ V.queue[WakeUpQueue] = T.queue[WakeUpQueue] \o msgs
      /\ V.queue[QueryQueue] = T.queue[QueryQueue] \o fresh
      /\ \A q \in Queues \ {WakeUpQueue, QueryQueue} : V.queue[q] = T.queue[q]
  <2>1. DOMAIN T = DriverFields /\ DOMAIN T.queue = Queues  BY <1>2 DEF Typed
  <2>2. WakeUpQueue \in Queues /\ QueryQueue \in Queues /\ WakeUpQueue # QueryQueue
    BY DEF WakeUpQueue, QueryQueue, Queues
  <2>3. DOMAIN V = DOMAIN T /\ V.cur = T.cur /\ V.nextId = T.nextId  BY <2>1 DEF DriverFields
  <2>4. V.nodes = [T.nodes EXCEPT ![n] = y]  BY <2>1 DEF DriverFields
  <2>5. V.queue = [T.queue EXCEPT ![WakeUpQueue] = @ \o msgs, ![QueryQueue] = @ \o fresh]
    BY <2>1, <2>2 DEF DriverFields
  <2> HIDE DEF V
  <2>6. /\ DOMAIN V.queue = Queues
        /\ V.queue[WakeUpQueue] = T.queue[WakeUpQueue] \o msgs
        /\ V.queue[QueryQueue] = T.queue[QueryQueue] \o fresh
        /\ \A q \in Queues \ {WakeUpQueue, QueryQueue} : V.queue[q] = T.queue[q]
    BY <2>1, <2>2, <2>5
  <2> QED  BY <2>3, <2>4, <2>6
<1>9. /\ DOMAIN N = DOMAIN V /\ N.cur = V.cur /\ N.nextId = V.nextId /\ N.queue = V.queue
      /\ N.nodes = [T.nodes EXCEPT ![n] = z]
  <2> HIDE DEF V
  <2>1. N.nodes = [V.nodes EXCEPT ![n].notified = FALSE]
    BY <1>2, <1>8 DEF Typed, DriverFields
  <2>2. V.nodes[n] = y  BY <1>2, <1>8
  <2>3. z = [y EXCEPT !.notified = FALSE]  BY <1>3 DEF NodeOK, NodeFields
  <2>4. N.nodes = [V.nodes EXCEPT ![n] = z]  BY <2>1, <2>2, <2>3
  <2> QED  BY <1>2, <1>8, <2>4 DEF Typed, DriverFields
<1> HIDE DEF V, N
<1>10. WaitsIn(<<>>, n)  BY EmptySet DEF WaitsIn
<1>11. /\ DOMAIN y = NodeFields /\ DOMAIN z = NodeFields
       /\ y.waiting = <<>> /\ z.waiting = <<>>
       /\ \A a \in NodeFields \ {"awake", "waiting", "notified"} : y[a] = x[a] /\ z[a] = x[a]
  BY <1>3, <1>4 DEF NodeOK, NodeFields
<1> HIDE DEF y, z
<1>12. /\ y.stage = x.stage /\ y.pending = x.pending /\ y.alive = x.alive /\ y.wake = x.wake
       /\ y.info = x.info /\ y.retries = x.retries /\ y.errors = x.errors
       /\ z.stage = x.stage /\ z.pending = x.pending /\ z.alive = x.alive /\ z.wake = x.wake
       /\ z.info = x.info /\ z.retries = x.retries /\ z.errors = x.errors
  BY <1>11 DEF NodeFields
<1>13. NodeOK(y, n) /\ NodeOK(z, n)  BY <1>3, <1>10, <1>11, <1>12 DEF NodeOK
<1>14. ASSUME NEW W, NEW v \in {y, z}, DOMAIN W = DOMAIN T, W.cur = T.cur, W.nextId = T.nextId,
              W.queue = V.queue, W.nodes = [T.nodes EXCEPT ![n] = v]
       PROVE  /\ Step(S, W, n) /\ Typed(W) /\ n \in DOMAIN W.nodes
              /\ Pending(S, n) => Pending(W, n)
              /\ Going(S, n) => Going(W, n)
  <2>1. /\ DOMAIN W.nodes = DOMAIN T.nodes /\ W.nodes[n] = v
        /\ \A m \in DOMAIN T.nodes : m # n => W.nodes[m] = T.nodes[m]
    BY <1>2, <1>14
  <2>2. WakeUpQueue \in Queues /\ QueryQueue \in Queues
    BY DEF WakeUpQueue, QueryQueue, Queues
  <2>3. \A q \in Queues : T.queue[q] \in Seq(Items)  BY <1>2 DEF Typed
  <2>4. /\ W.queue[WakeUpQueue] \in Seq(Items)
        /\ ToSet(W.queue[WakeUpQueue]) = ToSet(T.queue[WakeUpQueue]) \cup ToSet(msgs)
        /\ W.queue[QueryQueue] \in Seq(Items)
        /\ ToSet(W.queue[QueryQueue]) = ToSet(T.queue[QueryQueue]) \cup ToSet(fresh)
    <3>1. T.queue[WakeUpQueue] \in Seq(Items) /\ T.queue[QueryQueue] \in Seq(Items)
      BY <2>2, <2>3
    <3>2. /\ T.queue[WakeUpQueue] \o msgs \in Seq(Items)
          /\ ToSet(T.queue[WakeUpQueue] \o msgs) = ToSet(T.queue[WakeUpQueue]) \cup ToSet(msgs)
      BY <1>6, <3>1, ConcatSet
    <3>3. /\ T.queue[QueryQueue] \o fresh \in Seq(Items)
          /\ ToSet(T.queue[QueryQueue] \o fresh) = ToSet(T.queue[QueryQueue]) \cup ToSet(fresh)
      BY <1>7, <3>1, ConcatSet
    <3> QED  BY <1>8, <1>14, <3>2, <3>3
  <2>5. \A i \in ToSet(msgs) \cup ToSet(fresh) : i.node \in DOMAIN W.nodes
    BY <1>2, <1>5, <1>6, <1>7, <2>1
  <2>6. \A q \in Queues : /\ W.queue[q] \in Seq(Items)
                          /\ \A i \in ToSet(W.queue[q]) : i.node \in DOMAIN W.nodes
    <3> TAKE q \in Queues
    <3>1. \A i \in ToSet(T.queue[q]) : i.node \in DOMAIN W.nodes  BY <1>2, <2>1 DEF Typed
    <3>2. CASE q \in {WakeUpQueue, QueryQueue}  BY <2>4, <2>5, <3>1, <3>2
    <3>3. CASE q \notin {WakeUpQueue, QueryQueue}  BY <1>8, <1>14, <2>3, <3>1, <3>3
    <3> QED  BY <3>2, <3>3
  <2>7. \A m \in DOMAIN W.nodes : NodeOK(W.nodes[m], m)
    BY <1>2, <1>13, <1>14, <2>1 DEF Typed
  <2>8. Typed(W)  BY <1>2, <1>8, <1>14, <2>1, <2>6, <2>7 DEF Typed
  <2>9. Step(T, W, n)  BY <2>1, <2>4, <2>8 DEF Step
  <2>10. Step(S, W, n)  BY <2>9, StepTransitive
  <2>11. \A a : FreshMark(S, n, a) => FreshMark(W, n, a)
    <3> TAKE a
    <3>1. CASE \E i \in ToSet(S.queue[QueryQueue]) :
                  IsMark(i) /\ i.node = n /\ i.ask = a /\ i.retry = FALSE
      BY <2>4, <3>1 DEF FreshMark
    <3>2. CASE HasMark(S.nodes[n].waiting, a)
      <4>1. PICK i \in ToSet(w) : IsMark(i) /\ i.ask = a  BY <1>4, <3>2 DEF HasMark
      <4>2. PICK j \in ToSet(fresh) : IsMark(j) /\ j.node = n /\ j.ask = a /\ j.retry = FALSE
        BY <1>7, <4>1
      <4>3. j \in ToSet(W.queue[QueryQueue])  BY <2>4
      <4> QED  BY <4>2, <4>3 DEF FreshMark
    <3> QED  BY <3>1, <3>2 DEF FreshMark
  <2>12. Marked(S, n) => Marked(W, n)
    <3>1. Marks(S.queue[QueryQueue], n) => Marked(W, n)
      BY <2>4 DEF Marked, Marks
    <3>2. Marks(S.nodes[n].waiting, n) => Marked(W, n)
      BY <1>4, <1>7, <2>4 DEF Marked, Marks, IsMark
    <3> QED  BY <3>1, <3>2 DEF Marked
  <2>13. /\ W.nodes[n].stage = x.stage /\ W.nodes[n].pending = x.pending
         /\ W.nodes[n].alive = x.alive /\ W.nodes[n].wake = x.wake /\ W.nodes[n].info = x.info
    BY <1>12, <1>14, <2>1
  <2>14. Pending(S, n) => Pending(W, n)  BY <2>11, <2>13 DEF Pending
  <2>15. Going(S, n) => Going(W, n)  BY <2>12, <2>13, <2>14 DEF Going
  <2> QED  BY <1>2, <2>1, <2>8, <2>10, <2>14, <2>15
<1>15. Step(S, V, n) /\ (Pending(S, n) => Pending(V, n)) /\ (Going(S, n) => Going(V, n))
  BY <1>8, <1>14
<1>16. /\ Step(S, N, n) /\ Typed(N) /\ n \in DOMAIN N.nodes
       /\ (Pending(S, n) => Pending(N, n)) /\ (Going(S, n) => Going(N, n))
  BY <1>8, <1>9, <1>14
<1>17. Carries(N, U, n) /\ SameNode(N, U, n)
  <2>1. NoMoreInformation \in None..IntervalSet /\ WakeUpQueue \in Queues
    BY DEF NoMoreInformation, None, IntervalSet, WakeUpQueue, Queues
  <2> QED  BY <1>16, <2>1, SendMsgCarries
<1> HIDE DEF U
<1>18. Step(S, U, n) /\ (Pending(S, n) => Pending(U, n)) /\ (Going(S, n) => Going(U, n))
  BY <1>16, <1>17, SameNodeGoing, StepTransitive DEF Carries
<1> QED  BY <1>1, <1>15, <1>18

\* Waking a node up.
LEMMA SetAwakeGoes ==
  ASSUME NEW S, NEW n, Typed(S), n \in DOMAIN S.nodes, Going(S, n)
  PROVE  LET U == SetAwake(S, n, TRUE)
         IN  Step(S, U, n) /\ Going(U, n)
<1> DEFINE x == S.nodes[n]
           y == [x EXCEPT !.awake = TRUE]
           T == [S EXCEPT !.nodes[n].awake = TRUE,
                          !.notify = IF S.nodes[n].awake /\ ~TRUE THEN Append(@, n) ELSE @]
<1>1. SetAwake(S, n, TRUE) = SendPending(T, n)  BY DEF SetAwake
<1>2. NodeOK(x, n)  BY DEF Typed
<1>3. /\ DOMAIN T = DOMAIN S /\ T.queue = S.queue /\ T.cur = S.cur /\ T.nextId = S.nextId
      /\ T.nodes = [S.nodes EXCEPT ![n] = y]
  BY DEF Typed, DriverFields
<1>4. /\ DOMAIN y = NodeFields /\ y.errors = x.errors /\ y.retries = x.retries
      /\ y.waiting = x.waiting /\ y.stage = x.stage
  BY <1>2 DEF NodeOK, NodeFields
<1> HIDE DEF T
<1>5. NodeOK(y, n)  BY <1>2, <1>4 DEF NodeOK
<1>6. Step(S, T, n) /\ T.nodes[n] = y  BY <1>3, <1>5, NodeStep
<1>7. Step(S, SendPending(T, n), n) /\ Going(SendPending(T, n), n)
  BY <1>3, <1>6, SendPendingGoes
<1> QED  BY <1>1, <1>7

\* A node falls asleep; what is in the send queues for it stays there.
LEMMA FallAsleepGoes ==
  ASSUME NEW S, NEW n, Typed(S), n \in DOMAIN S.nodes
  PROVE  LET T == SetAwake(S, n, FALSE)
         IN  /\ Step(S, T, n) /\ (Going(S, n) => Going(T, n))
             /\ T.queue = S.queue /\ T.cur = S.cur /\ T.nextId = S.nextId
             /\ DOMAIN T = DOMAIN S
             /\ T.nodes = [S.nodes EXCEPT ![n] = [S.nodes[n] EXCEPT !.awake = FALSE]]
<1> DEFINE x == S.nodes[n]
           y == [x EXCEPT !.awake = FALSE]
           T == SetAwake(S, n, FALSE)
<1>2. NodeOK(x, n)  BY DEF Typed
<1>3. /\ DOMAIN T = DOMAIN S /\ T.queue = S.queue /\ T.cur = S.cur /\ T.nextId = S.nextId
      /\ T.nodes = [S.nodes EXCEPT ![n] = y]
  BY DEF Typed, DriverFields, SetAwake
<1>4. /\ DOMAIN y = NodeFields /\ y.errors = x.errors /\ y.retries = x.retries
      /\ y.waiting = x.waiting /\ y.stage = x.stage /\ y.pending = x.pending
      /\ y.alive = x.alive /\ y.wake = x.wake /\ y.info = x.info
      /\ y.listening = x.listening /\ ~y.awake
  BY <1>2 DEF NodeOK, NodeFields
<1> HIDE DEF T
<1>5. NodeOK(y, n)  BY <1>2, <1>4 DEF NodeOK
<1>6. Step(S, T, n) /\ T.nodes[n] = y  BY <1>3, <1>5, NodeStep
<1>7. Carries(S, T, n)
  <2> HIDE DEF y
  <2> QED  BY <1>3, <1>4, <1>6 DEF Carries, Asleep, Step
<1>8. /\ \A a : FreshMark(S, n, a) => FreshMark(T, n, a)
      /\ Marked(S, n) => Marked(T, n)
  BY <1>7, CarriesMarks
<1>9. Going(S, n) => Going(T, n)
  <2> HIDE DEF y
  <2> QED  BY <1>4, <1>6, <1>8 DEF Pending, Going
<1> QED  BY <1>3, <1>6, <1>9 DEF T

LEMMA SeqOfSet ==
  ASSUME NEW X, NEW Y, NEW s \in Seq(X), ToSet(s) \subseteq Y
  PROVE  s \in Seq(Y)
<1>1. ToSet(s) = {s[i] : i \in 1..Len(s)} /\ Len(s) \in Nat  BY SeqSet
<1>2. s = [i \in 1..Len(s) |-> s[i]]  OBVIOUS
<1>3. \A i \in 1..Len(s) : s[i] \in Y  BY <1>1
<1> QED  BY <1>1, <1>2, <1>3, IsASeq

LEMMA WithoutSet ==
  ASSUME NEW s \in Seq(Items), NEW n
  PROVE  /\ Without(s, n) \in Seq(Items)
         /\ ToSet(Without(s, n)) = {i \in ToSet(s) : i.node # n}
<1> DEFINE K == {i \in ToSet(s) : i.node # n}
<1>1. Without(s, n) = Only(s, K)  BY DEF Without
<1>2. Only(s, K) \in Seq(Items) /\ ToSet(Only(s, K)) = ToSet(s) \cap K
  <2> HIDE DEF K
  <2> QED  BY OnlySet
<1> QED  BY <1>1, <1>2

\* What RemoveQueues leaves.
LEMMA RemoveQueuesLeaves ==
  ASSUME NEW S, NEW n, Typed(S)
  PROVE  LET T == RemoveQueues(S, n)
         IN  /\ DOMAIN T = DOMAIN S /\ T.nodes = S.nodes /\ T.nextId = S.nextId
             /\ T.cur \in {S.cur, NULL} /\ (T.cur # NULL => T.cur.node # n)
             /\ DOMAIN T.queue = Queues
             /\ \A q \in Queues : /\ T.queue[q] \in Seq(Items)
                                  /\ ToSet(T.queue[q]) = {i \in ToSet(S.queue[q]) : i.node # n}
<1> DEFINE R == RemoveCurrentMsg(S)
           U == IF S.cur.node = n THEN R ELSE S
           Q == [q \in Queues |-> Without(U.queue[q], n)]
           T == [U EXCEPT !.queue = Q]
<1>1. RemoveQueues(S, n) = T  BY DEF RemoveQueues
<1>2. /\ DOMAIN R = DOMAIN S /\ R.nodes = S.nodes /\ R.nextId = S.nextId
      /\ R.queue = S.queue /\ R.cur = NULL
  BY DEF Typed, DriverFields, RemoveCurrentMsg
<1> HIDE DEF R
<1>3. /\ DOMAIN U = DOMAIN S /\ U.nodes = S.nodes /\ U.nextId = S.nextId
      /\ U.queue = S.queue /\ U.cur \in {S.cur, NULL} /\ (U.cur # NULL => U.cur.node # n)
  BY <1>2
<1> HIDE DEF U
<1>4. /\ DOMAIN T = DOMAIN S /\ T.nodes = S.nodes /\ T.nextId = S.nextId
      /\ T.queue = Q /\ T.cur = U.cur
  <2> HIDE DEF Q
  <2> QED  BY <1>3 DEF Typed, DriverFields
<1> HIDE DEF T
<1>5. DOMAIN Q = Queues /\ \A q \in Queues : Q[q] = Without(S.queue[q], n)  BY <1>3
<1> HIDE DEF Q
<1>6. \A q \in Queues : /\ Q[q] \in Seq(Items)
                        /\ ToSet(Q[q]) = {i \in ToSet(S.queue[q]) : i.node # n}
  <2> TAKE q \in Queues
  <2>1. S.queue[q] \in Seq(Items)  BY DEF Typed
  <2> QED  BY <1>5, <2>1, WithoutSet
<1> QED  BY <1>1, <1>3, <1>4, <1>5, <1>6

\* The items of node n, those of the query queue among them.
LEMMA ItemsOfNode ==
  ASSUME NEW S, NEW n \in Nodes, Typed(S)
  PROVE  /\ ItemsOf(S, n) \in Seq(Items)
         /\ \A i \in ToSet(ItemsOf(S, n)) : i.node = n
         /\ \A i \in ToSet(S.queue[QueryQueue]) : i.node = n => i \in ToSet(ItemsOf(S, n))
<1> DEFINE X == Items \cup {NULL}
           c == <<S.cur>>
           q1 == S.queue[CommandQueue]
           q2 == S.queue[NoOpQueue]
           q3 == S.queue[WakeUpQueue]
           q4 == S.queue[SendQueue]
           q5 == S.queue[QueryQueue]
           all == c \o q1 \o q2 \o q3 \o q4 \o q5
           K == {i \in ToSet(all) : i.node = n}
<1>1. ItemsOf(S, n) = Only(all, K)  BY DEF ItemsOf
<1>2. S.cur \in X  BY DEF Typed
<1>3. q1 \in Seq(Items) /\ q2 \in Seq(Items) /\ q3 \in Seq(Items) /\ q4 \in Seq(Items)
        /\ q5 \in Seq(Items)
  BY DEF Typed, Queues, CommandQueue, NoOpQueue, WakeUpQueue, SendQueue, QueryQueue
<1> HIDE DEF q1, q2, q3, q4, q5
<1>4. q1 \in Seq(X) /\ q2 \in Seq(X) /\ q3 \in Seq(X) /\ q4 \in Seq(X) /\ q5 \in Seq(X)
  <2>1. \A s \in Seq(Items) : s \in Seq(X)
    <3> TAKE s \in Seq(Items)
    <3>1. ToSet(s) \subseteq X  BY SeqSet
    <3> QED  BY <3>1, SeqOfSet
  <2> QED  BY <1>3, <2>1
<1>5. c \in Seq(X)  BY <1>2
<1> HIDE DEF c, X
<1>6. c \o q1 \o q2 \o q3 \o q4 \in Seq(X)
  <2>1. c \o q1 \in Seq(X)  BY <1>4, <1>5
  <2>2. c \o q1 \o q2 \in Seq(X)  BY <1>4, <2>1
  <2>3. c \o q1 \o q2 \o q3 \in Seq(X)  BY <1>4, <2>2
  <2> QED  BY <1>4, <2>3
<1>7. all \in Seq(X) /\ ToSet(q5) \subseteq ToSet(all)
  <2> DEFINE p == c \o q1 \o q2 \o q3 \o q4
  <2>1. all = p \o q5  OBVIOUS
  <2> HIDE DEF p, all
  <2>2. p \o q5 \in Seq(X) /\ ToSet(p \o q5) = ToSet(p) \cup ToSet(q5)
    <3>1. p \in Seq(X)  BY <1>6 DEF p
    <3> QED  BY <1>4, <3>1, ConcatSet
  <2> QED  BY <2>1, <2>2
<1> HIDE DEF all
<1>8. Only(all, K) \in Seq(X) /\ ToSet(Only(all, K)) = ToSet(all) \cap K
  <2> HIDE DEF K
  <2> QED  BY <1>7, OnlySet
<1>9. ToSet(all) \subseteq X  BY <1>7, SeqSet
<1>10. NULL.node # n
  <2>1. n \in 1..MaxNode /\ MaxNode \in Nat  BY DriverAssumption
  <2>2. NULL.node = 0  BY DEF NULL
  <2> QED  BY <2>1, <2>2
<1>11. ToSet(Only(all, K)) \subseteq Items  BY <1>8, <1>9, <1>10 DEF X
<1>12. Only(all, K) \in Seq(Items)  BY <1>8, <1>11, SeqOfSet
<1> QED  BY <1>1, <1>7, <1>8, <1>12 DEF q5

\* What was queued for a node that sleeps waits in the node.
LEMMA MoveMessagesGoes ==
  ASSUME NEW S, NEW n, Typed(S), CanWait(S, n), Going(S, n)
  PROVE  LET T == MoveMessagesToWakeUpQueue(S, n)
         IN  Step(S, T, n) /\ Going(T, n)
<1> DEFINE x == S.nodes[n]
           mine == ItemsOf(S, n)
           K == {i \in ToSet(mine) : ~NeverWaits(i)}
           moved == Only(mine, K)
           w == QueueAll(x.waiting, moved)
           A == SetAwake(S, n, FALSE)
           R == RemoveQueues(A, n)
           a == [x EXCEPT !.awake = FALSE]
           y == [a EXCEPT !.waiting = w]
           T == [R EXCEPT !.nodes[n].waiting = QueueAll(@, moved)]
<1>1. MoveMessagesToWakeUpQueue(S, n) = T  BY DEF MoveMessagesToWakeUpQueue
<1>2. n \in DOMAIN S.nodes /\ n \in Nodes /\ ~x.listening /\ x.wake  BY DEF CanWait, Typed
<1>3. NodeOK(x, n)  BY <1>2 DEF Typed
<1>4. /\ Typed(A) /\ DOMAIN A = DOMAIN S /\ A.queue = S.queue /\ A.cur = S.cur
      /\ A.nextId = S.nextId /\ A.nodes = [S.nodes EXCEPT ![n] = a]
  BY <1>2, FallAsleepGoes DEF Step
<1> HIDE DEF A
<1>5. /\ DOMAIN R = DOMAIN A /\ R.nodes = A.nodes /\ R.nextId = A.nextId
      /\ R.cur \in {A.cur, NULL} /\ (R.cur # NULL => R.cur.node # n)
      /\ DOMAIN R.queue = Queues
      /\ \A q \in Queues : /\ R.queue[q] \in Seq(Items)
                           /\ ToSet(R.queue[q]) = {i \in ToSet(A.queue[q]) : i.node # n}
  BY <1>4, RemoveQueuesLeaves
<1> HIDE DEF R
<1>6. /\ DOMAIN T = DOMAIN S /\ T.queue = R.queue /\ T.cur = R.cur /\ T.nextId = S.nextId
      /\ T.nodes = [R.nodes EXCEPT ![n].waiting = QueueAll(@, moved)]
  <2> HIDE DEF moved
  <2> QED  BY <1>4, <1>5 DEF Typed, DriverFields
<1> HIDE DEF T
<1>7. /\ DOMAIN a = NodeFields /\ a.errors = x.errors /\ a.retries = x.retries
      /\ a.waiting = x.waiting /\ a.stage = x.stage /\ a.pending = x.pending
      /\ a.alive = x.alive /\ a.wake = x.wake /\ a.info = x.info
      /\ a.listening = x.listening /\ ~a.awake
  BY <1>3 DEF NodeOK, NodeFields
<1>8. R.nodes[n] = a /\ DOMAIN R.nodes = DOMAIN S.nodes
  BY <1>2, <1>4, <1>5
<1> HIDE DEF a
<1>9. T.nodes[n] = y /\ DOMAIN T.nodes = DOMAIN S.nodes
        /\ \A m \in DOMAIN S.nodes : m # n => T.nodes[m] = S.nodes[m]
  <2> HIDE DEF moved
  <2>1. /\ T.nodes[n] = [R.nodes[n] EXCEPT !.waiting = QueueAll(R.nodes[n].waiting, moved)]
        /\ DOMAIN T.nodes = DOMAIN R.nodes
        /\ \A m \in DOMAIN R.nodes : m # n => T.nodes[m] = R.nodes[m]
    BY <1>2, <1>6, <1>8
  <2>2. \A m \in DOMAIN S.nodes : m # n => R.nodes[m] = S.nodes[m]
    BY <1>4, <1>5
  <2> QED  BY <1>7, <1>8, <2>1, <2>2
<1>10. /\ mine \in Seq(Items) /\ \A i \in ToSet(mine) : i.node = n
       /\ \A i \in ToSet(S.queue[QueryQueue]) : i.node = n => i \in ToSet(mine)
  BY <1>2, ItemsOfNode
<1> HIDE DEF mine
<1>11. moved \in Seq(Items) /\ ToSet(moved) = ToSet(mine) \cap K
  <2> HIDE DEF K
  <2> QED  BY <1>10, OnlySet
<1>12. \A i \in ToSet(mine) : IsMark(i) => i \in ToSet(moved)
  BY <1>11 DEF IsMark, NeverWaits
<1>13. \A i \in ToSet(moved) : i.node = n  BY <1>10, <1>11
<1> HIDE DEF moved, K
<1>14. /\ WaitsIn(w, n)
       /\ \A b : HasMark(x.waiting, b) \/ HasMark(moved, b) => HasMark(w, b)
  BY <1>3, <1>11, <1>13, QueueAllWaits DEF NodeOK
<1> HIDE DEF w
<1>15. /\ DOMAIN y = NodeFields /\ y.errors = x.errors /\ y.retries = x.retries
       /\ y.waiting = w /\ y.stage = x.stage /\ y.pending = x.pending
       /\ y.alive = x.alive /\ y.wake = x.wake /\ y.info = x.info
       /\ y.listening = x.listening /\ ~y.awake
  BY <1>7 DEF NodeFields
<1> HIDE DEF y
<1>16. NodeOK(y, n)  BY <1>3, <1>14, <1>15 DEF NodeOK
<1>17. \A m \in DOMAIN T.nodes : NodeOK(T.nodes[m], m)  BY <1>9, <1>16 DEF Typed
<1>18. Typed(T)
  <2>1. \A q \in Queues : /\ T.queue[q] \in Seq(Items)
                          /\ \A i \in ToSet(T.queue[q]) : i.node \in DOMAIN T.nodes
    BY <1>4, <1>5, <1>6, <1>9 DEF Typed
  <2>2. T.cur # NULL =>
          T.cur \in Items /\ T.cur.cmd = "SendMsg" /\ T.cur.node \in DOMAIN T.nodes
    BY <1>4, <1>5, <1>6, <1>9 DEF Typed
  <2>3. /\ DOMAIN T = DriverFields /\ DOMAIN T.queue = Queues /\ DOMAIN T.nodes \subseteq Nodes
        /\ T.nextId \in {0} \cup FirstId..255
    BY <1>5, <1>6, <1>9 DEF Typed
  <2> QED  BY <1>17, <2>1, <2>2, <2>3 DEF Typed
<1>19. QueryQueue \in Queues  BY DEF QueryQueue, Queues
<1>20. Step(S, T, n)  BY <1>4, <1>5, <1>6, <1>9, <1>18, <1>19 DEF Step
<1>21. Asleep(T, n)  BY <1>2, <1>9, <1>15 DEF Asleep
<1>22. \A b : FreshMark(S, n, b) => HasMark(w, b)
  <2> TAKE b
  <2>1. ASSUME NEW i \in ToSet(S.queue[QueryQueue]), IsMark(i), i.node = n, i.ask = b
        PROVE  HasMark(w, b)
    <3>1. i \in ToSet(moved)  BY <1>10, <1>12, <2>1
    <3> QED  BY <1>14, <2>1, <3>1 DEF HasMark
  <2> QED  BY <1>14, <2>1 DEF FreshMark
<1>23. \A b : FreshMark(S, n, b) => FreshMark(T, n, b)
  BY <1>9, <1>15, <1>21, <1>22 DEF FreshMark
<1>24. Marked(S, n) => Marked(T, n)
  <2>1. \A i \in ToSet(w) : i.node = n  BY <1>14 DEF WaitsIn
  <2>2. ASSUME NEW i \in ToSet(S.queue[QueryQueue]), IsMark(i), i.node = n
        PROVE  Marks(w, n)
    <3>1. i \in ToSet(moved)  BY <1>10, <1>12, <2>2
    <3>2. HasMark(w, i.ask)  BY <1>14, <2>2, <3>1 DEF HasMark
    <3> QED  BY <2>1, <3>2 DEF HasMark, Marks, IsMark
  <2>3. ASSUME NEW i \in ToSet(x.waiting), IsMark(i)
        PROVE  Marks(w, n)
    <3>1. HasMark(w, i.ask)  BY <1>14, <2>3 DEF HasMark
    <3> QED  BY <2>1, <3>1 DEF HasMark, Marks, IsMark
  <2>4. Marked(S, n) => Marks(w, n)  BY <2>2, <2>3 DEF Marked, Marks, IsMark
  <2> QED  BY <1>9, <1>15, <1>21, <2>4 DEF Marked
<1>25. Going(T, n)  BY <1>9, <1>15, <1>23, <1>24 DEF Going, Pending
<1> QED  BY <1>1, <1>20, <1>25

-----------------------------------------------------------------------------
(* Received frames. *)

\* Protocol information is only taken by a node that has none, which is not taken
\* for a sleeping one.
LEMMA ProtocolInfoGoes ==
  ASSUME NEW S, NEW f, NEW exists \in BOOLEAN, Typed(S), S.cur.node \in DOMAIN S.nodes,
         Going(S, S.cur.node)
  PROVE  LET n == S.cur.node
             T == HandleGetNodeProtocolInfoResponse(S, f, exists)
         IN  Step(S, T, n) /\ Going(T, n)
<1> DEFINE n == S.cur.node
           x == S.nodes[n]
           listening == f.node \notin Sleepers
           wake == f.node \in Sleepers
           y == [x EXCEPT !.info = TRUE, !.listening = listening, !.wake = wake]
           T == [S EXCEPT !.nodes[n].info = TRUE,
                          !.nodes[n].listening = listening,
                          !.nodes[n].wake = wake]
<1>1. HandleGetNodeProtocolInfoResponse(S, f, exists) =
        IF x.info THEN S ELSE IF ~exists THEN SetNodeAlive(S, n, FALSE) ELSE T
  BY DEF HandleGetNodeProtocolInfoResponse
<1> HIDE DEF n, listening, wake
<1>2. n \in DOMAIN S.nodes /\ Going(S, n)  BY DEF n
<1>3. Step(S, S, n)  BY DEF Step
<1>4. Step(S, SetNodeAlive(S, n, FALSE), n) /\ Going(SetNodeAlive(S, n, FALSE), n)
  <2>1. Pending(S, n) /\ S.nodes[n].stage # None  BY <1>2 DEF Going
  <2> QED  BY <1>2, <2>1, SetNodeAliveGoes
<1>5. ~x.info => Step(S, T, n) /\ Going(T, n)
  <2> SUFFICES ASSUME ~x.info PROVE Step(S, T, n) /\ Going(T, n)
    OBVIOUS
  <2>0. NodeOK(x, n)  BY <1>2 DEF Typed
  <2>1. /\ DOMAIN T = DOMAIN S /\ T.queue = S.queue /\ T.cur = S.cur /\ T.nextId = S.nextId
        /\ T.nodes = [S.nodes EXCEPT ![n] = y]
    BY DEF Typed, DriverFields
  <2>2. /\ DOMAIN y = NodeFields
        /\ y.stage = x.stage /\ y.pending = x.pending /\ y.retries = x.retries
        /\ y.errors = x.errors /\ y.waiting = x.waiting /\ y.alive = x.alive /\ y.info
    BY <2>0 DEF NodeOK, NodeFields
  <2> HIDE DEF y, T
  <2>3. NodeOK(y, n)  BY <2>0, <2>2 DEF NodeOK
  <2>4. Step(S, T, n) /\ T.nodes[n] = y  BY <1>2, <2>1, <2>3, NodeStep
  <2>5. ~Asleep(S, n)  BY <1>2 DEF Going, Pending, Asleep
  <2>6. \A a : FreshMark(S, n, a) => FreshMark(T, n, a)
    BY <2>1, <2>5 DEF FreshMark
  <2>7. Marked(S, n) => Marked(T, n)  BY <2>1, <2>5 DEF Marked
  <2>8. Going(T, n)  BY <1>2, <2>2, <2>4, <2>6, <2>7 DEF Going, Pending
  <2> QED  BY <2>4, <2>8
<1> HIDE DEF T
<1> QED  BY <1>1, <1>2, <1>3, <1>4, <1>5 DEF n

LEMMA ErrorGoes ==
  ASSUME NEW S, NEW n, NEW status, Typed(S), n \in DOMAIN S.nodes, Going(S, n)
  PROVE  LET T == HandleErrorResponse(S, n, status)
         IN  Step(S, T, n) /\ Going(T, n)
<1> DEFINE errors == Min({S.nodes[n].errors + 1, 3})
           T == [S EXCEPT !.nodes[n].errors = errors]
           D == SetNodeAlive(T, n, FALSE)
           M == MoveMessagesToWakeUpQueue(S, n)
<1>1. HandleErrorResponse(S, n, status) =
        IF status = "noAck" /\ CanWait(S, n) THEN M
        ELSE IF T.nodes[n].errors >= 3 THEN D
        ELSE T
  BY DEF HandleErrorResponse
<1>2. errors \in 0..3
  <2>1. S.nodes[n].errors \in 0..3  BY DEF Typed, NodeOK
  <2> DEFINE E == {S.nodes[n].errors + 1, 3}
  <2>2. E \subseteq 0..4 /\ 3 \in E  BY <2>1
  <2> HIDE DEF E
  <2>3. Min(E) \in E /\ Min(E) <= 3
    <3>1. E \subseteq Nat /\ E # {}  BY <2>2
    <3>2. Min(E) \in E /\ \A e \in E : Min(E) <= e  BY <3>1, MinIsLeast
    <3> QED  BY <2>2, <3>2
  <2>4. Min(E) \in 0..3
    <3>1. \A m \in 0..4 : m <= 3 => m \in 0..3  OBVIOUS
    <3> QED  BY <2>2, <2>3, <3>1
  <2> QED  BY <2>4 DEF E
<1> HIDE DEF errors
<1>3. Step(S, T, n) /\ Typed(T) /\ n \in DOMAIN T.nodes /\ Going(T, n)
  BY <1>2, ErrorsGo
<1> HIDE DEF T
<1>4. Step(T, D, n) /\ Going(D, n)
  <2>1. Pending(T, n) /\ T.nodes[n].stage # None  BY <1>3 DEF Going
  <2> QED  BY <1>3, <2>1, SetNodeAliveGoes
<1> HIDE DEF D
<1>5. Step(S, D, n)  BY <1>3, <1>4, StepTransitive
<1>6. CanWait(S, n) => Step(S, M, n) /\ Going(M, n)  BY MoveMessagesGoes
<1> HIDE DEF M
<1> QED  BY <1>1, <1>3, <1>4, <1>5, <1>6

LEMMA SendDataGoes ==
  ASSUME NEW S, NEW id, NEW status, Typed(S), S.cur.node \in DOMAIN S.nodes,
         Going(S, S.cur.node)
  PROVE  LET n == S.cur.node
             T == HandleSendDataRequest(S, id, status)
         IN  Step(S, T, n) /\ Going(T, n)
<1> DEFINE n == S.cur.node
           T == HandleErrorResponse(S, n, status)
           A == SetAwake(S, n, FALSE)
           B == IF S.cur.ask = NoMoreInformation THEN A ELSE S
           R == QueryStageRetry(T, n, T.nodes[n].stage, 3)
<1>1. HandleSendDataRequest(S, id, status) \in {S, Revive(B, n), T} \/
      /\ T.nodes[n].stage \in {Probe, Probe1}
      /\ HandleSendDataRequest(S, id, status) = R
  BY DEF HandleSendDataRequest
<1> HIDE DEF n
<1>2. n \in DOMAIN S.nodes /\ Going(S, n)  BY DEF n
<1>3. Step(S, S, n)  BY DEF Step
<1>4. Step(S, A, n) /\ Going(A, n)  BY <1>2, FallAsleepGoes
<1> HIDE DEF A
<1>5. Step(S, B, n) /\ Going(B, n)  BY <1>2, <1>3, <1>4
<1> HIDE DEF B
<1>6. Step(S, Revive(B, n), n) /\ Going(Revive(B, n), n)
  <2>1. Typed(B) /\ n \in DOMAIN B.nodes  BY <1>2, <1>5 DEF Step
  <2>2. Step(B, Revive(B, n), n) /\ Going(Revive(B, n), n)  BY <1>5, <2>1, ReviveGoes
  <2> QED  BY <1>5, <2>2, StepTransitive
<1>7. Step(S, T, n) /\ Going(T, n)  BY <1>2, ErrorGoes
<1> HIDE DEF T
<1>8. T.nodes[n].stage \in {Probe, Probe1} => Step(S, R, n) /\ Going(R, n)
  <2> SUFFICES ASSUME T.nodes[n].stage \in {Probe, Probe1}
               PROVE  Step(S, R, n) /\ Going(R, n)
    OBVIOUS
  <2>1. Typed(T) /\ n \in DOMAIN T.nodes  BY <1>2, <1>7 DEF Step
  <2>2. T.nodes[n].stage \in ProtocolInfo..Dynamic /\ 3 \in 2..3
    BY DEF Probe, Probe1, ProtocolInfo, Dynamic
  <2>3. Step(T, R, n) /\ Going(R, n)  BY <1>7, <2>1, <2>2, QueryStageRetryGoes
  <2> QED  BY <1>7, <2>3, StepTransitive
<1> HIDE DEF R
<1> QED  BY <1>1, <1>2, <1>3, <1>6, <1>7, <1>8 DEF n

LEMMA HandleMsgGoes ==
  ASSUME NEW S, NEW f, Typed(S), f.node \in DOMAIN S.nodes, Going(S, f.node)
  PROVE  LET T == HandleMsg(S, f)
         IN  Step(S, T, f.node) /\ Going(T, f.node)
<1> DEFINE n == f.node
           x == S.nodes[n]
           answered == x.answered \cup {f.ask}
           y == [x EXCEPT !.answered = answered]
           T == [S EXCEPT !.nodes[n].answered = @ \cup {f.ask}]
           U == SendMsg(S, n, IntervalSet, WakeUpQueue)
<1>1. HandleMsg(S, f) \in {S, T, U}
  <2>1. \/ f.ask \in {WakeUp, Session} /\ n \in Retarget /\ x.wake /\ ~x.listening
        \/ f.ask \in StaticQuestions
        \/ /\ ~(f.ask \in {WakeUp, Session} /\ n \in Retarget /\ x.wake /\ ~x.listening)
           /\ f.ask \notin StaticQuestions
    OBVIOUS
  <2>2. f.ask \in {WakeUp, Session} => f.ask \notin StaticQuestions
    BY DEF StaticQuestions, WakeUp, Session, NodePlusInfo, ManufacturerSpecific2, Versions,
           Instances, Static
  <2> QED  BY <2>1, <2>2 DEF HandleMsg
<1> HIDE DEF n
<1>2. n \in DOMAIN S.nodes /\ Going(S, n)  BY DEF n
<1>3. Step(S, S, n)  BY DEF Step
<1>4. Step(S, T, n) /\ Going(T, n)
  <2>1. NodeOK(x, n)  BY <1>2 DEF Typed
  <2>2. /\ DOMAIN T = DOMAIN S /\ T.queue = S.queue /\ T.cur = S.cur /\ T.nextId = S.nextId
        /\ T.nodes = [S.nodes EXCEPT ![n] = y]
    BY DEF Typed, DriverFields
  <2> HIDE DEF answered
  <2>3. /\ DOMAIN y = NodeFields /\ y.errors = x.errors /\ y.retries = x.retries
        /\ y.waiting = x.waiting /\ y.listening = x.listening
        /\ y.wake = x.wake /\ y.awake = x.awake /\ y.stage = x.stage /\ y.pending = x.pending
        /\ y.alive = x.alive /\ y.info = x.info
    BY <2>1 DEF NodeOK, NodeFields
  <2> HIDE DEF y, T
  <2>4. NodeOK(y, n)  BY <2>1, <2>3 DEF NodeOK
  <2> QED  BY <1>2, <2>2, <2>3, <2>4, FieldGoes
<1>5. Step(S, U, n) /\ Going(U, n)
  <2>1. IntervalSet \in None..IntervalSet /\ WakeUpQueue \in Queues
    BY DEF None, IntervalSet, WakeUpQueue, Queues
  <2>2. Carries(S, U, n) /\ SameNode(S, U, n)  BY <1>2, <2>1, SendMsgCarries
  <2> HIDE DEF U
  <2> QED  BY <1>2, <2>2, SameNodeGoing DEF Carries
<1> HIDE DEF T, U
<1> QED  BY <1>1, <1>2, <1>3, <1>4, <1>5 DEF n

LEMMA WakeUpNotificationGoes ==
  ASSUME NEW S, NEW n, Typed(S), n \in DOMAIN S.nodes, Going(S, n)
  PROVE  LET T == HandleWakeUpNotification(S, n)
         IN  Step(S, T, n) /\ Going(T, n)
<1> DEFINE x == S.nodes[n]
           y == [x EXCEPT !.notified = TRUE]
           T == [S EXCEPT !.nodes[n].notified = TRUE]
           U == SetAwake(T, n, TRUE)
<1>1. HandleWakeUpNotification(S, n) \in {S, U}  BY DEF HandleWakeUpNotification
<1>2. Step(S, S, n)  BY DEF Step
<1>3. Step(S, T, n) /\ Typed(T) /\ n \in DOMAIN T.nodes /\ Going(T, n)
  <2>1. NodeOK(x, n)  BY DEF Typed
  <2>2. /\ DOMAIN T = DOMAIN S /\ T.queue = S.queue /\ T.cur = S.cur /\ T.nextId = S.nextId
        /\ T.nodes = [S.nodes EXCEPT ![n] = y]
    BY DEF Typed, DriverFields
  <2>3. /\ DOMAIN y = NodeFields /\ y.errors = x.errors /\ y.retries = x.retries
        /\ y.waiting = x.waiting /\ y.listening = x.listening
        /\ y.wake = x.wake /\ y.awake = x.awake /\ y.stage = x.stage /\ y.pending = x.pending
        /\ y.alive = x.alive /\ y.info = x.info
    BY <2>1 DEF NodeOK, NodeFields
  <2> HIDE DEF y, T
  <2>4. NodeOK(y, n)  BY <2>1, <2>3 DEF NodeOK
  <2> QED  BY <2>2, <2>3, <2>4, FieldGoes
<1> HIDE DEF T
<1>4. Step(T, U, n) /\ Going(U, n)  BY <1>3, SetAwakeGoes
<1> HIDE DEF U
<1>5. Step(S, U, n)  BY <1>3, <1>4, StepTransitive
<1> QED  BY <1>1, <1>2, <1>4, <1>5

LEMMA UpdateNodeInfoGoes ==
  ASSUME NEW S, NEW n, Typed(S), n \in DOMAIN S.nodes, Going(S, n)
  PROVE  LET T == UpdateNodeInfo(S, n)
         IN  Step(S, T, n) /\ Going(T, n)
<1> DEFINE x == S.nodes[n]
           y == [x EXCEPT !.optional = TRUE]
           T == [S EXCEPT !.nodes[n].optional = TRUE]
           Q == SetQueryStage(T, n, ManufacturerSpecific2)
           U == IF {Versions, Instances} \cap Known(n, T.nodes[n]) # {} THEN Q ELSE T
           z == [U.nodes[n] EXCEPT !.nif = TRUE]
           I == [U EXCEPT !.nodes[n].nif = TRUE]
           D == SetQueryStage(S, n, Dynamic)
           V == IF S.nodes[n].nif THEN D ELSE I
           W == SetAwake(V, n, TRUE)
<1>1. UpdateNodeInfo(S, n) = IF V.nodes[n].wake THEN W ELSE V  BY DEF UpdateNodeInfo
<1>2. Step(S, T, n) /\ Typed(T) /\ n \in DOMAIN T.nodes /\ Going(T, n)
  <2>1. NodeOK(x, n)  BY DEF Typed
  <2>2. /\ DOMAIN T = DOMAIN S /\ T.queue = S.queue /\ T.cur = S.cur /\ T.nextId = S.nextId
        /\ T.nodes = [S.nodes EXCEPT ![n] = y]
    BY DEF Typed, DriverFields
  <2>3. /\ DOMAIN y = NodeFields /\ y.errors = x.errors /\ y.retries = x.retries
        /\ y.waiting = x.waiting /\ y.listening = x.listening
        /\ y.wake = x.wake /\ y.awake = x.awake /\ y.stage = x.stage /\ y.pending = x.pending
        /\ y.alive = x.alive /\ y.info = x.info
    BY <2>1 DEF NodeOK, NodeFields
  <2> HIDE DEF y, T
  <2>4. NodeOK(y, n)  BY <2>1, <2>3 DEF NodeOK
  <2> QED  BY <2>2, <2>3, <2>4, FieldGoes
<1> HIDE DEF T
<1>3. Step(S, Q, n) /\ Going(Q, n)
  <2>1. ManufacturerSpecific2 \in ProtocolInfo..Complete
    BY DEF ManufacturerSpecific2, ProtocolInfo, Complete
  <2>2. Step(T, Q, n) /\ Going(Q, n)  BY <1>2, <2>1, SetQueryStageGoes DEF Going
  <2> QED  BY <1>2, <2>2, StepTransitive
<1> HIDE DEF Q
<1>4. Step(S, U, n) /\ Going(U, n)  BY <1>2, <1>3
<1> HIDE DEF U
<1>5. Typed(U) /\ n \in DOMAIN U.nodes  BY <1>4 DEF Step
<1>6. Step(S, I, n) /\ Going(I, n)
  <2> DEFINE u == U.nodes[n]
  <2>1. NodeOK(u, n)  BY <1>5 DEF Typed
  <2>2. /\ DOMAIN I = DOMAIN U /\ I.queue = U.queue /\ I.cur = U.cur /\ I.nextId = U.nextId
        /\ I.nodes = [U.nodes EXCEPT ![n] = z]
    BY <1>5 DEF Typed, DriverFields
  <2>3. /\ DOMAIN z = NodeFields /\ z.errors = u.errors /\ z.retries = u.retries
        /\ z.waiting = u.waiting /\ z.listening = u.listening
        /\ z.wake = u.wake /\ z.awake = u.awake /\ z.stage = u.stage /\ z.pending = u.pending
        /\ z.alive = u.alive /\ z.info = u.info
    BY <2>1 DEF NodeOK, NodeFields
  <2> HIDE DEF z, I
  <2>4. NodeOK(z, n)  BY <2>1, <2>3 DEF NodeOK
  <2>5. Step(U, I, n) /\ Going(I, n)  BY <1>4, <1>5, <2>2, <2>3, <2>4, FieldGoes
  <2> QED  BY <1>4, <2>5, StepTransitive
<1> HIDE DEF I
<1>7. Step(S, D, n) /\ Going(D, n)
  <2>1. Dynamic \in ProtocolInfo..Complete  BY DEF Dynamic, ProtocolInfo, Complete
  <2> QED  BY <2>1, SetQueryStageGoes DEF Going
<1> HIDE DEF D
<1>8. Step(S, V, n) /\ Going(V, n)  BY <1>6, <1>7
<1> HIDE DEF V
<1>9. Step(S, W, n) /\ Going(W, n)
  <2>1. Typed(V) /\ n \in DOMAIN V.nodes  BY <1>8 DEF Step
  <2>2. Step(V, W, n) /\ Going(W, n)  BY <1>8, <2>1, SetAwakeGoes
  <2> QED  BY <1>8, <2>2, StepTransitive
<1> HIDE DEF W
<1> QED  BY <1>1, <1>8, <1>9

-----------------------------------------------------------------------------
(* The whole driver. *)

\* Everything is typed, and the queries of every node go on.
AllGo(S) == Typed(S) /\ \A m \in DOMAIN S.nodes : Going(S, m)

LEMMA StepAllGo ==
  ASSUME NEW S, NEW T, NEW n, AllGo(S), Step(S, T, n), n \in DOMAIN S.nodes => Going(T, n)
  PROVE  AllGo(T)
<1>1. Typed(T) /\ DOMAIN T.nodes = DOMAIN S.nodes  BY DEF Step
<1>2. ASSUME NEW m \in DOMAIN S.nodes, m # n PROVE Going(T, m)
  BY <1>2, OthersGo DEF AllGo
<1> QED  BY <1>1, <1>2 DEF AllGo

\* A step that leaves nodes and queues alone.
LEMMA SameAllGo ==
  ASSUME NEW S, NEW T, AllGo(S), Typed(T), T.nodes = S.nodes, T.queue = S.queue
  PROVE  AllGo(T)
<1> SUFFICES ASSUME NEW m \in DOMAIN S.nodes PROVE Going(T, m)
  BY DEF AllGo
<1>1. \A a : FreshMark(S, m, a) => FreshMark(T, m, a)  BY DEF FreshMark, Asleep
<1>2. Marked(S, m) => Marked(T, m)  BY DEF Marked, Asleep
<1>3. Going(S, m)  BY DEF AllGo
<1> QED  BY <1>1, <1>2, <1>3 DEF Going, Pending

LEMMA GenericCallbackGoes ==
  ASSUME NEW S, NEW f, AllGo(S)
  PROVE  AllGo(GenericCallback(S, f))
<1> DEFINE cb == IF S.cb = f.byte2 THEN 0 ELSE S.cb
           expected == /\ S.reply = f.func
                       /\ f.func = "command" =>
                            /\ cb = 0 /\ f.node = S.cur.node
                            /\ CommandClass(f.ask) = CommandClass(S.cur.ask)
                       /\ f.func = "update" => f.node \in {0, S.cur.node}
           reply == IF expected THEN NoReply ELSE S.reply
           T == GenericCallback(S, f)
           R == RemoveCurrentMsg(S)
           C == [S EXCEPT !.cb = cb, !.reply = reply]
<1>1. T \in {S, R, C}  BY DEF GenericCallback
<1> HIDE DEF T, cb, reply, expected
<1>2. Typed(S)  BY DEF AllGo
<1>3. /\ DOMAIN R = DOMAIN S /\ R.nodes = S.nodes /\ R.nextId = S.nextId
      /\ R.queue = S.queue /\ R.cur = NULL
  BY <1>2 DEF Typed, DriverFields, RemoveCurrentMsg
<1>4. /\ DOMAIN C = DOMAIN S /\ C.nodes = S.nodes /\ C.nextId = S.nextId
      /\ C.queue = S.queue /\ C.cur = S.cur
  BY <1>2 DEF Typed, DriverFields
<1> HIDE DEF R, C
<1>5. Typed(R) /\ Typed(C)  BY <1>2, <1>3, <1>4 DEF Typed
<1>6. AllGo(R) /\ AllGo(C)  BY <1>3, <1>4, <1>5, SameAllGo
<1> QED  BY <1>1, <1>6 DEF T

LEMMA WriteMsgGoes ==
  ASSUME NEW S, AllGo(S)
  PROVE  AllGo(WriteMsg(S))
<1> DEFINE m == S.cur
           id == IF CallbackRequired(m.ask) /\ m.tries # 0 THEN NextId(S.nextId) ELSE m.id
           next == IF id = m.id THEN S.nextId ELSE (id + 1) % 256
           c == [m EXCEPT !.tries = m.tries + 1, !.id = id]
           R == RemoveCurrentMsg(S)
           T == [S EXCEPT !.cur.tries = @ + 1, !.cur.id = id, !.cb = id,
                          !.reply = ExpectedReply(m.ask),
                          !.nextId = IF id = m.id THEN @ ELSE (id + 1) % 256]
<1>1. \/ WriteMsg(S) = R
      \/ WriteMsg(S) = T /\ ~(m.tries >= m.max)
  BY DEF WriteMsg
<1>2. Typed(S)  BY DEF AllGo
<1>3. /\ DOMAIN R = DOMAIN S /\ R.nodes = S.nodes /\ R.nextId = S.nextId
      /\ R.queue = S.queue /\ R.cur = NULL
  BY <1>2 DEF Typed, DriverFields, RemoveCurrentMsg
<1> HIDE DEF R
<1>4. Typed(R)  BY <1>2, <1>3 DEF Typed
<1>5. AllGo(R)  BY <1>3, <1>4, SameAllGo
<1>6. ASSUME ~(m.tries >= m.max) PROVE AllGo(T)
  <2>1. m # NULL  BY <1>6 DEF NULL
  <2>2. /\ m \in Message /\ Item(m) /\ m.cmd = "SendMsg" /\ m.node \in DOMAIN S.nodes
    BY <1>2, <2>1, ItemKinds DEF Typed
  <2>3. S.nextId \in {0} \cup FirstId..255  BY <1>2 DEF Typed
  <2>4. NextId(S.nextId) \in FirstId..255  BY <2>3 DEF NextId, FirstId
  <2>5. /\ (IF CallbackRequired(m.ask) THEN id \in FirstId..255 ELSE id = 0)
        /\ id # m.id => id \in FirstId..255
    <3>1. IF CallbackRequired(m.ask) THEN m.id \in FirstId..255 ELSE m.id = 0
      BY <2>2 DEF Item
    <3> QED  BY <2>4, <3>1
  <2> HIDE DEF id
  <2>6. next \in {0} \cup FirstId..255
    BY <2>3, <2>5 DEF FirstId
  <2>7. /\ DOMAIN T = DOMAIN S /\ T.nodes = S.nodes /\ T.queue = S.queue
        /\ T.cur = c /\ T.nextId = next
    BY <1>2 DEF Typed, DriverFields
  <2> HIDE DEF T, next
  <2>8. /\ m.tries \in 0..m.max /\ m.max \in 1..MAX_MAX_TRIES - 1 /\ m.ask \in None..IntervalSet
        /\ m.node \in Nodes
    BY <2>2 DEF Item, Message
  <2>9. id \in 0..255  BY <2>5 DEF FirstId
  <2>10. m.tries + 1 \in 0..m.max /\ m.tries + 1 \in 0..MAX_MAX_TRIES - 1
    BY <1>6, <2>8 DEF MAX_MAX_TRIES
  <2>11. c \in Message  BY <2>2, <2>9, <2>10 DEF Message
  <2>12. /\ c.cmd = "SendMsg" /\ c.node = m.node /\ c.ask = m.ask /\ c.max = m.max
         /\ c.tries = m.tries + 1 /\ c.id = id
    BY <2>2 DEF Message
  <2> HIDE DEF c
  <2>13. Item(c)  BY <2>5, <2>8, <2>10, <2>12 DEF Item
  <2>14. c \in Items  BY <2>11, <2>13 DEF Items
  <2>15. Typed(T)  BY <1>2, <2>2, <2>6, <2>7, <2>12, <2>14 DEF Typed
  <2> QED  BY <2>7, <2>15, SameAllGo
<1> QED  BY <1>1, <1>5, <1>6

LEMMA NodeInfoGoes ==
  ASSUME NEW S, NEW f, AllGo(S)
  PROVE  AllGo(HandleNodeInfo(S, f)) /\ AllGo(HandleNodeInfoFailed(S, f))
<1>1. AllGo(HandleNodeInfo(S, f))
  <2> DEFINE n == f.node
             R == Revive(S, n)
             U == UpdateNodeInfo(R, n)
             V == IF n \in DOMAIN S.nodes THEN U ELSE S
  <2>1. HandleNodeInfo(S, f) = GenericCallback(V, f)  BY DEF HandleNodeInfo
  <2>2. ASSUME n \in DOMAIN S.nodes PROVE AllGo(U)
    <3>1. Step(S, R, n) /\ Going(R, n)  BY <2>2, ReviveGoes DEF AllGo
    <3> HIDE DEF R
    <3>2. Typed(R) /\ n \in DOMAIN R.nodes  BY <2>2, <3>1 DEF Step
    <3>3. Step(R, U, n) /\ Going(U, n)  BY <3>1, <3>2, UpdateNodeInfoGoes
    <3> HIDE DEF U, n
    <3>4. Step(S, U, n)  BY <3>1, <3>3, StepTransitive
    <3> QED  BY <3>3, <3>4, StepAllGo
  <2> HIDE DEF U
  <2>3. AllGo(V)  BY <2>2
  <2> HIDE DEF V
  <2> QED  BY <2>1, <2>3, GenericCallbackGoes
<1>2. AllGo(HandleNodeInfoFailed(S, f))
  <2> DEFINE n == S.cur.node
             T == QueryStageRetry(S, n, NodeInfo, 2)
             M == MoveMessagesToWakeUpQueue(T, n)
             g == [f EXCEPT !.node = 0, !.byte2 = NODE_INFO_REQ_FAILED]
  <2>1. HandleNodeInfoFailed(S, f) =
          IF n \notin DOMAIN S.nodes THEN GenericCallback(S, g)
          ELSE IF CanWait(T, n) THEN M
          ELSE GenericCallback(T, g)
    BY DEF HandleNodeInfoFailed
  <2> HIDE DEF n, g
  <2>2. AllGo(GenericCallback(S, g))  BY GenericCallbackGoes
  <2>3. ASSUME n \in DOMAIN S.nodes
        PROVE  AllGo(GenericCallback(T, g)) /\ (CanWait(T, n) => AllGo(M))
    <3>1. NodeInfo \in ProtocolInfo..Dynamic /\ 2 \in 2..3
      BY DEF NodeInfo, ProtocolInfo, Dynamic
    <3>2. Step(S, T, n) /\ Going(T, n)  BY <2>3, <3>1, QueryStageRetryGoes DEF AllGo
    <3> HIDE DEF T
    <3>3. AllGo(T)  BY <3>2, StepAllGo
    <3>4. CanWait(T, n) => Step(T, M, n) /\ Going(M, n)
      BY <3>2, <3>3, MoveMessagesGoes DEF AllGo
    <3> HIDE DEF M
    <3>5. CanWait(T, n) => AllGo(M)  BY <3>3, <3>4, StepAllGo
    <3> QED  BY <3>3, <3>5, GenericCallbackGoes
  <2> HIDE DEF T, M
  <2> QED  BY <2>1, <2>2, <2>3
<1> QED  BY <1>1, <1>2

-----------------------------------------------------------------------------
(* The table of nodes. *)

\* Nodes other than n fare in T as they did in S.
OthersFare(S, T, n) ==
  \A m \in DOMAIN T.nodes : m # n =>
    /\ m \in DOMAIN S.nodes
    /\ Pending(S, m) => Pending(T, m)
    /\ Going(S, m) => Going(T, m)

LEMMA DeleteNodeLeaves ==
  ASSUME NEW S, NEW n, Typed(S)
  PROVE  LET T == DeleteNode(S, n)
         IN  Typed(T) /\ DOMAIN T.nodes = DOMAIN S.nodes \ {n} /\ OthersFare(S, T, n)
<1> DEFINE R == RemoveQueues(S, n)
           left == [m \in DOMAIN S.nodes \ {n} |-> S.nodes[m]]
           T == [R EXCEPT !.nodes = left]
<1>1. DeleteNode(S, n) = T  BY DEF DeleteNode
<1>2. /\ DOMAIN R = DOMAIN S /\ R.nodes = S.nodes /\ R.nextId = S.nextId
      /\ R.cur \in {S.cur, NULL} /\ (R.cur # NULL => R.cur.node # n)
      /\ DOMAIN R.queue = Queues
      /\ \A q \in Queues : /\ R.queue[q] \in Seq(Items)
                           /\ ToSet(R.queue[q]) = {i \in ToSet(S.queue[q]) : i.node # n}
  BY RemoveQueuesLeaves
<1> HIDE DEF R
<1>3. /\ DOMAIN T = DOMAIN S /\ T.queue = R.queue /\ T.cur = R.cur /\ T.nextId = S.nextId
      /\ T.nodes = left
  <2> HIDE DEF left
  <2> QED  BY <1>2 DEF Typed, DriverFields
<1> HIDE DEF T
<1>4. DOMAIN T.nodes = DOMAIN S.nodes \ {n} /\ \A m \in DOMAIN T.nodes : T.nodes[m] = S.nodes[m]
  BY <1>3
<1> HIDE DEF left
<1>5. Typed(T)
  <2>1. \A q \in Queues : /\ T.queue[q] \in Seq(Items)
                          /\ \A i \in ToSet(T.queue[q]) : i.node \in DOMAIN T.nodes
    BY <1>2, <1>3, <1>4 DEF Typed
  <2>2. T.cur # NULL =>
          T.cur \in Items /\ T.cur.cmd = "SendMsg" /\ T.cur.node \in DOMAIN T.nodes
    BY <1>2, <1>3, <1>4 DEF Typed
  <2>3. /\ DOMAIN T = DriverFields /\ DOMAIN T.queue = Queues /\ DOMAIN T.nodes \subseteq Nodes
        /\ T.nextId \in {0} \cup FirstId..255
        /\ \A m \in DOMAIN T.nodes : NodeOK(T.nodes[m], m)
    BY <1>2, <1>3, <1>4 DEF Typed
  <2> QED  BY <2>1, <2>2, <2>3 DEF Typed
<1>6. QueryQueue \in Queues  BY DEF QueryQueue, Queues
<1>7. OthersFare(S, T, n)
  <2> SUFFICES ASSUME NEW m \in DOMAIN T.nodes, m # n
               PROVE  /\ Pending(S, m) => Pending(T, m)
                      /\ Going(S, m) => Going(T, m)
    BY <1>4 DEF OthersFare
  <2>1. T.nodes[m] = S.nodes[m] /\ (Asleep(S, m) <=> Asleep(T, m))
    BY <1>4 DEF Asleep
  <2>2. \A i \in ToSet(S.queue[QueryQueue]) : i.node = m => i \in ToSet(T.queue[QueryQueue])
    BY <1>2, <1>3, <1>6
  <2>3. \A a : FreshMark(S, m, a) => FreshMark(T, m, a)  BY <2>1, <2>2 DEF FreshMark
  <2>4. Marked(S, m) => Marked(T, m)  BY <2>1, <2>2 DEF Marked, Marks
  <2> QED  BY <2>1, <2>3, <2>4 DEF Pending, Going
<1> QED  BY <1>1, <1>4, <1>5, <1>7

LEMMA NewNodeOK ==
  ASSUME NEW n
  PROVE  NodeOK(NewNode, n)
<1>1. WaitsIn(<<>>, n)  BY EmptySet DEF WaitsIn
<1> QED  BY <1>1 DEF NewNode, NodeOK, NodeFields, None, Complete

\* The table with a new node.
LEMMA WithNewNode ==
  ASSUME NEW S, NEW n \in Nodes, Typed(S), n \notin DOMAIN S.nodes
  PROVE  LET W == WithNode(S, n, NewNode)
         IN  /\ Typed(W) /\ W.queue = S.queue /\ W.cur = S.cur /\ W.notify = S.notify
             /\ DOMAIN W.nodes = DOMAIN S.nodes \cup {n} /\ W.nodes[n] = NewNode
             /\ \A m \in DOMAIN S.nodes : m # n /\ W.nodes[m] = S.nodes[m]
<1> DEFINE nodes == [m \in DOMAIN S.nodes \cup {n} |-> IF m = n THEN NewNode ELSE S.nodes[m]]
           W == WithNode(S, n, NewNode)
<1>1. /\ DOMAIN W = DOMAIN S /\ W.queue = S.queue /\ W.cur = S.cur /\ W.nextId = S.nextId
      /\ W.notify = S.notify /\ W.nodes = nodes
  <2>1. W = [S EXCEPT !.nodes = nodes]  BY DEF WithNode
  <2> HIDE DEF nodes, W
  <2> QED  BY <2>1 DEF Typed, DriverFields
<1> HIDE DEF W
<1>2. /\ DOMAIN W.nodes = DOMAIN S.nodes \cup {n} /\ W.nodes[n] = NewNode
      /\ \A m \in DOMAIN S.nodes : m # n /\ W.nodes[m] = S.nodes[m]
  BY <1>1
<1> HIDE DEF nodes
<1>3. Typed(W)
  <2>1. \A q \in Queues : /\ W.queue[q] \in Seq(Items)
                          /\ \A i \in ToSet(W.queue[q]) : i.node \in DOMAIN W.nodes
    BY <1>1, <1>2 DEF Typed
  <2>2. W.cur # NULL =>
          W.cur \in Items /\ W.cur.cmd = "SendMsg" /\ W.cur.node \in DOMAIN W.nodes
    BY <1>1, <1>2 DEF Typed
  <2>3. \A m \in DOMAIN W.nodes : NodeOK(W.nodes[m], m)
    BY <1>2, NewNodeOK DEF Typed
  <2>4. /\ DOMAIN W = DriverFields /\ DOMAIN W.queue = Queues /\ DOMAIN W.nodes \subseteq Nodes
        /\ W.nextId \in {0} \cup FirstId..255
    BY <1>1, <1>2 DEF Typed
  <2> QED  BY <2>1, <2>2, <2>3, <2>4 DEF Typed
<1> QED  BY <1>1, <1>2, <1>3 DEF W

LEMMA InitNodeGoes ==
  ASSUME NEW S, NEW n \in Nodes, Typed(S)
  PROVE  LET T == InitNode(S, n)
         IN  /\ Typed(T) /\ DOMAIN T.nodes = DOMAIN S.nodes \cup {n}
             /\ Going(T, n) /\ OthersFare(S, T, n)
<1> DEFINE D == DeleteNode(S, n)
           W == WithNode(D, n, NewNode)
           T == SetQueryStage(W, n, ProtocolInfo)
<1>1. InitNode(S, n) = T  BY DEF InitNode
<1>2. Typed(D) /\ DOMAIN D.nodes = DOMAIN S.nodes \ {n} /\ OthersFare(S, D, n)
  BY DeleteNodeLeaves
<1> HIDE DEF D
<1>3. n \notin DOMAIN D.nodes  BY <1>2
<1>4. /\ Typed(W) /\ W.queue = D.queue
      /\ DOMAIN W.nodes = DOMAIN D.nodes \cup {n} /\ W.nodes[n] = NewNode
      /\ \A m \in DOMAIN D.nodes : m # n /\ W.nodes[m] = D.nodes[m]
  BY <1>2, <1>3, WithNewNode
<1> HIDE DEF W
<1>5. DOMAIN W.nodes = DOMAIN S.nodes \cup {n}  BY <1>2, <1>4
<1>6. Pending(W, n)
  <2>1. ~NewNode.pending /\ NewNode.alive /\ ~NewNode.wake  BY DEF NewNode
  <2> QED  BY <1>4, <2>1 DEF Pending
<1>7. Step(W, T, n) /\ Going(T, n)
  <2>1. ProtocolInfo \in ProtocolInfo..Complete  BY DEF ProtocolInfo, Complete
  <2> QED  BY <1>4, <1>6, <2>1, SetQueryStageGoes
<1> HIDE DEF T
<1>8. Typed(T) /\ DOMAIN T.nodes = DOMAIN S.nodes \cup {n}  BY <1>5, <1>7 DEF Step
<1>9. ASSUME NEW m \in DOMAIN T.nodes, m # n
      PROVE  /\ m \in DOMAIN S.nodes
             /\ Pending(S, m) => Pending(T, m)
             /\ Going(S, m) => Going(T, m)
  <2>1. m \in DOMAIN D.nodes /\ m \in DOMAIN W.nodes  BY <1>2, <1>5, <1>8, <1>9
  <2>2. /\ Pending(S, m) => Pending(D, m)
        /\ Going(S, m) => Going(D, m)
    BY <1>2, <1>9, <2>1 DEF OthersFare
  <2>3. W.nodes[m] = D.nodes[m] /\ (Asleep(D, m) <=> Asleep(W, m))
    BY <1>4, <2>1 DEF Asleep
  <2>4. \A a : FreshMark(D, m, a) => FreshMark(W, m, a)  BY <1>4, <2>3 DEF FreshMark
  <2>5. Marked(D, m) => Marked(W, m)  BY <1>4, <2>3 DEF Marked
  <2>6. /\ Pending(D, m) => Pending(W, m)
        /\ Going(D, m) => Going(W, m)
    BY <2>3, <2>4, <2>5 DEF Pending, Going
  <2>7. /\ Pending(W, m) => Pending(T, m)
        /\ Going(W, m) => Going(T, m)
    BY <1>4, <1>7, <1>9, <2>1, OthersGo
  <2> QED  BY <1>8, <1>9, <2>2, <2>6, <2>7
<1> QED  BY <1>1, <1>7, <1>8, <1>9 DEF OthersFare

LEMMA ReadXMLOK ==
  ASSUME NEW n, NEW saved \in None..Complete
  PROVE  LET x == ReadXML(n, saved)
         IN  NodeOK(x, n) /\ ~x.pending /\ x.alive /\ (x.wake => x.info)
<1> DEFINE stage == Min({saved, Associations})
           info == stage > ProtocolInfo
           nif == stage > NodeInfo
           answered == IF stage > Static THEN StaticQuestions ELSE {}
           listening == ~info \/ n \notin Sleepers
           wake == info /\ n \in Sleepers
           x == [NewNode EXCEPT !.stage = stage, !.info = info, !.nif = nif, !.optional = nif,
                   !.answered = answered, !.listening = listening, !.wake = wake]
<1>1. ReadXML(n, saved) = x  BY DEF ReadXML
<1>2. stage \in None..Complete
  <2> DEFINE M == {saved, Associations}
  <2>1. M \subseteq None..Complete /\ M # {} /\ M \subseteq Nat
    BY DEF None, Complete, Associations
  <2> HIDE DEF M
  <2>2. Min(M) \in M  BY <2>1, MinIsLeast
  <2> QED  BY <2>1, <2>2 DEF M
<1>3. wake => info  OBVIOUS
<1> HIDE DEF stage, info, nif, answered, listening, wake
<1>4. NodeOK(NewNode, n) /\ ~NewNode.pending /\ NewNode.alive
  BY NewNodeOK DEF NewNode
<1>5. /\ DOMAIN x = NodeFields /\ x.stage = stage /\ x.retries = NewNode.retries
      /\ x.errors = NewNode.errors /\ x.waiting = NewNode.waiting
      /\ x.pending = NewNode.pending /\ x.alive = NewNode.alive
      /\ x.wake = wake /\ x.info = info
  BY <1>4 DEF NodeOK, NodeFields
<1> HIDE DEF x
<1>6. NodeOK(x, n)  BY <1>2, <1>4, <1>5 DEF NodeOK
<1> QED  BY <1>1, <1>3, <1>4, <1>5, <1>6

\* The nodes of zwcfg before anything is asked.
LEMMA ReadConfigPending ==
  ASSUME NEW id \in StartIds, NEW net \in SUBSET Nodes, NEW zwcfg \in [net -> None..Complete]
  PROVE  LET S == ReadConfig(id, zwcfg)
         IN  /\ Typed(S) /\ DOMAIN S.nodes \subseteq net
             /\ \A m \in DOMAIN S.nodes : Pending(S, m)
<1> DEFINE S == ReadConfig(id, zwcfg)
           there == {m \in DOMAIN zwcfg : zwcfg[m] # None}
<1>1. /\ DOMAIN S = DriverFields /\ S.cur = NULL /\ S.nextId = id
      /\ S.queue = [q \in Queues |-> <<>>]
      /\ S.nodes = [n \in there |-> ReadXML(n, zwcfg[n])]
  BY DEF ReadConfig, DriverFields
<1> HIDE DEF S
<1>2. there \subseteq net /\ DOMAIN S.nodes = there /\ \A n \in there : zwcfg[n] \in None..Complete
  BY <1>1
<1>3. \A n \in there : S.nodes[n] = ReadXML(n, zwcfg[n])  BY <1>1
<1> HIDE DEF there
<1>4. \A m \in there : /\ NodeOK(S.nodes[m], m) /\ ~S.nodes[m].pending /\ S.nodes[m].alive
                       /\ S.nodes[m].wake => S.nodes[m].info
  <2> TAKE m \in there
  <2>1. LET x == ReadXML(m, zwcfg[m])
        IN  NodeOK(x, m) /\ ~x.pending /\ x.alive /\ (x.wake => x.info)
    BY <1>2, ReadXMLOK
  <2> QED  BY <1>3, <2>1
<1>5. DOMAIN S.queue = Queues /\ \A q \in Queues : S.queue[q] = <<>>  BY <1>1
<1>6. id \in {0} \cup FirstId..255  BY DriverAssumption
<1>7. <<>> \in Seq(Items) /\ ToSet(<<>>) = {}  BY EmptySet
<1>8. Typed(S)
  <2>1. \A q \in Queues : /\ S.queue[q] \in Seq(Items)
                          /\ \A i \in ToSet(S.queue[q]) : i.node \in DOMAIN S.nodes
    BY <1>5, <1>7
  <2>2. DOMAIN S.nodes \subseteq Nodes /\ \A m \in DOMAIN S.nodes : NodeOK(S.nodes[m], m)
    BY <1>2, <1>4
  <2> QED  BY <1>1, <1>5, <1>6, <2>1, <2>2 DEF Typed
<1>9. \A m \in DOMAIN S.nodes : Pending(S, m)  BY <1>2, <1>4 DEF Pending
<1> QED  BY <1>2, <1>8, <1>9 DEF S

\* The nodes whose bit was looked at are being asked, the others not yet.
Asked(S, net, k) ==
  /\ Typed(S) /\ DOMAIN S.nodes \subseteq net
  /\ \A m \in DOMAIN S.nodes : Pending(S, m) /\ (m <= k => Going(S, m))

LEMMA HandleNodeBitAsks ==
  ASSUME NEW S, NEW net \in SUBSET Nodes, NEW zwcfg, DOMAIN zwcfg = net,
         NEW n \in 1..MaxNode, Asked(S, net, n - 1)
  PROVE  Asked(HandleNodeBit(S, n, zwcfg), net, n)
<1> DEFINE Q == SetQueryStage(S, n, Probe1)
           I == InitNode(S, n)
<1>1. HandleNodeBit(S, n, zwcfg) =
        IF n \notin net THEN S ELSE IF n \in DOMAIN S.nodes THEN Q ELSE I
  BY DEF HandleNodeBit
<1>2. Nodes \subseteq Nat /\ n \in Nat
  BY DriverAssumption
<1>3. Typed(S) /\ DOMAIN S.nodes \subseteq net  BY DEF Asked
<1>4. \A m \in DOMAIN S.nodes : m # n /\ m <= n => m <= n - 1
  <2>1. DOMAIN S.nodes \subseteq Nat  BY <1>2, <1>3
  <2> QED  BY <1>2, <2>1
<1>5. CASE n \notin net
  <2>1. Asked(S, net, n)  BY <1>3, <1>4, <1>5 DEF Asked
  <2> QED  BY <1>1, <1>5, <2>1
<1>6. CASE n \in net /\ n \in DOMAIN S.nodes
  <2>1. Step(S, Q, n) /\ Going(Q, n)
    <3>1. Probe1 \in ProtocolInfo..Complete  BY DEF Probe1, ProtocolInfo, Complete
    <3>2. Pending(S, n)  BY <1>6 DEF Asked
    <3> QED  BY <1>3, <1>6, <3>1, <3>2, SetQueryStageGoes
  <2> HIDE DEF Q
  <2>2. Typed(Q) /\ DOMAIN Q.nodes = DOMAIN S.nodes  BY <2>1 DEF Step
  <2>3. ASSUME NEW m \in DOMAIN S.nodes
        PROVE  Pending(Q, m) /\ (m <= n => Going(Q, m))
    <3>1. CASE m = n  BY <2>1, <3>1 DEF Going
    <3>2. CASE m # n
      <4>1. Pending(S, m) /\ (m <= n => Going(S, m))  BY <1>4, <3>2 DEF Asked
      <4> QED  BY <1>3, <2>1, <3>2, <4>1, OthersGo
    <3> QED  BY <3>1, <3>2
  <2>4. Asked(Q, net, n)  BY <1>3, <2>2, <2>3 DEF Asked
  <2> QED  BY <1>1, <1>6, <2>4
<1>7. CASE n \in net /\ n \notin DOMAIN S.nodes
  <2>1. /\ Typed(I) /\ DOMAIN I.nodes = DOMAIN S.nodes \cup {n}
        /\ Going(I, n) /\ OthersFare(S, I, n)
    BY <1>3, <1>7, InitNodeGoes
  <2> HIDE DEF I
  <2>2. ASSUME NEW m \in DOMAIN I.nodes
        PROVE  Pending(I, m) /\ (m <= n => Going(I, m))
    <3>1. CASE m = n  BY <2>1, <3>1 DEF Going
    <3>2. CASE m # n
      <4>1. m \in DOMAIN S.nodes  BY <2>1, <3>2
      <4>2. Pending(S, m) /\ (m <= n => Going(S, m))  BY <1>4, <3>2, <4>1 DEF Asked
      <4> QED  BY <2>1, <3>2, <4>2 DEF OthersFare
    <3> QED  BY <3>1, <3>2
  <2>3. Asked(I, net, n)  BY <1>3, <1>7, <2>1, <2>2 DEF Asked
  <2> QED  BY <1>1, <1>7, <2>3
<1> QED  BY <1>5, <1>6, <1>7

LEMMA InitAllGo ==
  ASSUME Init
  PROVE  AllGo(drv)
<1>1. PICK id \in StartIds, scenario \in Scenarios : drv = NodeBits(id, scenario.zwcfg)[MaxNode]
  BY DEF Init, HandleSerialAPIGetInitDataResponse
<1> DEFINE zwcfg == scenario.zwcfg
           net == DOMAIN zwcfg
<1>2. zwcfg \in UNION {[N -> None..Complete] : N \in SUBSET Nodes}
  BY DriverAssumption
<1>3. net \in SUBSET Nodes /\ zwcfg \in [net -> None..Complete]  BY <1>2
<1> DEFINE After(n) == NodeBits(id, zwcfg)[n]
           Bad == {n \in 0..MaxNode : ~Asked(After(n), net, n)}
<1>4. MaxNode \in Nat  BY DriverAssumption
<1> HIDE DEF zwcfg
<1>5. Asked(After(0), net, 0)
  <2> DEFINE S == ReadConfig(id, zwcfg)
  <2>1. After(0) = S  BY NodeBitsDef
  <2>2. Typed(S) /\ DOMAIN S.nodes \subseteq net /\ \A m \in DOMAIN S.nodes : Pending(S, m)
    BY <1>3, ReadConfigPending
  <2> HIDE DEF S
  <2>3. \A m \in DOMAIN S.nodes : ~(m <= 0)
    <3>1. DOMAIN S.nodes \subseteq 1..MaxNode  BY <1>3, <2>2, DriverAssumption
    <3> QED  BY <1>4, <3>1
  <2> QED  BY <2>1, <2>2, <2>3 DEF Asked
<1>6. \A n \in 1..MaxNode : After(n) = HandleNodeBit(After(n - 1), n, zwcfg)
  BY NodeBitsDef
<1> HIDE DEF After, net
<1>7. Bad = {}
  <2> SUFFICES ASSUME Bad # {} PROVE FALSE
    OBVIOUS
  <2>1. PICK n \in Bad : \A m \in Bad : n <= m
    <3>1. Bad \subseteq Nat  BY <1>4
    <3> HIDE DEF Bad
    <3> QED  BY <3>1, LeastNatural
  <2>2. n \in 1..MaxNode /\ n - 1 \in 0..MaxNode /\ n - 1 \notin Bad
    BY <1>4, <1>5, <2>1
  <2>3. Asked(After(n - 1), net, n - 1)  BY <2>2
  <2>4. Asked(After(n), net, n)
    BY <1>3, <1>6, <2>2, <2>3, HandleNodeBitAsks DEF net
  <2> QED  BY <2>1, <2>4
<1>8. Asked(drv, net, MaxNode)  BY <1>1, <1>4, <1>7 DEF After, zwcfg
<1>9. \A m \in DOMAIN drv.nodes : m <= MaxNode
  <2>1. DOMAIN drv.nodes \subseteq 1..MaxNode  BY <1>3, <1>8, DriverAssumption DEF Asked
  <2> QED  BY <1>4, <2>1
<1> QED  BY <1>8, <1>9 DEF Asked, AllGo

-----------------------------------------------------------------------------
(* The turns of the thread. *)

\* The next item is gone, and nothing else.
LEMMA TakeNextLeaves ==
  ASSUME Typed(drv), CanTakeNext
  PROVE  /\ Typed(TakeNext) /\ TakeNext.nodes = drv.nodes /\ TakeNext.cur = drv.cur
         /\ NextItem \in Items /\ NextItem.node \in DOMAIN drv.nodes
         /\ \A i \in ToSet(drv.queue[QueryQueue]) :
              i # NextItem => i \in ToSet(TakeNext.queue[QueryQueue])
<1> DEFINE N == {q \in Queues : drv.queue[q] # <<>>}
           k == NextQueue
           s == drv.queue[k]
           T == TakeNext
<1>1. N # {} /\ N \subseteq Nat  BY DEF CanTakeNext, Queues
<1>2. k \in N
  <2>1. k = Min(N)  BY DEF NextQueue
  <2> HIDE DEF N, k
  <2> QED  BY <1>1, <2>1, MinIsLeast
<1>3. NextItem = Head(s)  BY DEF NextItem
<1> HIDE DEF k
<1>4. k \in Queues /\ s \in Seq(Items) /\ s # <<>>  BY <1>2 DEF Typed
<1>5. /\ Head(s) \in Items /\ Tail(s) \in Seq(Items)
      /\ ToSet(s) = ToSet(Tail(s)) \cup {Head(s)}
  BY <1>4, TailSet
<1>6. /\ DOMAIN T = DOMAIN drv /\ T.nodes = drv.nodes /\ T.cur = drv.cur
      /\ T.nextId = drv.nextId /\ DOMAIN T.queue = Queues /\ T.queue[k] = Tail(s)
      /\ \A q \in Queues : q # k => T.queue[q] = drv.queue[q]
  <2>1. T = [drv EXCEPT !.queue[k] = Tail(@)]  BY DEF TakeNext, k
  <2> QED  BY <1>4, <2>1 DEF Typed, DriverFields
<1> HIDE DEF T
<1>7. \A q \in Queues : /\ T.queue[q] \in Seq(Items)
                        /\ ToSet(T.queue[q]) \subseteq ToSet(drv.queue[q])
                        /\ \A i \in ToSet(drv.queue[q]) : i # NextItem => i \in ToSet(T.queue[q])
  <2> TAKE q \in Queues
  <2>1. CASE q = k  BY <1>3, <1>5, <1>6, <2>1
  <2>2. CASE q # k  BY <1>6, <2>2 DEF Typed
  <2> QED  BY <2>1, <2>2
<1>8. Typed(T)  BY <1>6, <1>7 DEF Typed
<1>9. NextItem.node \in DOMAIN drv.nodes  BY <1>3, <1>4, <1>5 DEF Typed
<1>10. QueryQueue \in Queues  BY DEF QueryQueue, Queues
<1> QED  BY <1>3, <1>5, <1>6, <1>7, <1>8, <1>9, <1>10 DEF T

LEMMA WriteNextMsgGoes ==
  ASSUME AllGo(drv), WriteNextMsg
  PROVE  AllGo(drv')
<1> DEFINE T == TakeNext
           S == [T EXCEPT !.cur = NextItem]
<1>1. CanTakeNext /\ NextItem.cmd = "SendMsg" /\ drv' = WriteMsg(S)
  BY DEF WriteNextMsg, Write
<1>2. /\ Typed(T) /\ T.nodes = drv.nodes /\ T.cur = drv.cur
      /\ NextItem \in Items /\ NextItem.node \in DOMAIN drv.nodes
      /\ \A i \in ToSet(drv.queue[QueryQueue]) :
           i # NextItem => i \in ToSet(T.queue[QueryQueue])
  BY <1>1, TakeNextLeaves DEF AllGo
<1> HIDE DEF T
<1>3. /\ DOMAIN S = DOMAIN T /\ S.nodes = T.nodes /\ S.queue = T.queue /\ S.cur = NextItem
      /\ S.nextId = T.nextId
  BY <1>2 DEF Typed, DriverFields
<1> HIDE DEF S
<1>4. Typed(S)  BY <1>1, <1>2, <1>3 DEF Typed
<1>5. ASSUME NEW m \in DOMAIN drv.nodes PROVE Going(S, m)
  <2>1. \A i \in ToSet(drv.queue[QueryQueue]) : IsMark(i) => i \in ToSet(S.queue[QueryQueue])
    BY <1>1, <1>2, <1>3 DEF IsMark
  <2>2. S.nodes = drv.nodes /\ (Asleep(S, m) <=> Asleep(drv, m))  BY <1>2, <1>3 DEF Asleep
  <2>3. \A a : FreshMark(drv, m, a) => FreshMark(S, m, a)  BY <2>1, <2>2 DEF FreshMark
  <2>4. Marked(drv, m) => Marked(S, m)  BY <2>1, <2>2 DEF Marked, Marks, IsMark
  <2>5. Going(drv, m)  BY DEF AllGo
  <2> QED  BY <2>2, <2>3, <2>4, <2>5 DEF Going, Pending
<1>6. AllGo(S)  BY <1>2, <1>3, <1>4, <1>5 DEF AllGo
<1> QED  BY <1>1, <1>6, WriteMsgGoes

\* An item that ends a stage is followed by one for the stage that is then asked,
\* and an outdated or repeated one leaves the item of the stage that is pending.
LEMMA CompleteStageGoes ==
  ASSUME AllGo(drv), CompleteStage
  PROVE  AllGo(drv')
<1> DEFINE T == TakeNext
           n == NextItem.node
           a == NextItem.ask
           x == T.nodes[n]
           Q == QueryStageComplete(T, n, a)
           S == IF NextItem.retry THEN T ELSE Q
<1>1. CanTakeNext /\ IsMark(NextItem) /\ drv' = AdvanceQueries(S, n)
  BY DEF CompleteStage, IsMark
<1>2. /\ Typed(T) /\ T.nodes = drv.nodes
      /\ NextItem \in Items /\ n \in DOMAIN drv.nodes
      /\ \A i \in ToSet(drv.queue[QueryQueue]) :
           i # NextItem => i \in ToSet(T.queue[QueryQueue])
  BY <1>1, TakeNextLeaves DEF AllGo
<1>3. NextItem \in Mark  BY <1>1, <1>2, ItemKinds
<1>4. NextItem.retry \in BOOLEAN /\ a \in None..Complete  BY <1>3 DEF Mark
<1>5. Pending(drv, n) /\ x = drv.nodes[n]  BY <1>2 DEF AllGo, Going
<1> HIDE DEF T, n
<1>6. Step(drv, T, n)  BY <1>2 DEF Step, n
<1>7. NodeOK(x, n)  BY <1>2 DEF Typed
<1>8. NextItem.retry \/ a # x.stage => Pending(T, n)
  <2> SUFFICES ASSUME NextItem.retry \/ a # x.stage PROVE Pending(T, n)
    OBVIOUS
  <2>1. \A i \in ToSet(drv.queue[QueryQueue]) :
          i.ask = x.stage /\ i.retry = FALSE => i \in ToSet(T.queue[QueryQueue])
    BY <1>2, <1>4
  <2>2. Asleep(drv, n) <=> Asleep(T, n)  BY <1>2 DEF Asleep
  <2>3. FreshMark(drv, n, x.stage) => FreshMark(T, n, x.stage)
    BY <1>2, <2>1, <2>2 DEF FreshMark
  <2> QED  BY <1>2, <1>5, <2>3 DEF Pending
<1>9. CASE NextItem.retry
  <2>1. drv' = AdvanceQueries(T, n)  BY <1>1, <1>9
  <2>2. Step(T, drv', n) /\ Going(drv', n)
    BY <1>2, <1>8, <1>9, <2>1, AdvanceQueriesGoes
  <2> QED  BY <1>6, <2>2, StepTransitive, StepAllGo
<1>10. CASE ~NextItem.retry /\ (a # x.stage \/ a = Complete)
  <2>1. Q = T  BY <1>10 DEF QueryStageComplete
  <2>2. drv' = AdvanceQueries(T, n)  BY <1>1, <1>10, <2>1
  <2>3. Pending(T, n)
    <3>1. CASE a # x.stage  BY <1>8, <3>1
    <3>2. CASE a = x.stage
      <4>1. x.stage = Complete /\ ~x.pending  BY <1>5, <1>10, <3>2 DEF Pending
      <4> QED  BY <1>2, <1>5, <4>1 DEF Pending
    <3> QED  BY <3>1, <3>2
  <2>4. Step(T, drv', n) /\ Going(drv', n)  BY <1>2, <2>2, <2>3, AdvanceQueriesGoes
  <2> QED  BY <1>6, <2>4, StepTransitive, StepAllGo
<1>11. CASE ~NextItem.retry /\ a = x.stage /\ a # Complete
  <2> DEFINE stage == IF a = Static THEN Associations ELSE x.stage + 1
             y == [x EXCEPT !.pending = FALSE, !.stage = stage, !.retries = 0]
  <2>1. Q = [T EXCEPT !.nodes[n].pending = FALSE, !.nodes[n].stage = stage,
                      !.nodes[n].retries = 0]
    BY <1>11 DEF QueryStageComplete
  <2>2. /\ DOMAIN Q = DOMAIN T /\ Q.queue = T.queue /\ Q.cur = T.cur /\ Q.nextId = T.nextId
        /\ Q.nodes = [T.nodes EXCEPT ![n] = y]
    <3> HIDE DEF Q, stage
    <3> QED  BY <1>2, <2>1 DEF Typed, DriverFields
  <2>3. stage \in None..Complete /\ stage # None
    BY <1>4, <1>11 DEF None, Complete, Static, Associations
  <2> HIDE DEF Q, stage
  <2>4. /\ DOMAIN y = NodeFields /\ y.stage = stage /\ ~y.pending /\ y.retries = 0
        /\ y.errors = x.errors /\ y.waiting = x.waiting /\ y.wake = x.wake /\ y.info = x.info
    BY <1>7 DEF NodeOK, NodeFields
  <2> HIDE DEF y
  <2>5. NodeOK(y, n)  BY <1>7, <2>3, <2>4 DEF NodeOK
  <2>6. Step(T, Q, n) /\ Q.nodes[n] = y  BY <1>2, <2>2, <2>5, NodeStep
  <2>7. x.wake => x.info  BY <1>5 DEF Pending
  <2>8. Pending(Q, n)  BY <2>3, <2>4, <2>6, <2>7 DEF Pending
  <2>9. drv' = AdvanceQueries(Q, n)  BY <1>1, <1>11
  <2>10. Typed(Q) /\ n \in DOMAIN Q.nodes  BY <1>2, <2>6 DEF Step
  <2>11. Step(Q, drv', n) /\ Going(drv', n)  BY <2>8, <2>9, <2>10, AdvanceQueriesGoes
  <2>12. Step(drv, drv', n)  BY <1>6, <2>6, <2>11, StepTransitive
  <2> QED  BY <2>11, <2>12, StepAllGo
<1> QED  BY <1>4, <1>9, <1>10, <1>11

\* One more attempt is allowed.
LEMMA AttemptTyped ==
  ASSUME Typed(drv), drv.cur # NULL
  PROVE  LET S == [drv EXCEPT !.cur.max = IF @ + 1 < MAX_MAX_TRIES THEN @ + 1 ELSE @]
         IN  /\ Typed(S) /\ S.nodes = drv.nodes /\ S.queue = drv.queue
             /\ S.notify = drv.notify /\ Same(drv.cur, S.cur)
<1> DEFINE m == drv.cur
           max == IF m.max + 1 < MAX_MAX_TRIES THEN m.max + 1 ELSE m.max
           c == [m EXCEPT !.max = max]
           S == [drv EXCEPT !.cur.max = IF @ + 1 < MAX_MAX_TRIES THEN @ + 1 ELSE @]
<1>1. m \in Message /\ Item(m) /\ m.cmd = "SendMsg" /\ m.node \in DOMAIN drv.nodes
  BY ItemKinds DEF Typed
<1>2. /\ DOMAIN S = DOMAIN drv /\ S.nodes = drv.nodes /\ S.queue = drv.queue
      /\ S.nextId = drv.nextId /\ S.cur = c /\ S.notify = drv.notify
  BY DEF Typed, DriverFields
<1> HIDE DEF S
<1>3. /\ m.tries \in 0..m.max /\ m.max \in 1..MAX_MAX_TRIES - 1 /\ m.ask \in None..IntervalSet
      /\ IF CallbackRequired(m.ask) THEN m.id \in FirstId..255 ELSE m.id = 0
  BY <1>1 DEF Item
<1>4. max \in 1..MAX_MAX_TRIES - 1 /\ m.tries \in 0..max
  BY <1>3 DEF MAX_MAX_TRIES
<1> HIDE DEF max
<1>5. /\ c \in Message /\ c.cmd = "SendMsg" /\ c.node = m.node /\ c.ask = m.ask /\ c.id = m.id
      /\ c.tries = m.tries /\ c.max = max
  BY <1>1, <1>4 DEF Message
<1> HIDE DEF c
<1>6. Item(c)  BY <1>3, <1>4, <1>5 DEF Item
<1>7. c \in Items  BY <1>5, <1>6 DEF Items
<1>8. Typed(S)  BY <1>1, <1>2, <1>5, <1>7 DEF Typed
<1>9. Same(drv.cur, S.cur)  BY <1>1, <1>2, <1>5 DEF Same
<1> QED  BY <1>2, <1>8, <1>9 DEF S

LEMMA ReadCanGoes ==
  ASSUME AllGo(drv), drv.cur # NULL, ReadCan
  PROVE  AllGo(drv')
<1> DEFINE S == [drv EXCEPT !.cur.max = IF @ + 1 < MAX_MAX_TRIES THEN @ + 1 ELSE @]
<1>1. drv' = WriteMsg(S)  BY DEF ReadCan, Write
<1>2. Typed(S) /\ S.nodes = drv.nodes /\ S.queue = drv.queue  BY AttemptTyped DEF AllGo
<1> HIDE DEF S
<1>3. AllGo(S)  BY <1>2, SameAllGo
<1> QED  BY <1>1, <1>3, WriteMsgGoes

\* Frames that answer a message.
LEMMA ReadGoes ==
  ASSUME AllGo(drv), NEW f, ReadProtocolInfo(f) \/ ReadRoutingInfo(f) \/ ReadSendData(f)
                              \/ ReadCommand(f) \/ ReadUpdate(f)
  PROVE  AllGo(drv')
<1> DEFINE n == drv.cur.node
<1>0. Typed(drv) /\ \A m \in DOMAIN drv.nodes : Going(drv, m)  BY DEF AllGo
<1>1. CASE ReadProtocolInfo(f)
  <2>1. PICK exists \in BOOLEAN :
          drv' = GenericCallback(HandleGetNodeProtocolInfoResponse(drv, f, exists), f)
    BY <1>1 DEF ReadProtocolInfo
  <2> DEFINE T == HandleGetNodeProtocolInfoResponse(drv, f, exists)
  <2>2. CASE n \notin DOMAIN drv.nodes
    <3>1. T = drv  BY <2>2 DEF HandleGetNodeProtocolInfoResponse
    <3> QED  BY <2>1, <3>1, GenericCallbackGoes
  <2>3. CASE n \in DOMAIN drv.nodes
    <3>1. Step(drv, T, n) /\ Going(T, n)  BY <1>0, <2>3, ProtocolInfoGoes
    <3> HIDE DEF T
    <3>2. AllGo(T)  BY <3>1, StepAllGo
    <3> QED  BY <2>1, <3>2, GenericCallbackGoes DEF T
  <2> QED  BY <2>2, <2>3
<1>2. CASE ReadRoutingInfo(f)
  BY <1>2, GenericCallbackGoes DEF ReadRoutingInfo
<1>3. CASE ReadSendData(f)
  <2>1. PICK status : drv' = GenericCallback(HandleSendDataRequest(drv, f.byte2, status), f)
    BY <1>3 DEF ReadSendData
  <2> DEFINE T == HandleSendDataRequest(drv, f.byte2, status)
  <2>2. CASE n \notin DOMAIN drv.nodes
    <3>1. T = drv  BY <2>2 DEF HandleSendDataRequest
    <3> QED  BY <2>1, <3>1, GenericCallbackGoes
  <2>3. CASE n \in DOMAIN drv.nodes
    <3>1. Step(drv, T, n) /\ Going(T, n)  BY <1>0, <2>3, SendDataGoes
    <3> HIDE DEF T
    <3>2. AllGo(T)  BY <3>1, StepAllGo
    <3> QED  BY <2>1, <3>2, GenericCallbackGoes DEF T
  <2> QED  BY <2>2, <2>3
<1>4. CASE ReadCommand(f)
  <2> DEFINE k == f.node
             H == Heard(drv, k)
             M == HandleMsg(H, f)
             T == IF k \in DOMAIN drv.nodes THEN M ELSE drv
  <2>1. drv' = GenericCallback(T, f)  BY <1>4 DEF ReadCommand
  <2>2. ASSUME k \in DOMAIN drv.nodes PROVE AllGo(M)
    <3>1. Step(drv, H, k) /\ Going(H, k)  BY <1>0, <2>2, HeardGoes
    <3> HIDE DEF H
    <3>2. Typed(H) /\ k \in DOMAIN H.nodes  BY <2>2, <3>1 DEF Step
    <3>3. Step(H, M, k) /\ Going(M, k)  BY <3>1, <3>2, HandleMsgGoes
    <3> HIDE DEF M, k
    <3>4. Step(drv, M, k)  BY <3>1, <3>3, StepTransitive
    <3> QED  BY <3>3, <3>4, StepAllGo
  <2> HIDE DEF M
  <2>3. AllGo(T)  BY <2>2
  <2> HIDE DEF T
  <2> QED  BY <2>1, <2>3, GenericCallbackGoes
<1>5. CASE ReadUpdate(f)
  BY <1>5, NodeInfoGoes DEF ReadUpdate
<1> QED  BY <1>1, <1>2, <1>3, <1>4, <1>5

\* Frames that nobody asked for, and changes of the network.
LEMMA UnsolicitedGoes ==
  ASSUME AllGo(drv), NEW n \in Nodes,
         WakeUpNotification(n) \/ NodeInfoSent(n) \/ ReportSent(n)
           \/ NewIdAssigned(n) \/ DeleteDone(n)
  PROVE  AllGo(drv')
<1>0. Typed(drv) /\ \A m \in DOMAIN drv.nodes : Going(drv, m)  BY DEF AllGo
<1> DEFINE H == Heard(drv, n)
           R == Revive(drv, n)
<1>1. n \in DOMAIN drv.nodes =>
        Step(drv, H, n) /\ Going(H, n) /\ Typed(H) /\ n \in DOMAIN H.nodes /\ AllGo(H)
  <2> SUFFICES ASSUME n \in DOMAIN drv.nodes
               PROVE  Step(drv, H, n) /\ Going(H, n) /\ Typed(H) /\ n \in DOMAIN H.nodes /\ AllGo(H)
    OBVIOUS
  <2>1. Step(drv, H, n) /\ Going(H, n)  BY <1>0, HeardGoes
  <2> HIDE DEF H
  <2>2. AllGo(H)  BY <2>1, StepAllGo
  <2> QED  BY <2>1, <2>2 DEF Step
<1>2. AllGo(R)
  <2>1. CASE n \in DOMAIN drv.nodes
    <3>1. Step(drv, R, n) /\ Going(R, n)  BY <1>0, <2>1, ReviveGoes
    <3> QED  BY <3>1, StepAllGo
  <2>2. CASE n \notin DOMAIN drv.nodes
    BY <2>2 DEF Revive
  <2> QED  BY <2>1, <2>2
<1> HIDE DEF H, R
<1>3. CASE WakeUpNotification(n)
  <2> DEFINE T == HandleWakeUpNotification(H, n)
  <2>1. n \in DOMAIN drv.nodes /\ \E g : drv' = GenericCallback(T, g)
    BY <1>3 DEF WakeUpNotification, H
  <2>2. Step(H, T, n) /\ Going(T, n)  BY <1>1, <2>1, WakeUpNotificationGoes
  <2> HIDE DEF T
  <2>3. AllGo(T)  BY <1>1, <2>1, <2>2, StepAllGo
  <2> QED  BY <2>1, <2>3, GenericCallbackGoes
<1>4. CASE NodeInfoSent(n)
  BY <1>4, NodeInfoGoes DEF NodeInfoSent
<1>5. CASE ReportSent(n)
  <2>1. n \in DOMAIN drv.nodes /\ \E g : drv' = GenericCallback(H, g)
    BY <1>5 DEF ReportSent, H
  <2> QED  BY <1>1, <2>1, GenericCallbackGoes
<1>6. CASE NewIdAssigned(n)
  <2> DEFINE T == InitNode(R, n)
  <2>1. \E g : drv' = GenericCallback(T, g)  BY <1>6 DEF NewIdAssigned, R
  <2>2. Typed(T) /\ Going(T, n) /\ OthersFare(R, T, n)  BY <1>2, InitNodeGoes DEF AllGo
  <2> HIDE DEF T
  <2>3. AllGo(T)  BY <1>2, <2>2 DEF AllGo, OthersFare
  <2> QED  BY <2>1, <2>3, GenericCallbackGoes
<1>7. CASE DeleteDone(n)
  <2> DEFINE T == DeleteNode(R, n)
  <2>1. \E g : drv' = GenericCallback(T, g)  BY <1>7 DEF DeleteDone, R
  <2>2. Typed(T) /\ DOMAIN T.nodes = DOMAIN R.nodes \ {n} /\ OthersFare(R, T, n)
    BY <1>2, DeleteNodeLeaves DEF AllGo
  <2> HIDE DEF T
  <2>3. AllGo(T)  BY <1>2, <2>2 DEF AllGo, OthersFare
  <2> QED  BY <2>1, <2>3, GenericCallbackGoes
<1> QED  BY <1>3, <1>4, <1>5, <1>6, <1>7

LEMMA NotifyWatchersGoes ==
  ASSUME AllGo(drv), NotifyWatchers
  PROVE  AllGo(drv')
<1> DEFINE n == Head(drv.notify)
           S == [drv EXCEPT !.notify = Tail(@)]
           Q == SetQueryStage(S, n, Dynamic)
<1>1. drv' = IF n \in Meters \cap DOMAIN S.nodes THEN Q ELSE S  BY DEF NotifyWatchers
<1>2. Typed(drv)  BY DEF AllGo
<1>3. /\ DOMAIN S = DOMAIN drv /\ S.nodes = drv.nodes /\ S.queue = drv.queue /\ S.cur = drv.cur
      /\ S.nextId = drv.nextId
  BY <1>2 DEF Typed, DriverFields
<1> HIDE DEF S, n
<1>4. Typed(S)  BY <1>2, <1>3 DEF Typed
<1>5. AllGo(S)  BY <1>3, <1>4, SameAllGo
<1>6. n \in DOMAIN S.nodes => AllGo(Q)
  <2> SUFFICES ASSUME n \in DOMAIN S.nodes PROVE AllGo(Q)
    OBVIOUS
  <2>1. Dynamic \in ProtocolInfo..Complete  BY DEF Dynamic, ProtocolInfo, Complete
  <2>2. Pending(S, n)  BY <1>5 DEF AllGo, Going
  <2>3. Step(S, Q, n) /\ Going(Q, n)  BY <1>4, <2>1, <2>2, SetQueryStageGoes
  <2> HIDE DEF Q
  <2> QED  BY <1>5, <2>3, StepAllGo
<1> HIDE DEF Q
<1> QED  BY <1>1, <1>5, <1>6

LEMMA NextAllGo ==
  ASSUME AllGo(drv), NeverWaitsForNothing, [Next]_vars
  PROVE  AllGo(drv')
<1>1. CASE NotifyWatchers  BY <1>1, NotifyWatchersGoes
<1>2. CASE WriteNextMsg  BY <1>2, WriteNextMsgGoes
<1>3. CASE CompleteStage  BY <1>3, CompleteStageGoes
<1>4. CASE Timeout  BY <1>4, WriteMsgGoes DEF Timeout, Write
<1>5. CASE ReadCan
  <2>1. drv.cur # NULL  BY <1>5 DEF ReadCan, NeverWaitsForNothing
  <2> QED  BY <1>5, <2>1, ReadCanGoes
<1>6. CASE UNCHANGED vars  BY <1>6 DEF vars
<1> QED  BY <1>1, <1>2, <1>3, <1>4, <1>5, <1>6, ReadGoes, UnsolicitedGoes DEF Next, ReadMsg

LEMMA AllGoTyped == AllGo(drv) => TypeOK
<1> SUFFICES ASSUME AllGo(drv) PROVE TypeOK
  OBVIOUS
<1>0. Typed(drv) /\ \A n \in DOMAIN drv.nodes : Going(drv, n)  BY DEF AllGo
<1>1. \A q \in Queues : \A i \in ToSet(drv.queue[q]) : i.node \in DOMAIN drv.nodes /\ Item(i)
  <2> TAKE q \in Queues
  <2>1. drv.queue[q] \in Seq(Items) /\ \A i \in ToSet(drv.queue[q]) : i.node \in DOMAIN drv.nodes
    BY <1>0 DEF Typed
  <2>2. ToSet(drv.queue[q]) \subseteq Items  BY <2>1, SeqSet
  <2> QED  BY <2>1, <2>2, ItemKinds
<1>2. drv.cur # NULL => drv.cur.node \in DOMAIN drv.nodes /\ Item(drv.cur)
  BY <1>0, ItemKinds DEF Typed
<1>3. ASSUME NEW n \in DOMAIN drv.nodes
      PROVE  LET x == drv.nodes[n]
             IN  /\ n \in Nodes /\ x.stage \in ProtocolInfo..Complete
                 /\ x.retries \in 0..2 /\ x.errors \in 0..3
                 /\ \A i \in ToSet(x.waiting) :
                      i.node = n /\ Item(i) /\ (i.cmd = "SendMsg" => i.tries = 0)
  <2> DEFINE x == drv.nodes[n]
  <2>1. n \in Nodes /\ NodeOK(x, n) /\ Going(drv, n)  BY <1>0 DEF Typed
  <2> HIDE DEF x
  <2>2. x.waiting \in Seq(Items) /\
          \A i \in ToSet(x.waiting) : i.node = n /\ (i.cmd = "SendMsg" => i.tries = 0)
    BY <2>1 DEF NodeOK, WaitsIn
  <2>3. \A i \in ToSet(x.waiting) : Item(i)  BY <2>2, SeqSet, ItemKinds
  <2>4. x.stage \in None..Complete /\ x.stage # None /\ x.retries \in 0..2 /\ x.errors \in 0..3
    BY <2>1 DEF NodeOK, Going, x
  <2>5. x.stage \in ProtocolInfo..Complete  BY <2>4 DEF None, ProtocolInfo, Complete
  <2> QED  BY <2>1, <2>2, <2>3, <2>4, <2>5 DEF x
<1>4. drv.nextId \in {0} \cup FirstId..255  BY <1>0 DEF Typed
<1> QED  BY <1>1, <1>2, <1>3, <1>4 DEF TypeOK

LEMMA AllGoOn == AllGo(drv) => QueriesGoOn
BY DEF AllGo, Going, Marked, QueriesGoOn

\* The driver's tables keep their types: the queues, the current message and
\* the items waiting in sleeping nodes are of nodes that are there, a node that
\* is removed leaves none behind, and messages get no id of the reserved ones
\* although the counter of Msg::UpdateCallbackId overflows.
THEOREM TypeCorrect == Spec => []TypeOK
<1>1. Init => AllGo(drv)  BY InitAllGo
<1>2. AllGo(drv) /\ NeverWaitsForNothing /\ [Next]_vars => AllGo(drv)'  BY NextAllGo
<1> QED  BY <1>1, <1>2, WaitsForItsMessage, AllGoTyped, PTL DEF Spec

\* The queries of a live node never get stuck: until they are complete,
\* Driver::SendQueryStageComplete has an item for it in the query queue or in
\* the node, which is asleep then, whatever is lost, retried, moved to the
\* wake-up queue and back, and whichever nodes die, revive, come and go.
THEOREM QueriesNeverStuck == Spec => []QueriesGoOn
<1>1. Init => AllGo(drv)  BY InitAllGo
<1>2. AllGo(drv) /\ NeverWaitsForNothing /\ [Next]_vars => AllGo(drv)'  BY NextAllGo
<1> QED  BY <1>1, <1>2, WaitsForItsMessage, AllGoOn, PTL DEF Spec

-----------------------------------------------------------------------------
(* Telling the watcher. *)

\* The driver and its nodes have the fields of their records.
Formed(S) ==
  DOMAIN S = DriverFields /\ \A m \in DOMAIN S.nodes : DOMAIN S.nodes[m] = NodeFields

\* The queries of each node are complete or given up.
Done(S) == \A m \in DOMAIN S.nodes : S.nodes[m].stage = Complete \/ ~S.nodes[m].alive
Told(S) == DOMAIN S.nodes # {} /\ Done(S) => S.allQueried

\* A step to such a state tells the watcher.
Tells(S, T) ==
  /\ Formed(T) /\ DOMAIN T.nodes = DOMAIN S.nodes
  /\ S.allQueried => T.allQueried
  /\ Done(T) => Done(S) \/ T.allQueried

LEMMA TellsTransitive ==
  ASSUME NEW S, NEW T, NEW U, Tells(S, T), Tells(T, U)
  PROVE  Tells(S, U)
BY DEF Tells

LEMMA TellsTold ==
  ASSUME NEW S, NEW T, Told(S), Tells(S, T)
  PROVE  Formed(T) /\ Told(T)
BY DEF Tells, Told

\* A step that leaves stages and lives alone.
LEMMA SameTells ==
  ASSUME NEW S, NEW T, Formed(S), DOMAIN T = DOMAIN S, T.nodes = S.nodes,
         T.allQueried = S.allQueried
  PROVE  Tells(S, T)
BY DEF Tells, Formed, Done

\* A new record for node n.
LEMMA NodeTells ==
  ASSUME NEW S, NEW T, NEW n, NEW y, Formed(S), n \in DOMAIN S.nodes, DOMAIN y = NodeFields,
         DOMAIN T = DOMAIN S, T.allQueried = S.allQueried,
         T.nodes = [S.nodes EXCEPT ![n] = y],
         y.stage = Complete \/ ~y.alive => S.nodes[n].stage = Complete \/ ~S.nodes[n].alive
  PROVE  Tells(S, T) /\ T.nodes[n] = y
<1>1. /\ DOMAIN T.nodes = DOMAIN S.nodes /\ T.nodes[n] = y
      /\ \A m \in DOMAIN S.nodes : m # n => T.nodes[m] = S.nodes[m]
  OBVIOUS
<1>2. Formed(T)  BY <1>1 DEF Formed
<1>3. Done(T) => Done(S)  BY <1>1 DEF Done
<1> QED  BY <1>1, <1>2, <1>3 DEF Tells

LEMMA EnqueueTells ==
  ASSUME NEW S, NEW item, NEW q, Formed(S)
  PROVE  Tells(S, Enqueue(S, item, q)) /\
         \A m \in DOMAIN S.nodes : /\ Enqueue(S, item, q).nodes[m].stage = S.nodes[m].stage
                                   /\ Enqueue(S, item, q).nodes[m].alive = S.nodes[m].alive
<1> DEFINE T == Enqueue(S, item, q)
           n == item.node
           w == QueueMsg(S.nodes[n].waiting, item)
           y == [S.nodes[n] EXCEPT !.waiting = w]
<1>1. CASE Asleep(S, n)
  <2>1. T = [S EXCEPT !.nodes[n].waiting = w] /\ n \in DOMAIN S.nodes
    BY <1>1 DEF Enqueue, Asleep
  <2> HIDE DEF T, w, n
  <2>2. /\ DOMAIN T = DOMAIN S /\ T.allQueried = S.allQueried
        /\ T.nodes = [S.nodes EXCEPT ![n] = y]
    BY <2>1 DEF Formed, DriverFields
  <2>3. DOMAIN y = NodeFields /\ y.stage = S.nodes[n].stage /\ y.alive = S.nodes[n].alive
    BY <2>1 DEF Formed, NodeFields
  <2> HIDE DEF y
  <2>4. Tells(S, T) /\ T.nodes[n] = y  BY <2>1, <2>2, <2>3, NodeTells
  <2>5. \A m \in DOMAIN S.nodes : m # n => T.nodes[m] = S.nodes[m]  BY <2>2
  <2> QED  BY <2>3, <2>4, <2>5 DEF T
<1>2. CASE ~Asleep(S, n)
  <2>1. T = [S EXCEPT !.queue[q] = Append(@, item)]  BY <1>2 DEF Enqueue
  <2>2. DOMAIN T = DOMAIN S /\ T.allQueried = S.allQueried /\ T.nodes = S.nodes
    BY <2>1 DEF Formed, DriverFields
  <2> HIDE DEF T
  <2>3. Tells(S, T)  BY <2>2, SameTells
  <2> QED  BY <2>2, <2>3 DEF T
<1> QED  BY <1>1, <1>2

LEMMA SendMsgTells ==
  ASSUME NEW S, NEW n, NEW ask, NEW q, Formed(S)
  PROVE  Tells(S, SendMsg(S, n, ask, q)) /\
         \A m \in DOMAIN S.nodes : /\ SendMsg(S, n, ask, q).nodes[m].stage = S.nodes[m].stage
                                   /\ SendMsg(S, n, ask, q).nodes[m].alive = S.nodes[m].alive
<1> DEFINE id == IF CallbackRequired(ask) THEN NextId(S.nextId) ELSE 0
           next == IF id = 0 THEN S.nextId ELSE (id + 1) % 256
           T == [S EXCEPT !.nextId = next]
<1>1. PICK msg : SendMsg(S, n, ask, q) = Enqueue(T, msg, q)  BY DEF SendMsg
<1> HIDE DEF id, next
<1>2. DOMAIN T = DOMAIN S /\ T.allQueried = S.allQueried /\ T.nodes = S.nodes
  BY DEF Formed, DriverFields
<1> HIDE DEF T
<1>3. Tells(S, T)  BY <1>2, SameTells
<1>4. Formed(T)  BY <1>3 DEF Tells
<1>5. /\ Tells(T, Enqueue(T, msg, q))
      /\ \A m \in DOMAIN T.nodes : /\ Enqueue(T, msg, q).nodes[m].stage = T.nodes[m].stage
                                   /\ Enqueue(T, msg, q).nodes[m].alive = T.nodes[m].alive
  BY <1>4, EnqueueTells
<1> QED  BY <1>1, <1>2, <1>3, <1>5, TellsTransitive

LEMMA RetryTells ==
  ASSUME NEW S, NEW n, NEW stage, Formed(S)
  PROVE  Tells(S, RetryQueryStageComplete(S, n, stage))
<1> DEFINE T == RetryQueryStageComplete(S, n, stage)
<1>1. DOMAIN T = DOMAIN S /\ T.allQueried = S.allQueried /\ T.nodes = S.nodes
  BY DEF Formed, DriverFields, RetryQueryStageComplete
<1> QED  BY <1>1, SameTells

LEMMA RemoveQueuesTells ==
  ASSUME NEW S, NEW n, Formed(S)
  PROVE  LET T == RemoveQueues(S, n)
         IN  Tells(S, T) /\ T.nodes = S.nodes /\ T.allQueried = S.allQueried
<1> DEFINE T == RemoveQueues(S, n)
<1>1. DOMAIN T = DOMAIN S /\ T.allQueried = S.allQueried /\ T.nodes = S.nodes
  BY DEF Formed, DriverFields, RemoveQueues, RemoveCurrentMsg
<1> HIDE DEF T
<1>2. Tells(S, T)  BY <1>1, SameTells
<1> QED  BY <1>1, <1>2 DEF T

LEMMA CheckTells ==
  ASSUME NEW S, Formed(S)
  PROVE  LET T == CheckCompletedNodeQueries(S)
         IN  Tells(S, T) /\ (Done(T) => T.allQueried)
<1> DEFINE open == {m \in DOMAIN S.nodes : S.nodes[m].stage # Complete /\ S.nodes[m].alive}
           A == [S EXCEPT !.allQueried = TRUE, !.awakeQueried = TRUE]
           B == [S EXCEPT !.awakeQueried = TRUE]
           T == CheckCompletedNodeQueries(S)
<1>1. \/ T = S /\ S.allQueried
      \/ T = A
      \/ T \in {S, B} /\ open # {}
  BY DEF CheckCompletedNodeQueries
<1>2. DOMAIN A = DOMAIN S /\ A.nodes = S.nodes /\ A.allQueried
  BY DEF Formed, DriverFields
<1>3. DOMAIN B = DOMAIN S /\ B.nodes = S.nodes /\ B.allQueried = S.allQueried
  BY DEF Formed, DriverFields
<1>4. open # {} => ~Done(S)  BY DEF Done
<1> HIDE DEF T, A, B, open
<1>5. Tells(S, A) /\ Tells(S, B) /\ Tells(S, S)  BY <1>2, <1>3 DEF Tells, Formed, Done
<1>6. Done(B) => Done(S)  BY <1>3 DEF Done
<1> QED  BY <1>1, <1>2, <1>4, <1>5, <1>6 DEF T

LEMMA AdvanceTells ==
  ASSUME NEW S, NEW n, Formed(S), n \in DOMAIN S.nodes
  PROVE  LET T == AdvanceQueries(S, n)
         IN  /\ Tells(S, T)
             /\ S.nodes[n].alive /\ ~S.nodes[n].pending /\ Done(T) => T.allQueried
<1> DEFINE x == S.nodes[n]
           stage == Min({Complete} \cup {s \in x.stage..Complete : Asks(n, x, s)})
           retries == IF stage = x.stage THEN x.retries ELSE 0
           open == stage # Complete
           y == [x EXCEPT !.stage = stage, !.retries = retries, !.pending = open]
           T == [S EXCEPT !.nodes[n].stage = stage,
                          !.nodes[n].retries = IF stage = x.stage THEN @ ELSE 0,
                          !.nodes[n].pending = open]
           C == CheckCompletedNodeQueries(T)
           U == SendMsg(T, n, Question(stage), QueueOf(stage))
           V == SendQueryStageComplete(U, n, stage)
<1>1. AdvanceQueries(S, n) =
        IF x.pending \/ ~x.alive THEN S ELSE IF stage = Complete THEN C ELSE V
  BY DEF AdvanceQueries
<1> HIDE DEF stage, open
<1>2. /\ DOMAIN T = DOMAIN S /\ T.allQueried = S.allQueried
      /\ T.nodes = [S.nodes EXCEPT ![n] = y]
  BY DEF Formed, DriverFields
<1> HIDE DEF T, retries
<1>3. DOMAIN y = NodeFields /\ y.stage = stage /\ y.alive = x.alive  BY DEF Formed, NodeFields
<1> HIDE DEF y
<1>4. /\ DOMAIN T.nodes = DOMAIN S.nodes /\ T.nodes[n] = y
      /\ \A m \in DOMAIN S.nodes : m # n => T.nodes[m] = S.nodes[m]
  BY <1>2
<1>5. Formed(T)  BY <1>2, <1>3, <1>4 DEF Formed
<1>6. CASE x.pending \/ ~x.alive
  <2>1. AdvanceQueries(S, n) = S  BY <1>1, <1>6
  <2> QED  BY <1>6, <2>1 DEF Tells
<1>7. CASE ~(x.pending \/ ~x.alive) /\ stage = Complete
  <2>1. AdvanceQueries(S, n) = C  BY <1>1, <1>7
  <2>2. Tells(T, C) /\ (Done(C) => C.allQueried)  BY <1>5, CheckTells
  <2> HIDE DEF C
  <2> QED  BY <1>2, <1>4, <2>1, <2>2 DEF Tells
<1>8. CASE ~(x.pending \/ ~x.alive) /\ stage # Complete
  <2>1. AdvanceQueries(S, n) = V  BY <1>1, <1>8
  <2>2. /\ Tells(T, U)
        /\ U.nodes[n].stage = T.nodes[n].stage /\ U.nodes[n].alive = T.nodes[n].alive
    BY <1>4, <1>5, SendMsgTells
  <2> HIDE DEF U
  <2>3. Formed(U) /\ n \in DOMAIN U.nodes  BY <1>4, <2>2 DEF Tells
  <2>4. /\ Tells(U, V)
        /\ V.nodes[n].stage = U.nodes[n].stage /\ V.nodes[n].alive = U.nodes[n].alive
    BY <2>3, EnqueueTells DEF SendQueryStageComplete
  <2> HIDE DEF V
  <2>5. Tells(T, V)  BY <2>2, <2>4, TellsTransitive
  <2>6. ~Done(V)
    <3>1. V.nodes[n].stage # Complete /\ V.nodes[n].alive  BY <1>3, <1>4, <1>8, <2>2, <2>4
    <3>2. n \in DOMAIN V.nodes  BY <1>4, <2>5 DEF Tells
    <3> QED  BY <3>1, <3>2 DEF Done
  <2>7. Tells(S, V)  BY <1>2, <1>4, <2>5, <2>6 DEF Tells
  <2> QED  BY <2>1, <2>6, <2>7
<1> HIDE DEF C, V
<1> QED  BY <1>6, <1>7, <1>8

LEMMA TypedFormed ==
  ASSUME NEW S, Typed(S)
  PROVE  Formed(S)
BY DEF Typed, NodeOK, Formed

LEMMA QueryStageRetryTells ==
  ASSUME NEW S, NEW n, NEW stage, NEW max, Formed(S), n \in DOMAIN S.nodes,
         stage \in {Probe, Probe1, NodeInfo}
  PROVE  Tells(S, QueryStageRetry(S, n, stage, max))
<1> DEFINE x == S.nodes[n]
           last == x.retries + 1 >= max
           next == IF last /\ stage \notin {Probe, Probe1} THEN stage + 1 ELSE stage
           retries == IF last THEN 0 ELSE x.retries + 1
           y == [x EXCEPT !.pending = FALSE, !.retries = retries, !.stage = next]
           T == [S EXCEPT !.nodes[n].pending = FALSE,
                          !.nodes[n].retries = IF last THEN 0 ELSE @ + 1,
                          !.nodes[n].stage = next]
           U == RetryQueryStageComplete(T, n, next)
<1>1. QueryStageRetry(S, n, stage, max) = IF stage # x.stage THEN S ELSE U
  BY DEF QueryStageRetry
<1>2. CASE stage # x.stage
  BY <1>1, <1>2, SameTells
<1>3. CASE stage = x.stage
  <2>1. next # Complete /\ stage # Complete  BY DEF Probe, Probe1, NodeInfo, Complete
  <2> HIDE DEF last, next
  <2>2. /\ DOMAIN T = DOMAIN S /\ T.allQueried = S.allQueried
        /\ T.nodes = [S.nodes EXCEPT ![n] = y]
    BY DEF Formed, DriverFields
  <2> HIDE DEF T, retries
  <2>3. DOMAIN y = NodeFields /\ y.stage = next /\ y.alive = x.alive  BY DEF Formed, NodeFields
  <2> HIDE DEF y
  <2>4. Tells(S, T)  BY <2>1, <2>2, <2>3, NodeTells
  <2>5. Tells(T, U)  BY <2>4, RetryTells DEF Tells
  <2>6. QueryStageRetry(S, n, stage, max) = U  BY <1>1, <1>3
  <2> HIDE DEF U
  <2> QED  BY <2>4, <2>5, <2>6, TellsTransitive
<1> QED  BY <1>2, <1>3

LEMMA SetQueryStageTells ==
  ASSUME NEW S, NEW n, NEW stage, Formed(S), n \in DOMAIN S.nodes, stage # Complete
  PROVE  Tells(S, SetQueryStage(S, n, stage))
<1> DEFINE x == S.nodes[n]
           y == [x EXCEPT !.stage = stage, !.pending = FALSE]
           T == [S EXCEPT !.nodes[n].stage = stage, !.nodes[n].pending = FALSE]
           U == IF stage >= x.stage THEN S ELSE T
<1>1. SetQueryStage(S, n, stage) = AdvanceQueries(U, n)  BY DEF SetQueryStage
<1>2. /\ DOMAIN T = DOMAIN S /\ T.allQueried = S.allQueried
      /\ T.nodes = [S.nodes EXCEPT ![n] = y]
  BY DEF Formed, DriverFields
<1> HIDE DEF T
<1>3. DOMAIN y = NodeFields /\ y.stage = stage /\ y.alive = x.alive  BY DEF Formed, NodeFields
<1> HIDE DEF y
<1>4. Tells(S, T) /\ Tells(S, S)  BY <1>2, <1>3, NodeTells, SameTells
<1>5. Tells(S, U)  BY <1>4
<1> HIDE DEF U
<1>6. Tells(U, AdvanceQueries(U, n))  BY <1>5, AdvanceTells DEF Tells
<1> QED  BY <1>1, <1>5, <1>6, TellsTransitive

LEMMA SetNodeAliveTells ==
  ASSUME NEW S, NEW n, NEW alive \in BOOLEAN, Formed(S), n \in DOMAIN S.nodes
  PROVE  Tells(S, SetNodeAlive(S, n, alive))
<1> DEFINE x == S.nodes[n]
           errors == IF alive THEN 0 ELSE x.errors
           y == [x EXCEPT !.alive = alive, !.errors = errors]
           z == [y EXCEPT !.retries = 0]
           T == [S EXCEPT !.nodes[n].alive = alive, !.nodes[n].errors = IF alive THEN 0 ELSE @]
           U == [T EXCEPT !.nodes[n].retries = 0]
           C == CheckCompletedNodeQueries(T)
           A == AdvanceQueries(U, n)
<1>1. SetNodeAlive(S, n, alive) = IF x.stage = Complete THEN T ELSE IF alive THEN A ELSE C
  BY DEF SetNodeAlive
<1>2. /\ DOMAIN T = DOMAIN S /\ T.allQueried = S.allQueried
      /\ T.nodes = [S.nodes EXCEPT ![n] = y]
  BY DEF Formed, DriverFields
<1> HIDE DEF T, errors
<1>3. DOMAIN y = NodeFields /\ y.stage = x.stage /\ y.alive = alive  BY DEF Formed, NodeFields
<1> HIDE DEF y
<1>4. /\ DOMAIN T.nodes = DOMAIN S.nodes /\ T.nodes[n] = y
      /\ \A m \in DOMAIN S.nodes : m # n => T.nodes[m] = S.nodes[m]
  BY <1>2
<1>5. Formed(T)  BY <1>2, <1>3, <1>4 DEF Formed
<1>6. CASE x.stage = Complete
  <2>1. Tells(S, T)  BY <1>2, <1>3, <1>6, NodeTells
  <2> QED  BY <1>1, <1>6, <2>1
<1>7. CASE x.stage # Complete /\ alive
  <2>1. Tells(S, T)  BY <1>2, <1>3, <1>7, NodeTells
  <2>2. /\ DOMAIN U = DOMAIN T /\ U.allQueried = T.allQueried
        /\ U.nodes = [T.nodes EXCEPT ![n] = z]
    BY <1>4, <1>5 DEF Formed, DriverFields
  <2> HIDE DEF U
  <2>3. DOMAIN z = NodeFields /\ z.stage = y.stage /\ z.alive = y.alive  BY <1>3 DEF NodeFields
  <2> HIDE DEF z
  <2>4. Tells(T, U)  BY <1>4, <1>5, <2>2, <2>3, NodeTells
  <2>5. Tells(S, U)  BY <2>1, <2>4, TellsTransitive
  <2>6. Tells(U, A)  BY <2>5, AdvanceTells DEF Tells
  <2>7. SetNodeAlive(S, n, alive) = A  BY <1>1, <1>7
  <2> HIDE DEF A
  <2> QED  BY <2>5, <2>6, <2>7, TellsTransitive
<1>8. CASE x.stage # Complete /\ ~alive
  <2>1. Tells(T, C) /\ (Done(C) => C.allQueried)  BY <1>5, CheckTells
  <2>2. SetNodeAlive(S, n, alive) = C  BY <1>1, <1>8
  <2> HIDE DEF C
  <2> QED  BY <1>2, <1>4, <2>1, <2>2 DEF Tells
<1> QED  BY <1>6, <1>7, <1>8

LEMMA ReviveTells ==
  ASSUME NEW S, NEW n, Formed(S)
  PROVE  Tells(S, Revive(S, n))
<1>1. Tells(S, S)  BY SameTells
<1>2. n \in DOMAIN S.nodes => Tells(S, SetNodeAlive(S, n, TRUE))  BY SetNodeAliveTells
<1> QED  BY <1>1, <1>2 DEF Revive

\* Another field of the node's record.
LEMMA ErrorsTell ==
  ASSUME NEW S, NEW n, NEW errors, Formed(S), n \in DOMAIN S.nodes
  PROVE  Tells(S, [S EXCEPT !.nodes[n].errors = errors])
<1> DEFINE T == [S EXCEPT !.nodes[n].errors = errors]
           y == [S.nodes[n] EXCEPT !.errors = errors]
<1>1. /\ DOMAIN T = DOMAIN S /\ T.allQueried = S.allQueried
      /\ T.nodes = [S.nodes EXCEPT ![n] = y]
  BY DEF Formed, DriverFields
<1>2. DOMAIN y = NodeFields /\ y.stage = S.nodes[n].stage /\ y.alive = S.nodes[n].alive
  BY DEF Formed, NodeFields
<1> HIDE DEF T, y
<1> QED  BY <1>1, <1>2, NodeTells DEF T

LEMMA HeardTells ==
  ASSUME NEW S, NEW n, Formed(S), n \in DOMAIN S.nodes
  PROVE  Tells(S, Heard(S, n))
<1> DEFINE T == [S EXCEPT !.nodes[n].errors = 0]
<1>1. Tells(S, T)  BY ErrorsTell
<1>2. Heard(S, n) = Revive(T, n)  BY DEF Heard
<1> HIDE DEF T
<1>3. Tells(T, Revive(T, n))  BY <1>1, ReviveTells DEF Tells
<1> QED  BY <1>1, <1>2, <1>3, TellsTransitive

LEMMA SendPendingTells ==
  ASSUME NEW S, NEW n, Formed(S), n \in DOMAIN S.nodes
  PROVE  Tells(S, SendPending(S, n))
<1> DEFINE waiting == S.nodes[n].waiting
           Of(cmd) == Only(waiting, {i \in ToSet(waiting) : i.cmd = cmd})
           marks == Of("QueryStageComplete")
           fresh == [i \in DOMAIN marks |-> [marks[i] EXCEPT !.retry = FALSE]]
           T == [S EXCEPT !.nodes[n].waiting = <<>>,
                          !.queue[WakeUpQueue] = @ \o Of("SendMsg"),
                          !.queue[QueryQueue] = @ \o fresh]
           y == [S.nodes[n] EXCEPT !.waiting = <<>>]
           N == [T EXCEPT !.nodes[n].notified = FALSE]
           z == [T.nodes[n] EXCEPT !.notified = FALSE]
           M == SendMsg(N, n, NoMoreInformation, WakeUpQueue)
<1>1. SendPending(S, n) \in {T, M}  BY DEF SendPending
<1> HIDE DEF Of, fresh
<1>2. /\ DOMAIN T = DOMAIN S /\ T.allQueried = S.allQueried
      /\ T.nodes = [S.nodes EXCEPT ![n] = y]
  BY DEF Formed, DriverFields
<1> HIDE DEF T
<1>3. DOMAIN y = NodeFields /\ y.stage = S.nodes[n].stage /\ y.alive = S.nodes[n].alive
  BY DEF Formed, NodeFields
<1> HIDE DEF y
<1>4. Tells(S, T)  BY <1>2, <1>3, NodeTells
<1>5. Formed(T) /\ n \in DOMAIN T.nodes  BY <1>4 DEF Tells
<1>6. /\ DOMAIN N = DOMAIN T /\ N.allQueried = T.allQueried
      /\ N.nodes = [T.nodes EXCEPT ![n] = z]
  BY <1>5 DEF Formed, DriverFields
<1>7. DOMAIN z = NodeFields /\ z.stage = T.nodes[n].stage /\ z.alive = T.nodes[n].alive
  BY <1>5 DEF Formed, NodeFields
<1> HIDE DEF N, z
<1>8. Tells(T, N)  BY <1>5, <1>6, <1>7, NodeTells
<1>9. Tells(N, M)  BY <1>8, SendMsgTells DEF Tells
<1> HIDE DEF M
<1>10. Tells(S, M)  BY <1>4, <1>8, <1>9, TellsTransitive
<1> QED  BY <1>1, <1>4, <1>10

LEMMA SetAwakeTells ==
  ASSUME NEW S, NEW n, NEW awake, Formed(S), n \in DOMAIN S.nodes
  PROVE  Tells(S, SetAwake(S, n, awake))
<1> DEFINE notify == IF S.nodes[n].awake /\ ~awake THEN Append(S.notify, n) ELSE S.notify
           T == [S EXCEPT !.nodes[n].awake = awake, !.notify = notify]
           y == [S.nodes[n] EXCEPT !.awake = awake]
<1>1. SetAwake(S, n, awake) \in {T, SendPending(T, n)}  BY DEF SetAwake
<1> HIDE DEF notify
<1>2. /\ DOMAIN T = DOMAIN S /\ T.allQueried = S.allQueried
      /\ T.nodes = [S.nodes EXCEPT ![n] = y]
  BY DEF Formed, DriverFields
<1> HIDE DEF T
<1>3. DOMAIN y = NodeFields /\ y.stage = S.nodes[n].stage /\ y.alive = S.nodes[n].alive
  BY DEF Formed, NodeFields
<1> HIDE DEF y
<1>4. Tells(S, T)  BY <1>2, <1>3, NodeTells
<1>5. Tells(T, SendPending(T, n))  BY <1>4, SendPendingTells DEF Tells
<1> QED  BY <1>1, <1>4, <1>5, TellsTransitive

LEMMA MoveMessagesTells ==
  ASSUME NEW S, NEW n, Formed(S), n \in DOMAIN S.nodes
  PROVE  Tells(S, MoveMessagesToWakeUpQueue(S, n))
<1> DEFINE A == SetAwake(S, n, FALSE)
           R == RemoveQueues(A, n)
           mine == ItemsOf(S, n)
           moved == Only(mine, {i \in ToSet(mine) : ~NeverWaits(i)})
           w == QueueAll(R.nodes[n].waiting, moved)
           T == [R EXCEPT !.nodes[n].waiting = w]
           y == [R.nodes[n] EXCEPT !.waiting = w]
<1>1. MoveMessagesToWakeUpQueue(S, n) = T  BY DEF MoveMessagesToWakeUpQueue
<1> HIDE DEF w
<1>2. Tells(S, A)  BY SetAwakeTells
<1>3. Tells(A, R)  BY <1>2, RemoveQueuesTells DEF Tells
<1> HIDE DEF A, R
<1>4. Tells(S, R)  BY <1>2, <1>3, TellsTransitive
<1>5. Formed(R) /\ n \in DOMAIN R.nodes  BY <1>4 DEF Tells
<1>6. /\ DOMAIN T = DOMAIN R /\ T.allQueried = R.allQueried
      /\ T.nodes = [R.nodes EXCEPT ![n] = y]
  BY <1>5 DEF Formed, DriverFields
<1>7. DOMAIN y = NodeFields /\ y.stage = R.nodes[n].stage /\ y.alive = R.nodes[n].alive
  BY <1>5 DEF Formed, NodeFields
<1> HIDE DEF T, y
<1>8. Tells(R, T)  BY <1>5, <1>6, <1>7, NodeTells
<1> QED  BY <1>1, <1>4, <1>8, TellsTransitive

LEMMA ProtocolInfoTells ==
  ASSUME NEW S, NEW f, NEW exists, Formed(S)
  PROVE  Tells(S, HandleGetNodeProtocolInfoResponse(S, f, exists))
<1> DEFINE n == S.cur.node
           T == [S EXCEPT !.nodes[n].info = TRUE,
                          !.nodes[n].listening = f.node \notin Sleepers,
                          !.nodes[n].wake = f.node \in Sleepers]
           y == [S.nodes[n] EXCEPT !.info = TRUE, !.listening = f.node \notin Sleepers,
                                   !.wake = f.node \in Sleepers]
           H == HandleGetNodeProtocolInfoResponse(S, f, exists)
<1>1. H = S \/ (n \in DOMAIN S.nodes /\ H \in {SetNodeAlive(S, n, FALSE), T})
  BY DEF HandleGetNodeProtocolInfoResponse
<1> HIDE DEF H, n
<1>2. ASSUME n \in DOMAIN S.nodes
      PROVE  Tells(S, SetNodeAlive(S, n, FALSE)) /\ Tells(S, T)
  <2>1. /\ DOMAIN T = DOMAIN S /\ T.allQueried = S.allQueried
        /\ T.nodes = [S.nodes EXCEPT ![n] = y]
    BY <1>2 DEF Formed, DriverFields
  <2> HIDE DEF T
  <2>2. DOMAIN y = NodeFields /\ y.stage = S.nodes[n].stage /\ y.alive = S.nodes[n].alive
    BY <1>2 DEF Formed, NodeFields
  <2> HIDE DEF y
  <2> QED  BY <1>2, <2>1, <2>2, NodeTells, SetNodeAliveTells
<1>3. Tells(S, S)  BY SameTells
<1> QED  BY <1>1, <1>2, <1>3 DEF H

LEMMA ErrorResponseTells ==
  ASSUME NEW S, NEW n, NEW status, Formed(S), n \in DOMAIN S.nodes
  PROVE  Tells(S, HandleErrorResponse(S, n, status))
<1> DEFINE e == Min({S.nodes[n].errors + 1, 3})
           T == [S EXCEPT !.nodes[n].errors = e]
           D == SetNodeAlive(T, n, FALSE)
<1>1. HandleErrorResponse(S, n, status) \in {MoveMessagesToWakeUpQueue(S, n), D, T}
  BY DEF HandleErrorResponse
<1> HIDE DEF e
<1>2. Tells(S, T)  BY ErrorsTell
<1> HIDE DEF T
<1>3. Tells(T, D)  BY <1>2, SetNodeAliveTells DEF Tells
<1> HIDE DEF D
<1> QED  BY <1>1, <1>2, <1>3, MoveMessagesTells, TellsTransitive

LEMMA SendDataTells ==
  ASSUME NEW S, NEW id, NEW status, Formed(S)
  PROVE  Tells(S, HandleSendDataRequest(S, id, status))
<1> DEFINE n == S.cur.node
           T == HandleErrorResponse(S, n, status)
           U == IF S.cur.ask = NoMoreInformation THEN SetAwake(S, n, FALSE) ELSE S
           R == Revive(U, n)
           V == QueryStageRetry(T, n, T.nodes[n].stage, 3)
           H == HandleSendDataRequest(S, id, status)
<1>1. \/ H = S
      \/ n \in DOMAIN S.nodes /\ H \in {R, T}
      \/ n \in DOMAIN S.nodes /\ H = V /\ T.nodes[n].stage \in {Probe, Probe1}
  BY DEF HandleSendDataRequest
<1>2. Tells(S, S)  BY SameTells
<1>3. CASE H = S  BY <1>2, <1>3
<1>4. CASE n \in DOMAIN S.nodes
  <2> HIDE DEF n
  <2>1. Tells(S, U)  BY <1>2, <1>4, SetAwakeTells
  <2> HIDE DEF U
  <2>2. Tells(U, R)  BY <2>1, ReviveTells DEF Tells
  <2>3. Tells(S, T)  BY <1>4, ErrorResponseTells
  <2> HIDE DEF T, R
  <2>4. T.nodes[n].stage \in {Probe, Probe1} => Tells(T, V)
    BY <1>4, <2>3, QueryStageRetryTells DEF Tells
  <2> HIDE DEF V, H
  <2> QED  BY <1>1, <1>2, <2>1, <2>2, <2>3, <2>4, TellsTransitive DEF H
<1> QED  BY <1>1, <1>3, <1>4

LEMMA HandleMsgTells ==
  ASSUME NEW S, NEW f, Formed(S), f.node \in DOMAIN S.nodes
  PROVE  Tells(S, HandleMsg(S, f))
<1> DEFINE n == f.node
           M == SendMsg(S, n, IntervalSet, WakeUpQueue)
           answered == S.nodes[n].answered \cup {f.ask}
           T == [S EXCEPT !.nodes[n].answered = answered]
           y == [S.nodes[n] EXCEPT !.answered = answered]
<1>1. HandleMsg(S, f) \in {M, T, S}  BY DEF HandleMsg
<1> HIDE DEF answered, n
<1>2. /\ DOMAIN T = DOMAIN S /\ T.allQueried = S.allQueried
      /\ T.nodes = [S.nodes EXCEPT ![n] = y]
  BY DEF Formed, DriverFields, n
<1> HIDE DEF T
<1>3. DOMAIN y = NodeFields /\ y.stage = S.nodes[n].stage /\ y.alive = S.nodes[n].alive
  BY DEF Formed, NodeFields, n
<1> HIDE DEF y
<1>4. Tells(S, T)  BY <1>2, <1>3, NodeTells DEF n
<1>5. Tells(S, M)  BY SendMsgTells
<1>6. Tells(S, S)  BY SameTells
<1> HIDE DEF M
<1> QED  BY <1>1, <1>4, <1>5, <1>6

LEMMA WakeUpTells ==
  ASSUME NEW S, NEW n, Formed(S), n \in DOMAIN S.nodes
  PROVE  Tells(S, HandleWakeUpNotification(S, n))
<1> DEFINE T == [S EXCEPT !.nodes[n].notified = TRUE]
           y == [S.nodes[n] EXCEPT !.notified = TRUE]
<1>1. HandleWakeUpNotification(S, n) \in {S, SetAwake(T, n, TRUE)}
  BY DEF HandleWakeUpNotification
<1>2. /\ DOMAIN T = DOMAIN S /\ T.allQueried = S.allQueried
      /\ T.nodes = [S.nodes EXCEPT ![n] = y]
  BY DEF Formed, DriverFields
<1> HIDE DEF T
<1>3. DOMAIN y = NodeFields /\ y.stage = S.nodes[n].stage /\ y.alive = S.nodes[n].alive
  BY DEF Formed, NodeFields
<1> HIDE DEF y
<1>4. Tells(S, T) /\ Tells(S, S)  BY <1>2, <1>3, NodeTells, SameTells
<1>5. Tells(T, SetAwake(T, n, TRUE))  BY <1>4, SetAwakeTells DEF Tells
<1>6. Tells(S, SetAwake(T, n, TRUE))  BY <1>4, <1>5, TellsTransitive
<1> QED  BY <1>1, <1>4, <1>6

LEMMA UpdateNodeInfoTells ==
  ASSUME NEW S, NEW n, Formed(S), n \in DOMAIN S.nodes
  PROVE  Tells(S, UpdateNodeInfo(S, n))
<1> DEFINE T == [S EXCEPT !.nodes[n].optional = TRUE]
           y == [S.nodes[n] EXCEPT !.optional = TRUE]
           Q == SetQueryStage(T, n, ManufacturerSpecific2)
           U == IF {Versions, Instances} \cap Known(n, T.nodes[n]) # {} THEN Q ELSE T
           F == [U EXCEPT !.nodes[n].nif = TRUE]
           z == [U.nodes[n] EXCEPT !.nif = TRUE]
           D == SetQueryStage(S, n, Dynamic)
           V == IF S.nodes[n].nif THEN D ELSE F
           W == SetAwake(V, n, TRUE)
<1>1. UpdateNodeInfo(S, n) \in {V, W}  BY DEF UpdateNodeInfo
<1>2. /\ DOMAIN T = DOMAIN S /\ T.allQueried = S.allQueried
      /\ T.nodes = [S.nodes EXCEPT ![n] = y]
  BY DEF Formed, DriverFields
<1> HIDE DEF T
<1>3. DOMAIN y = NodeFields /\ y.stage = S.nodes[n].stage /\ y.alive = S.nodes[n].alive
  BY DEF Formed, NodeFields
<1> HIDE DEF y
<1>4. Tells(S, T)  BY <1>2, <1>3, NodeTells
<1>5. ManufacturerSpecific2 # Complete /\ Dynamic # Complete
  BY DEF ManufacturerSpecific2, Dynamic, Complete
<1>6. Tells(T, Q) /\ Tells(S, D)  BY <1>4, <1>5, SetQueryStageTells DEF Tells
<1> HIDE DEF Q, D
<1>7. Tells(S, U)  BY <1>4, <1>6, TellsTransitive
<1> HIDE DEF U
<1>8. Formed(U) /\ n \in DOMAIN U.nodes  BY <1>7 DEF Tells
<1>9. /\ DOMAIN F = DOMAIN U /\ F.allQueried = U.allQueried
      /\ F.nodes = [U.nodes EXCEPT ![n] = z]
  BY <1>8 DEF Formed, DriverFields
<1> HIDE DEF F
<1>10. DOMAIN z = NodeFields /\ z.stage = U.nodes[n].stage /\ z.alive = U.nodes[n].alive
  BY <1>8 DEF Formed, NodeFields
<1> HIDE DEF z
<1>11. Tells(U, F)  BY <1>8, <1>9, <1>10, NodeTells
<1>12. Tells(S, V)  BY <1>6, <1>7, <1>11, TellsTransitive
<1> HIDE DEF V
<1>13. Tells(V, W)  BY <1>12, SetAwakeTells DEF Tells
<1> HIDE DEF W
<1> QED  BY <1>1, <1>12, <1>13, TellsTransitive

LEMMA GenericCallbackTells ==
  ASSUME NEW S, NEW f, Formed(S)
  PROVE  Tells(S, GenericCallback(S, f))
<1> DEFINE T == GenericCallback(S, f)
<1>1. DOMAIN T = DOMAIN S /\ T.allQueried = S.allQueried /\ T.nodes = S.nodes
  BY DEF Formed, DriverFields, GenericCallback, RemoveCurrentMsg
<1> QED  BY <1>1, SameTells

LEMMA WriteMsgTells ==
  ASSUME NEW S, Formed(S)
  PROVE  Tells(S, WriteMsg(S))
<1> DEFINE T == WriteMsg(S)
<1>1. DOMAIN T = DOMAIN S /\ T.allQueried = S.allQueried /\ T.nodes = S.nodes
  BY DEF Formed, DriverFields, WriteMsg, RemoveCurrentMsg
<1> QED  BY <1>1, SameTells

LEMMA NodeInfoTells ==
  ASSUME NEW S, NEW f, Formed(S)
  PROVE  Tells(S, HandleNodeInfo(S, f)) /\ Tells(S, HandleNodeInfoFailed(S, f))
<1>0. Tells(S, S)  BY SameTells
<1>1. Tells(S, HandleNodeInfo(S, f))
  <2> DEFINE n == f.node
             R == Revive(S, n)
             I == UpdateNodeInfo(R, n)
             T == IF n \in DOMAIN S.nodes THEN I ELSE S
  <2>1. HandleNodeInfo(S, f) = GenericCallback(T, f)  BY DEF HandleNodeInfo
  <2>2. Tells(S, R)  BY ReviveTells
  <2> HIDE DEF R, n
  <2>3. n \in DOMAIN S.nodes => Tells(R, I)  BY <2>2, UpdateNodeInfoTells DEF Tells
  <2> HIDE DEF I
  <2>4. Tells(S, T)  BY <1>0, <2>2, <2>3, TellsTransitive
  <2> HIDE DEF T
  <2>5. Tells(T, GenericCallback(T, f))  BY <2>4, GenericCallbackTells DEF Tells
  <2> QED  BY <2>1, <2>4, <2>5, TellsTransitive
<1>2. Tells(S, HandleNodeInfoFailed(S, f))
  <2> DEFINE n == S.cur.node
             T == QueryStageRetry(S, n, NodeInfo, 2)
             g == [f EXCEPT !.node = 0, !.byte2 = NODE_INFO_REQ_FAILED]
             M == MoveMessagesToWakeUpQueue(T, n)
             H == HandleNodeInfoFailed(S, f)
  <2>1. \/ H = GenericCallback(S, g)
        \/ n \in DOMAIN S.nodes /\ H \in {M, GenericCallback(T, g)}
    BY DEF HandleNodeInfoFailed
  <2> HIDE DEF H, g, n
  <2>2. Tells(S, GenericCallback(S, g))  BY GenericCallbackTells
  <2>3. ASSUME n \in DOMAIN S.nodes
        PROVE  Tells(S, M) /\ Tells(S, GenericCallback(T, g))
    <3>1. Tells(S, T)  BY <2>3, QueryStageRetryTells
    <3> HIDE DEF T
    <3>2. Tells(T, M) /\ Tells(T, GenericCallback(T, g))
      BY <2>3, <3>1, MoveMessagesTells, GenericCallbackTells DEF Tells
    <3> HIDE DEF M
    <3> QED  BY <3>1, <3>2, TellsTransitive
  <2> HIDE DEF M, T
  <2> QED  BY <2>1, <2>2, <2>3 DEF H
<1> QED  BY <1>1, <1>2

Watched(S) == Formed(S) /\ Told(S)

LEMMA DeleteNodeFormed ==
  ASSUME NEW S, NEW n, Formed(S)
  PROVE  Formed(DeleteNode(S, n))
<1> DEFINE R == RemoveQueues(S, n)
           left == [m \in DOMAIN S.nodes \ {n} |-> S.nodes[m]]
           T == [R EXCEPT !.nodes = left]
<1>1. DeleteNode(S, n) = T  BY DEF DeleteNode
<1>2. Tells(S, R)  BY RemoveQueuesTells
<1> HIDE DEF R
<1>3. DOMAIN R = DriverFields  BY <1>2 DEF Tells, Formed
<1>4. DOMAIN T = DriverFields /\ T.nodes = left  BY <1>3 DEF DriverFields
<1>5. \A m \in DOMAIN T.nodes : DOMAIN T.nodes[m] = NodeFields  BY <1>4 DEF Formed
<1> HIDE DEF T
<1> QED  BY <1>1, <1>4, <1>5 DEF Formed

\* A new node is asked at once, so the state after it needs no telling.
LEMMA InitNodeWatched ==
  ASSUME NEW S, NEW n, Formed(S)
  PROVE  Watched(InitNode(S, n))
<1> DEFINE D == DeleteNode(S, n)
           nodes == [m \in DOMAIN D.nodes \cup {n} |-> IF m = n THEN NewNode ELSE D.nodes[m]]
           W == [D EXCEPT !.nodes = nodes]
           T == AdvanceQueries(W, n)
<1>1. Formed(D)  BY DeleteNodeFormed
<1>2. InitNode(S, n) = SetQueryStage(W, n, ProtocolInfo)  BY DEF InitNode, WithNode
<1> HIDE DEF D
<1>3. DOMAIN W = DriverFields /\ W.nodes = nodes  BY <1>1 DEF Formed, DriverFields
<1>4. /\ DOMAIN NewNode = NodeFields /\ NewNode.stage = None /\ NewNode.alive
      /\ ~NewNode.pending
  BY DEF NewNode, NodeFields
<1>5. /\ n \in DOMAIN nodes /\ nodes[n] = NewNode
      /\ \A m \in DOMAIN nodes : DOMAIN nodes[m] = NodeFields
  BY <1>1, <1>4 DEF Formed
<1> HIDE DEF W, nodes
<1>6. Formed(W) /\ n \in DOMAIN W.nodes /\ W.nodes[n] = NewNode  BY <1>3, <1>5 DEF Formed
<1>7. InitNode(S, n) = T
  BY <1>2, <1>4, <1>6 DEF SetQueryStage, None, ProtocolInfo
<1>8. Tells(W, T) /\ (Done(T) => T.allQueried)  BY <1>4, <1>6, AdvanceTells
<1> HIDE DEF T
<1> QED  BY <1>7, <1>8 DEF Tells, Watched, Told

LEMMA ReadConfigWatched ==
  ASSUME NEW id, NEW zwcfg, NEW net, zwcfg \in [net -> None..Complete]
  PROVE  Watched(ReadConfig(id, zwcfg))
<1> DEFINE S == ReadConfig(id, zwcfg)
           old == {m \in DOMAIN zwcfg : zwcfg[m] # None}
<1>1. /\ DOMAIN S = DriverFields
      /\ S.nodes = [n \in old |-> ReadXML(n, zwcfg[n])]
  BY DEF ReadConfig, DriverFields
<1> HIDE DEF S
<1>2. ASSUME NEW n \in old
      PROVE  LET x == ReadXML(n, zwcfg[n])
             IN  DOMAIN x = NodeFields /\ x.stage # Complete /\ x.alive
  <2> DEFINE saved == zwcfg[n]
             M == {saved, Associations}
             stage == Min(M)
             info == stage > ProtocolInfo
             nif == stage > NodeInfo
             answered == IF stage > Static THEN StaticQuestions ELSE {}
             listening == ~info \/ n \notin Sleepers
             wake == info /\ n \in Sleepers
             x == [NewNode EXCEPT !.stage = stage, !.info = info, !.nif = nif,
                                  !.optional = nif, !.answered = answered,
                                  !.listening = listening, !.wake = wake]
  <2>1. ReadXML(n, zwcfg[n]) = x  BY DEF ReadXML
  <2>2. M \subseteq Nat /\ M # {}  BY DEF None, Complete, Associations
  <2>3. Associations \in M  OBVIOUS
  <2> HIDE DEF M
  <2>4. stage \in Nat /\ stage <= Associations  BY <2>2, <2>3, MinIsLeast
  <2>5. stage # Complete  BY <2>4 DEF Associations, Complete
  <2> HIDE DEF stage, info, nif, answered, listening, wake
  <2>6. DOMAIN x = NodeFields /\ x.stage = stage /\ x.alive  BY DEF NewNode, NodeFields
  <2> HIDE DEF x
  <2> QED  BY <2>1, <2>5, <2>6
<1>3. \A n \in DOMAIN S.nodes :
        DOMAIN S.nodes[n] = NodeFields /\ S.nodes[n].stage # Complete /\ S.nodes[n].alive
  BY <1>1, <1>2
<1>4. Formed(S)  BY <1>1, <1>3 DEF Formed
<1>5. DOMAIN S.nodes # {} => ~Done(S)  BY <1>3 DEF Done
<1> QED  BY <1>4, <1>5 DEF Watched, Told, S

LEMMA HandleNodeBitWatched ==
  ASSUME NEW S, NEW n, NEW zwcfg, Watched(S)
  PROVE  Watched(HandleNodeBit(S, n, zwcfg))
<1>1. n \in DOMAIN S.nodes => Watched(SetQueryStage(S, n, Probe1))
  <2>1. Probe1 # Complete  BY DEF Probe1, Complete
  <2> QED  BY <2>1, SetQueryStageTells, TellsTold DEF Watched
<1>2. Watched(InitNode(S, n))  BY InitNodeWatched DEF Watched
<1> QED  BY <1>1, <1>2 DEF HandleNodeBit

LEMMA InitTold ==
  ASSUME Init
  PROVE  Told(drv)
<1>1. PICK id \in StartIds, scenario \in Scenarios : drv = NodeBits(id, scenario.zwcfg)[MaxNode]
  BY DEF Init, HandleSerialAPIGetInitDataResponse
<1> DEFINE zwcfg == scenario.zwcfg
<1>2. zwcfg \in UNION {[N -> None..Complete] : N \in SUBSET Nodes}
  BY DriverAssumption
<1> DEFINE After(n) == NodeBits(id, zwcfg)[n]
           Bad == {n \in 0..MaxNode : ~Watched(After(n))}
<1>3. MaxNode \in Nat  BY DriverAssumption
<1> HIDE DEF zwcfg
<1>4. Watched(After(0))
  <2>1. After(0) = ReadConfig(id, zwcfg)  BY NodeBitsDef
  <2> QED  BY <1>2, <2>1, ReadConfigWatched
<1>5. \A n \in 1..MaxNode : After(n) = HandleNodeBit(After(n - 1), n, zwcfg)
  BY NodeBitsDef
<1> HIDE DEF After
<1>6. Bad = {}
  <2> SUFFICES ASSUME Bad # {} PROVE FALSE
    OBVIOUS
  <2>1. PICK n \in Bad : \A m \in Bad : n <= m
    <3>1. Bad \subseteq Nat  BY <1>3
    <3> HIDE DEF Bad
    <3> QED  BY <3>1, LeastNatural
  <2>2. n \in 1..MaxNode /\ n - 1 \in 0..MaxNode /\ n - 1 \notin Bad
    BY <1>3, <1>4, <2>1
  <2> QED  BY <1>5, <2>1, <2>2, HandleNodeBitWatched
<1> QED  BY <1>1, <1>3, <1>6 DEF After, Watched, zwcfg

\* A stage that ends may be the last one: then the node is asked nothing more
\* and every node is looked at, unless it died meanwhile.
LEMMA CompleteStageTells ==
  ASSUME AllGo(drv), CompleteStage
  PROVE  Tells(drv, drv')
<1> DEFINE T == TakeNext
           n == NextItem.node
           a == NextItem.ask
           x == T.nodes[n]
           Q == QueryStageComplete(T, n, a)
           S == IF NextItem.retry THEN T ELSE Q
           stage == IF a = Static THEN Associations ELSE x.stage + 1
           y == [x EXCEPT !.pending = FALSE, !.stage = stage, !.retries = 0]
           E == [T EXCEPT !.nodes[n].pending = FALSE, !.nodes[n].stage = stage,
                          !.nodes[n].retries = 0]
<1>1. CanTakeNext /\ drv' = AdvanceQueries(S, n)  BY DEF CompleteStage
<1>2. Typed(drv)  BY DEF AllGo
<1>3. Typed(T) /\ T.nodes = drv.nodes /\ n \in DOMAIN T.nodes  BY <1>1, <1>2, TakeNextLeaves
<1>4. T.allQueried = drv.allQueried  BY <1>2 DEF Typed, DriverFields, TakeNext
<1>5. Formed(T) /\ Formed(drv)  BY <1>2, <1>3, TypedFormed
<1>6. Q \in {T, E}  BY DEF QueryStageComplete
<1> HIDE DEF T, n
<1>7. Tells(drv, T)
  <2>1. DOMAIN T = DOMAIN drv  BY <1>5 DEF Formed
  <2> QED  BY <1>3, <1>4, <1>5, <2>1, SameTells
<1> HIDE DEF stage
<1>8. /\ DOMAIN E = DOMAIN T /\ E.allQueried = T.allQueried
      /\ E.nodes = [T.nodes EXCEPT ![n] = y]
  BY <1>3, <1>5 DEF Formed, DriverFields
<1> HIDE DEF E
<1>9. DOMAIN y = NodeFields /\ ~y.pending /\ y.alive = x.alive
  BY <1>3, <1>5 DEF Formed, NodeFields
<1> HIDE DEF y, Q
<1>10. Tells(T, AdvanceQueries(T, n))  BY <1>3, <1>5, AdvanceTells
<1>11. Tells(T, AdvanceQueries(E, n))
  <2> DEFINE A == AdvanceQueries(E, n)
  <2>1. /\ DOMAIN E.nodes = DOMAIN T.nodes /\ E.nodes[n] = y
        /\ \A m \in DOMAIN T.nodes : m # n => E.nodes[m] = T.nodes[m]
    BY <1>3, <1>8
  <2>2. Formed(E)  BY <1>5, <1>8, <1>9, <2>1 DEF Formed
  <2>3. Tells(E, A) /\ (y.alive /\ ~y.pending /\ Done(A) => A.allQueried)
    BY <1>3, <2>1, <2>2, AdvanceTells
  <2> HIDE DEF A
  <2>4. CASE x.alive
    <3>1. Done(A) => A.allQueried  BY <1>9, <2>3, <2>4
    <3> QED  BY <1>8, <2>1, <2>3, <3>1 DEF Tells, A
  <2>5. CASE ~x.alive
    <3>1. Tells(T, E)  BY <1>3, <1>5, <1>8, <1>9, <2>5, NodeTells
    <3> QED  BY <2>3, <3>1, TellsTransitive DEF A
  <2> QED  BY <2>4, <2>5
<1>12. Tells(T, AdvanceQueries(S, n))  BY <1>6, <1>10, <1>11
<1> HIDE DEF S
<1> QED  BY <1>1, <1>7, <1>12, TellsTransitive

LEMMA ReadTells ==
  ASSUME Formed(drv), NEW f, ReadProtocolInfo(f) \/ ReadRoutingInfo(f) \/ ReadSendData(f)
                               \/ ReadCommand(f) \/ ReadUpdate(f)
  PROVE  Tells(drv, drv')
<1>0. \A T : Tells(drv, T) /\ drv' = GenericCallback(T, f) => Tells(drv, drv')
  <2> TAKE T
  <2> HAVE Tells(drv, T) /\ drv' = GenericCallback(T, f)
  <2>1. Tells(T, GenericCallback(T, f))  BY GenericCallbackTells DEF Tells
  <2> QED  BY <2>1, TellsTransitive
<1>1. CASE ReadProtocolInfo(f)
  BY <1>0, <1>1, ProtocolInfoTells DEF ReadProtocolInfo
<1>2. CASE ReadRoutingInfo(f)
  BY <1>0, <1>2, SameTells DEF ReadRoutingInfo
<1>3. CASE ReadSendData(f)
  BY <1>0, <1>3, SendDataTells DEF ReadSendData
<1>4. CASE ReadCommand(f)
  <2> DEFINE n == f.node
             H == Heard(drv, n)
             M == HandleMsg(H, f)
             T == IF n \in DOMAIN drv.nodes THEN M ELSE drv
  <2>1. drv' = GenericCallback(T, f)  BY <1>4 DEF ReadCommand
  <2>2. ASSUME n \in DOMAIN drv.nodes PROVE Tells(drv, M)
    <3>1. Tells(drv, H)  BY <2>2, HeardTells
    <3> HIDE DEF H
    <3>2. Tells(H, M)  BY <2>2, <3>1, HandleMsgTells DEF Tells
    <3> HIDE DEF M
    <3> QED  BY <3>1, <3>2, TellsTransitive
  <2>3. Tells(drv, drv)  BY SameTells
  <2> HIDE DEF M
  <2>4. Tells(drv, T)  BY <2>2, <2>3
  <2> HIDE DEF T
  <2> QED  BY <1>0, <2>1, <2>4
<1>5. CASE ReadUpdate(f)
  BY <1>5, NodeInfoTells DEF ReadUpdate
<1> QED  BY <1>1, <1>2, <1>3, <1>4, <1>5

LEMMA UnsolicitedTells ==
  ASSUME Formed(drv), NEW n \in Nodes,
         WakeUpNotification(n) \/ NodeInfoSent(n) \/ ReportSent(n)
           \/ NewIdAssigned(n) \/ DeleteDone(n),
         removed \/ Told(drv)
  PROVE  removed' \/ Told(drv')
<1>0. \A T, g : Told(T) /\ Formed(T) /\ drv' = GenericCallback(T, g) => Told(drv')
  <2> TAKE T, g
  <2> HAVE Told(T) /\ Formed(T) /\ drv' = GenericCallback(T, g)
  <2>1. Tells(T, GenericCallback(T, g))  BY GenericCallbackTells
  <2> QED  BY <2>1, TellsTold
<1> DEFINE H == Heard(drv, n)
           R == Revive(drv, n)
<1>1. Tells(drv, R) /\ (n \in DOMAIN drv.nodes => Tells(drv, H))  BY ReviveTells, HeardTells
<1> HIDE DEF H, R
<1>2. Told(drv) => Told(R) /\ (n \in DOMAIN drv.nodes => Told(H))  BY <1>1, TellsTold
<1>3. CASE WakeUpNotification(n)
  <2> DEFINE T == HandleWakeUpNotification(H, n)
  <2>1. /\ n \in DOMAIN drv.nodes /\ removed' = removed
        /\ \E g : drv' = GenericCallback(T, g)
    BY <1>3 DEF WakeUpNotification, H
  <2>2. Tells(H, T)  BY <1>1, <2>1, WakeUpTells DEF Tells
  <2> HIDE DEF T
  <2>3. Formed(T) /\ (Told(drv) => Told(T))  BY <1>2, <2>1, <2>2, TellsTold DEF Tells
  <2> QED  BY <1>0, <2>1, <2>3
<1>4. CASE NodeInfoSent(n)
  <2>1. removed' = removed  BY <1>4 DEF NodeInfoSent
  <2>2. Tells(drv, drv')  BY <1>4, NodeInfoTells DEF NodeInfoSent
  <2> QED  BY <2>1, <2>2, TellsTold
<1>5. CASE ReportSent(n)
  <2>1. /\ n \in DOMAIN drv.nodes /\ removed' = removed
        /\ \E g : drv' = GenericCallback(H, g)
    BY <1>5 DEF ReportSent, H
  <2>2. Formed(H)  BY <1>1, <2>1 DEF Tells
  <2> QED  BY <1>0, <1>2, <2>1, <2>2
<1>6. CASE NewIdAssigned(n)
  <2> DEFINE T == InitNode(R, n)
  <2>1. \E g : drv' = GenericCallback(T, g)  BY <1>6 DEF NewIdAssigned, R
  <2>2. Watched(T)  BY <1>1, InitNodeWatched DEF Tells
  <2> HIDE DEF T
  <2> QED  BY <1>0, <2>1, <2>2 DEF Watched
<1>7. CASE DeleteDone(n)
  BY <1>7 DEF DeleteDone
<1> QED  BY <1>3, <1>4, <1>5, <1>6, <1>7

LEMMA NotifyWatchersTells ==
  ASSUME Formed(drv), NotifyWatchers
  PROVE  Tells(drv, drv')
<1> DEFINE n == Head(drv.notify)
           S == [drv EXCEPT !.notify = Tail(@)]
           Q == SetQueryStage(S, n, Dynamic)
<1>1. drv' = IF n \in Meters \cap DOMAIN S.nodes THEN Q ELSE S  BY DEF NotifyWatchers
<1>2. DOMAIN S = DOMAIN drv /\ S.nodes = drv.nodes /\ S.allQueried = drv.allQueried
  BY DEF Formed, DriverFields
<1> HIDE DEF S, n
<1>3. Tells(drv, S)  BY <1>2, SameTells
<1>4. n \in DOMAIN S.nodes => Tells(S, Q)
  <2>1. Dynamic # Complete  BY DEF Dynamic, Complete
  <2> QED  BY <1>3, <2>1, SetQueryStageTells DEF Tells
<1> HIDE DEF Q
<1> QED  BY <1>1, <1>3, <1>4, TellsTransitive

LEMMA WritesTell ==
  ASSUME Formed(drv), WriteNextMsg \/ Timeout \/ ReadCan
  PROVE  Tells(drv, drv')
<1> DEFINE A == [TakeNext EXCEPT !.cur = NextItem]
           B == [drv EXCEPT !.cur.max = IF @ + 1 < MAX_MAX_TRIES THEN @ + 1 ELSE @]
<1>1. PICK S \in {A, B, drv} : drv' = WriteMsg(S)
  BY DEF WriteNextMsg, Timeout, ReadCan, Write
<1>2. DOMAIN S = DOMAIN drv /\ S.nodes = drv.nodes /\ S.allQueried = drv.allQueried
  BY <1>1 DEF Formed, DriverFields, TakeNext
<1> HIDE DEF A, B
<1>3. Tells(drv, S)  BY <1>2, SameTells
<1>4. Tells(S, WriteMsg(S))  BY <1>3, WriteMsgTells DEF Tells
<1> QED  BY <1>1, <1>3, <1>4, TellsTransitive

LEMMA NextTold ==
  ASSUME AllGo(drv), removed \/ Told(drv), [Next]_vars
  PROVE  removed' \/ Told(drv')
<1>0. Formed(drv)  BY TypedFormed DEF AllGo
<1>1. Tells(drv, drv') /\ removed' = removed => removed' \/ Told(drv')  BY TellsTold
<1>2. CASE NotifyWatchers
  BY <1>0, <1>1, <1>2, NotifyWatchersTells DEF NotifyWatchers, history
<1>3. CASE WriteNextMsg \/ Timeout \/ ReadCan
  BY <1>0, <1>1, <1>3, WritesTell DEF WriteNextMsg, Timeout, ReadCan, Write, history
<1>4. CASE CompleteStage
  BY <1>1, <1>4, CompleteStageTells DEF CompleteStage, history
<1>5. ASSUME NEW f, ReadProtocolInfo(f) \/ ReadRoutingInfo(f) \/ ReadSendData(f)
                      \/ ReadCommand(f) \/ ReadUpdate(f)
      PROVE  removed' \/ Told(drv')
  <2>1. removed' = removed
    BY <1>5 DEF ReadProtocolInfo, ReadRoutingInfo, ReadSendData, ReadCommand, ReadUpdate, Arrives
  <2> QED  BY <1>0, <1>1, <1>5, <2>1, ReadTells
<1>6. CASE UNCHANGED vars  BY <1>6 DEF vars
<1> QED  BY <1>0, <1>2, <1>3, <1>4, <1>5, <1>6, UnsolicitedTells DEF Next, ReadMsg

\* Once every node is complete or dead, CheckCompletedNodeQueries has told the
\* watcher: each way to such a state - a last stage, a death, a node that
\* completes when it revives or is asked again - ends with a look at all nodes;
\* only a removal does not look.
THEOREM WatcherIsTold == Spec => []TellsWhenDone
<1>1. Init => AllGo(drv) /\ Told(drv)  BY InitAllGo, InitTold
<1>2. AllGo(drv) /\ NeverWaitsForNothing /\ [Next]_vars => AllGo(drv)'  BY NextAllGo
<1>3. AllGo(drv) /\ (removed \/ Told(drv)) /\ [Next]_vars => (removed \/ Told(drv))'
  BY NextTold
<1>4. removed \/ Told(drv) => TellsWhenDone  BY DEF Told, Done, TellsWhenDone
<1> QED  BY <1>1, <1>2, <1>3, <1>4, WaitsForItsMessage, PTL DEF Spec

-----------------------------------------------------------------------------
(* Questions and the items behind them. *)

\* A message that asks what a stage asks, and the item that ends the stage.
IsQuestion(i) == i.cmd = "SendMsg" /\ i.ask \notin {NoMoreInformation, IntervalSet}
Ends(k, i) == IsMark(k) /\ k.node = i.node /\ Question(k.ask) = i.ask

\* Each question of A has an item in B that ends its stage.
Covered(A, B) == \A i \in A : IsQuestion(i) => \E k \in B : Ends(k, i)

\* In the query queue that item is behind the question, or is one of D, which are
\* going to be queued.
Behind(s, D) ==
  \A a \in 1..Len(s) :
    IsQuestion(s[a]) => \/ \E b \in 1..Len(s) : b > a /\ Ends(s[b], s[a])
                        \/ \E k \in D : Ends(k, s[a])

\* The items are the same but for attempts and retries.
Copies(A, B) ==
  /\ \A i \in A : \E j \in B : Same(i, j)
  /\ \A j \in B : \E i \in A : Same(i, j)

LEMMA CopiesCovered ==
  ASSUME NEW A, NEW B, NEW D, Copies(A, B), Covered(A, A \cup D)
  PROVE  Covered(B, B \cup D)
<1> SUFFICES ASSUME NEW j \in B, IsQuestion(j)
             PROVE  \E k \in B \cup D : Ends(k, j)
  BY DEF Covered
<1>1. PICK i \in A : Same(i, j)  BY DEF Copies
<1>2. PICK k \in A \cup D : Ends(k, i)  BY <1>1 DEF Covered, IsQuestion, Same
<1>3. CASE k \in D  BY <1>1, <1>2, <1>3 DEF Ends, Same
<1>4. CASE k \in A
  <2>1. PICK l \in B : Same(k, l)  BY <1>4 DEF Copies
  <2> QED  BY <1>1, <1>2, <2>1 DEF Ends, Same, IsMark
<1> QED  BY <1>2, <1>3, <1>4

LEMMA QueueMsgCopies ==
  ASSUME NEW n, NEW w, WaitsIn(w, n), NEW item \in Items, item.node = n
  PROVE  Copies(ToSet(w) \cup {item}, ToSet(QueueMsg(w, item)))
<1> DEFINE K == {i \in ToSet(w) : ~Same(i, item)}
           m == IF item.cmd = "SendMsg" THEN [item EXCEPT !.tries = 0] ELSE item
<1>1. w \in Seq(Items)  BY DEF WaitsIn
<1>2. m \in Items /\ Same(item, m)
  <2>1. CASE item.cmd = "SendMsg"
    <3>1. item \in Message  BY <2>1, ItemKinds
    <3>2. m.ask = item.ask  BY <2>1, <3>1 DEF Message
    <3> QED  BY <2>1, <3>2, ResetItem DEF Same
  <2>2. CASE item.cmd # "SendMsg"  BY <2>2 DEF Same
  <2> QED  BY <2>1, <2>2
<1>3. QueueMsg(w, item) = Append(Only(w, K), m)  BY DEF QueueMsg
<1> HIDE DEF m, K
<1>4. Only(w, K) \in Seq(Items) /\ ToSet(Only(w, K)) = ToSet(w) \cap K
  BY <1>1, OnlySet
<1>5. ToSet(QueueMsg(w, item)) = (ToSet(w) \cap K) \cup {m}
  BY <1>2, <1>3, <1>4, AppendSet
<1>6. \A i \in ToSet(w) : i \in K \/ Same(i, m)  BY <1>2 DEF K, Same
<1>7. \A i : Same(i, i)  BY DEF Same
<1> QED  BY <1>2, <1>5, <1>6, <1>7 DEF Copies

LEMMA QueueAllCopies ==
  ASSUME NEW n, NEW w, WaitsIn(w, n), NEW items \in Seq(Items),
         \A i \in ToSet(items) : i.node = n
  PROVE  Copies(ToSet(w) \cup ToSet(items), ToSet(QueueAll(w, items)))
<1>1. PICK after : /\ QueueAll(w, items) = after[Len(items)] /\ after[0] = w
                   /\ \A i \in 1..Len(items) : after[i] = QueueMsg(after[i - 1], items[i])
  BY QueueAllDef
<1>2. Len(items) \in Nat /\ \A i \in 1..Len(items) : items[i] \in Items /\ items[i].node = n
  BY SeqSet
<1> DEFINE First(k) == {items[j] : j \in 1..k}
           Good(k) == /\ WaitsIn(after[k], n)
                      /\ Copies(ToSet(w) \cup First(k), ToSet(after[k]))
           Bad == {k \in 0..Len(items) : ~Good(k)}
<1>3. Good(0)
  <2>1. First(0) = {}  OBVIOUS
  <2> HIDE DEF First
  <2> QED  BY <1>1, <2>1 DEF Copies, Same
<1>4. ASSUME NEW k \in 1..Len(items), Good(k - 1) PROVE Good(k)
  <2> DEFINE e == items[k]
             A == ToSet(w) \cup First(k - 1)
             B == ToSet(after[k - 1])
             C == ToSet(after[k])
  <2>1. WaitsIn(after[k], n) /\ Copies(B \cup {e}, C)
    BY <1>1, <1>2, <1>4, QueueMsgWaits, QueueMsgCopies
  <2>2. Copies(A, B)  BY <1>4
  <2>3. First(k) = First(k - 1) \cup {e}
    <3>1. \A j \in 1..k : j \in 1..k - 1 \/ j = k  BY <1>2
    <3>2. k \in 1..k /\ \A j \in 1..k - 1 : j \in 1..k  BY <1>2
    <3> QED  BY <3>1, <3>2
  <2>4. ToSet(w) \cup First(k) = A \cup {e}  BY <2>3
  <2> HIDE DEF A, B, C, e, First
  <2>5. Copies(A \cup {e}, C)
    <3>1. \A i \in A \cup {e} : \E j \in C : Same(i, j)
      <4> TAKE i \in A \cup {e}
      <4>1. PICK b \in B \cup {e} : Same(i, b)  BY <2>2 DEF Copies, Same
      <4>2. PICK c \in C : Same(b, c)  BY <2>1 DEF Copies
      <4> QED  BY <4>1, <4>2 DEF Same
    <3>2. \A j \in C : \E i \in A \cup {e} : Same(i, j)
      <4> TAKE j \in C
      <4>1. PICK b \in B \cup {e} : Same(b, j)  BY <2>1 DEF Copies
      <4>2. PICK i \in A \cup {e} : Same(i, b)  BY <2>2 DEF Copies, Same
      <4> QED  BY <4>1, <4>2 DEF Same
    <3> QED  BY <3>1, <3>2 DEF Copies
  <2> QED  BY <2>1, <2>4, <2>5 DEF C
<1> HIDE DEF Good
<1>5. Bad = {}
  <2> SUFFICES ASSUME Bad # {} PROVE FALSE
    OBVIOUS
  <2>1. PICK k \in Bad : \A j \in Bad : k <= j
    <3>1. Bad \subseteq Nat  BY <1>2
    <3> HIDE DEF Bad
    <3> QED  BY <3>1, LeastNatural
  <2>2. k \in 1..Len(items) /\ k - 1 \in 0..Len(items) /\ k - 1 \notin Bad
    BY <1>2, <1>3, <2>1
  <2> QED  BY <1>4, <2>1, <2>2
<1>6. Good(Len(items))  BY <1>2, <1>5
<1>7. First(Len(items)) = ToSet(items)  BY SeqSet
<1> QED  BY <1>1, <1>6, <1>7 DEF Good

\* The order in the query queue survives that other items are left out, and that
\* an item is queued.
LEMMA WithoutBehind ==
  ASSUME NEW s \in Seq(Items), NEW n, Behind(s, {})
  PROVE  Behind(Without(s, n), {})
<1> DEFINE K == {i \in ToSet(s) : i.node # n}
<1>0. Without(s, n) = Only(s, K)  BY DEF Without
<1>1. PICK kept : /\ Only(s, K) = kept[Len(s)] /\ kept[0] = <<>>
                  /\ \A i \in 1..Len(s) :
                        kept[i] = IF s[i] \in K THEN Append(kept[i - 1], s[i]) ELSE kept[i - 1]
  <2> HIDE DEF K
  <2> QED  BY OnlyDef
<1>2. Len(s) \in Nat /\ \A i \in 1..Len(s) : s[i] \in Items /\ (s[i] \in K <=> s[i].node # n)
  BY SeqSet
<1> HIDE DEF K
<1> DEFINE Later(i, e) == \E p \in 1..Len(s) : p > i /\ s[p] \in K /\ Ends(s[p], e)
           NextTo(t, a) == \E b \in 1..Len(t) : b > a /\ Ends(t[b], t[a])
           Good(i) == /\ kept[i] \in Seq(Items)
                      /\ \A a \in 1..Len(kept[i]) :
                           IsQuestion(kept[i][a]) => NextTo(kept[i], a) \/ Later(i, kept[i][a])
           Bad == {i \in 0..Len(s) : ~Good(i)}
<1>3. Good(0)  BY <1>1
<1>4. ASSUME NEW i \in 1..Len(s), Good(i - 1) PROVE Good(i)
  <2> DEFINE t == kept[i - 1]
             u == kept[i]
  <2>0. /\ t \in Seq(Items) /\ Len(t) \in Nat
        /\ \A a \in 1..Len(t) : IsQuestion(t[a]) => NextTo(t, a) \/ Later(i - 1, t[a])
    <3>1. t \in Seq(Items)  BY <1>4
    <3> HIDE DEF NextTo, Later
    <3> QED  BY <1>4, <3>1
  <2>1. i \in Nat /\ \A p \in 1..Len(s) : p > i - 1 => p = i \/ p > i  BY <1>2
  <2>2. \A e : Later(i - 1, e) => Later(i, e) \/ (s[i] \in K /\ Ends(s[i], e))
    BY <2>1
  <2>3. CASE s[i] \in K
    <3>1. u = Append(t, s[i])  BY <1>1, <2>3
    <3>2. /\ u \in Seq(Items) /\ Len(u) = Len(t) + 1 /\ u[Len(t) + 1] = s[i]
          /\ \A a \in 1..Len(t) : u[a] = t[a]
      BY <1>2, <2>0, <3>1, AppendProperties
    <3> HIDE DEF u, t, Later
    <3>3. ASSUME NEW a \in 1..Len(t), IsQuestion(u[a]) PROVE NextTo(u, a) \/ Later(i, u[a])
      <4>1. u[a] = t[a] /\ IsQuestion(t[a])  BY <3>2, <3>3
      <4>2. NextTo(t, a) => NextTo(u, a)
        <5>1. \A b \in 1..Len(t) : b \in 1..Len(u)  BY <2>0, <3>2
        <5> QED  BY <3>2, <4>1, <5>1
      <4>3. Ends(s[i], t[a]) => NextTo(u, a)
        <5>1. Len(t) + 1 \in 1..Len(u) /\ Len(t) + 1 > a  BY <2>0, <3>2
        <5> QED  BY <3>2, <4>1, <5>1
      <4> HIDE DEF NextTo
      <4> QED  BY <2>0, <2>2, <4>1, <4>2, <4>3
    <3>4. IsQuestion(s[i]) => Later(i, s[i])
      <4> SUFFICES ASSUME IsQuestion(s[i]) PROVE Later(i, s[i])
        OBVIOUS
      <4>1. PICK b \in 1..Len(s) : b > i /\ Ends(s[b], s[i])  BY DEF Behind
      <4>2. s[b].node = s[i].node  BY <4>1 DEF Ends
      <4>3. s[b] \in K  BY <1>2, <2>3, <4>2
      <4> QED  BY <4>1, <4>3 DEF Later
    <3>5. \A a \in 1..Len(u) : a \in 1..Len(t) \/ a = Len(t) + 1  BY <2>0, <3>2
    <3>6. \A a \in 1..Len(u) : IsQuestion(u[a]) => NextTo(u, a) \/ Later(i, u[a])
      <4> HIDE DEF NextTo
      <4> QED  BY <3>2, <3>3, <3>4, <3>5
    <3> HIDE DEF NextTo
    <3> QED  BY <3>2, <3>6 DEF u
  <2>4. CASE s[i] \notin K
    <3>1. u = t  BY <1>1, <2>4
    <3>2. \A e : Later(i - 1, e) => Later(i, e)  BY <2>2, <2>4
    <3> HIDE DEF u, t, Later, NextTo
    <3> QED  BY <2>0, <3>1, <3>2 DEF u
  <2> QED  BY <2>3, <2>4
<1> HIDE DEF Good
<1>5. Bad = {}
  <2> SUFFICES ASSUME Bad # {} PROVE FALSE
    OBVIOUS
  <2>1. PICK i \in Bad : \A j \in Bad : i <= j
    <3>1. Bad \subseteq Nat  BY <1>2
    <3> HIDE DEF Bad
    <3> QED  BY <3>1, LeastNatural
  <2>2. i \in 1..Len(s) /\ i - 1 \in 0..Len(s) /\ i - 1 \notin Bad
    BY <1>2, <1>3, <2>1
  <2> QED  BY <1>4, <2>1, <2>2
<1>6. Good(Len(s))  BY <1>2, <1>5
<1>7. \A e : ~Later(Len(s), e)  BY <1>2
<1> HIDE DEF Later
<1> QED  BY <1>0, <1>1, <1>6, <1>7 DEF Good, Behind

LEMMA AppendBehind ==
  ASSUME NEW s \in Seq(Items), NEW D, Behind(s, D), NEW e \in Items,
         IsQuestion(e) => \E k \in D : Ends(k, e)
  PROVE  Behind(Append(s, e), D)
<1> DEFINE u == Append(s, e)
<1>1. /\ u \in Seq(Items) /\ Len(u) = Len(s) + 1 /\ u[Len(s) + 1] = e
      /\ \A a \in 1..Len(s) : u[a] = s[a]
  BY AppendProperties
<1>2. Len(s) \in Nat  OBVIOUS
<1> HIDE DEF u
<1>3. \A a \in 1..Len(u) : a \in 1..Len(s) \/ a = Len(s) + 1  BY <1>1, <1>2
<1>4. \A b \in 1..Len(s) : b \in 1..Len(u)  BY <1>1, <1>2
<1>5. Behind(u, D)  BY <1>1, <1>3, <1>4 DEF Behind
<1> QED  BY <1>5 DEF u

LEMMA EndBehind ==
  ASSUME NEW s \in Seq(Items), NEW e \in Items, IsMark(e), Behind(s, {e})
  PROVE  Behind(Append(s, e), {})
<1> DEFINE u == Append(s, e)
<1>1. /\ u \in Seq(Items) /\ Len(u) = Len(s) + 1 /\ u[Len(s) + 1] = e
      /\ \A a \in 1..Len(s) : u[a] = s[a]
  BY AppendProperties
<1>2. Len(s) \in Nat  OBVIOUS
<1> HIDE DEF u
<1>3. \A a \in 1..Len(u) : a \in 1..Len(s) \/ a = Len(s) + 1  BY <1>1, <1>2
<1>4. \A b \in 1..Len(s) : b \in 1..Len(u)  BY <1>1, <1>2
<1>5. \A a \in 1..Len(s) : Len(s) + 1 > a /\ Len(s) + 1 \in 1..Len(u)  BY <1>1, <1>2
<1>6. ~IsQuestion(e)  BY DEF IsQuestion, IsMark
<1>7. Behind(u, {})  BY <1>1, <1>3, <1>4, <1>5, <1>6 DEF Behind
<1> QED  BY <1>7 DEF u

LEMMA ConcatBehind ==
  ASSUME NEW s \in Seq(Items), NEW t \in Seq(Items), Behind(s, {}),
         \A i \in ToSet(t) : IsMark(i)
  PROVE  Behind(s \o t, {})
<1> DEFINE u == s \o t
<1>1. /\ u \in Seq(Items) /\ Len(u) = Len(s) + Len(t)
      /\ \A a \in 1..Len(s) : u[a] = s[a]
      /\ \A a \in 1..Len(u) : a > Len(s) => u[a] = t[a - Len(s)]
  OBVIOUS
<1>2. Len(s) \in Nat /\ Len(t) \in Nat  OBVIOUS
<1>3. \A a \in 1..Len(t) : IsMark(t[a])  BY SeqSet
<1> HIDE DEF u
<1>4. \A a \in 1..Len(u) : a > Len(s) => ~IsQuestion(u[a])
  <2> TAKE a \in 1..Len(u)
  <2>1. a > Len(s) => a - Len(s) \in 1..Len(t)  BY <1>1, <1>2
  <2> QED  BY <1>1, <1>3, <2>1 DEF IsQuestion, IsMark
<1>5. \A a \in 1..Len(u) : a \in 1..Len(s) \/ a > Len(s)  BY <1>1, <1>2
<1>6. \A b \in 1..Len(s) : b \in 1..Len(u)  BY <1>1, <1>2
<1>7. Behind(u, {})  BY <1>1, <1>4, <1>5, <1>6 DEF Behind
<1> QED  BY <1>7 DEF u

LEMMA TailBehind ==
  ASSUME NEW s \in Seq(Items), s # <<>>, Behind(s, {})
  PROVE  Behind(Tail(s), {}) /\ Covered({Head(s)}, ToSet(Tail(s)))
<1> DEFINE u == Tail(s)
<1>1. /\ u \in Seq(Items) /\ Len(u) = Len(s) - 1 /\ Len(s) \in Nat /\ Len(s) > 0
      /\ \A a \in 1..Len(s) - 1 : u[a] = s[a + 1]
      /\ Head(s) = s[1]
  OBVIOUS
<1> HIDE DEF u
<1>2. \A a \in 1..Len(u) : a + 1 \in 1..Len(s)  BY <1>1
<1>3. \A b \in 1..Len(s) : b > 1 => b - 1 \in 1..Len(u) /\ u[b - 1] = s[b]  BY <1>1
<1>4. ASSUME NEW a \in 1..Len(u), IsQuestion(u[a])
      PROVE  \E b \in 1..Len(u) : b > a /\ Ends(u[b], u[a])
  <2>1. u[a] = s[a + 1] /\ a + 1 \in 1..Len(s)  BY <1>1, <1>2
  <2>2. PICK b \in 1..Len(s) : b > a + 1 /\ Ends(s[b], s[a + 1])  BY <1>4, <2>1 DEF Behind
  <2>3. b - 1 \in 1..Len(u) /\ u[b - 1] = s[b] /\ b - 1 > a  BY <1>1, <1>3, <2>2
  <2> QED  BY <2>1, <2>2, <2>3
<1>5. ASSUME IsQuestion(s[1]) PROVE \E k \in ToSet(u) : Ends(k, s[1])
  <2>1. 1 \in 1..Len(s)  BY <1>1
  <2>2. PICK b \in 1..Len(s) : b > 1 /\ Ends(s[b], s[1])  BY <1>5, <2>1 DEF Behind
  <2>3. b - 1 \in 1..Len(u) /\ u[b - 1] = s[b]  BY <1>3, <2>2
  <2>4. u[b - 1] \in ToSet(u)  BY <1>1, <2>3, SeqSet
  <2> QED  BY <2>2, <2>3, <2>4
<1> QED  BY <1>1, <1>4, <1>5 DEF Behind, Covered, u

-----------------------------------------------------------------------------
(* What keeps questions and their items in order. *)

\* Every question that is queued, waits or was sent has the item that ends its
\* stage in the query queue, behind it, or in the same node.  D and E are items
\* that are going to be queued and to wait.
Followed(S, D, E) ==
  /\ \A q \in Queues \ {QueryQueue} :
       Covered(ToSet(S.queue[q]), ToSet(S.queue[QueryQueue]) \cup D)
  /\ Covered({S.cur}, ToSet(S.queue[QueryQueue]) \cup D)
  /\ Behind(S.queue[QueryQueue], D)
  /\ \A n \in DOMAIN S.nodes :
       Covered(ToSet(S.nodes[n].waiting), ToSet(S.nodes[n].waiting) \cup E)

\* A node is let asleep only when what it is was known.
IsLast(i) == i.cmd = "SendMsg" /\ i.ask = NoMoreInformation
Knows(S, A) == \A i \in A : IsLast(i) => S.nodes[i.node].info
Rested(S) ==
  /\ S.notify \in Seq(Nodes)
  /\ \A q \in Queues : Knows(S, ToSet(S.queue[q]))
  /\ Knows(S, {S.cur})
  /\ \A n \in DOMAIN S.nodes : /\ Knows(S, ToSet(S.nodes[n].waiting))
                               /\ ~S.nodes[n].awake => S.nodes[n].info

\* A sleeping meter whose sleep was announced has not got beyond its values.
Met(S) ==
  \A n \in Meters \cap DOMAIN S.nodes :
    Asleep(S, n) /\ n \notin ToSet(S.notify) => S.nodes[n].stage <= Dynamic
\* Nothing is queued for a node that sleeps.
Clear(S) == \A q \in Queues : \A i \in ToSet(S.queue[q]) : ~Asleep(S, i.node)

\* P tells which of the last two hold.
Quiet(S, P) == Rested(S) /\ ("met" \in P => Met(S)) /\ ("clear" \in P => Clear(S))
Orderly(S, P) == Followed(S, {}, {}) /\ Quiet(S, P)

\* A new record for node n that keeps what waits.
LEMMA NodeOrderly ==
  ASSUME NEW S, NEW T, NEW n, NEW y, NEW P, Typed(S), n \in DOMAIN S.nodes, Orderly(S, P),
         T.queue = S.queue, T.cur = S.cur, T.notify = S.notify,
         T.nodes = [S.nodes EXCEPT ![n] = y],
         y.waiting = S.nodes[n].waiting, y.awake = S.nodes[n].awake,
         S.nodes[n].info => y.info,
         P # {} => ( ~y.listening /\ y.wake /\ ~y.awake =>
           Asleep(S, n) /\ (n \in Meters /\ S.nodes[n].stage <= Dynamic => y.stage <= Dynamic) )
  PROVE  Orderly(T, P)
<1>1. /\ DOMAIN T.nodes = DOMAIN S.nodes /\ T.nodes[n] = y
      /\ \A m \in DOMAIN S.nodes : m # n => T.nodes[m] = S.nodes[m]
  OBVIOUS
<1>2. /\ \A m \in DOMAIN S.nodes : /\ T.nodes[m].waiting = S.nodes[m].waiting
                                   /\ T.nodes[m].awake = S.nodes[m].awake
                                   /\ S.nodes[m].info => T.nodes[m].info
      /\ P # {} => \A m : Asleep(T, m) => Asleep(S, m)
  BY <1>1 DEF Asleep
<1>3. Followed(T, {}, {})  BY <1>1, <1>2 DEF Orderly, Followed
<1>4. Rested(T)
  <2>1. \A q \in Queues : \A i \in ToSet(S.queue[q]) : i.node \in DOMAIN S.nodes
    BY DEF Typed
  <2>2. \A m \in DOMAIN S.nodes : \A i \in ToSet(S.nodes[m].waiting) : i.node \in DOMAIN S.nodes
    BY DEF Typed, NodeOK, WaitsIn
  <2>3. IsLast(S.cur) => S.cur.node \in DOMAIN S.nodes  BY DEF Typed, IsLast, NULL
  <2>4. Rested(S)  BY DEF Orderly, Quiet
  <2>5. \A q \in Queues : Knows(T, ToSet(T.queue[q]))  BY <1>2, <2>1, <2>4 DEF Rested, Knows
  <2>6. Knows(T, {T.cur})  BY <1>2, <2>3, <2>4 DEF Rested, Knows
  <2>7. \A m \in DOMAIN T.nodes : Knows(T, ToSet(T.nodes[m].waiting))
    BY <1>1, <1>2, <2>2, <2>4 DEF Rested, Knows
  <2> QED  BY <1>1, <1>2, <2>4, <2>5, <2>6, <2>7 DEF Rested
<1>5. P # {} /\ Met(S) => Met(T)
  <2> SUFFICES ASSUME P # {}, Met(S), NEW m \in Meters \cap DOMAIN T.nodes, Asleep(T, m),
                      m \notin ToSet(T.notify)
               PROVE  T.nodes[m].stage <= Dynamic
    BY DEF Met
  <2>1. S.nodes[m].stage <= Dynamic  BY <1>1, <1>2 DEF Met
  <2> QED  BY <1>1, <2>1 DEF Asleep
<1>6. P # {} /\ Clear(S) => Clear(T)  BY <1>2 DEF Clear
<1> QED  BY <1>3, <1>4, <1>5, <1>6 DEF Orderly, Quiet

\* Nodes and queues stay, the current message is the same or gone.
LEMMA SameOrderly ==
  ASSUME NEW S, NEW T, NEW P, Orderly(S, P), T.queue = S.queue, T.notify = S.notify,
         T.nodes = S.nodes, T.cur = NULL \/ Same(S.cur, T.cur)
  PROVE  Orderly(T, P)
<1>1. ~IsQuestion(NULL) /\ ~IsLast(NULL)  BY DEF IsQuestion, IsLast, NULL
<1>2. Covered({T.cur}, ToSet(T.queue[QueryQueue]) \cup {})
  BY <1>1 DEF Orderly, Followed, Covered, IsQuestion, Ends, Same
<1>3. Followed(T, {}, {})  BY <1>2 DEF Orderly, Followed
<1>4. Knows(T, {T.cur})  BY <1>1 DEF Orderly, Quiet, Rested, Knows, IsLast, Same
<1>5. Rested(T)  BY <1>4 DEF Orderly, Quiet, Rested, Knows
<1>6. (Met(S) => Met(T)) /\ (Clear(S) => Clear(T))  BY DEF Met, Clear, Asleep
<1> QED  BY <1>3, <1>5, <1>6 DEF Orderly, Quiet

\* Where Enqueue puts an item.
LEMMA EnqueueShape ==
  ASSUME NEW S, NEW n, NEW item, NEW q \in Queues, Typed(S), n \in DOMAIN S.nodes,
         item \in Items, item.node = n
  PROVE  LET T == Enqueue(S, item, q)
         IN  /\ T.cur = S.cur /\ T.notify = S.notify /\ DOMAIN T.nodes = DOMAIN S.nodes
             /\ \A m \in DOMAIN S.nodes : m # n => T.nodes[m] = S.nodes[m]
             /\ SameNode(S, T, n)
             /\ IF Asleep(S, n)
                THEN /\ T.queue = S.queue
                     /\ T.nodes[n].waiting = QueueMsg(S.nodes[n].waiting, item)
                ELSE /\ T.nodes = S.nodes /\ T.queue[q] = Append(S.queue[q], item)
                     /\ \A r \in Queues : r # q => T.queue[r] = S.queue[r]
<1> DEFINE T == Enqueue(S, item, q)
           x == S.nodes[n]
           w == QueueMsg(x.waiting, item)
<1>0. NodeOK(x, n)  BY DEF Typed
<1>1. SameNode(S, T, n)  BY EnqueueCarries
<1>2. CASE Asleep(S, n)
  <2>1. T = [S EXCEPT !.nodes[n].waiting = w]  BY <1>2 DEF Enqueue
  <2> HIDE DEF T, w
  <2>2. /\ T.queue = S.queue /\ T.cur = S.cur /\ T.notify = S.notify
        /\ T.nodes = [S.nodes EXCEPT ![n] = [x EXCEPT !.waiting = w]]
    BY <2>1 DEF Typed, DriverFields
  <2>3. T.nodes[n].waiting = w  BY <1>0, <2>2 DEF NodeOK, NodeFields
  <2> QED  BY <1>1, <1>2, <2>2, <2>3 DEF T, w
<1>3. CASE ~Asleep(S, n)
  <2>1. T = [S EXCEPT !.queue[q] = Append(@, item)]  BY <1>3 DEF Enqueue
  <2> HIDE DEF T
  <2>2. /\ T.nodes = S.nodes /\ T.cur = S.cur /\ T.notify = S.notify
        /\ T.queue[q] = Append(S.queue[q], item)
        /\ \A r \in Queues : r # q => T.queue[r] = S.queue[r]
    BY <2>1 DEF Typed, DriverFields
  <2> QED  BY <1>1, <1>3, <2>2 DEF T
<1> QED  BY <1>2, <1>3

\* A question may be queued when the end of its stage is going to be.
LEMMA EnqueueFollowed ==
  ASSUME NEW S, NEW n, NEW item, NEW q \in Queues, NEW D, NEW E, Typed(S),
         n \in DOMAIN S.nodes, item \in Items, item.node = n, Followed(S, D, E),
         Covered({item}, IF Asleep(S, n) THEN E ELSE D)
  PROVE  Followed(Enqueue(S, item, q), D, E)
<1> DEFINE T == Enqueue(S, item, q)
           qq == S.queue[QueryQueue]
<1>1. /\ T.cur = S.cur /\ DOMAIN T.nodes = DOMAIN S.nodes
      /\ \A m \in DOMAIN S.nodes : m # n => T.nodes[m] = S.nodes[m]
      /\ IF Asleep(S, n)
         THEN /\ T.queue = S.queue
              /\ T.nodes[n].waiting = QueueMsg(S.nodes[n].waiting, item)
         ELSE /\ T.nodes = S.nodes /\ T.queue[q] = Append(S.queue[q], item)
              /\ \A r \in Queues : r # q => T.queue[r] = S.queue[r]
  BY EnqueueShape
<1> HIDE DEF T
<1>2. QueryQueue \in Queues /\ qq \in Seq(Items)  BY DEF Typed, QueryQueue, Queues
<1>3. CASE Asleep(S, n)
  <2> DEFINE w == S.nodes[n].waiting
             v == T.nodes[n].waiting
  <2>1. WaitsIn(w, n)  BY DEF Typed, NodeOK
  <2>2. Copies(ToSet(w) \cup {item}, ToSet(v))  BY <1>1, <1>3, <2>1, QueueMsgCopies
  <2>3. Covered(ToSet(w), ToSet(w) \cup E) /\ Covered({item}, E)  BY <1>3 DEF Followed
  <2>4. Covered(ToSet(w) \cup {item}, (ToSet(w) \cup {item}) \cup E)
    BY <2>3 DEF Covered
  <2>5. Covered(ToSet(v), ToSet(v) \cup E)
    <3> HIDE DEF w, v
    <3> QED  BY <2>2, <2>4, CopiesCovered
  <2> QED  BY <1>1, <1>3, <2>5 DEF Followed, T
<1>4. CASE ~Asleep(S, n)
  <2>1. S.queue[q] \in Seq(Items)  BY DEF Typed
  <2>2. ToSet(T.queue[q]) = ToSet(S.queue[q]) \cup {item}
    <3>1. ToSet(Append(S.queue[q], item)) = ToSet(S.queue[q]) \cup {item}  BY <2>1, AppendSet
    <3> QED  BY <1>1, <1>4, <3>1
  <2>3. ToSet(qq) \subseteq ToSet(T.queue[QueryQueue])  BY <1>1, <1>2, <1>4, <2>2
  <2>4. Covered({item}, D)  BY <1>4
  <2>5. \A r \in Queues \ {QueryQueue} :
          Covered(ToSet(T.queue[r]), ToSet(T.queue[QueryQueue]) \cup D)
    <3> TAKE r \in Queues \ {QueryQueue}
    <3>1. Covered(ToSet(S.queue[r]), ToSet(qq) \cup D)  BY DEF Followed
    <3>2. ToSet(T.queue[r]) \subseteq ToSet(S.queue[r]) \cup {item}  BY <1>1, <1>4, <2>2
    <3> HIDE DEF qq
    <3> QED  BY <2>3, <2>4, <3>1, <3>2 DEF Covered
  <2>6. Covered({T.cur}, ToSet(T.queue[QueryQueue]) \cup D)
    <3>1. Covered({S.cur}, ToSet(qq) \cup D)  BY DEF Followed
    <3> HIDE DEF qq
    <3> QED  BY <1>1, <2>3, <3>1 DEF Covered
  <2>7. Behind(T.queue[QueryQueue], D)
    <3>1. Behind(qq, D)  BY DEF Followed
    <3>2. CASE q = QueryQueue
      <4>1. T.queue[QueryQueue] = Append(qq, item)  BY <1>1, <1>4, <3>2
      <4>2. IsQuestion(item) => \E k \in D : Ends(k, item)  BY <2>4 DEF Covered
      <4> HIDE DEF qq
      <4> QED  BY <1>2, <3>1, <4>1, <4>2, AppendBehind
    <3>3. CASE q # QueryQueue  BY <1>1, <1>2, <1>4, <3>1, <3>3
    <3> QED  BY <3>2, <3>3
  <2> QED  BY <1>1, <1>4, <2>5, <2>6, <2>7 DEF Followed, T
<1> QED  BY <1>3, <1>4

\* The end of a stage is queued, or waits if its node sleeps.
LEMMA EndFollowed ==
  ASSUME NEW S, NEW n, NEW e \in Items, Typed(S), n \in DOMAIN S.nodes, e.node = n, IsMark(e),
         IF Asleep(S, n) THEN Followed(S, {}, {e}) ELSE Followed(S, {e}, {})
  PROVE  Followed(Enqueue(S, e, QueryQueue), {}, {})
<1> DEFINE T == Enqueue(S, e, QueryQueue)
           qq == S.queue[QueryQueue]
<1>0. QueryQueue \in Queues /\ qq \in Seq(Items)  BY DEF Typed, QueryQueue, Queues
<1>1. /\ T.cur = S.cur /\ DOMAIN T.nodes = DOMAIN S.nodes
      /\ \A m \in DOMAIN S.nodes : m # n => T.nodes[m] = S.nodes[m]
      /\ IF Asleep(S, n)
         THEN /\ T.queue = S.queue
              /\ T.nodes[n].waiting = QueueMsg(S.nodes[n].waiting, e)
         ELSE /\ T.nodes = S.nodes /\ T.queue[QueryQueue] = Append(qq, e)
              /\ \A r \in Queues : r # QueryQueue => T.queue[r] = S.queue[r]
  BY <1>0, EnqueueShape
<1> HIDE DEF T
<1>2. ~IsQuestion(e)  BY DEF IsQuestion, IsMark
<1>3. CASE Asleep(S, n)
  <2> DEFINE w == S.nodes[n].waiting
             v == T.nodes[n].waiting
  <2>0. Followed(S, {}, {e})  BY <1>3
  <2>1. WaitsIn(w, n)  BY DEF Typed, NodeOK
  <2>2. Copies(ToSet(w) \cup {e}, ToSet(v))  BY <1>1, <1>3, <2>1, QueueMsgCopies
  <2>3. Covered(ToSet(w), ToSet(w) \cup {e})  BY <2>0 DEF Followed
  <2>4. Covered(ToSet(w) \cup {e}, (ToSet(w) \cup {e}) \cup {})
    BY <1>2, <2>3 DEF Covered
  <2>5. Covered(ToSet(v), ToSet(v) \cup {})
    <3> HIDE DEF w, v
    <3> QED  BY <2>2, <2>4, CopiesCovered
  <2>6. \A m \in DOMAIN S.nodes : m # n =>
          Covered(ToSet(T.nodes[m].waiting), ToSet(T.nodes[m].waiting) \cup {})
    <3> SUFFICES ASSUME NEW m \in DOMAIN S.nodes, m # n,
                        NEW i \in ToSet(S.nodes[m].waiting), IsQuestion(i)
                 PROVE  \E k \in ToSet(S.nodes[m].waiting) : Ends(k, i)
      BY <1>1 DEF Covered
    <3>1. i.node = m  BY DEF Typed, NodeOK, WaitsIn
    <3>2. PICK k \in ToSet(S.nodes[m].waiting) \cup {e} : Ends(k, i)
      BY <2>0 DEF Followed, Covered
    <3> QED  BY <3>1, <3>2 DEF Ends
  <2>7. /\ \A q \in Queues \ {QueryQueue} : Covered(ToSet(T.queue[q]), ToSet(T.queue[QueryQueue]) \cup {})
        /\ Covered({T.cur}, ToSet(T.queue[QueryQueue]) \cup {})
        /\ Behind(T.queue[QueryQueue], {})
    BY <1>1, <1>3, <2>0 DEF Followed
  <2>8. \A m \in DOMAIN T.nodes :
          Covered(ToSet(T.nodes[m].waiting), ToSet(T.nodes[m].waiting) \cup {})
    BY <1>1, <2>5, <2>6
  <2> QED  BY <2>7, <2>8 DEF Followed, T
<1>4. CASE ~Asleep(S, n)
  <2>0. Followed(S, {e}, {})  BY <1>4
  <2>1. ToSet(Append(qq, e)) = ToSet(qq) \cup {e}
    <3> HIDE DEF qq
    <3> QED  BY <1>0, AppendSet
  <2>2. ToSet(T.queue[QueryQueue]) \cup {} = ToSet(qq) \cup {e}
    BY <1>1, <1>4, <2>1
  <2>3. \A q \in Queues \ {QueryQueue} : T.queue[q] = S.queue[q]  BY <1>1, <1>4
  <2>4. Behind(T.queue[QueryQueue], {})
    <3>1. Behind(qq, {e}) /\ T.queue[QueryQueue] = Append(qq, e)  BY <1>1, <1>4, <2>0 DEF Followed
    <3> HIDE DEF qq
    <3> QED  BY <1>0, <3>1, EndBehind
  <2> QED  BY <1>1, <1>4, <2>0, <2>2, <2>3, <2>4 DEF Followed, T
<1> QED  BY <1>3, <1>4

LEMMA EnqueueQuiet ==
  ASSUME NEW S, NEW n, NEW item, NEW q \in Queues, NEW P, Typed(S), n \in DOMAIN S.nodes,
         item \in Items, item.node = n, Quiet(S, P), IsLast(item) => S.nodes[n].info
  PROVE  Quiet(Enqueue(S, item, q), P)
<1> DEFINE T == Enqueue(S, item, q)
           x == S.nodes[n]
<1>1. /\ T.cur = S.cur /\ T.notify = S.notify /\ DOMAIN T.nodes = DOMAIN S.nodes
      /\ \A m \in DOMAIN S.nodes : m # n => T.nodes[m] = S.nodes[m]
      /\ SameNode(S, T, n)
      /\ IF Asleep(S, n)
         THEN /\ T.queue = S.queue
              /\ T.nodes[n].waiting = QueueMsg(x.waiting, item)
         ELSE /\ T.nodes = S.nodes /\ T.queue[q] = Append(S.queue[q], item)
              /\ \A r \in Queues : r # q => T.queue[r] = S.queue[r]
  BY EnqueueShape
<1> HIDE DEF T
<1>2. \A m \in DOMAIN S.nodes :
        /\ T.nodes[m].info = S.nodes[m].info /\ T.nodes[m].awake = S.nodes[m].awake
        /\ T.nodes[m].wake = S.nodes[m].wake /\ T.nodes[m].listening = S.nodes[m].listening
        /\ T.nodes[m].stage = S.nodes[m].stage
  BY <1>1 DEF SameNode, NodeFields
<1>3. \A m : Asleep(T, m) <=> Asleep(S, m)  BY <1>1, <1>2 DEF Asleep
<1>4. \A i : i.node \in DOMAIN S.nodes => (T.nodes[i.node].info <=> S.nodes[i.node].info)
  BY <1>2
<1>5. \A r \in Queues : /\ ToSet(T.queue[r]) \subseteq ToSet(S.queue[r]) \cup {item}
                        /\ Asleep(S, n) => ToSet(T.queue[r]) = ToSet(S.queue[r])
  <2>1. S.queue[q] \in Seq(Items)  BY DEF Typed
  <2>2. ToSet(Append(S.queue[q], item)) = ToSet(S.queue[q]) \cup {item}
    BY <2>1, AppendSet
  <2> QED  BY <1>1, <2>2
<1>6. \A r \in Queues : \A i \in ToSet(S.queue[r]) : i.node \in DOMAIN S.nodes
  BY DEF Typed
<1>7. Rested(T)
  <2>1. IsLast(S.cur) => S.cur.node \in DOMAIN S.nodes  BY DEF Typed, IsLast, NULL
  <2>2. Rested(S)  BY DEF Quiet
  <2>3. \A r \in Queues : Knows(T, ToSet(T.queue[r]))
    BY <1>4, <1>5, <1>6, <2>2 DEF Rested, Knows
  <2>4. Knows(T, {T.cur})  BY <1>1, <1>4, <2>1, <2>2 DEF Rested, Knows
  <2>5. ASSUME NEW m \in DOMAIN T.nodes PROVE Knows(T, ToSet(T.nodes[m].waiting))
    <3>1. WaitsIn(S.nodes[m].waiting, m)  BY <1>1 DEF Typed, NodeOK
    <3>2. Knows(S, ToSet(S.nodes[m].waiting))  BY <1>1, <2>2 DEF Rested
    <3>3. CASE m = n /\ Asleep(S, n)
      <4>1. Copies(ToSet(x.waiting) \cup {item}, ToSet(T.nodes[n].waiting))
        BY <1>1, <3>1, <3>3, QueueMsgCopies
      <4> SUFFICES ASSUME NEW j \in ToSet(T.nodes[n].waiting), IsLast(j)
                   PROVE  T.nodes[j.node].info
        BY <3>3 DEF Knows
      <4>2. PICK i \in ToSet(x.waiting) \cup {item} : Same(i, j)  BY <4>1 DEF Copies
      <4>3. IsLast(i) /\ i.node = j.node  BY <4>2 DEF IsLast, Same
      <4>4. i.node = n  BY <3>1, <3>3, <4>2 DEF WaitsIn
      <4>5. x.info  BY <3>2, <3>3, <4>2, <4>3, <4>4 DEF Knows
      <4> QED  BY <1>2, <4>3, <4>4, <4>5
    <3>4. CASE ~(m = n /\ Asleep(S, n))
      <4>1. T.nodes[m] = S.nodes[m] /\ m \in DOMAIN S.nodes  BY <1>1, <3>4
      <4> QED  BY <1>2, <3>1, <3>2, <4>1 DEF Knows, WaitsIn
    <3> QED  BY <3>3, <3>4
  <2>6. \A m \in DOMAIN T.nodes : ~T.nodes[m].awake => T.nodes[m].info
    BY <1>1, <1>2, <2>2 DEF Rested
  <2> QED  BY <1>1, <2>2, <2>3, <2>4, <2>5, <2>6 DEF Rested
<1>8. Met(S) => Met(T)  BY <1>1, <1>2, <1>3 DEF Met
<1>9. Clear(S) => Clear(T)  BY <1>3, <1>5 DEF Clear
<1> QED  BY <1>7, <1>8, <1>9 DEF Quiet, T

-----------------------------------------------------------------------------
(* Order in the query stages. *)

\* SendMsg queues a message of the node.
Sends(S, n, ask, q, T, msg) ==
  /\ SendMsg(S, n, ask, q) = Enqueue(T, msg, q) /\ Typed(T)
  /\ T.nodes = S.nodes /\ T.queue = S.queue /\ T.cur = S.cur /\ T.notify = S.notify
  /\ msg \in Items /\ msg.cmd = "SendMsg" /\ msg.node = n /\ msg.ask = ask

LEMMA SendMsgItem ==
  ASSUME NEW S, NEW n, NEW ask \in None..IntervalSet, NEW q, Typed(S), n \in DOMAIN S.nodes
  PROVE  \E T, msg : Sends(S, n, ask, q, T, msg)
<1> DEFINE id == IF CallbackRequired(ask) THEN NextId(S.nextId) ELSE 0
           next == IF id = 0 THEN S.nextId ELSE (id + 1) % 256
           T == [S EXCEPT !.nextId = next]
           msg == [cmd |-> "SendMsg", node |-> n, ask |-> ask, id |-> id,
                   tries |-> 0, max |-> MAX_TRIES]
<1>1. SendMsg(S, n, ask, q) = Enqueue(T, msg, q)  BY DEF SendMsg
<1>2. S.nextId \in {0} \cup FirstId..255  BY DEF Typed
<1>3. id \in {0} \cup FirstId..255 /\ (CallbackRequired(ask) => id \in FirstId..255)
        /\ (~CallbackRequired(ask) => id = 0)
  BY <1>2 DEF NextId, FirstId
<1> HIDE DEF id
<1>4. next \in {0} \cup FirstId..255
  BY <1>2, <1>3 DEF FirstId
<1> HIDE DEF next
<1>5. /\ DOMAIN T = DOMAIN S /\ T.nodes = S.nodes /\ T.queue = S.queue /\ T.cur = S.cur
      /\ T.nextId = next /\ T.notify = S.notify
  BY DEF Typed, DriverFields
<1> HIDE DEF T
<1>6. Typed(T)  BY <1>4, <1>5 DEF Typed
<1>7. msg \in Items /\ msg.cmd = "SendMsg" /\ msg.node = n /\ msg.ask = ask
  <2>1. n \in Nodes  BY DEF Typed
  <2>2. msg \in Message  BY <1>3, <2>1 DEF Message, MAX_TRIES, MAX_MAX_TRIES, FirstId
  <2>3. Item(msg)  BY <1>3 DEF Item, MAX_TRIES, MAX_MAX_TRIES, FirstId
  <2> QED  BY <2>2, <2>3 DEF Items
<1> HIDE DEF msg
<1>8. Sends(S, n, ask, q, T, msg)  BY <1>1, <1>5, <1>6, <1>7 DEF Sends
<1> QED  BY <1>8

\* A message that asks nothing.
LEMMA SendMsgOrderly ==
  ASSUME NEW S, NEW n, NEW ask \in {NoMoreInformation, IntervalSet}, NEW q \in Queues, NEW P,
         Typed(S), n \in DOMAIN S.nodes, Orderly(S, P),
         ask = NoMoreInformation => S.nodes[n].info
  PROVE  Orderly(SendMsg(S, n, ask, q), P)
<1>0. ask \in None..IntervalSet  BY DEF None, IntervalSet, NoMoreInformation
<1>a. PICK T, msg : Sends(S, n, ask, q, T, msg)  BY <1>0, SendMsgItem
<1>1. /\ SendMsg(S, n, ask, q) = Enqueue(T, msg, q) /\ Typed(T)
      /\ T.nodes = S.nodes /\ T.queue = S.queue /\ T.cur = S.cur /\ T.notify = S.notify
      /\ msg \in Items /\ msg.cmd = "SendMsg" /\ msg.node = n /\ msg.ask = ask
  BY <1>a DEF Sends
<1>2. Orderly(T, P)  BY <1>1, SameOrderly DEF Same
<1>3. \A D : Covered({msg}, D)  BY <1>1 DEF Covered, IsQuestion
<1>4. n \in DOMAIN T.nodes /\ (IsLast(msg) => T.nodes[n].info)  BY <1>1 DEF IsLast
<1>5. Followed(T, {}, {}) /\ Quiet(T, P)  BY <1>2 DEF Orderly
<1>6. Followed(Enqueue(T, msg, q), {}, {})  BY <1>1, <1>3, <1>4, <1>5, EnqueueFollowed
<1>7. Quiet(Enqueue(T, msg, q), P)  BY <1>1, <1>4, <1>5, EnqueueQuiet
<1> QED  BY <1>1, <1>6, <1>7 DEF Orderly

\* A meter is asked for its values, so a stage up to that one is not left behind.
LEMMA FirstStageOfMeter ==
  ASSUME NEW n \in Meters, NEW x, x.stage \in None..Complete, x.info, x.stage <= Dynamic
  PROVE  Min({Complete} \cup {s \in x.stage..Complete : Asks(n, x, s)}) <= Dynamic
<1> DEFINE M == {Complete} \cup {s \in x.stage..Complete : Asks(n, x, s)}
<1>1. M \subseteq Nat /\ M # {}  BY DEF None, Complete
<1>2. Dynamic \in x.stage..Complete  BY DEF None, Complete, Dynamic
<1>3. Dynamic \in Known(n, x)  BY DriverAssumption DEF Known
<1>4. Asks(n, x, Dynamic)
  BY <1>3 DEF Asks, Dynamic, ProtocolInfo, Probe, Probe1, Neighbors, WakeUp, NodeInfo, Session,
              Associations
<1>5. Dynamic \in M  BY <1>2, <1>4
<1> HIDE DEF M
<1>6. Min(M) <= Dynamic  BY <1>1, <1>5, MinIsLeast
<1> QED  BY <1>6 DEF M

LEMMA AdvanceOrderly ==
  ASSUME NEW S, NEW n, NEW P, Typed(S), n \in DOMAIN S.nodes, S.nodes[n].wake => S.nodes[n].info,
         Orderly(S, P)
  PROVE  Orderly(AdvanceQueries(S, n), P)
<1> DEFINE x == S.nodes[n]
           stage == Min({Complete} \cup {s \in x.stage..Complete : Asks(n, x, s)})
           retries == IF stage = x.stage THEN x.retries ELSE 0
           open == stage # Complete
           y == [x EXCEPT !.stage = stage, !.retries = retries, !.pending = open]
           T == [S EXCEPT !.nodes[n].stage = stage,
                          !.nodes[n].retries = IF stage = x.stage THEN @ ELSE 0,
                          !.nodes[n].pending = open]
           C == CheckCompletedNodeQueries(T)
           U == SendMsg(T, n, Question(stage), QueueOf(stage))
           e == [cmd |-> "QueryStageComplete", node |-> n, ask |-> stage, retry |-> FALSE]
           V == Enqueue(U, e, QueryQueue)
<1>1. AdvanceQueries(S, n) = IF x.pending \/ ~x.alive THEN S ELSE IF stage = Complete THEN C ELSE V
  BY DEF AdvanceQueries, SendQueryStageComplete
<1>2. n \in Nodes /\ NodeOK(x, n)  BY DEF Typed
<1>3. stage \in ProtocolInfo..Complete  BY <1>2, FirstStage DEF NodeOK
<1>4. n \in Meters /\ x.info /\ x.stage <= Dynamic => stage <= Dynamic
  BY <1>2, FirstStageOfMeter DEF NodeOK
<1> HIDE DEF stage, open
<1>5. /\ DOMAIN T = DOMAIN S /\ T.queue = S.queue /\ T.cur = S.cur /\ T.nextId = S.nextId
      /\ T.notify = S.notify /\ T.nodes = [S.nodes EXCEPT ![n] = y]
  BY DEF Typed, DriverFields
<1>6. /\ DOMAIN y = NodeFields /\ y.stage = stage /\ y.retries = retries /\ y.errors = x.errors
      /\ y.waiting = x.waiting /\ y.awake = x.awake /\ y.info = x.info
      /\ y.listening = x.listening /\ y.wake = x.wake
  BY <1>2 DEF NodeOK, NodeFields
<1>7. NodeOK(y, n)
  <2>1. retries \in 0..2  BY <1>2 DEF NodeOK
  <2>2. stage \in None..Complete  BY <1>3 DEF None, ProtocolInfo, Complete
  <2> HIDE DEF y
  <2> QED  BY <1>2, <1>6, <2>1, <2>2 DEF NodeOK
<1> HIDE DEF T, y, retries
<1>8. Typed(T) /\ n \in DOMAIN T.nodes  BY <1>5, <1>7, NodeStep DEF Step
<1>9. Orderly(T, P)
  <2>1. ~y.listening /\ y.wake /\ ~y.awake =>
           Asleep(S, n) /\ (n \in Meters /\ S.nodes[n].stage <= Dynamic => y.stage <= Dynamic)
    BY <1>4, <1>6 DEF Asleep
  <2> QED  BY <1>5, <1>6, <2>1, NodeOrderly
<1>10. Orderly(C, P)
  <2>1. C.queue = T.queue /\ C.nodes = T.nodes /\ C.cur = T.cur /\ C.notify = T.notify
    BY <1>8 DEF CheckCompletedNodeQueries, Typed, DriverFields
  <2> HIDE DEF C
  <2> QED  BY <1>9, <2>1, SameOrderly DEF Same
<1>11. stage # Complete => Orderly(V, P)
  <2> SUFFICES ASSUME stage # Complete PROVE Orderly(V, P)
    OBVIOUS
  <2>1. /\ Question(stage) \in None..IntervalSet /\ QueueOf(stage) \in Queues
        /\ Question(stage) \notin {NoMoreInformation, IntervalSet} /\ QueryQueue \in Queues
    BY <1>3 DEF Question, QueueOf, Queues, None, IntervalSet, ProtocolInfo, Complete,
                ManufacturerSpecific1, ManufacturerSpecific2, CommandQueue, NoOpQueue,
                WakeUpQueue, SendQueue, QueryQueue, NoMoreInformation
  <2> DEFINE ask == Question(stage)
             q == QueueOf(stage)
  <2> HIDE DEF ask, q
  <2>a. ask \in None..IntervalSet  BY <2>1 DEF ask
  <2>b. PICK R, msg : Sends(T, n, ask, q, R, msg)  BY <1>8, <2>a, SendMsgItem
  <2>2. /\ SendMsg(T, n, ask, q) = Enqueue(R, msg, q) /\ Typed(R)
        /\ R.nodes = T.nodes /\ R.queue = T.queue /\ R.cur = T.cur /\ R.notify = T.notify
        /\ msg \in Items /\ msg.cmd = "SendMsg" /\ msg.node = n /\ msg.ask = ask
    BY <2>b DEF Sends
  <2>3. U = Enqueue(R, msg, q)  BY <2>2 DEF ask, q
  <2>4. Orderly(R, P) /\ n \in DOMAIN R.nodes  BY <1>8, <1>9, <2>2, SameOrderly DEF Same
  <2>5. e \in Items /\ e.node = n /\ IsMark(e) /\ e.ask = stage
    <3>1. e \in Mark  BY <1>2, <1>3 DEF Mark, None, ProtocolInfo, Complete
    <3> QED  BY <3>1 DEF Items, IsMark
  <2> HIDE DEF e, U
  <2>6. Ends(e, msg)  BY <2>2, <2>5 DEF Ends, ask
  <2>7. \A D, E : Followed(R, {}, {}) => Followed(R, D, E)
    BY DEF Followed, Covered, Behind
  <2>8. Followed(R, {}, {}) /\ Quiet(R, P)  BY <2>4 DEF Orderly
  <2>9. q \in Queues  BY <2>1 DEF q
  <2>10. Typed(U) /\ n \in DOMAIN U.nodes /\ (Asleep(U, n) <=> Asleep(R, n))
    <3>1. Carries(R, U, n) /\ SameNode(R, U, n)  BY <2>2, <2>3, <2>4, <2>9, EnqueueCarries
    <3>2. Typed(U) /\ n \in DOMAIN U.nodes  BY <2>4, <3>1 DEF Carries, Step
    <3> QED  BY <2>4, <3>1, <3>2 DEF SameNode, NodeFields, Asleep
  <2>11. Covered({msg}, {e})  BY <2>6 DEF Covered
  <2>12. IF Asleep(U, n) THEN Followed(U, {}, {e}) ELSE Followed(U, {e}, {})
    <3>1. CASE Asleep(R, n)
      <4>1. Followed(R, {}, {e}) /\ Covered({msg}, IF Asleep(R, n) THEN {e} ELSE {})
        BY <2>7, <2>8, <2>11, <3>1
      <4>2. Followed(Enqueue(R, msg, q), {}, {e})
        BY <2>2, <2>4, <2>9, <4>1, EnqueueFollowed
      <4> QED  BY <2>3, <2>10, <3>1, <4>2
    <3>2. CASE ~Asleep(R, n)
      <4>1. Followed(R, {e}, {}) /\ Covered({msg}, IF Asleep(R, n) THEN {} ELSE {e})
        BY <2>7, <2>8, <2>11, <3>2
      <4>2. Followed(Enqueue(R, msg, q), {e}, {})
        BY <2>2, <2>4, <2>9, <4>1, EnqueueFollowed
      <4> QED  BY <2>3, <2>10, <3>2, <4>2
    <3> QED  BY <3>1, <3>2
  <2>13. Followed(V, {}, {})  BY <2>5, <2>10, <2>12, EndFollowed
  <2>14. Quiet(U, P)
    <3>1. ~IsLast(msg)  BY <2>1, <2>2 DEF IsLast, ask
    <3> QED  BY <2>2, <2>3, <2>4, <2>8, <2>9, <3>1, EnqueueQuiet
  <2>15. Quiet(V, P)
    <3>1. ~IsLast(e)  BY <2>5 DEF IsLast, IsMark
    <3> QED  BY <2>1, <2>5, <2>10, <2>14, <3>1, EnqueueQuiet
  <2> QED  BY <2>13, <2>15 DEF Orderly
<1> HIDE DEF C, V, x
<1> QED  BY <1>1, <1>10, <1>11

\* An item is marked to repeat its stage.
LEMMA RetryOrderly ==
  ASSUME NEW S, NEW n, NEW stage, NEW P, Typed(S), n \in DOMAIN S.nodes, Orderly(S, P)
  PROVE  Orderly(RetryQueryStageComplete(S, n, stage), P)
<1> DEFINE q == S.queue[QueryQueue]
           marks == {i \in DOMAIN q :
                       q[i].cmd = "QueryStageComplete" /\ q[i].node = n /\ q[i].ask = stage}
           k == Min(marks)
           e == [q[k] EXCEPT !.retry = TRUE]
           r == [q EXCEPT ![k] = e]
           T == [S EXCEPT !.queue[QueryQueue][k].retry = TRUE]
<1>1. RetryQueryStageComplete(S, n, stage) = IF marks = {} THEN S ELSE T
  BY DEF RetryQueryStageComplete
<1>2. CASE marks = {}  BY <1>1, <1>2
<1>3. CASE marks # {}
  <2>1. QueryQueue \in Queues  BY DEF QueryQueue, Queues
  <2>2. q \in Seq(Items)  BY <2>1 DEF Typed
  <2>3. DOMAIN q = 1..Len(q) /\ Len(q) \in Nat  BY <2>2
  <2>4. k \in marks
    <3>1. marks \subseteq Nat  BY <2>3
    <3> QED  BY <1>3, <3>1, MinIsLeast
  <2> HIDE DEF k
  <2>5. k \in DOMAIN q /\ q[k] \in Items /\ IsMark(q[k])
    BY <2>2, <2>3, <2>4 DEF IsMark
  <2>6. q[k] \in Mark  BY <2>5, ItemKinds
  <2>7. Same(e, q[k])  BY <2>6 DEF Mark, Same
  <2>8. /\ T.nodes = S.nodes /\ T.cur = S.cur /\ T.notify = S.notify
        /\ T.queue[QueryQueue] = r
        /\ \A p \in Queues : p # QueryQueue => T.queue[p] = S.queue[p]
    <3> HIDE DEF marks
    <3> QED  BY <2>1 DEF Typed, DriverFields
  <2> HIDE DEF e, T
  <2>9. DOMAIN r = DOMAIN q /\ Len(r) = Len(q) /\ \A i \in DOMAIN q : Same(r[i], q[i])
    <3>1. DOMAIN r = DOMAIN q /\ r[k] = e /\ \A i \in DOMAIN q : i # k => r[i] = q[i]
      BY <2>5
    <3> DEFINE X == Items \cup {e}
    <3>2. r \in Seq(X)
      <4>1. r = [i \in 1..Len(q) |-> r[i]]  BY <2>3
      <4>2. \A i \in 1..Len(q) : r[i] \in X  BY <2>2, <2>3, <3>1
      <4> HIDE DEF r, q, X
      <4> QED  BY <2>3, <4>1, <4>2, IsASeq
    <3> HIDE DEF r
    <3>3. Len(r) = Len(q)  BY <2>3, <3>1, <3>2, LenProperties
    <3> QED  BY <2>7, <3>1, <3>3 DEF Same
  <2> HIDE DEF r
  <2>10. Copies(ToSet(q), ToSet(r))  BY <2>9 DEF Copies, ToSet, Same
  <2>11. \A i : (\E j \in ToSet(q) : Ends(j, i)) => (\E j \in ToSet(r) : Ends(j, i))
    BY <2>10 DEF Copies, Same, Ends, IsMark
  <2>12. Followed(T, {}, {})
    <3>1. Followed(S, {}, {})  BY DEF Orderly
    <3>2. \A p \in Queues \ {QueryQueue} : Covered(ToSet(S.queue[p]), ToSet(r) \cup {})
      BY <2>11, <3>1 DEF Followed, Covered
    <3>3. Covered({S.cur}, ToSet(r) \cup {})  BY <2>11, <3>1 DEF Followed, Covered
    <3>4. Behind(r, {})
      <4> SUFFICES ASSUME NEW a \in 1..Len(r), IsQuestion(r[a])
                   PROVE  \E b \in 1..Len(r) : b > a /\ Ends(r[b], r[a])
        BY DEF Behind
      <4>1. a \in 1..Len(q) /\ Same(r[a], q[a])  BY <2>3, <2>9
      <4>2. IsQuestion(q[a])  BY <4>1 DEF IsQuestion, Same
      <4>3. PICK b \in 1..Len(q) : b > a /\ Ends(q[b], q[a])
        BY <3>1, <4>1, <4>2 DEF Followed, Behind
      <4>4. Same(r[b], q[b])  BY <2>3, <2>9
      <4>5. Ends(r[b], r[a])  BY <4>1, <4>3, <4>4 DEF Ends, Same, IsMark
      <4> QED  BY <2>9, <4>3, <4>5
    <3> QED  BY <2>8, <3>1, <3>2, <3>3, <3>4 DEF Followed
  <2>13. Quiet(T, P)
    <3>1. Quiet(S, P)  BY DEF Orderly
    <3>2. \A p \in Queues : \A j \in ToSet(T.queue[p]) : \E i \in ToSet(S.queue[p]) : Same(i, j)
      BY <2>8, <2>10 DEF Copies, Same
    <3>3. \A m : Asleep(T, m) <=> Asleep(S, m)  BY <2>8 DEF Asleep
    <3>4. Rested(T)
      <4>1. Rested(S)  BY <3>1 DEF Quiet
      <4>2. ASSUME NEW p \in Queues PROVE Knows(T, ToSet(T.queue[p]))
        <5> SUFFICES ASSUME NEW j \in ToSet(T.queue[p]), IsLast(j) PROVE T.nodes[j.node].info
          BY DEF Knows
        <5>1. PICK i \in ToSet(S.queue[p]) : Same(i, j)  BY <3>2
        <5>2. IsLast(i) /\ i.node = j.node  BY <5>1 DEF IsLast, Same
        <5> QED  BY <2>8, <4>1, <5>1, <5>2 DEF Rested, Knows
      <4> QED  BY <2>8, <4>1, <4>2 DEF Rested, Knows
    <3>5. Met(S) => Met(T)  BY <2>8, <3>3 DEF Met
    <3>6. Clear(S) => Clear(T)
      <4> SUFFICES ASSUME Clear(S), NEW p \in Queues, NEW j \in ToSet(T.queue[p])
                   PROVE  ~Asleep(T, j.node)
        BY DEF Clear
      <4>1. PICK i \in ToSet(S.queue[p]) : Same(i, j)  BY <3>2
      <4> QED  BY <3>3, <4>1 DEF Clear, Same
    <3> QED  BY <3>1, <3>4, <3>5, <3>6 DEF Quiet
  <2> QED  BY <1>1, <1>3, <2>12, <2>13 DEF Orderly
<1> QED  BY <1>2, <1>3

LEMMA QueryStageRetryOrderly ==
  ASSUME NEW S, NEW n, NEW stage \in {Probe, Probe1, NodeInfo}, NEW maxAttempts \in 2..3, NEW P,
         Typed(S), n \in DOMAIN S.nodes, Orderly(S, P)
  PROVE  Orderly(QueryStageRetry(S, n, stage, maxAttempts), P)
<1> DEFINE x == S.nodes[n]
           last == x.retries + 1 >= maxAttempts
           next == IF last /\ stage \notin {Probe, Probe1} THEN stage + 1 ELSE stage
           retries == IF last THEN 0 ELSE x.retries + 1
           y == [x EXCEPT !.pending = FALSE, !.retries = retries, !.stage = next]
           T == [S EXCEPT !.nodes[n].pending = FALSE,
                          !.nodes[n].retries = IF last THEN 0 ELSE @ + 1,
                          !.nodes[n].stage = next]
           U == RetryQueryStageComplete(T, n, next)
<1>1. QueryStageRetry(S, n, stage, maxAttempts) = IF stage # x.stage THEN S ELSE U
  BY DEF QueryStageRetry
<1>2. NodeOK(x, n)  BY DEF Typed
<1>3. retries \in 0..2  BY <1>2 DEF NodeOK
<1>4. next \in None..Complete /\ next <= Dynamic
  BY DEF None, Complete, Probe, Probe1, NodeInfo, Dynamic
<1>5. /\ DOMAIN T = DOMAIN S /\ T.queue = S.queue /\ T.cur = S.cur /\ T.nextId = S.nextId
      /\ T.notify = S.notify /\ T.nodes = [S.nodes EXCEPT ![n] = y]
  <2> HIDE DEF last, next
  <2> QED  BY DEF Typed, DriverFields
<1> HIDE DEF retries, next, T
<1>6. /\ DOMAIN y = NodeFields /\ y.stage = next /\ y.retries = retries
      /\ y.errors = x.errors /\ y.waiting = x.waiting /\ y.listening = x.listening
      /\ y.wake = x.wake /\ y.awake = x.awake /\ y.info = x.info
  BY <1>2 DEF NodeOK, NodeFields
<1> HIDE DEF y
<1>7. NodeOK(y, n)  BY <1>2, <1>3, <1>4, <1>6 DEF NodeOK
<1>8. Typed(T) /\ n \in DOMAIN T.nodes  BY <1>5, <1>7, NodeStep DEF Step
<1>9. Orderly(T, P)
  <2>1. ~y.listening /\ y.wake /\ ~y.awake =>
           Asleep(S, n) /\ (n \in Meters /\ S.nodes[n].stage <= Dynamic => y.stage <= Dynamic)
    BY <1>4, <1>6 DEF Asleep
  <2> QED  BY <1>5, <1>6, <2>1, NodeOrderly
<1>10. Orderly(U, P)  BY <1>8, <1>9, RetryOrderly
<1> HIDE DEF U
<1> QED  BY <1>1, <1>10

LEMMA SetQueryStageOrderly ==
  ASSUME NEW S, NEW n, NEW stage \in ProtocolInfo..Complete, NEW P, Typed(S),
         n \in DOMAIN S.nodes, S.nodes[n].wake => S.nodes[n].info, Orderly(S, P)
  PROVE  Orderly(SetQueryStage(S, n, stage), P)
<1> DEFINE x == S.nodes[n]
           y == [x EXCEPT !.stage = stage, !.pending = FALSE]
           T == [S EXCEPT !.nodes[n].stage = stage, !.nodes[n].pending = FALSE]
<1>1. SetQueryStage(S, n, stage) = AdvanceQueries(IF stage >= x.stage THEN S ELSE T, n)
  BY DEF SetQueryStage
<1>2. CASE stage >= x.stage
  BY <1>1, <1>2, AdvanceOrderly
<1>3. CASE ~(stage >= x.stage)
  <2>0. NodeOK(x, n)  BY DEF Typed
  <2>1. /\ DOMAIN T = DOMAIN S /\ T.queue = S.queue /\ T.cur = S.cur /\ T.nextId = S.nextId
        /\ T.notify = S.notify /\ T.nodes = [S.nodes EXCEPT ![n] = y]
    BY DEF Typed, DriverFields
  <2>2. /\ DOMAIN y = NodeFields /\ y.stage = stage /\ y.retries = x.retries
        /\ y.errors = x.errors /\ y.waiting = x.waiting /\ y.wake = x.wake /\ y.info = x.info
        /\ y.listening = x.listening /\ y.awake = x.awake
    BY <2>0 DEF NodeOK, NodeFields
  <2> HIDE DEF y, T
  <2>3. stage \in None..Complete /\ (x.stage <= Dynamic => stage <= Dynamic)
    BY <1>3, <2>0 DEF None, Complete, ProtocolInfo, Dynamic, NodeOK
  <2>4. NodeOK(y, n)  BY <2>0, <2>2, <2>3 DEF NodeOK
  <2>5. Typed(T) /\ n \in DOMAIN T.nodes /\ T.nodes[n] = y  BY <2>1, <2>4, NodeStep DEF Step
  <2>6. Orderly(T, P)
    <3>1. ~y.listening /\ y.wake /\ ~y.awake =>
             Asleep(S, n) /\ (n \in Meters /\ S.nodes[n].stage <= Dynamic => y.stage <= Dynamic)
      BY <2>2, <2>3 DEF Asleep
    <3> QED  BY <2>1, <2>2, <3>1, NodeOrderly
  <2>7. Orderly(AdvanceQueries(T, n), P)  BY <2>2, <2>5, <2>6, AdvanceOrderly
  <2> QED  BY <1>1, <1>3, <2>7
<1> QED  BY <1>2, <1>3

LEMMA CheckOrderly ==
  ASSUME NEW S, NEW P, Typed(S), Orderly(S, P)
  PROVE  Orderly(CheckCompletedNodeQueries(S), P)
<1> DEFINE C == CheckCompletedNodeQueries(S)
<1>1. C.queue = S.queue /\ C.nodes = S.nodes /\ C.cur = S.cur /\ C.notify = S.notify
  BY DEF CheckCompletedNodeQueries, Typed, DriverFields
<1> HIDE DEF C
<1>2. Orderly(C, P)  BY <1>1, SameOrderly DEF Same
<1> QED  BY <1>2 DEF C

LEMMA SetNodeAliveOrderly ==
  ASSUME NEW S, NEW n, NEW alive \in BOOLEAN, NEW P, Typed(S), n \in DOMAIN S.nodes,
         S.nodes[n].wake => S.nodes[n].info, Orderly(S, P)
  PROVE  Orderly(SetNodeAlive(S, n, alive), P)
<1> DEFINE x == S.nodes[n]
           errors == IF alive THEN 0 ELSE x.errors
           y == [x EXCEPT !.alive = alive, !.errors = errors]
           z == [x EXCEPT !.alive = alive, !.errors = errors, !.retries = 0]
           T == [S EXCEPT !.nodes[n].alive = alive, !.nodes[n].errors = IF alive THEN 0 ELSE @]
           U == [T EXCEPT !.nodes[n].retries = 0]
<1>1. SetNodeAlive(S, n, alive) =
        IF x.stage = Complete THEN T
        ELSE IF alive THEN AdvanceQueries(U, n)
        ELSE CheckCompletedNodeQueries(T)
  BY DEF SetNodeAlive
<1>2. NodeOK(x, n)  BY DEF Typed
<1>3. errors \in 0..3  BY <1>2 DEF NodeOK
<1>4. /\ DOMAIN T = DOMAIN S /\ T.queue = S.queue /\ T.cur = S.cur /\ T.nextId = S.nextId
      /\ T.notify = S.notify /\ T.nodes = [S.nodes EXCEPT ![n] = y]
  BY DEF Typed, DriverFields
<1>5. /\ DOMAIN U = DOMAIN S /\ U.queue = S.queue /\ U.cur = S.cur /\ U.nextId = S.nextId
      /\ U.notify = S.notify /\ U.nodes = [S.nodes EXCEPT ![n] = z]
  BY DEF Typed, DriverFields
<1> HIDE DEF errors, T, U
<1>6. /\ DOMAIN y = NodeFields /\ y.stage = x.stage /\ y.retries = x.retries
      /\ y.errors = errors /\ y.waiting = x.waiting /\ y.wake = x.wake /\ y.info = x.info
      /\ y.listening = x.listening /\ y.awake = x.awake
  BY <1>2 DEF NodeOK, NodeFields
<1>7. /\ DOMAIN z = NodeFields /\ z.stage = x.stage /\ z.retries = 0
      /\ z.errors = errors /\ z.waiting = x.waiting /\ z.wake = x.wake /\ z.info = x.info
      /\ z.listening = x.listening /\ z.awake = x.awake
  BY <1>2 DEF NodeOK, NodeFields
<1> HIDE DEF y, z
<1>8. NodeOK(y, n) /\ NodeOK(z, n)  BY <1>2, <1>3, <1>6, <1>7 DEF NodeOK
<1>9. /\ Typed(T) /\ n \in DOMAIN T.nodes /\ T.nodes[n] = y
      /\ Typed(U) /\ n \in DOMAIN U.nodes /\ U.nodes[n] = z
  BY <1>4, <1>5, <1>8, NodeStep DEF Step
<1>10. Orderly(T, P)  BY <1>4, <1>6, NodeOrderly DEF Asleep
<1>11. Orderly(U, P)  BY <1>5, <1>7, NodeOrderly DEF Asleep
<1>12. Orderly(AdvanceQueries(U, n), P)  BY <1>7, <1>9, <1>11, AdvanceOrderly
<1>13. Orderly(CheckCompletedNodeQueries(T), P)  BY <1>9, <1>10, CheckOrderly
<1> QED  BY <1>1, <1>10, <1>12, <1>13

LEMMA ReviveOrderly ==
  ASSUME NEW S, NEW n, NEW P, Typed(S), n \in DOMAIN S.nodes => Going(S, n), Orderly(S, P)
  PROVE  Orderly(Revive(S, n), P)
<1>1. ASSUME n \in DOMAIN S.nodes PROVE Orderly(SetNodeAlive(S, n, TRUE), P)
  BY <1>1, SetNodeAliveOrderly DEF Going, Pending
<1> QED  BY <1>1 DEF Revive

LEMMA ErrorsOrderly ==
  ASSUME NEW S, NEW n, NEW errors, NEW P, Typed(S), n \in DOMAIN S.nodes, Orderly(S, P)
  PROVE  Orderly([S EXCEPT !.nodes[n].errors = errors], P)
<1> DEFINE x == S.nodes[n]
           y == [x EXCEPT !.errors = errors]
           T == [S EXCEPT !.nodes[n].errors = errors]
<1>1. NodeOK(x, n)  BY DEF Typed
<1>2. /\ T.queue = S.queue /\ T.cur = S.cur /\ T.notify = S.notify
      /\ T.nodes = [S.nodes EXCEPT ![n] = y]
  BY DEF Typed, DriverFields
<1>3. /\ y.waiting = x.waiting /\ y.listening = x.listening /\ y.wake = x.wake
      /\ y.awake = x.awake /\ y.stage = x.stage /\ y.info = x.info
  BY <1>1 DEF NodeOK, NodeFields
<1> HIDE DEF y, T
<1>4. Orderly(T, P)  BY <1>2, <1>3, NodeOrderly DEF Asleep
<1> QED  BY <1>4 DEF T

LEMMA HeardOrderly ==
  ASSUME NEW S, NEW n, NEW P, Typed(S), n \in DOMAIN S.nodes, Going(S, n), Orderly(S, P)
  PROVE  Orderly(Heard(S, n), P)
<1> DEFINE T == [S EXCEPT !.nodes[n].errors = 0]
<1>0. 0 \in 0..3  OBVIOUS
<1>1. Typed(T) /\ Going(T, n)  BY <1>0, ErrorsGo
<1>2. Orderly(T, P)  BY ErrorsOrderly
<1>3. Heard(S, n) = Revive(T, n)  BY DEF Heard
<1> HIDE DEF T
<1> QED  BY <1>1, <1>2, <1>3, ReviveOrderly

-----------------------------------------------------------------------------
(* Order around sleep. *)

\* What waited in node n is in the send queues: its messages, and the items that
\* end a stage, none of them marked to repeat it.
Moved(T, V, n, msgs, fresh) ==
  /\ V.queue[WakeUpQueue] = T.queue[WakeUpQueue] \o msgs
  /\ V.queue[QueryQueue] = T.queue[QueryQueue] \o fresh
  /\ ToSet(msgs) \subseteq ToSet(T.nodes[n].waiting)
  /\ \A i \in ToSet(fresh) : IsMark(i) /\ i.node = n
  /\ \A i \in ToSet(T.nodes[n].waiting) : IsMark(i) =>
       \E j \in ToSet(fresh) : IsMark(j) /\ j.node = n /\ j.ask = i.ask /\ j.retry = FALSE
Flushes(T, V, n) ==
  /\ Typed(V) /\ n \in DOMAIN V.nodes
  /\ V.cur = T.cur /\ V.nextId = T.nextId /\ V.notify = T.notify
  /\ V.nodes = [T.nodes EXCEPT ![n] = [T.nodes[n] EXCEPT !.waiting = <<>>]]
  /\ \A q \in Queues \ {WakeUpQueue, QueryQueue} : V.queue[q] = T.queue[q]
  /\ \E msgs \in Seq(Items), fresh \in Seq(Items) : Moved(T, V, n, msgs, fresh)
  /\ SendPending(T, n) \in {V, SendMsg([V EXCEPT !.nodes[n].notified = FALSE],
                                      n, NoMoreInformation, WakeUpQueue)}

LEMMA SendPendingFlushes ==
  ASSUME NEW T, NEW n, Typed(T), n \in DOMAIN T.nodes
  PROVE  \E V : Flushes(T, V, n)
<1> DEFINE w == T.nodes[n].waiting
           Of(cmd) == Only(w, {i \in ToSet(w) : i.cmd = cmd})
           marks == Of("QueryStageComplete")
           msgs == Of("SendMsg")
           fresh == [i \in DOMAIN marks |-> [marks[i] EXCEPT !.retry = FALSE]]
           y == [T.nodes[n] EXCEPT !.waiting = <<>>]
           V == [T EXCEPT !.nodes[n].waiting = <<>>,
                          !.queue[WakeUpQueue] = @ \o msgs,
                          !.queue[QueryQueue] = @ \o fresh]
           N == [V EXCEPT !.nodes[n].notified = FALSE]
           U == SendMsg(N, n, NoMoreInformation, WakeUpQueue)
<1>1. SendPending(T, n) \in {V, U}
  BY DEF SendPending
<1>3. NodeOK(T.nodes[n], n)  BY DEF Typed
<1>5. w \in Seq(Items) /\ \A i \in ToSet(w) : i.node = n  BY <1>3 DEF NodeOK, WaitsIn
<1> HIDE DEF w
<1>6. /\ msgs \in Seq(Items) /\ ToSet(msgs) \subseteq ToSet(w)
      /\ marks \in Seq(Items) /\ ToSet(marks) = {i \in ToSet(w) : IsMark(i)}
  BY <1>5, OnlySet DEF IsMark
<1> HIDE DEF msgs, marks
<1>7. /\ fresh \in Seq(Items) /\ \A i \in ToSet(fresh) : IsMark(i) /\ i.node = n
      /\ \A i \in ToSet(w) : IsMark(i) =>
           \E j \in ToSet(fresh) : IsMark(j) /\ j.node = n /\ j.ask = i.ask /\ j.retry = FALSE
  <2>1. DOMAIN marks = 1..Len(marks) /\ Len(marks) \in Nat  BY <1>6
  <2>2. \A i \in DOMAIN marks : marks[i] \in Mark /\ marks[i].node = n
    <3>1. \A i \in DOMAIN marks : marks[i] \in ToSet(marks)  BY DEF ToSet
    <3>2. ToSet(marks) \subseteq Items  BY <1>6, SeqSet
    <3> QED  BY <1>5, <1>6, <3>1, <3>2, ItemKinds
  <2>3. \A m \in Mark : LET e == [m EXCEPT !.retry = FALSE]
                        IN  /\ e \in Mark /\ e.node = m.node /\ e.ask = m.ask
                            /\ e.retry = FALSE /\ IsMark(e)
    BY DEF Mark, IsMark
  <2>4. \A i \in DOMAIN marks :
          /\ fresh[i] \in Mark /\ fresh[i].node = n /\ fresh[i].ask = marks[i].ask
          /\ fresh[i].retry = FALSE /\ IsMark(fresh[i])
    BY <2>2, <2>3
  <2>5. DOMAIN fresh = DOMAIN marks  OBVIOUS
  <2>6. fresh = [i \in 1..Len(marks) |-> fresh[i]]  BY <2>1
  <2> HIDE DEF fresh
  <2>7. \A i \in 1..Len(marks) : fresh[i] \in Items  BY <2>1, <2>4 DEF Items
  <2>8. fresh \in Seq(Items)  BY <2>1, <2>6, <2>7, IsASeq
  <2>9. \A i \in ToSet(fresh) : IsMark(i) /\ i.node = n  BY <2>4, <2>5 DEF ToSet
  <2>10. ASSUME NEW i \in ToSet(w), IsMark(i)
         PROVE  \E j \in ToSet(fresh) :
                  IsMark(j) /\ j.node = n /\ j.ask = i.ask /\ j.retry = FALSE
    <3>1. PICK k \in DOMAIN marks : marks[k] = i  BY <1>6, <2>10 DEF ToSet
    <3>2. fresh[k] \in ToSet(fresh)  BY <2>5 DEF ToSet
    <3> QED  BY <2>4, <3>1, <3>2
  <2> QED  BY <2>8, <2>9, <2>10
<1> HIDE DEF fresh
<1>8. /\ DOMAIN V = DOMAIN T /\ V.cur = T.cur /\ V.nextId = T.nextId /\ V.notify = T.notify
      /\ V.nodes = [T.nodes EXCEPT ![n] = y]
      /\ DOMAIN V.queue = Queues
      /\ V.queue[WakeUpQueue] = T.queue[WakeUpQueue] \o msgs
      /\ V.queue[QueryQueue] = T.queue[QueryQueue] \o fresh
      /\ \A q \in Queues \ {WakeUpQueue, QueryQueue} : V.queue[q] = T.queue[q]
  <2>1. DOMAIN T = DriverFields /\ DOMAIN T.queue = Queues  BY DEF Typed
  <2>2. WakeUpQueue \in Queues /\ QueryQueue \in Queues /\ WakeUpQueue # QueryQueue
    BY DEF WakeUpQueue, QueryQueue, Queues
  <2>3. /\ DOMAIN V = DOMAIN T /\ V.cur = T.cur /\ V.nextId = T.nextId /\ V.notify = T.notify
        /\ V.nodes = [T.nodes EXCEPT ![n] = y]
    BY <2>1 DEF DriverFields
  <2>5. V.queue = [T.queue EXCEPT ![WakeUpQueue] = @ \o msgs, ![QueryQueue] = @ \o fresh]
    BY <2>1, <2>2 DEF DriverFields
  <2> HIDE DEF V
  <2>6. /\ DOMAIN V.queue = Queues
        /\ V.queue[WakeUpQueue] = T.queue[WakeUpQueue] \o msgs
        /\ V.queue[QueryQueue] = T.queue[QueryQueue] \o fresh
        /\ \A q \in Queues \ {WakeUpQueue, QueryQueue} : V.queue[q] = T.queue[q]
    BY <2>1, <2>2, <2>5
  <2> QED  BY <2>3, <2>6
<1> HIDE DEF V
<1>9. NodeOK(y, n)
  <2>1. WaitsIn(<<>>, n)  BY EmptySet DEF WaitsIn
  <2>2. /\ DOMAIN y = NodeFields /\ y.waiting = <<>> /\ y.stage = T.nodes[n].stage
        /\ y.retries = T.nodes[n].retries /\ y.errors = T.nodes[n].errors
    BY <1>3 DEF NodeOK, NodeFields
  <2> HIDE DEF y
  <2> QED  BY <1>3, <2>1, <2>2 DEF NodeOK
<1> HIDE DEF y
<1>10. Typed(V) /\ n \in DOMAIN V.nodes
  <2>1. /\ DOMAIN V.nodes = DOMAIN T.nodes /\ V.nodes[n] = y
        /\ \A m \in DOMAIN T.nodes : m # n => V.nodes[m] = T.nodes[m]
    BY <1>8
  <2>3. \A q \in Queues : T.queue[q] \in Seq(Items)  BY DEF Typed
  <2>4. /\ V.queue[WakeUpQueue] \in Seq(Items)
        /\ ToSet(V.queue[WakeUpQueue]) = ToSet(T.queue[WakeUpQueue]) \cup ToSet(msgs)
        /\ V.queue[QueryQueue] \in Seq(Items)
        /\ ToSet(V.queue[QueryQueue]) = ToSet(T.queue[QueryQueue]) \cup ToSet(fresh)
    <3>1. T.queue[WakeUpQueue] \in Seq(Items) /\ T.queue[QueryQueue] \in Seq(Items)
      BY <2>3 DEF WakeUpQueue, QueryQueue, Queues
    <3>2. /\ T.queue[WakeUpQueue] \o msgs \in Seq(Items)
          /\ ToSet(T.queue[WakeUpQueue] \o msgs) = ToSet(T.queue[WakeUpQueue]) \cup ToSet(msgs)
      BY <1>6, <3>1, ConcatSet
    <3>3. /\ T.queue[QueryQueue] \o fresh \in Seq(Items)
          /\ ToSet(T.queue[QueryQueue] \o fresh) = ToSet(T.queue[QueryQueue]) \cup ToSet(fresh)
      BY <1>7, <3>1, ConcatSet
    <3> QED  BY <1>8, <3>2, <3>3
  <2>5. \A i \in ToSet(msgs) \cup ToSet(fresh) : i.node \in DOMAIN V.nodes
    BY <1>5, <1>6, <1>7, <2>1
  <2>6. \A q \in Queues : /\ V.queue[q] \in Seq(Items)
                          /\ \A i \in ToSet(V.queue[q]) : i.node \in DOMAIN V.nodes
    <3> TAKE q \in Queues
    <3>1. \A i \in ToSet(T.queue[q]) : i.node \in DOMAIN V.nodes  BY <2>1 DEF Typed
    <3>2. CASE q \in {WakeUpQueue, QueryQueue}  BY <2>4, <2>5, <3>1, <3>2
    <3>3. CASE q \notin {WakeUpQueue, QueryQueue}  BY <1>8, <2>3, <3>1, <3>3
    <3> QED  BY <3>2, <3>3
  <2>7. \A m \in DOMAIN V.nodes : NodeOK(V.nodes[m], m)  BY <1>9, <2>1 DEF Typed
  <2> QED  BY <1>8, <2>1, <2>6, <2>7 DEF Typed
<1>11. Moved(T, V, n, msgs, fresh)  BY <1>6, <1>7, <1>8 DEF Moved, w
<1>12. Flushes(T, V, n)  BY <1>1, <1>6, <1>7, <1>8, <1>10, <1>11 DEF Flushes, y
<1> QED  BY <1>12

\* A node wakes up: T is S, but n is awake.
LEMMA FlushOrderly ==
  ASSUME NEW S, NEW T, NEW V, NEW n, NEW P, Typed(S), n \in DOMAIN S.nodes, Orderly(S, P),
         T.queue = S.queue, T.cur = S.cur, T.notify = S.notify,
         T.nodes = [S.nodes EXCEPT ![n] = [S.nodes[n] EXCEPT !.awake = TRUE]],
         Flushes(T, V, n)
  PROVE  Orderly(V, P) /\ V.nodes[n].info = S.nodes[n].info
<1> DEFINE x == S.nodes[n]
           w == x.waiting
           Q == S.queue[QueryQueue]
           W == S.queue[WakeUpQueue]
<1>1. NodeOK(x, n)  BY DEF Typed
<1>2. /\ DOMAIN V.nodes = DOMAIN S.nodes /\ V.cur = S.cur /\ V.notify = S.notify
      /\ \A m \in DOMAIN S.nodes : m # n => V.nodes[m] = S.nodes[m]
      /\ V.nodes[n].waiting = <<>> /\ V.nodes[n].awake /\ V.nodes[n].info = x.info
      /\ T.nodes[n].waiting = w
  BY <1>1 DEF Flushes, NodeOK, NodeFields
<1>a. PICK msgs \in Seq(Items), fresh \in Seq(Items) : Moved(T, V, n, msgs, fresh)
  BY DEF Flushes
<1>3. /\ V.queue[WakeUpQueue] = W \o msgs /\ V.queue[QueryQueue] = Q \o fresh
      /\ ToSet(msgs) \subseteq ToSet(w)
      /\ \A i \in ToSet(fresh) : IsMark(i) /\ i.node = n
      /\ \A i \in ToSet(w) : IsMark(i) =>
           \E j \in ToSet(fresh) : IsMark(j) /\ j.node = n /\ j.ask = i.ask /\ j.retry = FALSE
  BY <1>2, <1>a DEF Moved
<1>4. \A q \in Queues \ {WakeUpQueue, QueryQueue} : V.queue[q] = S.queue[q]  BY DEF Flushes
<1>5. /\ WakeUpQueue \in Queues /\ QueryQueue \in Queues /\ WakeUpQueue # QueryQueue
      /\ W \in Seq(Items) /\ Q \in Seq(Items)
  BY DEF Typed, WakeUpQueue, QueryQueue, Queues
<1> HIDE DEF W, Q
<1>6. /\ ToSet(V.queue[WakeUpQueue]) = ToSet(W) \cup ToSet(msgs)
      /\ ToSet(V.queue[QueryQueue]) = ToSet(Q) \cup ToSet(fresh)
  BY <1>3, <1>5, ConcatSet
<1>7. \A i \in ToSet(w) : i.node = n  BY <1>1 DEF NodeOK, WaitsIn
<1>8. Followed(S, {}, {}) /\ Quiet(S, P)  BY DEF Orderly
<1>9. Followed(V, {}, {})
  <2>1. \A i : (\E k \in ToSet(Q) \cup {} : Ends(k, i)) =>
                 \E k \in ToSet(V.queue[QueryQueue]) \cup {} : Ends(k, i)
    BY <1>6
  <2>2. \A q \in Queues \ {QueryQueue} :
          Covered(ToSet(S.queue[q]), ToSet(V.queue[QueryQueue]) \cup {})
    BY <1>8, <2>1 DEF Followed, Covered, Q
  <2>3. Covered(ToSet(msgs), ToSet(V.queue[QueryQueue]) \cup {})
    <3> SUFFICES ASSUME NEW i \in ToSet(msgs), IsQuestion(i)
                 PROVE  \E k \in ToSet(V.queue[QueryQueue]) : Ends(k, i)
      BY DEF Covered
    <3>1. i \in ToSet(w)  BY <1>3
    <3>2. PICK k \in ToSet(w) : Ends(k, i)  BY <1>8, <3>1 DEF Followed, Covered
    <3>3. PICK j \in ToSet(fresh) : IsMark(j) /\ j.node = n /\ j.ask = k.ask
      BY <1>3, <3>2 DEF Ends
    <3>4. Ends(j, i)  BY <1>7, <3>1, <3>2, <3>3 DEF Ends
    <3> QED  BY <1>6, <3>4
  <2>4. \A q \in Queues \ {QueryQueue} :
          Covered(ToSet(V.queue[q]), ToSet(V.queue[QueryQueue]) \cup {})
    <3> TAKE q \in Queues \ {QueryQueue}
    <3>1. CASE q = WakeUpQueue  BY <1>6, <2>2, <2>3, <3>1 DEF Covered, W
    <3>2. CASE q # WakeUpQueue  BY <1>4, <2>2, <3>2
    <3> QED  BY <3>1, <3>2
  <2>5. Covered({V.cur}, ToSet(V.queue[QueryQueue]) \cup {})
    BY <1>2, <1>8, <2>1 DEF Followed, Covered, Q
  <2>6. Behind(V.queue[QueryQueue], {})
    <3>1. Behind(Q, {})  BY <1>8 DEF Followed, Q
    <3>2. Behind(Q \o fresh, {})  BY <1>3, <1>5, <3>1, ConcatBehind
    <3> QED  BY <1>3, <3>2
  <2>7. ASSUME NEW m \in DOMAIN V.nodes
        PROVE  Covered(ToSet(V.nodes[m].waiting), ToSet(V.nodes[m].waiting) \cup {})
    <3>1. CASE m = n  BY <1>2, <3>1, EmptySet DEF Covered
    <3>2. CASE m # n  BY <1>2, <1>8, <3>2 DEF Followed
    <3> QED  BY <3>1, <3>2
  <2> QED  BY <2>4, <2>5, <2>6, <2>7 DEF Followed
<1>10. \A m : Asleep(V, m) => Asleep(S, m) /\ m # n  BY <1>2 DEF Asleep
<1>11. \A m \in DOMAIN S.nodes : V.nodes[m].info = S.nodes[m].info  BY <1>2
<1>12. ASSUME NEW q \in Queues, NEW i \in ToSet(V.queue[q])
       PROVE  \/ i \in ToSet(S.queue[q])
              \/ i.node = n /\ (IsLast(i) => i \in ToSet(w))
  <2>1. CASE q = WakeUpQueue  BY <1>3, <1>6, <1>7, <1>12, <2>1 DEF W
  <2>2. CASE q = QueryQueue  BY <1>3, <1>6, <1>12, <2>2 DEF Q, IsLast, IsMark
  <2>3. CASE q \notin {WakeUpQueue, QueryQueue}  BY <1>4, <1>12, <2>3
  <2> QED  BY <2>1, <2>2, <2>3
<1>13. Rested(V)
  <2>1. Rested(S)  BY <1>8 DEF Quiet
  <2>2. \A q \in Queues : \A i \in ToSet(S.queue[q]) : i.node \in DOMAIN S.nodes
    BY DEF Typed
  <2>3. IsLast(S.cur) => S.cur.node \in DOMAIN S.nodes  BY DEF Typed, IsLast, NULL
  <2>4. \A i \in ToSet(w) : IsLast(i) => x.info  BY <1>7, <2>1 DEF Rested, Knows
  <2>5. ASSUME NEW q \in Queues PROVE Knows(V, ToSet(V.queue[q]))
    <3> SUFFICES ASSUME NEW i \in ToSet(V.queue[q]), IsLast(i) PROVE V.nodes[i.node].info
      BY DEF Knows
    <3>1. CASE i \in ToSet(S.queue[q])  BY <1>11, <2>1, <2>2, <3>1 DEF Rested, Knows
    <3>2. CASE i.node = n /\ (IsLast(i) => i \in ToSet(w))  BY <1>2, <2>4, <3>2
    <3> QED  BY <1>12, <3>1, <3>2
  <2>6. Knows(V, {V.cur})  BY <1>2, <1>11, <2>1, <2>3 DEF Rested, Knows
  <2>7. ASSUME NEW m \in DOMAIN V.nodes PROVE Knows(V, ToSet(V.nodes[m].waiting))
    <3>1. CASE m = n  BY <1>2, <3>1, EmptySet DEF Knows
    <3>2. CASE m # n
      <4>1. \A i \in ToSet(S.nodes[m].waiting) : i.node = m
        BY <1>2, <2>7 DEF Typed, NodeOK, WaitsIn
      <4> QED  BY <1>2, <2>1, <2>7, <3>2, <4>1 DEF Rested, Knows
    <3> QED  BY <3>1, <3>2
  <2>8. \A m \in DOMAIN V.nodes : ~V.nodes[m].awake => V.nodes[m].info
    BY <1>2, <2>1 DEF Rested
  <2> QED  BY <1>2, <2>1, <2>5, <2>6, <2>7, <2>8 DEF Rested
<1>14. Met(S) => Met(V)  BY <1>2, <1>10 DEF Met
<1>15. Clear(S) => Clear(V)  BY <1>10, <1>12 DEF Clear
<1> QED  BY <1>2, <1>8, <1>9, <1>13, <1>14, <1>15 DEF Orderly, Quiet

LEMMA SetAwakeOrderly ==
  ASSUME NEW S, NEW n, NEW P, Typed(S), n \in DOMAIN S.nodes, S.nodes[n].info, Orderly(S, P)
  PROVE  Orderly(SetAwake(S, n, TRUE), P)
<1> DEFINE x == S.nodes[n]
           y == [x EXCEPT !.awake = TRUE]
           T == [S EXCEPT !.nodes[n].awake = TRUE,
                          !.notify = IF S.nodes[n].awake /\ ~TRUE THEN Append(@, n) ELSE @]
<1>1. SetAwake(S, n, TRUE) = SendPending(T, n)  BY DEF SetAwake
<1>2. NodeOK(x, n)  BY DEF Typed
<1>3. /\ DOMAIN T = DOMAIN S /\ T.queue = S.queue /\ T.cur = S.cur /\ T.nextId = S.nextId
      /\ T.notify = S.notify /\ T.nodes = [S.nodes EXCEPT ![n] = y]
  BY DEF Typed, DriverFields
<1>4. /\ DOMAIN y = NodeFields /\ y.errors = x.errors /\ y.retries = x.retries
      /\ y.waiting = x.waiting /\ y.stage = x.stage
  BY <1>2 DEF NodeOK, NodeFields
<1> HIDE DEF T
<1>5. NodeOK(y, n)  BY <1>2, <1>4 DEF NodeOK
<1>6. Typed(T) /\ n \in DOMAIN T.nodes  BY <1>3, <1>5, NodeStep DEF Step
<1>7. PICK V : Flushes(T, V, n)
  BY <1>6, SendPendingFlushes
<1>8. Orderly(V, P) /\ V.nodes[n].info  BY <1>3, <1>7, FlushOrderly
<1>9. Typed(V) /\ n \in DOMAIN V.nodes  BY <1>7 DEF Flushes
<1> DEFINE v == V.nodes[n]
           z == [v EXCEPT !.notified = FALSE]
           N == [V EXCEPT !.nodes[n].notified = FALSE]
           U == SendMsg(N, n, NoMoreInformation, WakeUpQueue)
<1>10. NodeOK(v, n)  BY <1>9 DEF Typed
<1>11. /\ DOMAIN N = DOMAIN V /\ N.queue = V.queue /\ N.cur = V.cur /\ N.nextId = V.nextId
       /\ N.notify = V.notify /\ N.nodes = [V.nodes EXCEPT ![n] = z]
  BY <1>9 DEF Typed, DriverFields
<1>12. /\ DOMAIN z = NodeFields /\ z.errors = v.errors /\ z.retries = v.retries
       /\ z.waiting = v.waiting /\ z.stage = v.stage /\ z.info = v.info
       /\ z.listening = v.listening /\ z.wake = v.wake /\ z.awake = v.awake
  BY <1>10 DEF NodeOK, NodeFields
<1> HIDE DEF z, N
<1>13. NodeOK(z, n)  BY <1>10, <1>12 DEF NodeOK
<1>14. Typed(N) /\ n \in DOMAIN N.nodes /\ N.nodes[n] = z
  BY <1>9, <1>11, <1>13, NodeStep DEF Step
<1>15. Orderly(N, P)  BY <1>8, <1>9, <1>11, <1>12, NodeOrderly DEF Asleep
<1>16. Orderly(U, P)
  <2>1. WakeUpQueue \in Queues  BY DEF WakeUpQueue, Queues
  <2> QED  BY <1>8, <1>12, <1>14, <1>15, <2>1, SendMsgOrderly
<1> HIDE DEF U
<1> QED  BY <1>1, <1>7, <1>8, <1>16 DEF Flushes, U, N

\* A node falls asleep: idealoz is going to be told, unless it was.
LEMMA FallAsleepOrderly ==
  ASSUME NEW S, NEW n, NEW P, Typed(S), n \in DOMAIN S.nodes, S.nodes[n].info, Orderly(S, P)
  PROVE  LET T == SetAwake(S, n, FALSE)
         IN  /\ Orderly(T, P \ {"clear"})
             /\ T.notify \in Seq(Nodes) /\ ToSet(S.notify) \subseteq ToSet(T.notify)
<1> DEFINE x == S.nodes[n]
           y == [x EXCEPT !.awake = FALSE]
           T == SetAwake(S, n, FALSE)
<1>1. NodeOK(x, n) /\ n \in Nodes  BY DEF Typed
<1>2. /\ T.queue = S.queue /\ T.cur = S.cur /\ T.nodes = [S.nodes EXCEPT ![n] = y]
  BY FallAsleepGoes
<1>3. T.notify = IF x.awake THEN Append(S.notify, n) ELSE S.notify
  BY DEF Typed, DriverFields, SetAwake
<1> HIDE DEF T
<1>4. /\ y.waiting = x.waiting /\ y.stage = x.stage /\ y.wake = x.wake /\ y.info = x.info
      /\ y.listening = x.listening
  BY <1>1 DEF NodeOK, NodeFields
<1> HIDE DEF y
<1>5. /\ DOMAIN T.nodes = DOMAIN S.nodes /\ T.nodes[n] = y
      /\ \A m \in DOMAIN S.nodes : m # n => T.nodes[m] = S.nodes[m]
  BY <1>2
<1>6. \A m \in DOMAIN S.nodes : /\ T.nodes[m].waiting = S.nodes[m].waiting
                                /\ T.nodes[m].info = S.nodes[m].info
  BY <1>4, <1>5
<1>7. Rested(S)  BY DEF Orderly, Quiet
<1>8. /\ T.notify \in Seq(Nodes) /\ ToSet(S.notify) \subseteq ToSet(T.notify)
      /\ x.awake => n \in ToSet(T.notify)
  <2>1. S.notify \in Seq(Nodes)  BY <1>7 DEF Rested
  <2>2. Append(S.notify, n) \in Seq(Nodes) /\ ToSet(Append(S.notify, n)) = ToSet(S.notify) \cup {n}
    BY <1>1, <2>1, AppendSet
  <2> QED  BY <1>3, <2>1, <2>2
<1>9. Followed(T, {}, {})  BY <1>2, <1>5, <1>6 DEF Orderly, Followed
<1>10. Rested(T)
  <2>1. \A q \in Queues : \A i \in ToSet(S.queue[q]) : i.node \in DOMAIN S.nodes
    BY DEF Typed
  <2>2. \A m \in DOMAIN S.nodes : \A i \in ToSet(S.nodes[m].waiting) : i.node \in DOMAIN S.nodes
    BY DEF Typed, NodeOK, WaitsIn
  <2>3. IsLast(S.cur) => S.cur.node \in DOMAIN S.nodes  BY DEF Typed, IsLast, NULL
  <2>4. \A q \in Queues : Knows(T, ToSet(T.queue[q]))
    BY <1>2, <1>6, <1>7, <2>1 DEF Rested, Knows
  <2>5. Knows(T, {T.cur})  BY <1>2, <1>6, <1>7, <2>3 DEF Rested, Knows
  <2>6. \A m \in DOMAIN T.nodes : Knows(T, ToSet(T.nodes[m].waiting))
    BY <1>5, <1>6, <1>7, <2>2 DEF Rested, Knows
  <2>7. \A m \in DOMAIN T.nodes : ~T.nodes[m].awake => T.nodes[m].info
    BY <1>4, <1>5, <1>7 DEF Rested
  <2> QED  BY <1>8, <2>4, <2>5, <2>6, <2>7 DEF Rested
<1>11. Met(S) => Met(T)
  <2> SUFFICES ASSUME Met(S), NEW m \in Meters \cap DOMAIN T.nodes, Asleep(T, m),
                      m \notin ToSet(T.notify)
               PROVE  T.nodes[m].stage <= Dynamic
    BY DEF Met
  <2>1. Asleep(S, m) /\ m \notin ToSet(S.notify)  BY <1>4, <1>5, <1>8 DEF Asleep
  <2>2. S.nodes[m].stage <= Dynamic  BY <1>5, <2>1 DEF Met
  <2> QED  BY <1>4, <1>5, <2>2
<1>12. Orderly(T, P \ {"clear"})  BY <1>9, <1>10, <1>11 DEF Orderly, Quiet
<1> QED  BY <1>8, <1>12 DEF T

\* Nothing is left of a node whose items are removed.
LEMMA RemoveQueuesOrderly ==
  ASSUME NEW S, NEW n, NEW P, Typed(S), Orderly(S, P)
  PROVE  Orderly(RemoveQueues(S, n), P) /\ RemoveQueues(S, n).notify = S.notify
<1> DEFINE R == RemoveCurrentMsg(S)
           U == IF S.cur.node = n THEN R ELSE S
           T == RemoveQueues(S, n)
           Q == S.queue[QueryQueue]
<1>0. QueryQueue \in Queues /\ Q \in Seq(Items)  BY DEF QueryQueue, Queues, Typed
<1>1. /\ T.nodes = S.nodes /\ T.cur \in {S.cur, NULL} /\ (T.cur # NULL => T.cur.node # n)
      /\ \A q \in Queues : ToSet(T.queue[q]) = {i \in ToSet(S.queue[q]) : i.node # n}
  BY RemoveQueuesLeaves
<1>2. T.notify = S.notify /\ T.queue[QueryQueue] = Without(Q, n)
  <2>1. T = [U EXCEPT !.queue = [q \in Queues |-> Without(U.queue[q], n)]]
    BY DEF RemoveQueues
  <2>2. DOMAIN U = DriverFields /\ U.queue = S.queue /\ U.notify = S.notify
    BY DEF Typed, DriverFields, RemoveCurrentMsg
  <2> HIDE DEF T, U
  <2> QED  BY <1>0, <2>1, <2>2 DEF DriverFields
<1> HIDE DEF T, Q
<1>3. Followed(S, {}, {}) /\ Quiet(S, P)  BY DEF Orderly
<1>4. ~IsQuestion(NULL) /\ ~IsLast(NULL)  BY DEF IsQuestion, IsLast, NULL
<1>5. ASSUME NEW i, i.node # n, \E k \in ToSet(Q) \cup {} : Ends(k, i)
      PROVE  \E k \in ToSet(T.queue[QueryQueue]) \cup {} : Ends(k, i)
  <2>1. PICK k \in ToSet(Q) : Ends(k, i)  BY <1>5
  <2>2. k.node # n  BY <1>5, <2>1 DEF Ends
  <2> QED  BY <1>0, <1>1, <2>1, <2>2 DEF Q
<1>6. Followed(T, {}, {})
  <2>1. ASSUME NEW q \in Queues \ {QueryQueue}
        PROVE  Covered(ToSet(T.queue[q]), ToSet(T.queue[QueryQueue]) \cup {})
    BY <1>1, <1>3, <1>5 DEF Followed, Covered, Q
  <2>2. Covered({T.cur}, ToSet(T.queue[QueryQueue]) \cup {})
    BY <1>1, <1>3, <1>4, <1>5 DEF Followed, Covered, Q
  <2>3. Behind(T.queue[QueryQueue], {})
    <3>1. Behind(Q, {})  BY <1>3 DEF Followed, Q
    <3> QED  BY <1>0, <1>2, <3>1, WithoutBehind
  <2> QED  BY <1>1, <1>3, <2>1, <2>2, <2>3 DEF Followed
<1>7. Rested(T)
  <2>1. Rested(S)  BY <1>3 DEF Quiet
  <2>2. \A q \in Queues : Knows(T, ToSet(T.queue[q]))  BY <1>1, <2>1 DEF Rested, Knows
  <2>3. Knows(T, {T.cur})  BY <1>1, <1>4, <2>1 DEF Rested, Knows
  <2> QED  BY <1>1, <1>2, <2>1, <2>2, <2>3 DEF Rested, Knows
<1>8. Met(S) => Met(T)  BY <1>1, <1>2 DEF Met, Asleep
<1>9. Clear(S) => Clear(T)  BY <1>1 DEF Clear, Asleep
<1>10. Orderly(T, P)  BY <1>3, <1>6, <1>7, <1>8, <1>9 DEF Orderly, Quiet
<1> QED  BY <1>2, <1>10 DEF T

\* The items of a node are taken from the queues, but for the current message.
LEMMA ItemsOfQueues ==
  ASSUME NEW S, NEW n \in Nodes, Typed(S)
  PROVE  \A i \in ToSet(ItemsOf(S, n)) : i = S.cur \/ \E q \in Queues : i \in ToSet(S.queue[q])
<1> DEFINE X == Items \cup {NULL}
           c == <<S.cur>>
           q1 == S.queue[CommandQueue]
           q2 == S.queue[NoOpQueue]
           q3 == S.queue[WakeUpQueue]
           q4 == S.queue[SendQueue]
           q5 == S.queue[QueryQueue]
           all == c \o q1 \o q2 \o q3 \o q4 \o q5
           K == {i \in ToSet(all) : i.node = n}
<1>1. ItemsOf(S, n) = Only(all, K)  BY DEF ItemsOf
<1>2. S.cur \in X  BY DEF Typed
<1>a. \A q \in {CommandQueue, NoOpQueue, WakeUpQueue, SendQueue, QueryQueue} : q \in Queues
  BY DEF Queues, CommandQueue, NoOpQueue, WakeUpQueue, SendQueue, QueryQueue
<1>3. q1 \in Seq(Items) /\ q2 \in Seq(Items) /\ q3 \in Seq(Items) /\ q4 \in Seq(Items)
        /\ q5 \in Seq(Items)
  BY <1>a DEF Typed
<1> HIDE DEF q1, q2, q3, q4, q5
<1>4. q1 \in Seq(X) /\ q2 \in Seq(X) /\ q3 \in Seq(X) /\ q4 \in Seq(X) /\ q5 \in Seq(X)
  <2>1. \A s \in Seq(Items) : s \in Seq(X)
    <3> TAKE s \in Seq(Items)
    <3>1. ToSet(s) \subseteq X  BY SeqSet
    <3> QED  BY <3>1, SeqOfSet
  <2> QED  BY <1>3, <2>1
<1>5. c \in Seq(X) /\ ToSet(c) = {S.cur}
  <2>1. c \in Seq(X) /\ Len(c) = 1 /\ c[1] = S.cur  BY <1>2
  <2> HIDE DEF c
  <2>2. ToSet(c) = {c[i] : i \in 1..Len(c)}  BY <2>1, SeqSet
  <2>3. \A i : i \in 1..1 <=> i = 1  OBVIOUS
  <2> QED  BY <2>1, <2>2, <2>3
<1> HIDE DEF c, X
<1>6. /\ all \in Seq(X)
      /\ ToSet(all) = {S.cur} \cup ToSet(q1) \cup ToSet(q2) \cup ToSet(q3) \cup ToSet(q4) \cup ToSet(q5)
  <2> DEFINE p1 == c \o q1
             p2 == p1 \o q2
             p3 == p2 \o q3
             p4 == p3 \o q4
             p5 == p4 \o q5
  <2>0. all = p5  OBVIOUS
  <2> HIDE DEF all
  <2>1. p1 \in Seq(X) /\ ToSet(p1) = {S.cur} \cup ToSet(q1)  BY <1>4, <1>5, ConcatSet
  <2> HIDE DEF p1
  <2>2. p2 \in Seq(X) /\ ToSet(p2) = ToSet(p1) \cup ToSet(q2)  BY <1>4, <2>1, ConcatSet
  <2> HIDE DEF p2
  <2>3. p3 \in Seq(X) /\ ToSet(p3) = ToSet(p2) \cup ToSet(q3)  BY <1>4, <2>2, ConcatSet
  <2> HIDE DEF p3
  <2>4. p4 \in Seq(X) /\ ToSet(p4) = ToSet(p3) \cup ToSet(q4)  BY <1>4, <2>3, ConcatSet
  <2> HIDE DEF p4
  <2>5. p5 \in Seq(X) /\ ToSet(p5) = ToSet(p4) \cup ToSet(q5)  BY <1>4, <2>4, ConcatSet
  <2> HIDE DEF p5
  <2> QED  BY <2>0, <2>1, <2>2, <2>3, <2>4, <2>5
<1> HIDE DEF all
<1>7. ToSet(Only(all, K)) = ToSet(all) \cap K
  <2> HIDE DEF K
  <2> QED  BY <1>6, OnlySet
<1> SUFFICES ASSUME NEW i \in ToSet(all), i # S.cur
             PROVE  \E q \in Queues : i \in ToSet(S.queue[q])
  BY <1>1, <1>7
<1>8. \/ i \in ToSet(q1) \/ i \in ToSet(q2) \/ i \in ToSet(q3) \/ i \in ToSet(q4)
      \/ i \in ToSet(q5)
  BY <1>6
<1> QED  BY <1>8, <1>a DEF q1, q2, q3, q4, q5

\* What was queued for a node that sleeps waits in the node, in the same order.
LEMMA MoveMessagesOrderly ==
  ASSUME NEW S, NEW n, NEW P, Typed(S), CanWait(S, n), S.nodes[n].info, Orderly(S, P)
  PROVE  Orderly(MoveMessagesToWakeUpQueue(S, n), P)
<1> DEFINE x == S.nodes[n]
           mine == ItemsOf(S, n)
           K == {i \in ToSet(mine) : ~NeverWaits(i)}
           moved == Only(mine, K)
           w == QueueAll(x.waiting, moved)
           A == SetAwake(S, n, FALSE)
           R == RemoveQueues(A, n)
           a == [x EXCEPT !.awake = FALSE]
           y == [a EXCEPT !.waiting = w]
           T == [R EXCEPT !.nodes[n].waiting = QueueAll(@, moved)]
<1>1. MoveMessagesToWakeUpQueue(S, n) = T  BY DEF MoveMessagesToWakeUpQueue
<1>2. n \in DOMAIN S.nodes /\ n \in Nodes /\ ~x.listening /\ x.wake  BY DEF CanWait, Typed
<1>3. NodeOK(x, n)  BY <1>2 DEF Typed
<1>4. /\ Typed(A) /\ A.queue = S.queue /\ A.cur = S.cur
      /\ A.nodes = [S.nodes EXCEPT ![n] = a]
  <2> HIDE DEF A
  <2>1. Step(S, A, n)  BY <1>2, FallAsleepGoes DEF A
  <2>2. /\ A.queue = S.queue /\ A.cur = S.cur
        /\ A.nodes = [S.nodes EXCEPT ![n] = [x EXCEPT !.awake = FALSE]]
    BY <1>2, FallAsleepGoes DEF A
  <2> QED  BY <2>1, <2>2 DEF Step
<1>5. Orderly(A, P \ {"clear"})  BY <1>2, FallAsleepOrderly
<1> HIDE DEF A
<1>6. Orderly(R, P \ {"clear"})  BY <1>4, <1>5, RemoveQueuesOrderly
<1>7. /\ DOMAIN R = DOMAIN A /\ R.nodes = A.nodes
      /\ \A q \in Queues : ToSet(R.queue[q]) = {i \in ToSet(A.queue[q]) : i.node # n}
      /\ R.cur \in {A.cur, NULL}
  <2> HIDE DEF x, a, moved
  <2> QED  BY <1>4, RemoveQueuesLeaves
<1> HIDE DEF R
<1>8. /\ T.queue = R.queue /\ T.cur = R.cur /\ T.notify = R.notify
      /\ T.nodes = [R.nodes EXCEPT ![n].waiting = QueueAll(@, moved)]
  <2> HIDE DEF moved
  <2> QED  BY <1>4, <1>7 DEF Typed, DriverFields
<1> HIDE DEF T
<1>9. /\ DOMAIN a = NodeFields /\ a.waiting = x.waiting /\ a.stage = x.stage
      /\ a.wake = x.wake /\ a.info = x.info /\ a.listening = x.listening /\ ~a.awake
  BY <1>3 DEF NodeOK, NodeFields
<1>10. R.nodes[n] = a /\ DOMAIN R.nodes = DOMAIN S.nodes
         /\ \A m \in DOMAIN S.nodes : m # n => R.nodes[m] = S.nodes[m]
  BY <1>2, <1>4, <1>7
<1> HIDE DEF a
<1>11. T.nodes[n] = y /\ DOMAIN T.nodes = DOMAIN S.nodes
         /\ \A m \in DOMAIN S.nodes : m # n => T.nodes[m] = S.nodes[m]
  <2> HIDE DEF moved
  <2>1. /\ T.nodes[n] = [R.nodes[n] EXCEPT !.waiting = QueueAll(R.nodes[n].waiting, moved)]
        /\ DOMAIN T.nodes = DOMAIN R.nodes
        /\ \A m \in DOMAIN R.nodes : m # n => T.nodes[m] = R.nodes[m]
    BY <1>2, <1>8, <1>10
  <2> QED  BY <1>9, <1>10, <2>1
<1>12. /\ mine \in Seq(Items) /\ \A i \in ToSet(mine) : i.node = n
       /\ \A i \in ToSet(S.queue[QueryQueue]) : i.node = n => i \in ToSet(mine)
       /\ \A i \in ToSet(mine) : i = S.cur \/ \E q \in Queues : i \in ToSet(S.queue[q])
  BY <1>2, ItemsOfNode, ItemsOfQueues
<1> HIDE DEF mine
<1>13. moved \in Seq(Items) /\ ToSet(moved) = ToSet(mine) \cap K
  <2> HIDE DEF K
  <2> QED  BY <1>12, OnlySet
<1>14. \A i \in ToSet(mine) : IsMark(i) => i \in ToSet(moved)
  BY <1>13 DEF IsMark, NeverWaits
<1>15. ToSet(moved) \subseteq ToSet(mine) /\ \A i \in ToSet(moved) : i.node = n
  BY <1>12, <1>13
<1> HIDE DEF moved, K
<1>16. WaitsIn(x.waiting, n)  BY <1>3 DEF NodeOK
<1>17. WaitsIn(w, n) /\ Copies(ToSet(x.waiting) \cup ToSet(moved), ToSet(w))
  BY <1>13, <1>15, <1>16, QueueAllWaits, QueueAllCopies
<1> HIDE DEF w
<1>18. /\ y.waiting = w /\ y.stage = x.stage /\ y.wake = x.wake /\ y.info = x.info
       /\ y.listening = x.listening /\ ~y.awake
  BY <1>9 DEF NodeFields
<1> HIDE DEF y
<1>19. Followed(S, {}, {}) /\ Quiet(S, P)  BY DEF Orderly
<1>20. Followed(R, {}, {}) /\ Quiet(R, P \ {"clear"})  BY <1>6 DEF Orderly
<1>21. QueryQueue \in Queues  BY DEF QueryQueue, Queues
<1>22. Covered(ToSet(w), ToSet(w) \cup {})
  <2> DEFINE B == ToSet(x.waiting) \cup ToSet(moved)
  <2>1. Covered(B, B \cup {})
    <3>1. ASSUME NEW i \in ToSet(moved), IsQuestion(i) PROVE \E k \in ToSet(moved) : Ends(k, i)
      <4>1. i = S.cur \/ \E q \in Queues : i \in ToSet(S.queue[q])  BY <1>12, <1>15
      <4>2. PICK k \in ToSet(S.queue[QueryQueue]) : Ends(k, i)
        <5>1. CASE i = S.cur  BY <1>19, <3>1, <5>1 DEF Followed, Covered
        <5>2. ASSUME NEW q \in Queues \ {QueryQueue}, i \in ToSet(S.queue[q])
              PROVE  \E k \in ToSet(S.queue[QueryQueue]) : Ends(k, i)
          BY <1>19, <3>1, <5>2 DEF Followed, Covered
        <5>3. CASE i \in ToSet(S.queue[QueryQueue])
          <6>1. S.queue[QueryQueue] \in Seq(Items)  BY <1>21 DEF Typed
          <6>2. PICK b \in 1..Len(S.queue[QueryQueue]) : S.queue[QueryQueue][b] = i
            BY <5>3, <6>1, SeqSet
          <6>3. PICK d \in 1..Len(S.queue[QueryQueue]) : Ends(S.queue[QueryQueue][d], i)
            BY <1>19, <3>1, <6>2 DEF Followed, Behind
          <6> QED  BY <6>1, <6>3, SeqSet
        <5> QED  BY <4>1, <5>1, <5>2, <5>3
      <4>3. k.node = n  BY <1>15, <4>2 DEF Ends
      <4>4. k \in ToSet(moved)  BY <1>12, <1>14, <4>2, <4>3 DEF Ends
      <4> QED  BY <4>2, <4>4
    <3>2. Covered(ToSet(x.waiting), ToSet(x.waiting) \cup {})  BY <1>2, <1>19 DEF Followed
    <3> QED  BY <3>1, <3>2 DEF Covered
  <2> HIDE DEF B
  <2>2. Copies(B, ToSet(w))  BY <1>17 DEF B
  <2> QED  BY <2>1, <2>2, CopiesCovered
<1>23. Followed(T, {}, {})
  <2>1. \A m \in DOMAIN T.nodes :
          Covered(ToSet(T.nodes[m].waiting), ToSet(T.nodes[m].waiting) \cup {})
    <3> TAKE m \in DOMAIN T.nodes
    <3>1. CASE m = n  BY <1>11, <1>18, <1>22, <3>1
    <3>2. CASE m # n  BY <1>11, <1>19, <3>2 DEF Followed
    <3> QED  BY <3>1, <3>2
  <2> QED  BY <1>8, <1>20, <2>1 DEF Followed
<1>24. Rested(T)
  <2>1. Rested(R) /\ Rested(S)  BY <1>19, <1>20 DEF Quiet
  <2>2. \A m \in DOMAIN S.nodes : T.nodes[m].info = R.nodes[m].info
    BY <1>9, <1>10, <1>11, <1>18
  <2>3. \A q \in Queues : \A i \in ToSet(R.queue[q]) : i.node \in DOMAIN S.nodes
    BY <1>4, <1>7 DEF Typed
  <2>4. IsLast(R.cur) => R.cur.node \in DOMAIN S.nodes
    BY <1>4, <1>7 DEF Typed, IsLast, NULL
  <2>5. \A q \in Queues : Knows(T, ToSet(T.queue[q]))
    BY <1>8, <2>1, <2>2, <2>3 DEF Rested, Knows
  <2>6. Knows(T, {T.cur})  BY <1>8, <2>1, <2>2, <2>4 DEF Rested, Knows
  <2>7. ASSUME NEW m \in DOMAIN T.nodes PROVE Knows(T, ToSet(T.nodes[m].waiting))
    <3>1. CASE m = n  BY <1>11, <1>17, <1>18, <3>1 DEF WaitsIn, Knows
    <3>2. CASE m # n
      <4>1. \A i \in ToSet(S.nodes[m].waiting) : i.node = m
        BY <1>11, <2>7 DEF Typed, NodeOK, WaitsIn
      <4> QED  BY <1>11, <2>1, <2>7, <3>2, <4>1 DEF Rested, Knows
    <3> QED  BY <3>1, <3>2
  <2>8. \A m \in DOMAIN T.nodes : ~T.nodes[m].awake => T.nodes[m].info
    BY <1>11, <1>18, <2>1 DEF Rested
  <2> QED  BY <1>8, <2>1, <2>5, <2>6, <2>7, <2>8 DEF Rested
<1>25. \A m : Asleep(T, m) <=> Asleep(R, m)  BY <1>9, <1>10, <1>11, <1>18 DEF Asleep
<1>26. Met(R) => Met(T)
  <2>1. \A m \in DOMAIN T.nodes : T.nodes[m].stage = R.nodes[m].stage
    BY <1>9, <1>10, <1>11, <1>18
  <2> QED  BY <1>8, <1>10, <1>11, <1>25, <2>1 DEF Met
<1>27. Clear(S) => Clear(T)
  <2> SUFFICES ASSUME Clear(S), NEW q \in Queues, NEW i \in ToSet(T.queue[q])
               PROVE  ~Asleep(T, i.node)
    BY DEF Clear
  <2>1. i \in ToSet(S.queue[q]) /\ i.node # n  BY <1>4, <1>7, <1>8
  <2>2. ~Asleep(S, i.node)  BY <2>1 DEF Clear
  <2> QED  BY <1>11, <2>1, <2>2 DEF Asleep
<1>28. Quiet(T, P)  BY <1>19, <1>20, <1>24, <1>26, <1>27 DEF Quiet
<1> QED  BY <1>1, <1>23, <1>28 DEF Orderly

-----------------------------------------------------------------------------
(* Order in the handlers of frames. *)

LEMMA FewerOrderly ==
  ASSUME NEW S, NEW P, NEW Q, Orderly(S, P), Q \subseteq P
  PROVE  Orderly(S, Q)
BY DEF Orderly, Quiet

LEMMA ProtocolInfoOrderly ==
  ASSUME NEW S, NEW f, NEW exists \in BOOLEAN, NEW P, Typed(S), S.cur.node \in DOMAIN S.nodes,
         Going(S, S.cur.node), Orderly(S, P)
  PROVE  Orderly(HandleGetNodeProtocolInfoResponse(S, f, exists), P)
<1> DEFINE n == S.cur.node
           x == S.nodes[n]
           listening == f.node \notin Sleepers
           wake == f.node \in Sleepers
           y == [x EXCEPT !.info = TRUE, !.listening = listening, !.wake = wake]
           T == [S EXCEPT !.nodes[n].info = TRUE,
                          !.nodes[n].listening = listening,
                          !.nodes[n].wake = wake]
<1>1. HandleGetNodeProtocolInfoResponse(S, f, exists) =
        IF x.info THEN S ELSE IF ~exists THEN SetNodeAlive(S, n, FALSE) ELSE T
  BY DEF HandleGetNodeProtocolInfoResponse
<1> HIDE DEF n, listening, wake
<1>2. n \in DOMAIN S.nodes /\ Going(S, n)  BY DEF n
<1>3. Orderly(SetNodeAlive(S, n, FALSE), P)
  <2>1. x.wake => x.info  BY <1>2 DEF Going, Pending
  <2> QED  BY <1>2, <2>1, SetNodeAliveOrderly
<1>4. ASSUME ~x.info PROVE Orderly(T, P)
  <2>1. NodeOK(x, n)  BY <1>2 DEF Typed
  <2>2. /\ T.queue = S.queue /\ T.cur = S.cur /\ T.notify = S.notify
        /\ T.nodes = [S.nodes EXCEPT ![n] = y]
    BY DEF Typed, DriverFields
  <2>3. y.waiting = x.waiting /\ y.awake = x.awake /\ y.info
    BY <2>1 DEF NodeOK, NodeFields
  <2>4. x.awake  BY <1>2, <1>4 DEF Orderly, Quiet, Rested
  <2> HIDE DEF y, T
  <2> QED  BY <1>2, <2>2, <2>3, <2>4, NodeOrderly
<1> HIDE DEF T
<1> QED  BY <1>1, <1>3, <1>4

LEMMA ErrorOrderly ==
  ASSUME NEW S, NEW n, NEW status, NEW P, Typed(S), n \in DOMAIN S.nodes, Going(S, n),
         Orderly(S, P)
  PROVE  Orderly(HandleErrorResponse(S, n, status), P)
<1> DEFINE errors == Min({S.nodes[n].errors + 1, 3})
           T == [S EXCEPT !.nodes[n].errors = errors]
           M == MoveMessagesToWakeUpQueue(S, n)
           D == SetNodeAlive(T, n, FALSE)
<1>1. HandleErrorResponse(S, n, status) =
        IF status = "noAck" /\ CanWait(S, n) THEN M
        ELSE IF T.nodes[n].errors >= 3 THEN D ELSE T
  <2>1. T = [S EXCEPT !.nodes[n].errors = Min({@ + 1, 3})]  OBVIOUS
  <2> QED  BY <2>1 DEF HandleErrorResponse
<1>2. errors \in 0..3
  <2>1. S.nodes[n].errors \in 0..3  BY DEF Typed, NodeOK
  <2>2. {S.nodes[n].errors + 1, 3} \subseteq Nat /\ {S.nodes[n].errors + 1, 3} # {}  BY <2>1
  <2>3. errors \in {S.nodes[n].errors + 1, 3} /\ errors <= 3  BY <2>2, MinIsLeast
  <2> QED  BY <2>1, <2>3
<1> HIDE DEF errors
<1>3. Typed(T) /\ n \in DOMAIN T.nodes /\ Going(T, n)  BY <1>2, ErrorsGo
<1>4. Orderly(T, P)  BY ErrorsOrderly
<1> HIDE DEF T
<1>5. Orderly(D, P)  BY <1>3, <1>4, SetNodeAliveOrderly DEF Going, Pending
<1>6. CanWait(S, n) => Orderly(M, P)
  BY MoveMessagesOrderly DEF CanWait, Going, Pending
<1> HIDE DEF D, M
<1> QED  BY <1>1, <1>4, <1>5, <1>6

\* The end of the conversation with a node that may sleep is the one step after
\* which something may be queued for a node that sleeps.
LEMMA SendDataOrderly ==
  ASSUME NEW S, NEW id, NEW status, NEW P, Typed(S), S.cur.node \in DOMAIN S.nodes,
         Going(S, S.cur.node), Orderly(S, P)
  PROVE  Orderly(HandleSendDataRequest(S, id, status), P \ {"clear"})
<1> DEFINE n == S.cur.node
           T == HandleErrorResponse(S, n, status)
           A == SetAwake(S, n, FALSE)
           B == IF S.cur.ask = NoMoreInformation THEN A ELSE S
           R == QueryStageRetry(T, n, T.nodes[n].stage, 3)
           Z == P \ {"clear"}
<1>1. \/ HandleSendDataRequest(S, id, status) \in {S, Revive(B, n), T}
      \/ HandleSendDataRequest(S, id, status) = R /\ T.nodes[n].stage \in {Probe, Probe1}
  BY DEF HandleSendDataRequest
<1>2. n \in DOMAIN S.nodes /\ Going(S, n) /\ n \in Nodes  BY DEF Typed
<1>3. Orderly(S, Z)  BY FewerOrderly
<1>4. S.cur.ask = NoMoreInformation => S.nodes[n].info
  <2> SUFFICES ASSUME S.cur.ask = NoMoreInformation PROVE S.nodes[n].info
    OBVIOUS
  <2>1. S.cur # NULL  BY DEF NULL, NoMoreInformation, None
  <2>2. IsLast(S.cur)  BY <2>1 DEF Typed, IsLast
  <2> QED  BY <2>2 DEF Orderly, Quiet, Rested, Knows
<1> HIDE DEF n
<1>5. S.cur.ask = NoMoreInformation => Orderly(A, Z)  BY <1>2, <1>4, FallAsleepOrderly
<1>6. Step(S, A, n) /\ Going(A, n)  BY <1>2, FallAsleepGoes
<1> HIDE DEF A
<1>7. Typed(B) /\ Going(B, n) /\ Orderly(B, Z)  BY <1>2, <1>3, <1>5, <1>6 DEF Step
<1> HIDE DEF B, Z
<1>8. Orderly(Revive(B, n), Z)  BY <1>7, ReviveOrderly
<1>9. Step(S, T, n) /\ Going(T, n)  BY <1>2, ErrorGoes
<1>10. Orderly(T, Z)  BY <1>2, <1>3, ErrorOrderly
<1> HIDE DEF T
<1>11. T.nodes[n].stage \in {Probe, Probe1} => Orderly(R, Z)
  <2> SUFFICES ASSUME T.nodes[n].stage \in {Probe, Probe1} PROVE Orderly(R, Z)
    OBVIOUS
  <2>1. Typed(T) /\ n \in DOMAIN T.nodes  BY <1>2, <1>9 DEF Step
  <2>2. T.nodes[n].stage \in {Probe, Probe1, NodeInfo} /\ 3 \in 2..3  OBVIOUS
  <2> QED  BY <1>10, <2>1, <2>2, QueryStageRetryOrderly
<1> HIDE DEF R
<1> QED  BY <1>1, <1>3, <1>8, <1>10, <1>11 DEF Z

LEMMA HandleMsgOrderly ==
  ASSUME NEW S, NEW f, NEW P, Typed(S), f.node \in DOMAIN S.nodes, Orderly(S, P)
  PROVE  Orderly(HandleMsg(S, f), P)
<1> DEFINE n == f.node
           x == S.nodes[n]
           answered == x.answered \cup {f.ask}
           y == [x EXCEPT !.answered = answered]
           T == [S EXCEPT !.nodes[n].answered = @ \cup {f.ask}]
           U == SendMsg(S, n, IntervalSet, WakeUpQueue)
<1>1. HandleMsg(S, f) \in {S, T, U}
  <2>1. \/ f.ask \in {WakeUp, Session} /\ n \in Retarget /\ x.wake /\ ~x.listening
        \/ f.ask \in StaticQuestions
        \/ /\ ~(f.ask \in {WakeUp, Session} /\ n \in Retarget /\ x.wake /\ ~x.listening)
           /\ f.ask \notin StaticQuestions
    OBVIOUS
  <2>2. f.ask \in {WakeUp, Session} => f.ask \notin StaticQuestions
    BY DEF StaticQuestions, WakeUp, Session, NodePlusInfo, ManufacturerSpecific2, Versions,
           Instances, Static
  <2> QED  BY <2>1, <2>2 DEF HandleMsg
<1> HIDE DEF n
<1>2. n \in DOMAIN S.nodes  BY DEF n
<1>3. Orderly(T, P)
  <2>1. NodeOK(x, n)  BY <1>2 DEF Typed
  <2>2. /\ T.queue = S.queue /\ T.cur = S.cur /\ T.notify = S.notify
        /\ T.nodes = [S.nodes EXCEPT ![n] = y]
    BY DEF Typed, DriverFields
  <2> HIDE DEF answered
  <2>3. /\ y.waiting = x.waiting /\ y.listening = x.listening /\ y.wake = x.wake
        /\ y.awake = x.awake /\ y.stage = x.stage /\ y.info = x.info
    BY <2>1 DEF NodeOK, NodeFields
  <2> HIDE DEF y, T
  <2> QED  BY <1>2, <2>2, <2>3, NodeOrderly DEF Asleep
<1>4. Orderly(U, P)
  <2>1. /\ IntervalSet \in {NoMoreInformation, IntervalSet} /\ WakeUpQueue \in Queues
        /\ IntervalSet # NoMoreInformation
    BY DEF NoMoreInformation, IntervalSet, WakeUpQueue, Queues
  <2> QED  BY <1>2, <2>1, SendMsgOrderly
<1> HIDE DEF T, U
<1> QED  BY <1>1, <1>3, <1>4

LEMMA WakeUpNotificationOrderly ==
  ASSUME NEW S, NEW n, NEW P, Typed(S), n \in DOMAIN S.nodes, Going(S, n), Orderly(S, P)
  PROVE  Orderly(HandleWakeUpNotification(S, n), P)
<1> DEFINE x == S.nodes[n]
           y == [x EXCEPT !.notified = TRUE]
           T == [S EXCEPT !.nodes[n].notified = TRUE]
           U == SetAwake(T, n, TRUE)
<1>1. HandleWakeUpNotification(S, n) = IF ~x.wake THEN S ELSE U
  BY DEF HandleWakeUpNotification
<1>2. NodeOK(x, n)  BY DEF Typed
<1>3. /\ DOMAIN T = DOMAIN S /\ T.queue = S.queue /\ T.cur = S.cur /\ T.nextId = S.nextId
      /\ T.notify = S.notify /\ T.nodes = [S.nodes EXCEPT ![n] = y]
  BY DEF Typed, DriverFields
<1>4. /\ DOMAIN y = NodeFields /\ y.errors = x.errors /\ y.retries = x.retries
      /\ y.waiting = x.waiting /\ y.listening = x.listening
      /\ y.wake = x.wake /\ y.awake = x.awake /\ y.stage = x.stage /\ y.info = x.info
  BY <1>2 DEF NodeOK, NodeFields
<1> HIDE DEF y, T
<1>5. NodeOK(y, n)  BY <1>2, <1>4 DEF NodeOK
<1>6. Typed(T) /\ n \in DOMAIN T.nodes /\ T.nodes[n] = y  BY <1>3, <1>5, NodeStep DEF Step
<1>7. Orderly(T, P)  BY <1>3, <1>4, NodeOrderly DEF Asleep
<1>8. x.wake => Orderly(U, P)
  <2>1. x.wake => T.nodes[n].info  BY <1>4, <1>6 DEF Going, Pending
  <2> QED  BY <1>6, <1>7, <2>1, SetAwakeOrderly
<1> HIDE DEF U
<1> QED  BY <1>1, <1>8

LEMMA UpdateNodeInfoOrderly ==
  ASSUME NEW S, NEW n, NEW P, Typed(S), n \in DOMAIN S.nodes, Going(S, n), Orderly(S, P)
  PROVE  Orderly(UpdateNodeInfo(S, n), P)
<1> DEFINE x == S.nodes[n]
           y == [x EXCEPT !.optional = TRUE]
           T == [S EXCEPT !.nodes[n].optional = TRUE]
           Q == SetQueryStage(T, n, ManufacturerSpecific2)
           U == IF {Versions, Instances} \cap Known(n, T.nodes[n]) # {} THEN Q ELSE T
           z == [U.nodes[n] EXCEPT !.nif = TRUE]
           I == [U EXCEPT !.nodes[n].nif = TRUE]
           D == SetQueryStage(S, n, Dynamic)
           V == IF S.nodes[n].nif THEN D ELSE I
           W == SetAwake(V, n, TRUE)
<1>1. UpdateNodeInfo(S, n) = IF V.nodes[n].wake THEN W ELSE V  BY DEF UpdateNodeInfo
<1>2. Step(S, T, n) /\ Typed(T) /\ n \in DOMAIN T.nodes /\ Going(T, n) /\ Orderly(T, P)
  <2>1. NodeOK(x, n)  BY DEF Typed
  <2>2. /\ DOMAIN T = DOMAIN S /\ T.queue = S.queue /\ T.cur = S.cur /\ T.nextId = S.nextId
        /\ T.notify = S.notify /\ T.nodes = [S.nodes EXCEPT ![n] = y]
    BY DEF Typed, DriverFields
  <2>3. /\ DOMAIN y = NodeFields /\ y.errors = x.errors /\ y.retries = x.retries
        /\ y.waiting = x.waiting /\ y.listening = x.listening
        /\ y.wake = x.wake /\ y.awake = x.awake /\ y.stage = x.stage /\ y.pending = x.pending
        /\ y.alive = x.alive /\ y.info = x.info
    BY <2>1 DEF NodeOK, NodeFields
  <2> HIDE DEF y, T
  <2>4. NodeOK(y, n)  BY <2>1, <2>3 DEF NodeOK
  <2>5. Step(S, T, n) /\ Typed(T) /\ n \in DOMAIN T.nodes /\ Going(T, n)
    BY <2>2, <2>3, <2>4, FieldGoes
  <2>6. Orderly(T, P)  BY <2>2, <2>3, NodeOrderly DEF Asleep
  <2> QED  BY <2>5, <2>6
<1> HIDE DEF T
<1>3. Typed(Q) /\ n \in DOMAIN Q.nodes /\ Going(Q, n) /\ Orderly(Q, P)
  <2>1. ManufacturerSpecific2 \in ProtocolInfo..Complete
    BY DEF ManufacturerSpecific2, ProtocolInfo, Complete
  <2>2. Pending(T, n) /\ (T.nodes[n].wake => T.nodes[n].info)  BY <1>2 DEF Going, Pending
  <2>3. Step(T, Q, n) /\ Going(Q, n)  BY <1>2, <2>1, <2>2, SetQueryStageGoes
  <2>4. Orderly(Q, P)  BY <1>2, <2>1, <2>2, SetQueryStageOrderly
  <2> QED  BY <1>2, <2>3, <2>4 DEF Step
<1> HIDE DEF Q
<1>4. Typed(U) /\ n \in DOMAIN U.nodes /\ Going(U, n) /\ Orderly(U, P)  BY <1>2, <1>3
<1> HIDE DEF U
<1>5. Typed(I) /\ n \in DOMAIN I.nodes /\ Going(I, n) /\ Orderly(I, P)
  <2> DEFINE u == U.nodes[n]
  <2>1. NodeOK(u, n)  BY <1>4 DEF Typed
  <2>2. /\ DOMAIN I = DOMAIN U /\ I.queue = U.queue /\ I.cur = U.cur /\ I.nextId = U.nextId
        /\ I.notify = U.notify /\ I.nodes = [U.nodes EXCEPT ![n] = z]
    BY <1>4 DEF Typed, DriverFields
  <2>3. /\ DOMAIN z = NodeFields /\ z.errors = u.errors /\ z.retries = u.retries
        /\ z.waiting = u.waiting /\ z.listening = u.listening
        /\ z.wake = u.wake /\ z.awake = u.awake /\ z.stage = u.stage /\ z.pending = u.pending
        /\ z.alive = u.alive /\ z.info = u.info
    BY <2>1 DEF NodeOK, NodeFields
  <2> HIDE DEF z, I
  <2>4. NodeOK(z, n)  BY <2>1, <2>3 DEF NodeOK
  <2>5. Typed(I) /\ n \in DOMAIN I.nodes /\ Going(I, n)
    BY <1>4, <2>2, <2>3, <2>4, FieldGoes
  <2>6. ~z.listening /\ z.wake /\ ~z.awake => Asleep(U, n)  BY <1>4, <2>3 DEF Asleep
  <2>7. Orderly(I, P)  BY <1>4, <2>2, <2>3, <2>6, NodeOrderly
  <2> QED  BY <2>5, <2>7
<1> HIDE DEF I
<1>6. Typed(D) /\ n \in DOMAIN D.nodes /\ Going(D, n) /\ Orderly(D, P)
  <2>1. Dynamic \in ProtocolInfo..Complete  BY DEF Dynamic, ProtocolInfo, Complete
  <2>2. Pending(S, n) /\ (x.wake => x.info)  BY DEF Going, Pending
  <2>3. Step(S, D, n) /\ Going(D, n)  BY <2>1, <2>2, SetQueryStageGoes
  <2>4. Orderly(D, P)  BY <2>1, <2>2, SetQueryStageOrderly
  <2> QED  BY <2>3, <2>4 DEF Step
<1> HIDE DEF D
<1>7. Typed(V) /\ n \in DOMAIN V.nodes /\ Going(V, n) /\ Orderly(V, P)  BY <1>5, <1>6
<1> HIDE DEF V
<1>8. V.nodes[n].wake => Orderly(W, P)
  <2>1. V.nodes[n].wake => V.nodes[n].info  BY <1>7 DEF Going, Pending
  <2> QED  BY <1>7, <2>1, SetAwakeOrderly
<1> HIDE DEF W
<1> QED  BY <1>1, <1>7, <1>8

LEMMA GenericCallbackOrderly ==
  ASSUME NEW S, NEW f, NEW P, Typed(S), Orderly(S, P)
  PROVE  Orderly(GenericCallback(S, f), P)
<1> DEFINE cb == IF S.cb = f.byte2 THEN 0 ELSE S.cb
           expected == /\ S.reply = f.func
                       /\ f.func = "command" =>
                            /\ cb = 0 /\ f.node = S.cur.node
                            /\ CommandClass(f.ask) = CommandClass(S.cur.ask)
                       /\ f.func = "update" => f.node \in {0, S.cur.node}
           reply == IF expected THEN NoReply ELSE S.reply
           T == GenericCallback(S, f)
           R == RemoveCurrentMsg(S)
           C == [S EXCEPT !.cb = cb, !.reply = reply]
<1>1. T \in {S, R, C}  BY DEF GenericCallback
<1> HIDE DEF T, cb, reply, expected
<1>2. R.nodes = S.nodes /\ R.queue = S.queue /\ R.cur = NULL /\ R.notify = S.notify
  BY DEF Typed, DriverFields, RemoveCurrentMsg
<1>3. C.nodes = S.nodes /\ C.queue = S.queue /\ C.cur = S.cur /\ C.notify = S.notify
  BY DEF Typed, DriverFields
<1> HIDE DEF R, C
<1>4. Orderly(R, P) /\ Orderly(C, P)  BY <1>2, <1>3, SameOrderly DEF Same
<1> QED  BY <1>1, <1>4 DEF T

LEMMA WriteMsgOrderly ==
  ASSUME NEW S, NEW P, Typed(S), Orderly(S, P)
  PROVE  Orderly(WriteMsg(S), P)
<1> DEFINE m == S.cur
           id == IF CallbackRequired(m.ask) /\ m.tries # 0 THEN NextId(S.nextId) ELSE m.id
           c == [m EXCEPT !.tries = m.tries + 1, !.id = id]
           R == RemoveCurrentMsg(S)
           T == [S EXCEPT !.cur.tries = @ + 1, !.cur.id = id, !.cb = id,
                          !.reply = ExpectedReply(m.ask),
                          !.nextId = IF id = m.id THEN @ ELSE (id + 1) % 256]
<1>1. \/ WriteMsg(S) = R
      \/ WriteMsg(S) = T /\ ~(m.tries >= m.max)
  BY DEF WriteMsg
<1>2. R.nodes = S.nodes /\ R.queue = S.queue /\ R.cur = NULL /\ R.notify = S.notify
  BY DEF Typed, DriverFields, RemoveCurrentMsg
<1> HIDE DEF R
<1>3. Orderly(R, P)  BY <1>2, SameOrderly
<1>4. ASSUME ~(m.tries >= m.max) PROVE Orderly(T, P)
  <2>1. m # NULL  BY <1>4 DEF NULL
  <2>2. m \in Message  BY <2>1, ItemKinds DEF Typed
  <2> HIDE DEF id
  <2>3. T.nodes = S.nodes /\ T.queue = S.queue /\ T.cur = c /\ T.notify = S.notify
    BY DEF Typed, DriverFields
  <2>4. Same(m, c)  BY <2>2 DEF Message, Same
  <2> HIDE DEF T, c
  <2> QED  BY <2>3, <2>4, SameOrderly
<1> HIDE DEF T
<1> QED  BY <1>1, <1>3, <1>4

LEMMA NodeInfoOrderly ==
  ASSUME NEW S, NEW f, NEW P, AllGo(S), Orderly(S, P)
  PROVE  Orderly(HandleNodeInfo(S, f), P) /\ Orderly(HandleNodeInfoFailed(S, f), P)
<1>1. Orderly(HandleNodeInfo(S, f), P)
  <2> DEFINE n == f.node
             R == Revive(S, n)
             U == UpdateNodeInfo(R, n)
             V == IF n \in DOMAIN S.nodes THEN U ELSE S
  <2>1. HandleNodeInfo(S, f) = GenericCallback(V, f)  BY DEF HandleNodeInfo
  <2>2. ASSUME n \in DOMAIN S.nodes PROVE Typed(U) /\ Orderly(U, P)
    <3>1. Step(S, R, n) /\ Going(R, n)  BY <2>2, ReviveGoes DEF AllGo
    <3>2. Orderly(R, P)  BY <2>2, ReviveOrderly DEF AllGo
    <3> HIDE DEF R
    <3>3. Typed(R) /\ n \in DOMAIN R.nodes  BY <2>2, <3>1 DEF Step
    <3>4. Step(R, U, n)  BY <3>1, <3>3, UpdateNodeInfoGoes
    <3>5. Orderly(U, P)  BY <3>1, <3>2, <3>3, UpdateNodeInfoOrderly
    <3> QED  BY <3>4, <3>5 DEF Step
  <2> HIDE DEF U
  <2>3. Typed(V) /\ Orderly(V, P)  BY <2>2 DEF AllGo
  <2> HIDE DEF V
  <2> QED  BY <2>1, <2>3, GenericCallbackOrderly
<1>2. Orderly(HandleNodeInfoFailed(S, f), P)
  <2> DEFINE n == S.cur.node
             T == QueryStageRetry(S, n, NodeInfo, 2)
             M == MoveMessagesToWakeUpQueue(T, n)
             g == [f EXCEPT !.node = 0, !.byte2 = NODE_INFO_REQ_FAILED]
  <2>1. HandleNodeInfoFailed(S, f) =
          IF n \notin DOMAIN S.nodes THEN GenericCallback(S, g)
          ELSE IF CanWait(T, n) THEN M
          ELSE GenericCallback(T, g)
    BY DEF HandleNodeInfoFailed
  <2> HIDE DEF n, g
  <2>2. Orderly(GenericCallback(S, g), P)  BY GenericCallbackOrderly DEF AllGo
  <2>3. ASSUME n \in DOMAIN S.nodes
        PROVE  Orderly(GenericCallback(T, g), P) /\ (CanWait(T, n) => Orderly(M, P))
    <3>1. NodeInfo \in ProtocolInfo..Dynamic /\ 2 \in 2..3
      BY DEF NodeInfo, ProtocolInfo, Dynamic
    <3>2. Typed(S) /\ Going(S, n) /\ NodeInfo \in {Probe, Probe1, NodeInfo}
      BY <2>3 DEF AllGo
    <3>3. Step(S, T, n) /\ Going(T, n)  BY <2>3, <3>1, <3>2, QueryStageRetryGoes
    <3>4. Orderly(T, P)  BY <2>3, <3>1, <3>2, QueryStageRetryOrderly
    <3> HIDE DEF T
    <3>5. Typed(T)  BY <3>3 DEF Step
    <3>6. CanWait(T, n) => Orderly(M, P)
      <4>1. CanWait(T, n) => T.nodes[n].info  BY <3>3 DEF CanWait, Going, Pending
      <4> QED  BY <3>4, <3>5, <4>1, MoveMessagesOrderly
    <3> QED  BY <3>4, <3>5, <3>6, GenericCallbackOrderly
  <2> HIDE DEF T, M
  <2> QED  BY <2>1, <2>2, <2>3
<1> QED  BY <1>1, <1>2

-----------------------------------------------------------------------------
(* Order in the table of nodes. *)

LEMMA DeleteNodeOrderly ==
  ASSUME NEW S, NEW n, NEW P, Typed(S), Orderly(S, P)
  PROVE  Orderly(DeleteNode(S, n), P)
<1> DEFINE R == RemoveQueues(S, n)
           left == [m \in DOMAIN S.nodes \ {n} |-> S.nodes[m]]
           T == [R EXCEPT !.nodes = left]
<1>1. DeleteNode(S, n) = T  BY DEF DeleteNode
<1>2. /\ DOMAIN R = DOMAIN S /\ R.nodes = S.nodes
      /\ R.cur \in {S.cur, NULL} /\ (R.cur # NULL => R.cur.node # n)
      /\ \A q \in Queues : ToSet(R.queue[q]) = {i \in ToSet(S.queue[q]) : i.node # n}
  BY RemoveQueuesLeaves
<1>3. Orderly(R, P)  BY RemoveQueuesOrderly
<1> HIDE DEF R
<1>4. T.queue = R.queue /\ T.cur = R.cur /\ T.notify = R.notify /\ T.nodes = left
  <2> HIDE DEF left
  <2> QED  BY <1>2 DEF Typed, DriverFields
<1> HIDE DEF T
<1>5. /\ DOMAIN T.nodes = DOMAIN R.nodes \ {n}
      /\ \A m \in DOMAIN T.nodes : T.nodes[m] = R.nodes[m]
  BY <1>2, <1>4
<1> HIDE DEF left
<1>6. Followed(T, {}, {})  BY <1>3, <1>4, <1>5 DEF Orderly, Followed
<1>7. Rested(R)  BY <1>3 DEF Orderly, Quiet
<1>8. Rested(T)
  <2>1. \A q \in Queues : \A i \in ToSet(T.queue[q]) : i.node \in DOMAIN T.nodes
    BY <1>2, <1>4, <1>5 DEF Typed
  <2>2. IsLast(T.cur) => T.cur.node \in DOMAIN T.nodes
    BY <1>2, <1>4, <1>5 DEF Typed, IsLast, NULL
  <2>3. \A m \in DOMAIN T.nodes : \A i \in ToSet(T.nodes[m].waiting) : i.node = m
    BY <1>2, <1>5 DEF Typed, NodeOK, WaitsIn
  <2>4. \A q \in Queues : Knows(T, ToSet(T.queue[q]))
    BY <1>4, <1>5, <1>7, <2>1 DEF Rested, Knows
  <2>5. Knows(T, {T.cur})  BY <1>4, <1>5, <1>7, <2>2 DEF Rested, Knows
  <2>6. \A m \in DOMAIN T.nodes : Knows(T, ToSet(T.nodes[m].waiting))
    BY <1>5, <1>7, <2>3 DEF Rested, Knows
  <2> QED  BY <1>4, <1>5, <1>7, <2>4, <2>5, <2>6 DEF Rested
<1>9. \A m : Asleep(T, m) => Asleep(R, m)  BY <1>5 DEF Asleep
<1>10. (Met(R) => Met(T)) /\ (Clear(R) => Clear(T))
  BY <1>4, <1>5, <1>9 DEF Met, Clear
<1> QED  BY <1>1, <1>3, <1>6, <1>8, <1>10 DEF Orderly, Quiet

\* A node that is new is awake, and nothing is queued for it.
LEMMA InitNodeOrderly ==
  ASSUME NEW S, NEW n \in Nodes, NEW P, Typed(S), Orderly(S, P)
  PROVE  Orderly(InitNode(S, n), P)
<1> DEFINE D == DeleteNode(S, n)
           W == WithNode(D, n, NewNode)
<1>1. InitNode(S, n) = SetQueryStage(W, n, ProtocolInfo)  BY DEF InitNode
<1>2. Typed(D) /\ DOMAIN D.nodes = DOMAIN S.nodes \ {n}  BY DeleteNodeLeaves
<1>3. Orderly(D, P)  BY DeleteNodeOrderly
<1> HIDE DEF D
<1>4. n \notin DOMAIN D.nodes  BY <1>2
<1>5. /\ Typed(W) /\ W.queue = D.queue /\ W.cur = D.cur /\ W.notify = D.notify
      /\ DOMAIN W.nodes = DOMAIN D.nodes \cup {n} /\ W.nodes[n] = NewNode
      /\ \A m \in DOMAIN D.nodes : m # n /\ W.nodes[m] = D.nodes[m]
  BY <1>2, <1>4, WithNewNode
<1> HIDE DEF W
<1>6. NewNode.waiting = <<>> /\ NewNode.awake /\ ~NewNode.wake  BY DEF NewNode
<1>7. Followed(W, {}, {})
  <2>1. ASSUME NEW m \in DOMAIN W.nodes
        PROVE  Covered(ToSet(W.nodes[m].waiting), ToSet(W.nodes[m].waiting) \cup {})
    <3>1. CASE m = n  BY <1>5, <1>6, <3>1, EmptySet DEF Covered
    <3>2. CASE m # n  BY <1>3, <1>5, <3>2 DEF Orderly, Followed
    <3> QED  BY <3>1, <3>2
  <2> QED  BY <1>3, <1>5, <2>1 DEF Orderly, Followed
<1>8. Rested(D)  BY <1>3 DEF Orderly, Quiet
<1>9. Rested(W)
  <2>1. \A q \in Queues : \A i \in ToSet(D.queue[q]) : i.node \in DOMAIN D.nodes
    BY <1>2 DEF Typed
  <2>2. IsLast(D.cur) => D.cur.node \in DOMAIN D.nodes  BY <1>2 DEF Typed, IsLast, NULL
  <2>3. \A m \in DOMAIN D.nodes : \A i \in ToSet(D.nodes[m].waiting) : i.node = m
    BY <1>2 DEF Typed, NodeOK, WaitsIn
  <2>4. \A q \in Queues : Knows(W, ToSet(W.queue[q]))
    BY <1>5, <1>8, <2>1 DEF Rested, Knows
  <2>5. Knows(W, {W.cur})  BY <1>5, <1>8, <2>2 DEF Rested, Knows
  <2>6. \A m \in DOMAIN D.nodes : Knows(W, ToSet(W.nodes[m].waiting))
    BY <1>5, <1>8, <2>3 DEF Rested, Knows
  <2>7. Knows(W, ToSet(W.nodes[n].waiting))  BY <1>5, <1>6, EmptySet DEF Knows
  <2> QED  BY <1>5, <1>6, <1>8, <2>4, <2>5, <2>6, <2>7 DEF Rested
<1>10. \A m : Asleep(W, m) => Asleep(D, m)  BY <1>5, <1>6 DEF Asleep
<1>11. Met(D) => Met(W)
  <2> SUFFICES ASSUME Met(D), NEW m \in Meters \cap DOMAIN W.nodes, Asleep(W, m),
                      m \notin ToSet(W.notify)
               PROVE  W.nodes[m].stage <= Dynamic
    BY DEF Met
  <2>1. Asleep(D, m) /\ m \in DOMAIN D.nodes  BY <1>10 DEF Asleep
  <2> QED  BY <1>5, <2>1 DEF Met
<1>12. Clear(D) => Clear(W)  BY <1>5, <1>10 DEF Clear
<1>13. Orderly(W, P)  BY <1>3, <1>7, <1>9, <1>11, <1>12 DEF Orderly, Quiet
<1>14. ProtocolInfo \in ProtocolInfo..Complete  BY DEF ProtocolInfo, Complete
<1>15. n \in DOMAIN W.nodes /\ ~W.nodes[n].wake  BY <1>5, <1>6
<1> QED  BY <1>1, <1>5, <1>13, <1>14, <1>15, SetQueryStageOrderly

Everything == {"met", "clear"}

\* Nothing is queued and nobody sleeps before the first bit is looked at.
LEMMA ReadConfigOrderly ==
  ASSUME NEW id, NEW net, NEW zwcfg \in [net -> None..Complete]
  PROVE  Orderly(ReadConfig(id, zwcfg), Everything)
<1> DEFINE S == ReadConfig(id, zwcfg)
           there == {m \in DOMAIN zwcfg : zwcfg[m] # None}
<1>1. /\ S.cur = NULL /\ S.queue = [q \in Queues |-> <<>>] /\ S.notify = <<>>
      /\ S.nodes = [n \in there |-> ReadXML(n, zwcfg[n])]
  BY DEF ReadConfig
<1> HIDE DEF S
<1>2. DOMAIN S.nodes = there /\ \A n \in there : S.nodes[n] = ReadXML(n, zwcfg[n])
  BY <1>1
<1> HIDE DEF there
<1>3. \A n, s : ReadXML(n, s).waiting = <<>> /\ ReadXML(n, s).awake
  BY DEF ReadXML, NewNode
<1>4. \A m \in DOMAIN S.nodes : S.nodes[m].waiting = <<>> /\ S.nodes[m].awake  BY <1>2, <1>3
<1>5. \A q \in Queues : S.queue[q] = <<>>  BY <1>1
<1>6. <<>> \in Seq(Nodes) /\ ToSet(<<>>) = {} /\ QueryQueue \in Queues
  BY EmptySet DEF QueryQueue, Queues
<1>7. ~IsQuestion(NULL) /\ ~IsLast(NULL)  BY DEF IsQuestion, IsLast, NULL
<1>8. Behind(<<>>, {})  BY DEF Behind
<1>9. Followed(S, {}, {})  BY <1>1, <1>4, <1>5, <1>6, <1>7, <1>8 DEF Followed, Covered
<1>10. Rested(S)  BY <1>1, <1>4, <1>5, <1>6, <1>7 DEF Rested, Knows
<1>11. Met(S) /\ Clear(S)  BY <1>4, <1>5, <1>6 DEF Met, Clear, Asleep
<1> QED  BY <1>9, <1>10, <1>11 DEF Orderly, Quiet, S

LEMMA HandleNodeBitOrderly ==
  ASSUME NEW S, NEW net \in SUBSET Nodes, NEW zwcfg, DOMAIN zwcfg = net, NEW n, NEW k,
         Asked(S, net, k), NEW P, Orderly(S, P)
  PROVE  Orderly(HandleNodeBit(S, n, zwcfg), P)
<1>1. Typed(S) /\ DOMAIN S.nodes \subseteq net  BY DEF Asked
<1>2. ASSUME n \in DOMAIN S.nodes PROVE Orderly(SetQueryStage(S, n, Probe1), P)
  <2>1. Probe1 \in ProtocolInfo..Complete  BY DEF Probe1, ProtocolInfo, Complete
  <2>2. S.nodes[n].wake => S.nodes[n].info  BY <1>2 DEF Asked, Pending
  <2> QED  BY <1>1, <1>2, <2>1, <2>2, SetQueryStageOrderly
<1>3. ASSUME n \in net PROVE Orderly(InitNode(S, n), P)  BY <1>1, <1>3, InitNodeOrderly
<1> QED  BY <1>2, <1>3 DEF HandleNodeBit

LEMMA InitOrderly ==
  ASSUME Init
  PROVE  Orderly(drv, Everything)
<1>1. PICK id \in StartIds, scenario \in Scenarios : drv = NodeBits(id, scenario.zwcfg)[MaxNode]
  BY DEF Init, HandleSerialAPIGetInitDataResponse
<1> DEFINE zwcfg == scenario.zwcfg
           net == DOMAIN zwcfg
<1>2. zwcfg \in UNION {[N -> None..Complete] : N \in SUBSET Nodes}
  BY DriverAssumption
<1>3. net \in SUBSET Nodes /\ zwcfg \in [net -> None..Complete]  BY <1>2
<1> DEFINE After(n) == NodeBits(id, zwcfg)[n]
           Good(n) == Asked(After(n), net, n) /\ Orderly(After(n), Everything)
           Bad == {n \in 0..MaxNode : ~Good(n)}
<1>4. MaxNode \in Nat  BY DriverAssumption
<1> HIDE DEF zwcfg
<1>5. Good(0)
  <2> DEFINE S == ReadConfig(id, zwcfg)
  <2>1. After(0) = S  BY NodeBitsDef
  <2>2. Typed(S) /\ DOMAIN S.nodes \subseteq net /\ \A m \in DOMAIN S.nodes : Pending(S, m)
    BY <1>3, ReadConfigPending
  <2>3. Orderly(S, Everything)  BY <1>3, ReadConfigOrderly
  <2> HIDE DEF S
  <2>4. \A m \in DOMAIN S.nodes : ~(m <= 0)
    <3>1. DOMAIN S.nodes \subseteq 1..MaxNode  BY <1>3, <2>2, DriverAssumption
    <3> QED  BY <1>4, <3>1
  <2> QED  BY <2>1, <2>2, <2>3, <2>4 DEF Asked
<1>6. \A n \in 1..MaxNode : After(n) = HandleNodeBit(After(n - 1), n, zwcfg)
  BY NodeBitsDef
<1> HIDE DEF After, net
<1>7. Bad = {}
  <2> SUFFICES ASSUME Bad # {} PROVE FALSE
    OBVIOUS
  <2>1. PICK n \in Bad : \A m \in Bad : n <= m
    <3>1. Bad \subseteq Nat  BY <1>4
    <3> HIDE DEF Bad
    <3> QED  BY <3>1, LeastNatural
  <2>2. n \in 1..MaxNode /\ n - 1 \in 0..MaxNode /\ n - 1 \notin Bad
    <3> HIDE DEF Good
    <3> QED  BY <1>4, <1>5, <2>1
  <2>3. Asked(After(n - 1), net, n - 1) /\ Orderly(After(n - 1), Everything)  BY <2>2
  <2>4. Asked(After(n), net, n)
    BY <1>3, <1>6, <2>2, <2>3, HandleNodeBitAsks DEF net
  <2>5. Orderly(After(n), Everything)
    BY <1>3, <1>6, <2>2, <2>3, HandleNodeBitOrderly DEF net
  <2> QED  BY <2>1, <2>4, <2>5
<1>8. Good(MaxNode)
  <2> HIDE DEF Good
  <2> QED  BY <1>4, <1>7
<1> QED  BY <1>1, <1>8 DEF After, zwcfg

-----------------------------------------------------------------------------
(* Order in the turns of the thread. *)

\* The next item leaves its queue.  If that is the query queue the others are
\* empty and no message is current, so no question is left alone.
LEMMA TakeNextOrderly ==
  ASSUME Typed(drv), NeverWaitsForNothing, CanTakeNext, NEW P, Orderly(drv, P)
  PROVE  /\ Orderly(TakeNext, P) /\ TakeNext.notify = drv.notify
         /\ Covered({NextItem}, ToSet(TakeNext.queue[QueryQueue]))
         /\ Knows(TakeNext, {NextItem})
         /\ "clear" \in P => ~Asleep(TakeNext, NextItem.node)
<1> DEFINE N == {q \in Queues : drv.queue[q] # <<>>}
           k == NextQueue
           s == drv.queue[k]
           T == TakeNext
           Q == drv.queue[QueryQueue]
<1>1. N # {} /\ N \subseteq Nat  BY DEF CanTakeNext, Queues
<1>2. k \in N /\ \A q \in N : k <= q
  <2>1. k = Min(N)  BY DEF NextQueue
  <2> HIDE DEF N, k
  <2> QED  BY <1>1, <2>1, MinIsLeast
<1>3. NextItem = Head(s)  BY DEF NextItem
<1> HIDE DEF k
<1>4. k \in Queues /\ s \in Seq(Items) /\ s # <<>>  BY <1>2 DEF Typed
<1>5. ToSet(s) = ToSet(Tail(s)) \cup {Head(s)}  BY <1>4, TailSet
<1>6. /\ T.nodes = drv.nodes /\ T.cur = drv.cur /\ T.notify = drv.notify /\ T.queue[k] = Tail(s)
      /\ \A q \in Queues : q # k => T.queue[q] = drv.queue[q]
  <2>1. T = [drv EXCEPT !.queue[k] = Tail(@)]  BY DEF TakeNext, k
  <2> QED  BY <1>4, <2>1 DEF Typed, DriverFields
<1> HIDE DEF T
<1>7. T.cur = NULL  BY <1>6 DEF CanTakeNext, NeverWaitsForNothing
<1>8. ~IsQuestion(NULL) /\ ~IsLast(NULL)  BY DEF IsQuestion, IsLast, NULL
<1>9. QueryQueue \in Queues /\ Q \in Seq(Items)  BY DEF QueryQueue, Queues, Typed
<1>10. Followed(drv, {}, {}) /\ Rested(drv)  BY DEF Orderly, Quiet
<1>11. \A q \in Queues : ToSet(T.queue[q]) \subseteq ToSet(drv.queue[q])  BY <1>5, <1>6
<1>12. /\ \A q \in Queues \ {QueryQueue} :
            Covered(ToSet(T.queue[q]), ToSet(T.queue[QueryQueue]) \cup {})
       /\ Behind(T.queue[QueryQueue], {})
       /\ Covered({NextItem}, ToSet(T.queue[QueryQueue]))
  <2>1. CASE k = QueryQueue
    <3>1. \A q \in Queues \ {QueryQueue} : drv.queue[q] = <<>>
      BY <1>2, <2>1 DEF QueryQueue, Queues
    <3>2. \A q \in Queues \ {QueryQueue} : ToSet(T.queue[q]) = {}
      BY <1>6, <2>1, <3>1, EmptySet
    <3>3. Behind(s, {})  BY <1>10, <2>1 DEF Followed
    <3>4. Behind(Tail(s), {}) /\ Covered({Head(s)}, ToSet(Tail(s)))
      <4> HIDE DEF s
      <4> QED  BY <1>4, <3>3, TailBehind
    <3> QED  BY <1>3, <1>6, <2>1, <3>2, <3>4 DEF Covered
  <2>2. CASE k # QueryQueue
    <3>1. T.queue[QueryQueue] = Q  BY <1>6, <1>9, <2>2
    <3>2. \A q \in Queues \ {QueryQueue} : Covered(ToSet(drv.queue[q]), ToSet(Q) \cup {})
      BY <1>10 DEF Followed
    <3>3. Covered(ToSet(s), ToSet(Q) \cup {})  BY <1>4, <2>2, <3>2
    <3>4. Behind(Q, {})  BY <1>10 DEF Followed
    <3> HIDE DEF Q, s
    <3> QED  BY <1>3, <1>5, <1>11, <3>1, <3>2, <3>3, <3>4 DEF Covered
  <2> QED  BY <2>1, <2>2
<1>13. Followed(T, {}, {})  BY <1>6, <1>7, <1>8, <1>10, <1>12 DEF Followed, Covered
<1>14. NextItem \in ToSet(drv.queue[k])  BY <1>3, <1>5
<1>15. Rested(T)  BY <1>6, <1>10, <1>11 DEF Rested, Knows
<1>16. Knows(T, {NextItem})  BY <1>4, <1>6, <1>10, <1>14 DEF Rested, Knows
<1>17. (Met(drv) => Met(T)) /\ (Clear(drv) => Clear(T) /\ ~Asleep(T, NextItem.node))
  BY <1>4, <1>6, <1>11, <1>14 DEF Met, Clear, Asleep
<1> QED  BY <1>6, <1>12, <1>13, <1>15, <1>16, <1>17 DEF Orderly, Quiet, T

LEMMA WriteNextMsgOrderly ==
  ASSUME Typed(drv), NeverWaitsForNothing, WriteNextMsg, NEW P, Orderly(drv, P)
  PROVE  Orderly(drv', P)
<1> DEFINE T == TakeNext
           S == [T EXCEPT !.cur = NextItem]
<1>1. CanTakeNext /\ NextItem.cmd = "SendMsg" /\ drv' = WriteMsg(S)
  BY DEF WriteNextMsg, Write
<1>2. /\ Typed(T) /\ T.nodes = drv.nodes
      /\ NextItem \in Items /\ NextItem.node \in DOMAIN drv.nodes
  BY <1>1, TakeNextLeaves
<1>3. /\ Orderly(T, P) /\ Covered({NextItem}, ToSet(T.queue[QueryQueue]))
      /\ Knows(T, {NextItem})
  BY <1>1, TakeNextOrderly
<1> HIDE DEF T
<1>4. /\ DOMAIN S = DOMAIN T /\ S.nodes = T.nodes /\ S.queue = T.queue /\ S.cur = NextItem
      /\ S.nextId = T.nextId /\ S.notify = T.notify
  BY <1>2 DEF Typed, DriverFields
<1> HIDE DEF S
<1>5. Typed(S)  BY <1>1, <1>2, <1>4 DEF Typed
<1>6. Followed(S, {}, {})  BY <1>3, <1>4 DEF Orderly, Followed
<1>7. Rested(S)  BY <1>3, <1>4 DEF Orderly, Quiet, Rested, Knows
<1>8. (Met(T) => Met(S)) /\ (Clear(T) => Clear(S))  BY <1>4 DEF Met, Clear, Asleep
<1>9. Orderly(S, P)  BY <1>3, <1>6, <1>7, <1>8 DEF Orderly, Quiet
<1> QED  BY <1>1, <1>5, <1>9, WriteMsgOrderly

\* A node whose stage ends does not sleep, as its item was queued.
LEMMA CompleteStageOrderly ==
  ASSUME AllGo(drv), NeverWaitsForNothing, CompleteStage, NEW P, Orderly(drv, P),
         P # {} => "clear" \in P
  PROVE  Orderly(drv', P)
<1> DEFINE T == TakeNext
           n == NextItem.node
           a == NextItem.ask
           x == T.nodes[n]
           Q == QueryStageComplete(T, n, a)
           S == IF NextItem.retry THEN T ELSE Q
<1>1. CanTakeNext /\ IsMark(NextItem) /\ drv' = AdvanceQueries(S, n)
  BY DEF CompleteStage, IsMark
<1>2. /\ Typed(T) /\ T.nodes = drv.nodes /\ NextItem \in Items /\ n \in DOMAIN drv.nodes
  BY <1>1, TakeNextLeaves DEF AllGo
<1>3. Orderly(T, P) /\ (P # {} => ~Asleep(T, n))  BY <1>1, TakeNextOrderly DEF AllGo
<1>4. x.wake => x.info  BY <1>2 DEF AllGo, Going, Pending
<1>5. NextItem \in Mark  BY <1>1, <1>2, ItemKinds
<1>6. a \in None..Complete  BY <1>5 DEF Mark
<1> HIDE DEF T, n, a
<1>7. NodeOK(x, n) /\ n \in DOMAIN T.nodes  BY <1>2 DEF Typed
<1>8. CASE S = T  BY <1>1, <1>2, <1>3, <1>4, <1>7, <1>8, AdvanceOrderly
<1>9. CASE S # T
  <2> DEFINE stage == IF a = Static THEN Associations ELSE x.stage + 1
             y == [x EXCEPT !.pending = FALSE, !.stage = stage, !.retries = 0]
  <2>0. a = x.stage /\ a # Complete /\ S = Q  BY <1>9 DEF QueryStageComplete
  <2>1. Q = [T EXCEPT !.nodes[n].pending = FALSE, !.nodes[n].stage = stage,
                      !.nodes[n].retries = 0]
    BY <2>0 DEF QueryStageComplete
  <2>2. /\ DOMAIN Q = DOMAIN T /\ Q.queue = T.queue /\ Q.cur = T.cur /\ Q.nextId = T.nextId
        /\ Q.notify = T.notify /\ Q.nodes = [T.nodes EXCEPT ![n] = y]
    <3> HIDE DEF Q, stage
    <3> QED  BY <1>2, <2>1 DEF Typed, DriverFields
  <2>3. stage \in None..Complete
    BY <1>6, <2>0 DEF None, Complete, Static, Associations
  <2> HIDE DEF Q, stage
  <2>4. /\ DOMAIN y = NodeFields /\ y.stage = stage /\ y.retries = 0
        /\ y.errors = x.errors /\ y.waiting = x.waiting /\ y.wake = x.wake /\ y.info = x.info
        /\ y.awake = x.awake /\ y.listening = x.listening
    BY <1>7 DEF NodeOK, NodeFields
  <2> HIDE DEF y
  <2>5. NodeOK(y, n)  BY <1>7, <2>3, <2>4 DEF NodeOK
  <2>6. Step(T, Q, n) /\ Q.nodes[n] = y  BY <1>2, <1>7, <2>2, <2>5, NodeStep
  <2>7. P # {} => ~(~y.listening /\ y.wake /\ ~y.awake)  BY <1>3, <1>7, <2>4 DEF Asleep
  <2>8. Orderly(Q, P)
    BY <1>2, <1>3, <1>7, <2>2, <2>4, <2>7, NodeOrderly
  <2>9. Typed(Q) /\ n \in DOMAIN Q.nodes /\ (Q.nodes[n].wake => Q.nodes[n].info)
    BY <1>4, <1>7, <2>4, <2>6 DEF Step
  <2> QED  BY <1>1, <2>0, <2>8, <2>9, AdvanceOrderly
<1> QED  BY <1>8, <1>9

LEMMA ReadCanOrderly ==
  ASSUME AllGo(drv), drv.cur # NULL, ReadCan, NEW P, Orderly(drv, P)
  PROVE  Orderly(drv', P)
<1> DEFINE S == [drv EXCEPT !.cur.max = IF @ + 1 < MAX_MAX_TRIES THEN @ + 1 ELSE @]
<1>1. drv' = WriteMsg(S)  BY DEF ReadCan, Write
<1>2. /\ Typed(S) /\ S.nodes = drv.nodes /\ S.queue = drv.queue
      /\ S.notify = drv.notify /\ Same(drv.cur, S.cur)
  BY AttemptTyped DEF AllGo
<1> HIDE DEF S
<1>3. Orderly(S, P)  BY <1>2, SameOrderly
<1> QED  BY <1>1, <1>2, <1>3, WriteMsgOrderly

\* Frames that answer a message; a callback may let a node sleep while items of
\* it are queued.
LEMMA ReadOrderly ==
  ASSUME AllGo(drv), NEW P, Orderly(drv, P),
         NEW f, ReadProtocolInfo(f) \/ ReadRoutingInfo(f) \/ ReadSendData(f)
                  \/ ReadCommand(f) \/ ReadUpdate(f)
  PROVE  Orderly(drv', IF ReadSendData(f) THEN P \ {"clear"} ELSE P)
<1> DEFINE n == drv.cur.node
           p == P \ {"clear"}
<1>0. Typed(drv) /\ \A m \in DOMAIN drv.nodes : Going(drv, m)  BY DEF AllGo
<1>1. CASE ReadProtocolInfo(f)
  <2>1. PICK exists \in BOOLEAN :
          drv' = GenericCallback(HandleGetNodeProtocolInfoResponse(drv, f, exists), f)
    BY <1>1 DEF ReadProtocolInfo
  <2> DEFINE T == HandleGetNodeProtocolInfoResponse(drv, f, exists)
  <2>2. Typed(T) /\ Orderly(T, P)
    <3>1. CASE n \notin DOMAIN drv.nodes
      BY <1>0, <3>1 DEF HandleGetNodeProtocolInfoResponse
    <3>2. CASE n \in DOMAIN drv.nodes
      <4>1. Step(drv, T, n)  BY <1>0, <3>2, ProtocolInfoGoes
      <4>2. Orderly(T, P)  BY <1>0, <3>2, ProtocolInfoOrderly
      <4> QED  BY <4>1, <4>2 DEF Step
    <3> QED  BY <3>1, <3>2
  <2> HIDE DEF T
  <2>3. Orderly(drv', P)  BY <2>1, <2>2, GenericCallbackOrderly DEF T
  <2> QED  BY <2>3, FewerOrderly
<1>2. CASE ReadRoutingInfo(f)
  <2>1. Orderly(drv', P)  BY <1>0, <1>2, GenericCallbackOrderly DEF ReadRoutingInfo
  <2> QED  BY <2>1, FewerOrderly
<1>3. CASE ReadSendData(f)
  <2>1. PICK status : drv' = GenericCallback(HandleSendDataRequest(drv, f.byte2, status), f)
    BY <1>3 DEF ReadSendData
  <2> DEFINE T == HandleSendDataRequest(drv, f.byte2, status)
  <2>2. Typed(T) /\ Orderly(T, p)
    <3>1. CASE n \notin DOMAIN drv.nodes
      <4>1. T = drv  BY <3>1 DEF HandleSendDataRequest
      <4> QED  BY <1>0, <4>1, FewerOrderly
    <3>2. CASE n \in DOMAIN drv.nodes
      <4>1. Step(drv, T, n)  BY <1>0, <3>2, SendDataGoes
      <4>2. Orderly(T, p)  BY <1>0, <3>2, SendDataOrderly
      <4> QED  BY <4>1, <4>2 DEF Step
    <3> QED  BY <3>1, <3>2
  <2> HIDE DEF T, p
  <2>3. Orderly(drv', p)  BY <2>1, <2>2, GenericCallbackOrderly DEF T
  <2> QED  BY <1>3, <2>3 DEF p
<1>4. CASE ReadCommand(f)
  <2> DEFINE k == f.node
             H == Heard(drv, k)
             M == HandleMsg(H, f)
             T == IF k \in DOMAIN drv.nodes THEN M ELSE drv
  <2>1. drv' = GenericCallback(T, f)  BY <1>4 DEF ReadCommand
  <2>2. ASSUME k \in DOMAIN drv.nodes PROVE Typed(M) /\ Orderly(M, P)
    <3>1. Step(drv, H, k) /\ Going(H, k)  BY <1>0, <2>2, HeardGoes
    <3>2. Orderly(H, P)  BY <1>0, <2>2, HeardOrderly
    <3> HIDE DEF H
    <3>3. Typed(H) /\ k \in DOMAIN H.nodes  BY <2>2, <3>1 DEF Step
    <3>4. Step(H, M, k)  BY <3>1, <3>3, HandleMsgGoes
    <3>5. Orderly(M, P)  BY <3>2, <3>3, HandleMsgOrderly
    <3> QED  BY <3>4, <3>5 DEF Step
  <2> HIDE DEF M
  <2>3. Typed(T) /\ Orderly(T, P)  BY <1>0, <2>2
  <2> HIDE DEF T
  <2>4. Orderly(drv', P)  BY <2>1, <2>3, GenericCallbackOrderly
  <2> QED  BY <2>4, FewerOrderly
<1>5. CASE ReadUpdate(f)
  <2>1. Orderly(drv', P)  BY <1>5, NodeInfoOrderly DEF ReadUpdate
  <2> QED  BY <2>1, FewerOrderly
<1> QED  BY <1>1, <1>2, <1>3, <1>4, <1>5

LEMMA UnsolicitedOrderly ==
  ASSUME AllGo(drv), NEW P, Orderly(drv, P), NEW n \in Nodes,
         WakeUpNotification(n) \/ NodeInfoSent(n) \/ ReportSent(n)
           \/ NewIdAssigned(n) \/ DeleteDone(n)
  PROVE  Orderly(drv', P)
<1>0. Typed(drv) /\ \A m \in DOMAIN drv.nodes : Going(drv, m)  BY DEF AllGo
<1> DEFINE H == Heard(drv, n)
           R == Revive(drv, n)
<1>1. ASSUME n \in DOMAIN drv.nodes
      PROVE  Typed(H) /\ n \in DOMAIN H.nodes /\ Going(H, n) /\ Orderly(H, P)
  <2>1. Step(drv, H, n) /\ Going(H, n)  BY <1>0, <1>1, HeardGoes
  <2>2. Orderly(H, P)  BY <1>0, <1>1, HeardOrderly
  <2> HIDE DEF H
  <2> QED  BY <1>1, <2>1, <2>2 DEF Step
<1>2. Typed(R) /\ Orderly(R, P)
  <2>1. CASE n \in DOMAIN drv.nodes
    <3>1. Step(drv, R, n)  BY <1>0, <2>1, ReviveGoes
    <3>2. Orderly(R, P)  BY <1>0, ReviveOrderly
    <3> QED  BY <3>1, <3>2 DEF Step
  <2>2. CASE n \notin DOMAIN drv.nodes
    BY <1>0, <2>2 DEF Revive
  <2> QED  BY <2>1, <2>2
<1> HIDE DEF H, R
<1>3. CASE WakeUpNotification(n)
  <2> DEFINE T == HandleWakeUpNotification(H, n)
  <2>1. n \in DOMAIN drv.nodes /\ \E g : drv' = GenericCallback(T, g)
    BY <1>3 DEF WakeUpNotification, H
  <2>2. Step(H, T, n)  BY <1>1, <2>1, WakeUpNotificationGoes
  <2>3. Orderly(T, P)  BY <1>1, <2>1, WakeUpNotificationOrderly
  <2> HIDE DEF T
  <2> QED  BY <2>1, <2>2, <2>3, GenericCallbackOrderly DEF Step
<1>4. CASE NodeInfoSent(n)
  BY <1>4, NodeInfoOrderly DEF NodeInfoSent
<1>5. CASE ReportSent(n)
  <2>1. n \in DOMAIN drv.nodes /\ \E g : drv' = GenericCallback(H, g)
    BY <1>5 DEF ReportSent, H
  <2> QED  BY <1>1, <2>1, GenericCallbackOrderly
<1>6. CASE NewIdAssigned(n)
  <2> DEFINE T == InitNode(R, n)
  <2>1. \E g : drv' = GenericCallback(T, g)  BY <1>6 DEF NewIdAssigned, R
  <2>2. Typed(T)  BY <1>2, InitNodeGoes
  <2>3. Orderly(T, P)  BY <1>2, InitNodeOrderly
  <2> HIDE DEF T
  <2> QED  BY <2>1, <2>2, <2>3, GenericCallbackOrderly
<1>7. CASE DeleteDone(n)
  <2> DEFINE T == DeleteNode(R, n)
  <2>1. \E g : drv' = GenericCallback(T, g)  BY <1>7 DEF DeleteDone, R
  <2>2. Typed(T)  BY <1>2, DeleteNodeLeaves
  <2>3. Orderly(T, P)  BY <1>2, DeleteNodeOrderly
  <2> HIDE DEF T
  <2> QED  BY <2>1, <2>2, <2>3, GenericCallbackOrderly
<1> QED  BY <1>3, <1>4, <1>5, <1>6, <1>7

\* The sleep of a node was announced.
LEMMA AnnouncedOrderly ==
  ASSUME NEW S, NEW T, NEW P, Orderly(S, P), S.notify # <<>>,
         T.queue = S.queue, T.cur = S.cur, T.nodes = S.nodes, T.notify = Tail(S.notify),
         Head(S.notify) \in Meters \cap DOMAIN S.nodes =>
           S.nodes[Head(S.notify)].stage <= Dynamic
  PROVE  Orderly(T, P)
<1>1. Rested(S)  BY DEF Orderly, Quiet
<1>2. T.notify \in Seq(Nodes) /\ ToSet(S.notify) = ToSet(T.notify) \cup {Head(S.notify)}
  <2>1. S.notify \in Seq(Nodes)  BY <1>1 DEF Rested
  <2> QED  BY <2>1, TailSet
<1>3. Followed(T, {}, {})  BY DEF Orderly, Followed
<1>4. Rested(T)  BY <1>1, <1>2 DEF Rested, Knows
<1>5. \A m : Asleep(T, m) <=> Asleep(S, m)  BY DEF Asleep
<1>6. Clear(S) => Clear(T)  BY <1>5 DEF Clear
<1>7. Met(S) => Met(T)  BY <1>2, <1>5 DEF Met
<1> QED  BY <1>3, <1>4, <1>6, <1>7 DEF Orderly, Quiet

\* A meter whose sleep is announced is taken back to its values.
LEMMA NotifyWatchersOrderly ==
  ASSUME AllGo(drv), NotifyWatchers, NEW P, Orderly(drv, P)
  PROVE  Orderly(drv', P)
<1> DEFINE n == Head(drv.notify)
           S == [drv EXCEPT !.notify = Tail(@)]
           Q == SetQueryStage(S, n, Dynamic)
<1>1. drv.notify # <<>> /\ drv' = IF n \in Meters \cap DOMAIN S.nodes THEN Q ELSE S
  BY DEF NotifyWatchers
<1>2. Typed(drv)  BY DEF AllGo
<1>3. /\ DOMAIN S = DOMAIN drv /\ S.nodes = drv.nodes /\ S.queue = drv.queue /\ S.cur = drv.cur
      /\ S.nextId = drv.nextId /\ S.notify = Tail(drv.notify)
  BY <1>2 DEF Typed, DriverFields
<1> HIDE DEF S
<1>4. Typed(S)  BY <1>2, <1>3 DEF Typed
<1>5. CASE n \notin Meters \cap DOMAIN S.nodes
  BY <1>1, <1>3, <1>5, AnnouncedOrderly
<1>6. CASE n \in Meters \cap DOMAIN S.nodes
  <2> DEFINE x == drv.nodes[n]
             y == [x EXCEPT !.stage = Dynamic, !.pending = FALSE]
             B == [drv EXCEPT !.nodes[n].stage = Dynamic, !.nodes[n].pending = FALSE]
             U == [S EXCEPT !.nodes[n].stage = Dynamic, !.nodes[n].pending = FALSE]
  <2>1. NodeOK(x, n) /\ (x.wake => x.info)  BY <1>2, <1>3, <1>6 DEF Typed, AllGo, Going, Pending
  <2>2. drv' = AdvanceQueries(IF Dynamic >= x.stage THEN S ELSE U, n)
    BY <1>1, <1>3, <1>6 DEF SetQueryStage
  <2>3. CASE Dynamic >= x.stage
    <3>1. x.stage <= Dynamic  BY <2>1, <2>3 DEF NodeOK, Dynamic, None, Complete
    <3>2. Orderly(S, P)  BY <1>1, <1>3, <3>1, AnnouncedOrderly
    <3> QED  BY <1>3, <1>4, <1>6, <2>1, <2>2, <2>3, <3>2, AdvanceOrderly
  <2>4. CASE ~(Dynamic >= x.stage)
    <3>1. /\ B.queue = drv.queue /\ B.cur = drv.cur /\ B.notify = drv.notify
          /\ B.nodes = [drv.nodes EXCEPT ![n] = y]
      BY <1>2 DEF Typed, DriverFields
    <3>2. /\ DOMAIN U = DOMAIN drv /\ U.queue = drv.queue /\ U.cur = drv.cur
          /\ U.nextId = drv.nextId
          /\ U.notify = Tail(drv.notify) /\ U.nodes = [drv.nodes EXCEPT ![n] = y]
      BY <1>2, <1>3 DEF Typed, DriverFields
    <3>3. /\ DOMAIN y = NodeFields /\ y.stage = Dynamic /\ y.retries = x.retries
          /\ y.errors = x.errors /\ y.waiting = x.waiting /\ y.wake = x.wake
          /\ y.info = x.info /\ y.awake = x.awake /\ y.listening = x.listening
      BY <2>1 DEF NodeOK, NodeFields
    <3> HIDE DEF B, U, y
    <3>4. Dynamic \in None..Complete /\ Dynamic <= Dynamic  BY DEF Dynamic, None, Complete
    <3>5. Orderly(B, P)
      <4>1. n \in DOMAIN drv.nodes  BY <1>3, <1>6
      <4>2. ~y.listening /\ y.wake /\ ~y.awake => Asleep(drv, n)  BY <3>3, <4>1 DEF Asleep
      <4> QED  BY <1>2, <3>1, <3>3, <3>4, <4>1, <4>2, NodeOrderly
    <3>6. B.nodes[n].stage <= Dynamic  BY <1>3, <1>6, <3>1, <3>3, <3>4
    <3>7. Orderly(U, P)  BY <1>1, <3>1, <3>2, <3>5, <3>6, AnnouncedOrderly
    <3>8. NodeOK(y, n)  BY <2>1, <3>3, <3>4 DEF NodeOK
    <3>9. Step(drv, U, n) /\ U.nodes[n] = y  BY <1>2, <1>3, <1>6, <3>2, <3>8, NodeStep
    <3>10. Typed(U) /\ n \in DOMAIN U.nodes /\ (U.nodes[n].wake => U.nodes[n].info)
      BY <1>3, <1>6, <2>1, <3>3, <3>9 DEF Step
    <3> QED  BY <2>2, <2>4, <3>7, <3>10, AdvanceOrderly
  <2> QED  BY <2>3, <2>4
<1> QED  BY <1>5, <1>6

\* All of it holds until a node falls asleep with items in the send queues.
Holds == IF crossed THEN {} ELSE Everything

LEMMA NextOrderly ==
  ASSUME AllGo(drv), NeverWaitsForNothing, Orderly(drv, Holds), [Next]_vars
  PROVE  Orderly(drv', Holds')
<1>0. Typed(drv)  BY DEF AllGo
<1>1. crossed' = crossed /\ Orderly(drv', Holds) => Orderly(drv', Holds')  BY DEF Holds
<1>2. CASE NotifyWatchers
  BY <1>1, <1>2, NotifyWatchersOrderly DEF NotifyWatchers, history
<1>3. CASE WriteNextMsg
  BY <1>0, <1>1, <1>3, WriteNextMsgOrderly DEF WriteNextMsg, Write, history
<1>4. CASE CompleteStage
  <2>1. Holds # {} => "clear" \in Holds  BY DEF Holds, Everything
  <2> QED  BY <1>1, <1>4, <2>1, CompleteStageOrderly DEF CompleteStage, history
<1>5. CASE Timeout
  BY <1>0, <1>1, <1>5, WriteMsgOrderly DEF Timeout, Write, history
<1>6. CASE ReadCan
  <2>1. drv.cur # NULL  BY <1>6 DEF ReadCan, NeverWaitsForNothing
  <2> QED  BY <1>1, <1>6, <2>1, ReadCanOrderly DEF ReadCan, Write, history
<1>7. ASSUME NEW f, ReadProtocolInfo(f) \/ ReadRoutingInfo(f) \/ ReadSendData(f)
                      \/ ReadCommand(f) \/ ReadUpdate(f)
      PROVE  Orderly(drv', Holds')
  <2>1. Orderly(drv', IF ReadSendData(f) THEN Holds \ {"clear"} ELSE Holds)
    BY <1>7, ReadOrderly
  <2>2. CASE ReadSendData(f)
    <3>1. crossed' = (crossed \/ ~Clear(drv'))  BY <2>2 DEF ReadSendData, Clear
    <3>2. Orderly(drv', Holds \ {"clear"})  BY <2>1, <2>2
    <3> QED  BY <3>1, <3>2 DEF Holds, Everything, Orderly, Quiet
  <2>3. CASE ~ReadSendData(f)
    <3>1. crossed' = crossed
      BY <1>7, <2>3 DEF ReadProtocolInfo, ReadRoutingInfo, ReadCommand, ReadUpdate
    <3> QED  BY <1>1, <2>1, <2>3, <3>1
  <2> QED  BY <2>2, <2>3
<1>8. ASSUME NEW n \in Nodes,
             WakeUpNotification(n) \/ NodeInfoSent(n) \/ ReportSent(n)
               \/ NewIdAssigned(n) \/ DeleteDone(n)
      PROVE  Orderly(drv', Holds')
  <2>1. crossed' = crossed
    BY <1>8 DEF WakeUpNotification, NodeInfoSent, ReportSent, NewIdAssigned, DeleteDone,
                Unsolicited, NodesChange
  <2> QED  BY <1>1, <1>8, <2>1, UnsolicitedOrderly
<1>9. CASE UNCHANGED vars  BY <1>9 DEF vars, Holds
<1> QED  BY <1>2, <1>3, <1>4, <1>5, <1>6, <1>7, <1>8, <1>9 DEF Next, ReadMsg

LEMMA OrderlySettled ==
  ASSUME AllGo(drv), NeverWaitsForNothing, NEW P, Orderly(drv, P)
  PROVE  StageSettled
<1> DEFINE x == drv.nodes[NextItem.node]
           T == TakeNext
           left == ToSet(x.waiting) \cup UNION {ToSet(T.queue[q]) : q \in Queues}
<1> SUFFICES ASSUME CanTakeNext, IsMark(NextItem),
                    NEW i \in left, i.cmd = "SendMsg", i.ask = Question(x.stage)
             PROVE  \E k \in left : Ends(k, i)
  BY DEF StageSettled, Ends, IsMark
<1>1. NextItem.node \in DOMAIN drv.nodes /\ T.nodes = drv.nodes
  BY TakeNextLeaves DEF AllGo
<1>2. Typed(T)  BY TakeNextLeaves DEF AllGo
<1>3. Orderly(T, P)  BY TakeNextOrderly DEF AllGo
<1> HIDE DEF T
<1>4. x.stage \in None..Complete  BY <1>1 DEF AllGo, Typed, NodeOK
<1>5. IsQuestion(i)
  BY <1>4 DEF IsQuestion, Question, NoMoreInformation, IntervalSet, None, Complete,
              ManufacturerSpecific1, ManufacturerSpecific2
<1>6. Followed(T, {}, {})  BY <1>3 DEF Orderly
<1>7. QueryQueue \in Queues  BY DEF QueryQueue, Queues
<1>8. CASE i \in ToSet(x.waiting)
  BY <1>1, <1>5, <1>6, <1>8 DEF Followed, Covered
<1>9. CASE \E q \in Queues \ {QueryQueue} : i \in ToSet(T.queue[q])
  BY <1>5, <1>6, <1>7, <1>9 DEF Followed, Covered
<1>10. CASE i \in ToSet(T.queue[QueryQueue])
  <2> DEFINE s == T.queue[QueryQueue]
  <2>1. s \in Seq(Items) /\ Behind(s, {})  BY <1>2, <1>6, <1>7 DEF Typed, Followed
  <2> HIDE DEF s
  <2>2. ToSet(s) = {s[a] : a \in 1..Len(s)}  BY <2>1, SeqSet
  <2>3. PICK a \in 1..Len(s) : i = s[a]  BY <1>10, <2>2 DEF s
  <2>4. PICK b \in 1..Len(s) : Ends(s[b], i)  BY <1>5, <2>1, <2>3 DEF Behind
  <2>5. s[b] \in ToSet(s)  BY <2>2
  <2> QED  BY <1>7, <2>4, <2>5 DEF s
<1> QED  BY <1>8, <1>9, <1>10

LEMMA AllOrderly == Spec => [](AllGo(drv) /\ NeverWaitsForNothing /\ Orderly(drv, Holds))
<1>1. Init => AllGo(drv) /\ Orderly(drv, Holds)
  BY InitAllGo, InitOrderly DEF Init, Holds
<1>2. AllGo(drv) /\ NeverWaitsForNothing /\ [Next]_vars => AllGo(drv)'  BY NextAllGo
<1>3. AllGo(drv) /\ NeverWaitsForNothing /\ Orderly(drv, Holds) /\ [Next]_vars
        => Orderly(drv, Holds)'
  BY NextOrderly
<1> QED  BY <1>1, <1>2, <1>3, WaitsForItsMessage, PTL DEF Spec

\* A stage is over only when its question is: when Driver::WriteNextMsg comes to
\* the QueryStageComplete item of a stage, the question was answered or given up
\* and is left in no queue, nor in the node if it slept meanwhile; or the question
\* was asked twice and the second one has an item of its own behind it.
THEOREM StagesSettle == Spec => []StageSettled
<1>1. AllGo(drv) /\ NeverWaitsForNothing /\ Orderly(drv, Holds) => StageSettled
  BY OrderlySettled
<1> QED  BY <1>1, AllOrderly, PTL

\* A meter that sleeps still has queries, so that its next wake-up brings its
\* values: its sleep is announced, idealoz takes it back to the dynamic stage,
\* which a meter does not pass without asking, and no stage of it ends while it
\* sleeps, unless a message crossed its falling asleep.
THEOREM SleepersAreAsked == Spec => []SleepingMeterAsked
<1>1. Orderly(drv, Holds) => SleepingMeterAsked
  <2>1. ~(Complete <= Dynamic)  BY DEF Dynamic, Complete
  <2> QED  BY <2>1 DEF Orderly, Quiet, Holds, Everything, Met, SleepingMeterAsked
<1> QED  BY <1>1, AllOrderly, PTL
=============================================================================
