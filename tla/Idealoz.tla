------------------------------ MODULE Idealoz ------------------------------
(***************************************************************************)
(* idealoz.cpp, the listener for Z-Wave sensors, together with the part of *)
(* the OpenZWave driver it listens to.                                     *)
(*                                                                         *)
(* The driver thread alternates between turns, in which a message of the   *)
(* controller changes m_nodes and queues notifications, and deliveries:    *)
(* NotifyWatchers empties the queue into OnNotification before the next    *)
(* message is read.  OnNotification keeps a table of nodes and follows     *)
(* nodes[id] without looking whether there is an entry.                    *)
(*                                                                         *)
(* Left out, as nothing reads them: needsave, noop, cmode, the modified    *)
(* and changed marks, the list of removed nodes and the groups.            *)
(***************************************************************************)
EXTENDS Integers, SequencesExt

CONSTANTS
  NodeIds,     \* ids a node of the network may have
  Values,      \* ValueIDs of one node, ordered as numbers
  MaxId,       \* the largest of these numbers
  Data,        \* what a value may read
  Unset,       \* a value that was never read
  Notices,     \* kinds of notification that only touch the entry of a node
  MaxResends,  \* bound: times the request for the init data is sent again
  MaxSteps     \* bound: steps of turns after initialisation

ASSUME IdealozAssumption ==
  /\ NodeIds \subseteq 1..254 /\ MaxId \in Nat
  /\ NodeIds \cup Values \subseteq 1..MaxId
  /\ Unset \notin Data
  /\ Notices \subseteq {"NodeProtocolInfo", "NodeNaming", "NodeEvent", "Group",
       "EssentialNodeQueriesComplete", "NodeQueriesComplete", "Awake", "Sleep", "Dead"}
  /\ MaxResends \in Nat /\ MaxSteps \in Nat

VARIABLES
  saved,     \* zwcfg: the nodes and values known at the last exit
  network,   \* the nodes the controller knows
  phase,     \* the driver: "opening", "open" or "failed"
  m_init,    \* the init data was received
  asked,     \* answers to the request for the init data on their way
  m_nodes,   \* the driver's nodes: the data of their values
  m_notifications,
  turn,      \* the node a turn is about, or 0 when deliveries have begun
  watching,  \* AddWatcher was called
  nodes,     \* idealoz: the entries that are not NULL, each a list of values
  nodecount,
  posted,    \* what was last posted for a value
  crashed,   \* a NULL entry was followed
  resends, steps,  \* counters
  missed     \* history: a notification found no watcher

driverVars == <<saved, network, phase, m_init, asked, m_nodes, turn, resends, steps>>
tableVars == <<nodes, nodecount, posted, crashed>>
vars == <<driverVars, tableVars, m_notifications, watching, missed>>

-----------------------------------------------------------------------------
(* The driver: nodes and the notifications their changes queue. *)

Note(type, n) == <<[type |-> type, node |-> n]>>
ValueNote(type, n, v) == <<[type |-> type, node |-> n, value |-> v]>>
Driver(type) == <<[type |-> type]>>

\* What a loop over the ids, which go up, queues: lists[k] in the round for k.
InOrder(lists) ==
  LET upto[k \in 0..MaxId] ==
        IF k = 0 THEN <<>>
        ELSE upto[k - 1] \o (IF k \in DOMAIN lists THEN lists[k] ELSE <<>>)
  IN  upto[MaxId]

Without(f, n) == [m \in DOMAIN f \ {n} |-> f[m]]
With(f, n, x) == [m \in DOMAIN f \cup {n} |-> IF m = n THEN x ELSE f[m]]

\* Mutant: the removal of the node is queued before those of its values.
DeletionNodeFirst(n, values) ==
  Note("NodeRemoved", n) \o InOrder([v \in values |-> ValueNote("ValueRemoved", n, v)])

\* delete m_nodes[n]: the destructor removes the values, the caller then
\* queues the removal of the node.
Deletion(n, values) ==
  InOrder([v \in values |-> ValueNote("ValueRemoved", n, v)]) \o Note("NodeRemoved", n)

ValuesOf(n) == IF n \in DOMAIN m_nodes THEN DOMAIN m_nodes[n] ELSE {}

Init ==
  /\ saved \in UNION {[S -> SUBSET Values] : S \in SUBSET NodeIds}
  /\ network \in SUBSET NodeIds
  /\ phase = "opening" /\ m_init = FALSE /\ asked = 0
  /\ m_nodes = <<>> /\ m_notifications = <<>> /\ turn = 0
  /\ watching = FALSE /\ missed = FALSE
  /\ nodes = <<>> /\ nodecount = 0
  /\ posted = [x \in NodeIds \X Values |-> Unset]
  /\ crashed = FALSE
  /\ resends = 0 /\ steps = 0

\* The controller is opened and asked for its data, or the driver gives up.
OpenController ==
  /\ phase = "opening"
  /\ \/ /\ phase' = "open" /\ asked' = 1
        /\ UNCHANGED m_notifications
     \/ /\ phase' = "failed"
        /\ m_notifications' = m_notifications \o Driver("DriverFailed")
        /\ UNCHANGED asked
  /\ UNCHANGED <<saved, network, m_init, m_nodes, turn, resends, steps, watching, missed,
                 tableVars>>

\* The wait for the answer times out and the request is written again; the
\* answer may only be late.
Resend ==
  /\ asked > 0 /\ ~m_init /\ resends < MaxResends /\ ~crashed
  /\ asked' = asked + 1
  /\ resends' = resends + 1
  /\ UNCHANGED <<saved, network, phase, m_init, m_nodes, turn, steps, m_notifications,
                 watching, missed, tableVars>>

\* ReadConfig: the nodes of zwcfg with their values.
Known == IF m_init THEN m_nodes
         ELSE [n \in DOMAIN saved |-> [v \in saved[n] |-> Unset]]
ReadConfig ==
  InOrder([n \in DOMAIN saved |->
    Note("NodeAdded", n) \o InOrder([v \in saved[n] |-> ValueNote("ValueAdded", n, v)])])

\* A bit of the controller's bit field: the node is new or known, or it is known
\* and deleted.
NodeBit(n) ==
  CASE n \notin DOMAIN Known -> Note("NodeNew", n) \o Note("NodeAdded", n)
    [] n \notin network -> Deletion(n, DOMAIN Known[n])
    [] OTHER -> <<>>

HandleSerialAPIGetInitDataResponse ==
  /\ asked > 0 /\ m_notifications = <<>> /\ ~crashed
  /\ asked' = asked - 1
  /\ m_init' = TRUE
  /\ m_nodes' = [n \in network |-> IF n \in DOMAIN Known THEN Known[n] ELSE <<>>]
  /\ m_notifications' =
       (IF m_init THEN Driver("DriverReset") ELSE Driver("DriverReady") \o ReadConfig)
       \o InOrder([n \in network \cup DOMAIN Known |-> NodeBit(n)])
  /\ turn' = 0
  /\ UNCHANGED <<saved, network, phase, resends, steps, watching, missed, tableVars>>

\* A turn about node n begins once everything was delivered, and may go on.
Turn(n) ==
  /\ m_init /\ ~crashed /\ steps < MaxSteps
  /\ m_notifications = <<>> \/ turn = n
  /\ turn' = n
  /\ steps' = steps + 1
  /\ UNCHANGED <<saved, phase, m_init, asked, resends, watching, missed, tableVars>>

\* UPDATE_STATE_NEW_ID_ASSIGNED: InitNode deletes an existing node.
NewIdAssigned(n) ==
  /\ Turn(n)
  /\ network' = network \cup {n}
  /\ m_nodes' = With(m_nodes, n, <<>>)
  /\ m_notifications' = m_notifications
       \o (IF n \in DOMAIN m_nodes THEN Deletion(n, ValuesOf(n)) ELSE <<>>)
       \o Note("NodeAdded", n)

\* UPDATE_STATE_DELETE_DONE, for a node that may be unknown.
DeleteDone(n) ==
  /\ Turn(n)
  /\ network' = network \ {n}
  /\ m_nodes' = Without(m_nodes, n)
  /\ m_notifications' = m_notifications \o Deletion(n, ValuesOf(n))

\* ValueStore: a value is added unless it is there, or removed.
AddValue(n, v) ==
  /\ Turn(n) /\ n \in DOMAIN m_nodes /\ v \notin ValuesOf(n)
  /\ m_nodes' = [m_nodes EXCEPT ![n] = With(@, v, Unset)]
  /\ m_notifications' = m_notifications \o ValueNote("ValueAdded", n, v)
  /\ UNCHANGED network
RemoveValue(n, v) ==
  /\ Turn(n) /\ v \in ValuesOf(n)
  /\ m_nodes' = [m_nodes EXCEPT ![n] = Without(@, v)]
  /\ m_notifications' = m_notifications \o ValueNote("ValueRemoved", n, v)
  /\ UNCHANGED network

\* VerifyRefreshedValue: a first or a different reading is a change; the same
\* reading again is one unless changes are verified.
RefreshValue(n, v, d) ==
  /\ Turn(n) /\ v \in ValuesOf(n)
  /\ m_nodes' = [m_nodes EXCEPT ![n][v] = d]
  /\ \E type \in {"ValueChanged"} \cup (IF d = m_nodes[n][v] THEN {"ValueRefreshed"} ELSE {}) :
       m_notifications' = m_notifications \o ValueNote(type, n, v)
  /\ UNCHANGED network

\* The other notifications about a node the driver knows.
Notice(n, t) ==
  /\ Turn(n) /\ n \in DOMAIN m_nodes
  /\ m_notifications' = m_notifications \o Note(t, n)
  /\ UNCHANGED <<network, m_nodes>>

-----------------------------------------------------------------------------
(* idealoz: the table of nodes. *)

\* Mutant: the value is not erased.
removeValueKeep(values, v) == values
removeValue(values, v) == RemoveFirst(values, v)

\* std::sort: each value as often as it is in the list.
sortValues(values) ==
  InOrder([v \in ToSet(values) |->
    [i \in 1..Cardinality({j \in DOMAIN values : values[j] = v}) |-> v]])

\* MyNode::remove, for each node of S.
MyNodeRemove(S) ==
  /\ nodes' = [n \in DOMAIN nodes \ S |-> nodes[n]]
  /\ nodecount' = nodecount - Cardinality(DOMAIN nodes \cap S)

\* Mutant: a value is posted once.
PostOnce(n, v) ==
  posted' = [posted EXCEPT ![<<n, v>>] = IF @ = Unset THEN m_nodes[n][v] ELSE @]

\* The data is read when the notification is delivered, and curl is waited for.
Post(n, v) == posted' = [posted EXCEPT ![<<n, v>>] = m_nodes[n][v]]

\* nodes[id]->...: the entry of e.node becomes x.
Follow(e, x) ==
  IF e.node \in DOMAIN nodes
  THEN nodes' = [nodes EXCEPT ![e.node] = x] /\ UNCHANGED <<nodecount, crashed>>
  ELSE crashed' = TRUE /\ UNCHANGED <<nodes, nodecount>>

Entry(e) == IF e.node \in DOMAIN nodes THEN nodes[e.node] ELSE <<>>

OnValueAdded(e) ==
  /\ e.type = "ValueAdded"
  /\ Follow(e, Append(Entry(e), e.value))
  /\ UNCHANGED posted
OnValueRemoved(e) ==
  /\ e.type = "ValueRemoved"
  /\ Follow(e, removeValue(Entry(e), e.value))
  /\ UNCHANGED posted
OnValueChanged(e) ==
  /\ e.type = "ValueChanged"
  /\ Post(e.node, e.value)
  /\ Follow(e, Entry(e))

\* new MyNode: an entry that is already there is overwritten, and counted again.
OnNodeAdded(e) ==
  /\ e.type = "NodeAdded"
  /\ nodes' = With(nodes, e.node, <<>>)
  /\ nodecount' = nodecount + 1
  /\ UNCHANGED <<posted, crashed>>
OnNodeRemoved(e) ==
  /\ e.type = "NodeRemoved"
  /\ MyNodeRemove({e.node})
  /\ UNCHANGED <<posted, crashed>>

\* DriverFailed and DriverReset remove every node.
OnDriverGone(e) ==
  /\ e.type \in {"DriverFailed", "DriverReset"}
  /\ MyNodeRemove(NodeIds)
  /\ UNCHANGED <<posted, crashed>>
OnDriverReady(e) == e.type = "DriverReady" /\ UNCHANGED tableVars
OnNodeNew(e) == e.type = "NodeNew" /\ UNCHANGED tableVars

OnNodeQueriesComplete(e) ==
  /\ e.type = "NodeQueriesComplete"
  /\ Follow(e, sortValues(Entry(e)))
  /\ UNCHANGED posted

\* The notifications that only mark the entry.  A node event is posted as well,
\* with an empty value: its ValueID names none.
OnNotice(e) ==
  /\ e.type \in (Notices \cup {"ValueRefreshed"}) \ {"NodeQueriesComplete"}
  /\ Follow(e, Entry(e))
  /\ UNCHANGED posted

OnNotification(e) ==
  \/ OnValueAdded(e) \/ OnValueRemoved(e) \/ OnValueChanged(e)
  \/ OnNodeAdded(e) \/ OnNodeRemoved(e) \/ OnNodeNew(e)
  \/ OnDriverReady(e) \/ OnDriverGone(e)
  \/ OnNodeQueriesComplete(e) \/ OnNotice(e)

\* Changes of a value that is gone are dropped.
Stale(e) ==
  /\ e.type \in {"ValueChanged", "ValueRefreshed"}
  /\ e.value \notin ValuesOf(e.node)

\* NotifyWatchers, one notification.  The sleep of a meter makes the driver
\* query it again, which may complete at once.
NotifyWatchers ==
  /\ m_notifications # <<>> /\ ~crashed
  /\ LET e == Head(m_notifications)
     IN  /\ IF watching /\ ~Stale(e) THEN OnNotification(e) ELSE UNCHANGED tableVars
         /\ \/ m_notifications' = Tail(m_notifications)
            \/ /\ watching /\ e.type = "Sleep" /\ e.node \in DOMAIN m_nodes
               /\ m_notifications' =
                    Tail(m_notifications) \o Note("NodeQueriesComplete", e.node)
         /\ missed' = (missed \/ ~watching)
  /\ turn' = 0
  /\ UNCHANGED <<saved, network, phase, m_init, asked, m_nodes, resends, steps, watching>>

\* The main thread calls AddWatcher after AddDriver, and then sleeps for ever.
AddWatcher ==
  /\ ~watching
  /\ watching' = TRUE
  /\ UNCHANGED <<driverVars, m_notifications, missed, tableVars>>

Next ==
  \/ AddWatcher
  \/ OpenController \/ Resend \/ HandleSerialAPIGetInitDataResponse
  \/ \E n \in NodeIds :
       \/ NewIdAssigned(n) \/ DeleteDone(n)
       \/ \E v \in Values : AddValue(n, v) \/ RemoveValue(n, v)
       \/ \E v \in Values, d \in Data : RefreshValue(n, v, d)
       \/ \E t \in Notices : Notice(n, t)
  \/ NotifyWatchers

Spec == Init /\ [][Next]_vars

-----------------------------------------------------------------------------
(* Properties. *)

\* The driver and the table hold nodes of the network with their values.
TypeOK ==
  /\ DOMAIN m_nodes \subseteq NodeIds /\ DOMAIN nodes \subseteq NodeIds
  /\ \A n \in DOMAIN m_nodes : m_nodes[n] \in UNION {[S -> Data \cup {Unset}] : S \in SUBSET Values}
  /\ \A n \in DOMAIN nodes : nodes[n] \in Seq(Values)
  /\ nodecount \in Nat
  /\ posted \in [NodeIds \X Values -> Data \cup {Unset}]
  /\ asked \in Nat

\* The watcher heard every notification, and the init data came only once.
Undisturbed == ~missed /\ resends = 0

\* OnNotification follows nodes[id] unchecked; that is safe because the driver
\* announces a node before anything else about it and its removal after it.
NeverFollowsNull == Undisturbed => ~crashed

\* Whenever every notification was delivered, the table of idealoz is the
\* driver's: the same nodes, each with the same values, none twice.
TableMirrorsDriver ==
  Undisturbed /\ m_notifications = <<>> =>
    /\ DOMAIN nodes = DOMAIN m_nodes
    /\ nodecount = Cardinality(DOMAIN nodes)
    /\ \A n \in DOMAIN nodes :
         /\ ToSet(nodes[n]) = DOMAIN m_nodes[n]
         /\ Len(nodes[n]) = Cardinality(DOMAIN m_nodes[n])

\* Although a value is read only when its change is delivered, and changes of
\* removed values are dropped, the last reading posted for a value is its
\* present one.
PostedIsPresent ==
  Undisturbed /\ m_notifications = <<>> =>
    \A n \in DOMAIN m_nodes : \A v \in DOMAIN m_nodes[n] :
      m_nodes[n][v] # Unset => posted[<<n, v>>] = m_nodes[n][v]
=============================================================================
