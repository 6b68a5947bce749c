-------------------------- MODULE IdealServerProofs --------------------------
(***************************************************************************)
(* Proofs about IdealServer, for every environment of env.json, every set  *)
(* of packets, every buffer size, and any number of lines and restarts.    *)
(***************************************************************************)
EXTENDS IdealServer, FiniteSetTheorems, SequenceTheorems, TLAPS

-----------------------------------------------------------------------------
(* Operators. *)

\* What sendJSON is given for a packet it accepts is a reading.
LEMMA MakeReadingType ==
  ASSUME NEW p \in Packet, NEW previous \in Int \cup {Undefined}, NEW n \in Nat,
         Accepts(p)
  PROVE  MakeReading(p, previous, n) \in Reading
<1>1. Fields(p, previous) \in Int \X Int
  <2>1. ClampTemperature(p.val0) \in Int /\ ClampTemperature(p.val1) \in Int
    BY DEF Packet, ClampTemperature
  <2>2. GasPulse(previous, p) \in Int
    BY PacketAssumption DEF Packet, GasPulse, JsRem
  <2> QED  BY <2>1, <2>2 DEF Packet, Fields
<1>2. p.node_id + HomeOffset \in Nat
  BY PacketAssumption DEF Packet
<1>3. p.packet_type \in 1..7
  BY DEF Forwarded, TEMP_HUM, CURRENT, CLAMPS, LIGHT, GAS, BATTERY, Accepts
<1> QED  BY <1>1, <1>2, <1>3 DEF MakeReading, Reading, Packet, Accepts

\* A set of two numbers has a least and a greatest one.
LEMMA MinMaxOfPair ==
  ASSUME NEW S \in SUBSET Nat, IsFiniteSet(S), Cardinality(S) = 2
  PROVE  Min(S) \in Nat /\ Max(S) \in Nat
<1>1. PICK a \in S : TRUE
  <2>1. S # {}
    BY FS_EmptySet
  <2> QED  BY <2>1
<1>2. IsFiniteSet(S \ {a}) /\ Cardinality(S \ {a}) = 1
  BY <1>1, FS_RemoveElement
<1>3. PICK b : S \ {a} = {b}
  BY <1>2, FS_Singleton
<1>4. S = {a, b}
  BY <1>1, <1>3
<1>5. \E x \in S : \A y \in S : x <= y
  BY <1>4
<1>6. \E x \in S : \A y \in S : x >= y
  BY <1>4
<1> QED  BY <1>5, <1>6 DEF Min, Max

\* The mapping check yields a mapping.
LEMMA CheckMappingsType ==
  ASSUME NEW readings \in Seq(Reading), NEW map \in ClampMap
  PROVE  CheckMappings(readings, map) \in ClampMap
<1> DEFINE ids == GroupIds(readings)
<1>1. ids \subseteq Nat
  <2>1. \A i \in Electric(readings) : readings[i] \in Reading
    BY ElementOfSeq, LenProperties DEF Electric
  <2> QED  BY <2>1 DEF GroupIds, Reading
<1>2. IsFiniteSet(ids)
  <2> DEFINE node == [i \in Electric(readings) |-> readings[i].node_id]
  <2>1. Electric(readings) \subseteq 1..Len(readings) /\ Len(readings) \in Nat
    BY LenProperties DEF Electric
  <2>2. IsFiniteSet(Electric(readings))
    <3>1. IsFiniteSet(1..Len(readings))
      BY <2>1, FS_Interval
    <3> QED  BY <2>1, <3>1, FS_Subset
  <2>3. node \in Surjection(Electric(readings), ids)
    BY DEF Surjection, GroupIds
  <2> QED  BY <2>2, <2>3, FS_Surjection
<1>3. CASE Cardinality(ids) # 2
  BY <1>3 DEF CheckMappings
<1>4. CASE Cardinality(ids) = 2
  <2>1. Min(ids) \in Nat /\ Max(ids) \in Nat
    BY <1>1, <1>2, <1>4, MinMaxOfPair
  <2>2. \A a, b \in Nat : Assign(a, b) \in ClampMap
    BY DEF Assign, ClampMap
  <2> QED  BY <1>4, <2>1, <2>2 DEF CheckMappings, ids
<1> QED  BY <1>3, <1>4

\* Changing every element of a sequence within its type keeps a sequence.
LEMMA Rewritten ==
  ASSUME NEW S, NEW s \in Seq(S), NEW t, DOMAIN t = DOMAIN s,
         t = [k \in DOMAIN s |-> t[k]], \A k \in DOMAIN s : t[k] \in S
  PROVE  t \in Seq(S) /\ Len(t) = Len(s)
<1>1. Len(s) \in Nat /\ DOMAIN s = 1..Len(s)
  BY LenProperties
<1>2. t \in [1..Len(s) -> S]
  BY <1>1
<1>3. t \in Seq(S)
  BY <1>1, <1>2, SeqDef
<1> QED  BY <1>1, <1>3, LenProperties

-----------------------------------------------------------------------------
(* Type correctness. *)

SaveTypes ==
  /\ SaveJSONBuffer \in Seq(SUBSET Reading)
  /\ SaveBufferCount \in Nat
  /\ writes \in Seq(Write)
  /\ calm \subseteq Nat

SendTypes ==
  /\ JSONbuffer \in Seq(Reading)
  /\ JSONcount \in Nat
  /\ timer \in BOOLEAN
  /\ clamps \in ClampMap
  /\ batches \in Seq(Batch)
  /\ sent \in Seq(Nat)
  /\ SaveTypes

LEMMA SaveJSONbufferedType ==
  ASSUME SaveTypes, NEW data \in SUBSET Reading, SaveJSONbuffered(data)
  PROVE  SaveTypes'
<1>1. Append(SaveJSONBuffer, data) \in Seq(SUBSET Reading)
  BY DEF SaveTypes
<1>2. writes' \in Seq(Write)
  <2>1. [items |-> Append(SaveJSONBuffer, data), outcome |-> "writing"] \in Write
    BY <1>1 DEF Write, Outcome
  <2> QED  BY <2>1 DEF SaveTypes, SaveJSONbuffered
<1>3. calm' \subseteq Nat
  <2>1. {r.id : r \in data} \subseteq Nat
    BY DEF Reading
  <2> QED  BY <2>1 DEF SaveTypes, SaveJSONbuffered
<1>4. SaveBufferCount' \in Nat
  BY DEF SaveTypes, SaveJSONbuffered
<1> QED  BY <1>1, <1>2, <1>3, <1>4 DEF SaveTypes, SaveJSONbuffered

LEMMA SendBufferType ==
  ASSUME SendTypes, NEW readings \in Seq(Reading), SendBuffer(readings),
         homeID' \in Homes \cup {Unknown}, UNCHANGED timer
  PROVE  SendTypes'
<1>1. JSONbuffer' \in Seq(Reading) /\ JSONcount' \in Nat /\ timer' \in BOOLEAN
  BY DEF SendBuffer, SendTypes, ResetBuffer
<1>2. batches' \in Seq(Batch)
  <2>1. [readings |-> readings,
         stage |-> IF config.compress THEN "deflating" ELSE "sending",
         homeid |-> homeID'] \in Batch
    BY DEF Batch, Stage
  <2> QED  BY <2>1 DEF SendBuffer, SendTypes
<1>5. sent' \in Seq(Nat)
  <2>1. Len(batches) + 1 \in Nat
    BY LenProperties DEF SendTypes
  <2> QED  BY <2>1 DEF SendBuffer, SendTypes
<1>3. clamps' \in ClampMap
  BY CheckMappingsType DEF SendBuffer, SendTypes, AggregateIfRequired
<1>4. SaveTypes'
  <2>1. Savable(readings) \in SUBSET Reading
    BY ElementOfSeq, LenProperties DEF Savable
  <2>2. CASE SaveJSONbuffered(Savable(readings))
    BY <2>1, <2>2, SaveJSONbufferedType DEF SendTypes
  <2>3. CASE UNCHANGED saveVars
    BY <2>3 DEF SendTypes, SaveTypes, saveVars
  <2> QED  BY <2>2, <2>3 DEF SendBuffer
<1> QED  BY <1>1, <1>2, <1>3, <1>4, <1>5 DEF SendTypes

LEMMA SendJSONType ==
  ASSUME SendTypes, accepted \in Nat, shell \subseteq Command,
         NEW r \in Reading, SendJSON(r)
  PROVE  /\ SendTypes'
         /\ accepted' \in Nat
         /\ homeID' \in Homes
         /\ shell' \subseteq Command
         /\ echoFailed \in BOOLEAN => echoFailed' \in BOOLEAN
<1>1. /\ accepted' \in Nat /\ homeID' \in Homes /\ shell' \subseteq Command
      /\ echoFailed \in BOOLEAN => echoFailed' \in BOOLEAN
  <2>1. r.home_id \in Homes /\ HomeCommands(r) \subseteq Command
    BY DEF Reading, Command, HomeCommands
  <2>2. LearnHome(r) /\ accepted' = accepted + 1
    BY DEF SendJSON
  <2>3. shell' \subseteq Command
    BY <2>1, <2>2 DEF LearnHome
  <2>4. echoFailed' \in {FALSE, echoFailed}
    BY <2>2 DEF LearnHome
  <2>5. echoFailed \in BOOLEAN => echoFailed' \in BOOLEAN
    BY <2>4
  <2>6. homeID' \in Homes
    BY <2>1, <2>2 DEF LearnHome
  <2> QED  BY <2>2, <2>3, <2>5, <2>6
<1>2. Append(JSONbuffer, r) \in Seq(Reading)
  BY DEF SendTypes
<1>3. CASE config.JSONbuffertime
  BY <1>1, <1>2, <1>3 DEF SendJSON, SendTypes, SaveTypes, saveVars, sendVars
<1>4. CASE ~config.JSONbuffertime /\ config.JSONbuffersize # 0
  <2>1. SendJSONbuffered(r)
    BY <1>4 DEF SendJSON
  <2>2. CASE JSONcount + 1 >= config.JSONbuffersize
    BY <1>1, <1>2, <2>1, <2>2, SendBufferType DEF SendJSONbuffered
  <2>3. CASE ~(JSONcount + 1 >= config.JSONbuffersize)
    <3>1. /\ JSONbuffer' = Append(JSONbuffer, r) /\ JSONcount' = JSONcount + 1
          /\ UNCHANGED <<sendVars, clamps, saveVars, timer>>
      BY <2>1, <2>3 DEF SendJSONbuffered
    <3> QED  BY <1>1, <1>2, <3>1 DEF SendTypes, SaveTypes, saveVars, sendVars
  <2> QED  BY <2>2, <2>3
<1>5. CASE ~config.JSONbuffertime /\ config.JSONbuffersize = 0
  <2>1. PostReading(r)
    BY <1>5 DEF SendJSON
  <2>2. [readings |-> <<r>>, stage |-> "sending", homeid |-> homeID'] \in Batch
    BY <1>1 DEF Batch, Stage
  <2>3. Len(batches) + 1 \in Nat
    BY LenProperties DEF SendTypes
  <2> QED  BY <1>1, <2>1, <2>2, <2>3 DEF PostReading, SendTypes, SaveTypes, saveVars
<1> QED  BY <1>1, <1>3, <1>4, <1>5

LEMMA InitType == Init => TypeOK
<1> SUFFICES ASSUME Init PROVE TypeOK
  OBVIOUS
<1>1. DefaultMap \in ClampMap
  BY DEF DefaultMap, ClampMap
<1>2. previousGas \in [{p.node_id : p \in Packets} -> Int \cup {Undefined}]
  BY DEF Init
<1>3. timer \in BOOLEAN
  BY DEF Init
<1>4. /\ JSONbuffer \in Seq(Reading) /\ SaveJSONBuffer \in Seq(SUBSET Reading)
      /\ batches \in Seq(Batch) /\ writes \in Seq(Write) /\ sent \in Seq(Nat)
  BY EmptySeq DEF Init
<1> QED  BY <1>1, <1>2, <1>3, <1>4 DEF Init, TypeOK

LEMMA NextType == TypeOK /\ [Next]_vars => TypeOK'
<1> SUFFICES ASSUME TypeOK, [Next]_vars PROVE TypeOK'
  OBVIOUS
<1>a. SendTypes
  BY DEF TypeOK, SendTypes, SaveTypes
<1>1. ASSUME NEW p \in Packets, OnData(p)
      PROVE  TypeOK'
  <2>1. p \in Packet /\ p.val1 \in Int /\ p.node_id \in {q.node_id : q \in Packets}
    BY ServerAssumption DEF Packet
  <2>2. previousGas[p.node_id] \in Int \cup {Undefined}
    BY <2>1 DEF TypeOK
  <2>3. previousGas' \in [{q.node_id : q \in Packets} -> Int \cup {Undefined}]
    BY <1>1, <2>1 DEF OnData, TypeOK
  <2>4. CASE Accepts(p)
    <3> DEFINE r == MakeReading(p, previousGas[p.node_id], accepted + 1)
    <3>1. r \in Reading
      <4>1. accepted + 1 \in Nat
        BY DEF TypeOK
      <4> QED  BY <2>1, <2>2, <2>4, <4>1, MakeReadingType
    <3>2. SendJSON(r)
      BY <1>1, <2>4 DEF OnData
    <3> HIDE DEF r
    <3>3. /\ SendTypes' /\ accepted' \in Nat /\ homeID' \in Homes /\ shell' \subseteq Command
          /\ echoFailed' \in BOOLEAN
      BY <1>a, <3>1, <3>2, SendJSONType DEF TypeOK
    <3> QED  BY <1>1, <2>3, <3>3 DEF OnData, TypeOK, SendTypes, SaveTypes
  <2>5. CASE ~Accepts(p)
    <3>1. UNCHANGED <<homeID, JSONbuffer, JSONcount, timer, clamps, saveVars,
                      shell, echoFailed, sendVars, accepted>>
      BY <1>1, <2>5 DEF OnData
    <3> QED  BY <1>1, <2>3, <3>1 DEF OnData, TypeOK, saveVars, sendVars
  <2> QED  BY <2>4, <2>5
<1>2. CASE OnJunk
  BY <1>2 DEF OnJunk, TypeOK, vars, loopVars, saveVars, fileVars, sendVars, histVars
<1>3. CASE OnNull
  BY <1>3 DEF OnNull, TypeOK, loopVars, saveVars, fileVars, sendVars
<1>4. CASE TimerTick
  <2>1. SendTypes'
    BY <1>a, <1>4, SendBufferType DEF TimerTick, TypeOK
  <2> QED  BY <1>4, <2>1 DEF TimerTick, TypeOK, SendTypes, SaveTypes, fileVars
<1>5. ASSUME NEW k \in DOMAIN batches, DeflateDone(k)
      PROVE  TypeOK'
  <2>1. k \in 1..Len(batches) /\ batches[k] \in Batch
    BY ElementOfSeq, LenProperties DEF TypeOK
  <2>2. batches' \in Seq(Batch)
    <3>1. [batches[k] EXCEPT !.stage = "sending", !.homeid = homeID] \in Batch
      BY <2>1 DEF TypeOK, Batch, Stage
    <3>2. [batches[k] EXCEPT !.stage = "failed"] \in Batch
      BY <2>1 DEF Batch, Stage
    <3>3. \/ batches' = [batches EXCEPT ![k] = [batches[k] EXCEPT !.stage = "sending", !.homeid = homeID]]
          \/ batches' = [batches EXCEPT ![k] = [batches[k] EXCEPT !.stage = "failed"]]
      BY <1>5 DEF DeflateDone
    <3>4. \A b \in Batch : [batches EXCEPT ![k] = b] \in Seq(Batch)
      BY <2>1, ExceptSeq DEF TypeOK
    <3> QED  BY <3>1, <3>2, <3>3, <3>4
  <2>3. clamps' \in ClampMap
    BY <1>5, <2>1, CheckMappingsType DEF DeflateDone, TypeOK, AggregateIfRequired, Batch
  <2>4. sent' \in Seq(Nat)
    <3>1. k \in Nat
      BY <2>1
    <3>2. Append(sent, k) \in Seq(Nat)
      BY <3>1 DEF TypeOK
    <3> QED  BY <1>5, <3>2 DEF DeflateDone, TypeOK
  <2> QED  BY <1>5, <2>2, <2>3, <2>4 DEF DeflateDone, TypeOK, saveVars, fileVars, histVars
<1>6. ASSUME NEW k \in DOMAIN batches, NEW s \in {"delivered", "failed"}, SendDone(k, s)
      PROVE  TypeOK'
  <2>1. k \in 1..Len(batches) /\ batches[k] \in Batch
    BY ElementOfSeq, LenProperties DEF TypeOK
  <2>2. [batches[k] EXCEPT !.stage = s] \in Batch
    BY <2>1 DEF Batch, Stage
  <2>3. batches' \in Seq(Batch)
    BY <1>6, <2>1, <2>2, ExceptSeq DEF SendDone, TypeOK
  <2> QED  BY <1>6, <2>3 DEF SendDone, TypeOK, loopVars, saveVars, fileVars, histVars
<1>7. ASSUME NEW k \in DOMAIN writes, NEW o \in {"saved", "failed"}, WriteDone(k, o)
      PROVE  TypeOK'
  <2>1. k \in 1..Len(writes) /\ writes[k] \in Write
    BY ElementOfSeq, LenProperties DEF TypeOK
  <2>2. [writes[k] EXCEPT !.outcome = o] \in Write
    BY <2>1 DEF Write, Outcome
  <2>3. writes' \in Seq(Write)
    BY <1>7, <2>1, <2>2, ExceptSeq DEF WriteDone, TypeOK
  <2> QED  BY <1>7, <2>3 DEF WriteDone, TypeOK, loopVars, fileVars, sendVars, histVars
<1>8. ASSUME NEW c \in shell, ExecDone(c)
      PROVE  TypeOK'
  <2>1. c.home \in Homes
    BY DEF TypeOK, Command
  <2>2. homefile' \in Homes \cup {NoHome} /\ prompt' \in Homes \cup {HostName}
    BY <1>8, <2>1 DEF ExecDone, TypeOK
  <2>3. echoFailed' \in BOOLEAN
    BY <1>8 DEF ExecDone
  <2> QED  BY <1>8, <2>2, <2>3 DEF ExecDone, TypeOK, loopVars, saveVars, sendVars, histVars
<1>9. CASE UncaughtException
  BY <1>9 DEF UncaughtException, TypeOK, loopVars, saveVars, fileVars, sendVars
<1>10. CASE KillTimer
  <2>1. batches' \in Seq(Batch)
    <3>1. /\ DOMAIN batches' = DOMAIN batches
          /\ batches' = [k \in DOMAIN batches |-> batches'[k]]
          /\ \A k \in DOMAIN batches : batches'[k] \in Batch
      <4>1. \A k \in DOMAIN batches : batches[k] \in Batch
        BY ElementOfSeq, LenProperties DEF TypeOK
      <4>2. \A b \in Batch : \A t \in Stage : [b EXCEPT !.stage = t] \in Batch
        BY DEF Batch
      <4> QED  BY <1>10, <4>1, <4>2 DEF KillTimer, Stage
    <3> QED  BY <3>1, Rewritten DEF TypeOK
  <2>2. writes' \in Seq(Write)
    <3>1. /\ DOMAIN writes' = DOMAIN writes
          /\ writes' = [k \in DOMAIN writes |-> writes'[k]]
          /\ \A k \in DOMAIN writes : writes'[k] \in Write
      <4>1. \A k \in DOMAIN writes : writes[k] \in Write
        BY ElementOfSeq, LenProperties DEF TypeOK
      <4>2. \A w \in Write : \A o \in Outcome : [w EXCEPT !.outcome = o] \in Write
        BY DEF Write
      <4> QED  BY <1>10, <4>1, <4>2 DEF KillTimer, Outcome
    <3> QED  BY <3>1, Rewritten DEF TypeOK
  <2>3. lost' \subseteq Nat
    <3>1. Ids(JSONbuffer) \subseteq Nat
      <4>1. \A i \in DOMAIN JSONbuffer : JSONbuffer[i] \in Reading
        BY ElementOfSeq, LenProperties DEF TypeOK
      <4> QED  BY <4>1 DEF Ids, Reading
    <3> QED  BY <1>10, <3>1 DEF KillTimer, TypeOK
  <2>4. clamps' \in ClampMap /\ previousGas' \in [{p.node_id : p \in Packets} -> Int \cup {Undefined}]
    BY <1>10 DEF KillTimer, TypeOK, DefaultMap, ClampMap
  <2>5. timer' \in BOOLEAN
    BY <1>10 DEF KillTimer
  <2>6. JSONbuffer' \in Seq(Reading) /\ SaveJSONBuffer' \in Seq(SUBSET Reading)
    BY <1>10, EmptySeq DEF KillTimer
  <2> QED  BY <1>10, <2>1, <2>2, <2>3, <2>4, <2>5, <2>6 DEF KillTimer, TypeOK, fileVars
<1>11. CASE Start
  BY <1>11 DEF Start, TypeOK, loopVars, saveVars, fileVars, sendVars, histVars
<1>12. CASE UNCHANGED vars
  BY <1>12 DEF TypeOK, vars, loopVars, saveVars, fileVars, sendVars, histVars
<1> QED  BY <1>1, <1>2, <1>3, <1>4, <1>5, <1>6, <1>7, <1>8, <1>9, <1>10, <1>11, <1>12
         DEF Next

\* Every variable of the server always holds a value of its kind.
THEOREM TypeCorrect == Spec => []TypeOK
  BY InitType, NextType, PTL DEF Spec

-----------------------------------------------------------------------------
(* The effect of a step on buffers and batches: a reading is accepted, the *)
(* timer fires, the process exits, or the readings stay where they are.    *)

SameReadings ==
  /\ DOMAIN batches' = DOMAIN batches
  /\ \A k \in DOMAIN batches : batches'[k].readings = batches[k].readings

Quiet ==
  /\ UNCHANGED <<JSONbuffer, JSONcount, timer, accepted, lost>>
  /\ SameReadings
  /\ \/ UNCHANGED sendVars
     \/ \E k \in DOMAIN batches : DeflateDone(k)
     \/ \E k \in DOMAIN batches : \E s \in {"delivered", "failed"} : SendDone(k, s)
  /\ \/ UNCHANGED saveVars
     \/ \E k \in DOMAIN writes : \E o \in {"saved", "failed"} : WriteDone(k, o)

LEMMA StepKinds ==
  ASSUME TypeOK, [Next]_vars
  PROVE  \/ \E r \in Reading : r.id = accepted + 1 /\ SendJSON(r) /\ UNCHANGED lost
         \/ TimerTick
         \/ KillTimer
         \/ Quiet
<1>1. ASSUME NEW p \in Packets, OnData(p)
      PROVE  \/ \E r \in Reading : r.id = accepted + 1 /\ SendJSON(r) /\ UNCHANGED lost
             \/ Quiet
  <2>1. CASE Accepts(p)
    <3> DEFINE r == MakeReading(p, previousGas[p.node_id], accepted + 1)
    <3>1. r \in Reading
      <4>1. p \in Packet /\ p.node_id \in {q.node_id : q \in Packets}
        BY ServerAssumption
      <4>2. accepted + 1 \in Nat /\ previousGas[p.node_id] \in Int \cup {Undefined}
        BY <4>1 DEF TypeOK
      <4> QED  BY <2>1, <4>1, <4>2, MakeReadingType
    <3>2. r.id = accepted + 1
      BY DEF MakeReading
    <3>3. SendJSON(r) /\ UNCHANGED lost
      BY <1>1, <2>1 DEF OnData
    <3> HIDE DEF r
    <3> QED  BY <3>1, <3>2, <3>3
  <2>2. CASE ~Accepts(p)
    <3>1. UNCHANGED <<homeID, JSONbuffer, JSONcount, timer, clamps, saveVars,
                      shell, echoFailed, sendVars, accepted>>
      BY <1>1, <2>2 DEF OnData
    <3> QED  BY <1>1, <3>1 DEF OnData, Quiet, SameReadings, sendVars
  <2> QED  BY <2>1, <2>2
<1>2. CASE OnJunk \/ UNCHANGED vars
  BY <1>2 DEF OnJunk, Quiet, SameReadings, vars, loopVars, sendVars, histVars
<1>3. CASE OnNull \/ UncaughtException
  BY <1>3 DEF OnNull, UncaughtException, Quiet, SameReadings, loopVars, sendVars
<1>4. ASSUME NEW k \in DOMAIN batches, DeflateDone(k)
      PROVE  Quiet
  <2>1. SameReadings
    <3>1. batches[k] \in Batch
      BY ElementOfSeq, LenProperties DEF TypeOK
    <3>2. \/ batches' = [batches EXCEPT ![k].stage = "sending", ![k].homeid = homeID]
          \/ batches' = [batches EXCEPT ![k].stage = "failed"]
      BY <1>4 DEF DeflateDone
    <3> QED  BY <3>1, <3>2 DEF SameReadings, Batch
  <2> QED  BY <1>4, <2>1 DEF DeflateDone, Quiet, histVars
<1>5. ASSUME NEW k \in DOMAIN batches, NEW s \in {"delivered", "failed"}, SendDone(k, s)
      PROVE  Quiet
  <2>1. SameReadings
    BY <1>5 DEF SendDone, SameReadings, TypeOK
  <2> QED  BY <1>5, <2>1 DEF SendDone, Quiet, histVars, loopVars
<1>6. ASSUME NEW k \in DOMAIN writes, NEW o \in {"saved", "failed"}, WriteDone(k, o)
      PROVE  Quiet
  BY <1>6 DEF WriteDone, Quiet, SameReadings, loopVars, sendVars, histVars
<1>7. ASSUME NEW c \in shell, ExecDone(c)
      PROVE  Quiet
  BY <1>7 DEF ExecDone, Quiet, SameReadings, loopVars, sendVars, histVars
<1>8. CASE Start
  BY <1>8 DEF Start, Quiet, SameReadings, loopVars, sendVars, histVars
<1> QED  BY <1>1, <1>2, <1>3, <1>4, <1>5, <1>6, <1>7, <1>8 DEF Next

LEMMA KillTimerKeepsReadings ==
  ASSUME TypeOK, KillTimer
  PROVE  SameReadings
<1>1. \A k \in DOMAIN batches : batches[k] \in Batch
  BY ElementOfSeq, LenProperties DEF TypeOK
<1>2. \A b \in Batch, t \in Stage : [b EXCEPT !.stage = t].readings = b.readings
  BY DEF Batch
<1> QED  BY <1>1, <1>2 DEF KillTimer, SameReadings, Stage

\* What sendJSON does to the buffers: the reading waits, or leaves with those
\* that waited, or, when nothing is ever buffered, leaves alone.
Waits(r) ==
  /\ JSONbuffer' = Append(JSONbuffer, r)
  /\ UNCHANGED <<sendVars, saveVars>>

\* The number of a batch that is sent at once joins those of the sent ones.
SentIf(b) ==
  sent' = IF b.stage = "sending" THEN Append(sent, Len(batches) + 1) ELSE sent

\* Batch b holds the readings and is handed to the compressor or to the network.
Departs(b, readings) ==
  /\ b.readings = readings
  /\ b.stage \in {"deflating", "sending"}
  /\ config.compress \/ b.stage = "sending"
  /\ batches' = Append(batches, b)
  /\ SentIf(b)

Leaves(readings) ==
  /\ JSONbuffer' = <<>>
  /\ \E b \in Batch : Departs(b, readings)

LeavesAlone(r) == \E b \in Batch : Departs(b, <<r>>)

LEMMA SendBufferLeaves ==
  ASSUME NEW readings \in Seq(Reading), SendBuffer(readings), homeID' \in Homes \cup {Unknown}
  PROVE  Leaves(readings)
<1> DEFINE b == [readings |-> readings,
                 stage |-> IF config.compress THEN "deflating" ELSE "sending",
                 homeid |-> homeID']
<1>1. /\ b \in Batch /\ b.readings = readings
      /\ b.stage \in {"deflating", "sending"} /\ (config.compress \/ b.stage = "sending")
  BY DEF Batch, Stage
<1>2. batches' = Append(batches, b) /\ JSONbuffer' = <<>>
  BY DEF SendBuffer, ResetBuffer
<1>3. SentIf(b)
  BY DEF SendBuffer, SentIf
<1> HIDE DEF b
<1>4. Departs(b, readings)
  BY <1>1, <1>2, <1>3 DEF Departs
<1> QED  BY <1>1, <1>2, <1>4 DEF Leaves

LEMMA SendJSONEffect ==
  ASSUME TypeOK, NEW r \in Reading, SendJSON(r)
  PROVE  /\ accepted' = accepted + 1
         /\ \/ config.JSONbuffertime /\ Waits(r) /\ UNCHANGED JSONcount
            \/ /\ Counted
               /\ \/ /\ JSONcount + 1 < config.JSONbuffersize
                     /\ Waits(r) /\ JSONcount' = JSONcount + 1 /\ UNCHANGED timer
                  \/ /\ JSONcount + 1 >= config.JSONbuffersize
                     /\ SendBuffer(Append(JSONbuffer, r)) /\ Leaves(Append(JSONbuffer, r))
                     /\ UNCHANGED timer
            \/ /\ ~config.JSONbuffertime /\ config.JSONbuffersize = 0
               /\ UNCHANGED <<JSONbuffer, JSONcount, timer, saveVars>>
               /\ LeavesAlone(r)
<1>0. homeID' \in Homes
  BY DEF SendJSON, Reading, LearnHome
<1>1. CASE config.JSONbuffertime
  BY <1>1 DEF SendJSON, Waits
<1>2. CASE ~config.JSONbuffertime /\ config.JSONbuffersize # 0
  <2>1. SendJSONbuffered(r) /\ accepted' = accepted + 1 /\ Counted
    BY <1>2 DEF SendJSON, Counted
  <2>2. JSONcount \in Nat /\ config.JSONbuffersize \in Nat
    BY ServerAssumption DEF TypeOK, Config
  <2>3. CASE JSONcount + 1 >= config.JSONbuffersize
    <3>1. SendBuffer(Append(JSONbuffer, r)) /\ UNCHANGED timer
      BY <2>1, <2>3 DEF SendJSONbuffered
    <3>2. Append(JSONbuffer, r) \in Seq(Reading)
      BY DEF TypeOK
    <3>3. Leaves(Append(JSONbuffer, r))
      BY <1>0, <3>1, <3>2, SendBufferLeaves
    <3> QED  BY <2>1, <2>3, <3>1, <3>3
  <2>4. CASE JSONcount + 1 < config.JSONbuffersize
    <3>1. /\ JSONbuffer' = Append(JSONbuffer, r) /\ JSONcount' = JSONcount + 1
          /\ UNCHANGED <<sendVars, clamps, saveVars, timer>>
      BY <2>1, <2>2, <2>4 DEF SendJSONbuffered
    <3> QED  BY <2>1, <2>4, <3>1 DEF Waits
  <2> QED  BY <2>2, <2>3, <2>4
<1>3. CASE ~config.JSONbuffertime /\ config.JSONbuffersize = 0
  <2>1. PostReading(r) /\ accepted' = accepted + 1
    BY <1>3 DEF SendJSON
  <2> DEFINE b == [readings |-> <<r>>, stage |-> "sending", homeid |-> homeID']
  <2>2. b \in Batch /\ b.readings = <<r>> /\ b.stage = "sending"
    BY <1>0 DEF Batch, Stage
  <2>3. batches' = Append(batches, b) /\ UNCHANGED <<JSONbuffer, JSONcount, timer, saveVars>>
    BY <2>1 DEF PostReading
  <2>4. SentIf(b)
    BY <2>1 DEF PostReading, SentIf
  <2> HIDE DEF b
  <2>5. Departs(b, <<r>>)
    BY <2>2, <2>3, <2>4 DEF Departs
  <2> QED  BY <1>3, <2>1, <2>2, <2>3, <2>5 DEF LeavesAlone
<1> QED  BY <1>1, <1>2, <1>3

-----------------------------------------------------------------------------
(* Batches are full.  The timer is only ever set with a buffer time, so    *)
(* that in counting mode nothing but a full buffer is sent.                *)

CountInv == (timer => config.JSONbuffertime) /\ FullBatches

LEMMA InitCount == Init => CountInv
<1> SUFFICES ASSUME Init, Counted PROVE CountInv
  BY DEF Init, CountInv, FullBatches
<1>1. config.JSONbuffersize \in Nat \ {0}
  BY ServerAssumption DEF Counted, Config
<1> QED  BY <1>1 DEF Init, CountInv, FullBatches

LEMMA NextCount == TypeOK /\ CountInv /\ [Next]_vars => CountInv'
<1> SUFFICES ASSUME TypeOK, CountInv, [Next]_vars PROVE CountInv'
  OBVIOUS
<1>a. config.JSONbuffersize \in Nat
  BY ServerAssumption DEF Config
<1>b. /\ JSONbuffer \in Seq(Reading) /\ batches \in Seq(Batch)
      /\ JSONcount \in Nat
  BY DEF TypeOK
<1>1. ASSUME NEW r \in Reading, SendJSON(r)
      PROVE  CountInv'
  <2>1. CASE config.JSONbuffertime
    BY <2>1 DEF CountInv, FullBatches, Counted
  <2>2. CASE Counted /\ JSONcount + 1 < config.JSONbuffersize
    <3>1. /\ JSONbuffer' = Append(JSONbuffer, r) /\ JSONcount' = JSONcount + 1
          /\ UNCHANGED <<batches, timer>>
      BY <1>1, <1>a, <1>b, <2>2, SendJSONEffect DEF Waits, Counted, sendVars
    <3> QED  BY <1>a, <1>b, <2>2, <3>1 DEF CountInv, FullBatches
  <2>3. CASE Counted /\ JSONcount + 1 >= config.JSONbuffersize
    <3>1. SendBuffer(Append(JSONbuffer, r)) /\ Leaves(Append(JSONbuffer, r)) /\ UNCHANGED timer
      BY <1>1, <1>a, <1>b, <2>3, SendJSONEffect DEF Counted
    <3>2. JSONbuffer' = <<>> /\ JSONcount' = 0
      BY <3>1 DEF SendBuffer, ResetBuffer
    <3>7. PICK b \in Batch : Departs(b, Append(JSONbuffer, r))
      BY <3>1 DEF Leaves
    <3>3. b.readings = Append(JSONbuffer, r) /\ batches' = Append(batches, b)
      BY <3>7 DEF Departs
    <3>4. Len(b.readings) = config.JSONbuffersize
      BY <1>a, <1>b, <2>3, <3>3 DEF CountInv, FullBatches
    <3>5. \A k \in DOMAIN batches' : Len(batches'[k].readings) = config.JSONbuffersize
      BY <1>b, <2>3, <3>3, <3>4 DEF CountInv, FullBatches
    <3>6. config.JSONbuffersize > 0
      BY <1>a, <2>3 DEF Counted
    <3> QED  BY <3>1, <3>2, <3>5, <3>6 DEF CountInv, FullBatches
  <2>4. CASE ~config.JSONbuffertime /\ config.JSONbuffersize = 0
    <3>1. UNCHANGED timer
      BY <1>1, <2>4, SendJSONEffect DEF Counted
    <3> QED  BY <2>4, <3>1 DEF CountInv, FullBatches, Counted
  <2> QED  BY <1>a, <1>b, <2>1, <2>2, <2>3, <2>4 DEF Counted
<1>2. CASE TimerTick
  BY <1>2 DEF TimerTick, CountInv, FullBatches, Counted
<1>3. CASE KillTimer
  <2>1. /\ timer' = FALSE /\ JSONbuffer' = <<>> /\ JSONcount' = 0
    BY <1>3 DEF KillTimer
  <2>2. SameReadings
    BY <1>3, KillTimerKeepsReadings
  <2>3. Counted => config.JSONbuffersize > 0
    BY <1>a DEF Counted
  <2> QED  BY <2>1, <2>2, <2>3 DEF CountInv, FullBatches, SameReadings
<1>4. CASE Quiet
  BY <1>4 DEF Quiet, SameReadings, CountInv, FullBatches
<1> QED  BY <1>1, <1>2, <1>3, <1>4, StepKinds

\* In counting mode every batch that leaves the server holds exactly
\* JSONbuffersize readings, whatever the interleaving of lines, failures and
\* restarts.
THEOREM BatchesAreFull == Spec => []FullBatches
<1>1. TypeOK /\ CountInv /\ [Next]_vars => (TypeOK /\ CountInv)'
  BY NextType, NextCount
<1>2. CountInv => FullBatches
  BY DEF CountInv
<1> QED  BY InitType, InitCount, <1>1, <1>2, PTL DEF Spec

-----------------------------------------------------------------------------
(* The save buffer.  While a write is in progress, everything that was     *)
(* handed over in a quiet moment is already part of a write.               *)

Written == UNION {ItemIds(writes[k].items) : k \in DOMAIN writes}

SaveInv ==
  /\ SaveCountExact
  /\ SavedUnlessOverlapping
  /\ Writing # {} => calm \subseteq Written

LEMMA InitSave == Init => SaveInv
<1> SUFFICES ASSUME Init PROVE SaveInv
  OBVIOUS
<1>1. SaveBufferSize \in Nat \ {0}
  BY ServerAssumption
<1> QED  BY <1>1 DEF Init, SaveInv, SaveCountExact, SavedUnlessOverlapping, Writing

LEMMA SaveStep ==
  ASSUME TypeOK, SaveInv, NEW data \in SUBSET Reading, SaveJSONbuffered(data)
  PROVE  SaveInv'
<1> DEFINE items == Append(SaveJSONBuffer, data)
           new == {r.id : r \in data}
<1>a. /\ SaveBufferSize \in Nat \ {0} /\ SaveBufferCount \in Nat
      /\ SaveJSONBuffer \in Seq(SUBSET Reading) /\ writes \in Seq(Write)
  BY ServerAssumption DEF TypeOK
<1>b. /\ SaveJSONBuffer' = items
      /\ calm' = IF Writing = {} THEN calm \cup new ELSE calm
  BY DEF SaveJSONbuffered
<1>c. Len(items) = Len(SaveJSONBuffer) + 1 /\ Len(SaveJSONBuffer) \in Nat
  BY <1>a
<1>d. ItemIds(items) = ItemIds(SaveJSONBuffer) \cup new
  <2>1. /\ DOMAIN SaveJSONBuffer = 1..Len(SaveJSONBuffer)
        /\ DOMAIN items = 1..(Len(SaveJSONBuffer) + 1)
        /\ \A i \in 1..Len(SaveJSONBuffer) : items[i] = SaveJSONBuffer[i]
        /\ items[Len(SaveJSONBuffer) + 1] = data
    BY <1>a
  <2>2. DOMAIN items = DOMAIN SaveJSONBuffer \cup {Len(SaveJSONBuffer) + 1}
    BY <1>c, <2>1
  <2> HIDE DEF items
  <2> QED  BY <2>1, <2>2 DEF ItemIds
<1>1. CASE SaveBufferCount + 1 < SaveBufferSize
  <2>1. SaveBufferCount' = SaveBufferCount + 1 /\ UNCHANGED writes
    BY <1>a, <1>1 DEF SaveJSONbuffered
  <2>2. Writing' = Writing /\ Written' = Written
    BY <2>1 DEF Writing, Written
  <2>3. SaveCountExact'
    BY <1>a, <1>b, <1>c, <1>1, <2>1, <2>2 DEF SaveInv, SaveCountExact
  <2> HIDE DEF items, new
  <2>4. calm' \subseteq ItemIds(SaveJSONBuffer)' \cup Written'
    BY <1>b, <1>d, <2>2 DEF SaveInv, SavedUnlessOverlapping, Written
  <2>5. Writing' # {} => calm' \subseteq Written'
    BY <1>b, <2>2 DEF SaveInv
  <2> QED  BY <2>3, <2>4, <2>5 DEF SaveInv, SavedUnlessOverlapping, Written
<1>2. CASE SaveBufferCount + 1 >= SaveBufferSize
  <2> DEFINE w == [items |-> items, outcome |-> "writing"]
             n == Len(writes) + 1
  <2>1. SaveBufferCount' = 0 /\ writes' = Append(writes, w)
    BY <1>2 DEF SaveJSONbuffered
  <2>2. /\ DOMAIN writes = 1..Len(writes) /\ Len(writes) \in Nat
        /\ DOMAIN writes' = 1..n
        /\ writes'[n] = w /\ \A k \in 1..Len(writes) : writes'[k] = writes[k]
    BY <1>a, <2>1
  <2>3. n \in Writing'
    BY <2>2 DEF Writing
  <2>4. SaveCountExact'
    BY <1>a, <1>b, <1>c, <2>1, <2>3 DEF SaveCountExact
  <2>5. Written' = Written \cup ItemIds(items)
    <3>1. DOMAIN writes' = DOMAIN writes \cup {n} /\ w.items = items
      BY <2>2
    <3>2. \A k \in DOMAIN writes : writes'[k].items = writes[k].items
      BY <2>2
    <3>3. writes'[n].items = items
      BY <2>2
    <3> HIDE DEF items, w, n
    <3> QED  BY <3>1, <3>2, <3>3 DEF Written
  <2> HIDE DEF items, new, w
  <2>6. calm' \subseteq Written'
    BY <1>b, <1>d, <2>5 DEF SaveInv, SavedUnlessOverlapping, Written
  <2> QED  BY <2>4, <2>6 DEF SaveInv, SavedUnlessOverlapping, Written
<1> QED  BY <1>a, <1>1, <1>2

LEMMA SaveUnchanged == SaveInv /\ UNCHANGED saveVars => SaveInv'
  BY DEF SaveInv, SaveCountExact, SavedUnlessOverlapping, Written, Writing, saveVars, ItemIds

LEMMA SendBufferSave ==
  ASSUME TypeOK, SaveInv, NEW readings \in Seq(Reading), SendBuffer(readings)
  PROVE  SaveInv'
<1>1. Savable(readings) \in SUBSET Reading
  BY ElementOfSeq, LenProperties DEF Savable
<1>2. CASE SaveJSONbuffered(Savable(readings))
  BY <1>1, <1>2, SaveStep
<1>3. CASE UNCHANGED saveVars
  BY <1>3, SaveUnchanged
<1> QED  BY <1>2, <1>3 DEF SendBuffer

LEMMA NextSave == TypeOK /\ SaveInv /\ [Next]_vars => SaveInv'
<1> SUFFICES ASSUME TypeOK, SaveInv, [Next]_vars PROVE SaveInv'
  OBVIOUS
<1>a. JSONbuffer \in Seq(Reading) /\ writes \in Seq(Write) /\ SaveBufferSize \in Nat \ {0}
  BY ServerAssumption DEF TypeOK
<1>1. ASSUME NEW r \in Reading, SendJSON(r)
      PROVE  SaveInv'
  <2>1. Append(JSONbuffer, r) \in Seq(Reading)
    BY <1>a
  <2>2. CASE UNCHANGED saveVars
    BY <2>2, SaveUnchanged
  <2>3. CASE SendBuffer(Append(JSONbuffer, r))
    BY <2>1, <2>3, SendBufferSave
  <2> QED  BY <1>1, <2>2, <2>3, SendJSONEffect DEF Waits
<1>2. CASE TimerTick
  BY <1>2, <1>a, SendBufferSave DEF TimerTick
<1>3. CASE KillTimer
  <2>1. SaveBufferCount' = 0 /\ SaveJSONBuffer' = <<>> /\ calm' = {}
    BY <1>3 DEF KillTimer
  <2>2. SaveCountExact'
    BY <1>a, <2>1 DEF SaveCountExact
  <2> QED  BY <2>1, <2>2 DEF SaveInv, SavedUnlessOverlapping
<1>4. ASSUME NEW k \in DOMAIN writes, NEW o \in {"saved", "failed"}, WriteDone(k, o)
      PROVE  SaveInv'
  <2>1. SaveBufferCount' = 0 /\ SaveJSONBuffer' = <<>> /\ calm' = calm
    BY <1>4 DEF WriteDone
  <2>2. SaveCountExact'
    BY <1>a, <2>1 DEF SaveCountExact
  <2>3. Writing # {}
    BY <1>4 DEF WriteDone, Writing
  <2>4. Written' = Written
    <3>1. \A j \in DOMAIN writes : writes[j] \in Write
      BY <1>a, ElementOfSeq, LenProperties
    <3>2. DOMAIN writes' = DOMAIN writes
      BY <1>4, <1>a DEF WriteDone
    <3>3. \A j \in DOMAIN writes : writes'[j].items = writes[j].items
      BY <1>4, <3>1 DEF WriteDone, Write
    <3> QED  BY <3>2, <3>3 DEF Written
  <2> QED  BY <2>1, <2>2, <2>3, <2>4 DEF SaveInv, SavedUnlessOverlapping, Written
<1>5. CASE UNCHANGED saveVars
  BY <1>5, SaveUnchanged
<1> QED  BY <1>1, <1>2, <1>3, <1>4, <1>5, StepKinds DEF Quiet

\* The count of saveJSONbuffered agrees with its buffer whenever no write is in
\* progress, although the two are reset at different times.
THEOREM SaveCountIsExact == Spec => []SaveCountExact
<1>1. TypeOK /\ SaveInv /\ [Next]_vars => (TypeOK /\ SaveInv)'
  BY NextType, NextSave
<1>2. SaveInv => SaveCountExact
  BY DEF SaveInv
<1> QED  BY InitType, InitSave, <1>1, <1>2, PTL DEF Spec

\* Only what arrives while a write is in progress can be dropped from the save
\* buffer without being part of a write.
THEOREM SaveLosesOnlyOverlapping == Spec => []SavedUnlessOverlapping
<1>1. TypeOK /\ SaveInv /\ [Next]_vars => (TypeOK /\ SaveInv)'
  BY NextType, NextSave
<1>2. SaveInv => SavedUnlessOverlapping
  BY DEF SaveInv
<1> QED  BY InitType, InitSave, <1>1, <1>2, PTL DEF Spec

-----------------------------------------------------------------------------
(* Where the readings are.  Numbers up to Gone have left the buffer, in    *)
(* order and once each; the buffer holds the consecutive numbers after it. *)

Gone == accepted - Len(JSONbuffer)

Direct == ~config.JSONbuffertime /\ config.JSONbuffersize = 0 => JSONbuffer = <<>>
Numbered ==
  /\ Len(JSONbuffer) <= accepted
  /\ \A i \in DOMAIN JSONbuffer : JSONbuffer[i].id = Gone + i
SentGone ==
  \A k \in DOMAIN batches : \A i \in DOMAIN batches[k].readings :
    batches[k].readings[i].id \in 1..Gone /\ batches[k].readings[i].id \notin lost
SentOrdered ==
  \A k, l \in DOMAIN batches : \A i \in DOMAIN batches[k].readings :
    \A j \in DOMAIN batches[l].readings :
      k < l \/ (k = l /\ i < j) =>
        batches[k].readings[i].id < batches[l].readings[j].id
Covered ==
  \A n \in 1..Gone : n \in lost \/ \E k \in DOMAIN batches : n \in Ids(batches[k].readings)

OrderInv == Direct /\ Numbered /\ lost \subseteq 1..Gone /\ SentGone /\ SentOrdered /\ Covered

LEMMA InitOrder == Init => OrderInv
<1> SUFFICES ASSUME Init PROVE OrderInv
  OBVIOUS
<1>1. Len(JSONbuffer) = 0 /\ Gone = 0
  <2>1. accepted = 0
    BY DEF Init
  <2>2. Len(JSONbuffer) = 0
    BY EmptySeq DEF Init
  <2> QED  BY <2>1, <2>2 DEF Gone
<1> QED  BY <1>1 DEF Init, OrderInv, Direct, Numbered, SentGone, SentOrdered, Covered

\* Readings that leave, numbered on from Gone, leave the invariant true.
LEMMA LeavingKeepsOrder ==
  ASSUME TypeOK, OrderInv,
         NEW readings \in Seq(Reading), \A i \in DOMAIN readings : readings[i].id = Gone + i,
         NEW b \in Batch, b.readings = readings, batches' = Append(batches, b),
         JSONbuffer' = <<>>, accepted' = Gone + Len(readings), lost' = lost
  PROVE  OrderInv'
<1> DEFINE n == Len(batches) + 1
<1>a. /\ accepted \in Nat /\ Len(JSONbuffer) \in Nat /\ Len(readings) \in Nat
      /\ Gone \in Nat /\ DOMAIN readings = 1..Len(readings)
  BY LenProperties DEF TypeOK, Gone, OrderInv, Numbered
<1>b. Gone' = Gone + Len(readings) /\ JSONbuffer' = <<>>
  BY <1>a DEF Gone
<1>c. /\ Len(batches) \in Nat /\ DOMAIN batches = 1..Len(batches)
      /\ DOMAIN batches' = 1..n /\ batches'[n] = b
      /\ \A k \in 1..Len(batches) : batches'[k] = batches[k]
  BY DEF TypeOK
<1>1. Direct' /\ Numbered'
  BY <1>a, <1>b DEF Direct, Numbered
<1>2. lost' \subseteq 1..Gone'
  BY <1>a, <1>b DEF OrderInv
<1>3. SentGone'
  <2> SUFFICES ASSUME NEW k \in 1..n, NEW i \in DOMAIN batches'[k].readings
               PROVE  /\ batches'[k].readings[i].id \in 1..Gone'
                      /\ batches'[k].readings[i].id \notin lost'
    BY <1>c DEF SentGone
  <2>1. CASE k \in 1..Len(batches)
    BY <1>a, <1>b, <1>c, <2>1 DEF OrderInv, SentGone
  <2>2. CASE k = n
    <3>1. batches'[k].readings[i].id = Gone + i /\ i \in 1..Len(readings)
      BY <1>a, <1>c, <2>2
    <3> QED  BY <1>a, <1>b, <3>1 DEF OrderInv
  <2> QED  BY <1>c, <2>1, <2>2
<1>4. SentOrdered'
  <2> SUFFICES ASSUME NEW k \in 1..n, NEW l \in 1..n,
                      NEW i \in DOMAIN batches'[k].readings,
                      NEW j \in DOMAIN batches'[l].readings,
                      k < l \/ (k = l /\ i < j)
               PROVE  batches'[k].readings[i].id < batches'[l].readings[j].id
    BY <1>c DEF SentOrdered
  <2>1. CASE l \in 1..Len(batches)
    <3>1. k \in 1..Len(batches)
      BY <1>c, <2>1
    <3> QED  BY <1>c, <2>1, <3>1 DEF OrderInv, SentOrdered
  <2>2. CASE l = n /\ k \in 1..Len(batches)
    <3>1. batches'[l].readings[j].id = Gone + j /\ j \in 1..Len(readings)
      BY <1>a, <1>c, <2>2
    <3>2. batches'[k].readings[i].id \in 1..Gone
      BY <1>c, <2>2 DEF OrderInv, SentGone
    <3> QED  BY <1>a, <3>1, <3>2, SMTT(20)
  <2>3. CASE l = n /\ k = n
    <3>1. /\ batches'[l].readings[j].id = Gone + j /\ j \in 1..Len(readings)
          /\ batches'[k].readings[i].id = Gone + i /\ i \in 1..Len(readings)
      BY <1>a, <1>c, <2>3
    <3>2. i < j
      BY <2>3, <1>c
    <3> QED  BY <1>a, <3>1, <3>2
  <2> QED  BY <1>c, <2>1, <2>2, <2>3
<1>5. Covered'
  <2> SUFFICES ASSUME NEW m \in 1..Gone'
               PROVE  m \in lost' \/ \E k \in 1..n : m \in Ids(batches'[k].readings)
    BY <1>c DEF Covered
  <2>1. CASE m \in 1..Gone
    <3>1. m \in lost \/ \E k \in 1..Len(batches) : m \in Ids(batches[k].readings)
      BY <1>c, <2>1 DEF OrderInv, Covered
    <3> QED  BY <1>c, <3>1
  <2>2. CASE m \notin 1..Gone
    <3>1. m - Gone \in 1..Len(readings)
      BY <1>a, <1>b, <2>2
    <3>2. readings[m - Gone].id = m
      BY <1>a, <3>1
    <3>3. m \in Ids(batches'[n].readings)
      BY <1>a, <1>c, <3>1, <3>2 DEF Ids
    <3> QED  BY <1>c, <3>3
  <2> QED  BY <2>1, <2>2
<1> QED  BY <1>1, <1>2, <1>3, <1>4, <1>5 DEF OrderInv

LEMMA NextOrder == TypeOK /\ OrderInv /\ [Next]_vars => OrderInv'
<1> SUFFICES ASSUME TypeOK, OrderInv, [Next]_vars PROVE OrderInv'
  OBVIOUS
<1>a. /\ JSONbuffer \in Seq(Reading) /\ accepted \in Nat
      /\ Len(JSONbuffer) \in Nat /\ DOMAIN JSONbuffer = 1..Len(JSONbuffer)
      /\ Gone \in Nat /\ accepted = Gone + Len(JSONbuffer)
  BY LenProperties DEF TypeOK, OrderInv, Numbered, Gone
<1>1. ASSUME NEW r \in Reading, r.id = accepted + 1, SendJSON(r), UNCHANGED lost
      PROVE  OrderInv'
  <2> DEFINE longer == Append(JSONbuffer, r)
  <2>1. accepted' = accepted + 1
    BY <1>1, SendJSONEffect
  <2>2. /\ longer \in Seq(Reading) /\ Len(longer) = Len(JSONbuffer) + 1
        /\ DOMAIN longer = 1..Len(longer)
    BY <1>a, AppendProperties, LenProperties
  <2>3. \A i \in DOMAIN longer : longer[i].id = Gone + i
    <3>1. \A i \in 1..Len(JSONbuffer) : longer[i] = JSONbuffer[i]
      BY <1>a
    <3>2. longer[Len(JSONbuffer) + 1] = r
      BY <1>a
    <3>3. \A i \in 1..Len(JSONbuffer) : JSONbuffer[i].id = Gone + i
      BY <1>a DEF OrderInv, Numbered
    <3>4. r.id = Gone + (Len(JSONbuffer) + 1)
      BY <1>1, <1>a
    <3>5. \A i \in DOMAIN longer : i \in 1..Len(JSONbuffer) \/ i = Len(JSONbuffer) + 1
      BY <1>a, <2>2
    <3> HIDE DEF longer
    <3> QED  BY <3>1, <3>2, <3>3, <3>4, <3>5
  <2>4. CASE Waits(r) /\ ~(~config.JSONbuffertime /\ config.JSONbuffersize = 0)
    <3>1. JSONbuffer' = longer /\ batches' = batches /\ lost' = lost
      BY <1>1, <2>4 DEF Waits, sendVars
    <3> HIDE DEF longer
    <3>2. Gone' = Gone
      BY <1>a, <2>1, <2>2, <3>1 DEF Gone
    <3>3. Numbered'
      BY <1>a, <2>1, <2>2, <2>3, <3>1, <3>2 DEF OrderInv, Numbered
    <3> QED  BY <2>4, <3>1, <3>2, <3>3 DEF OrderInv, Direct, SentGone, SentOrdered, Covered
  <2>5. CASE Leaves(longer)
    <3>4. PICK b \in Batch : Departs(b, longer)
      BY <2>5 DEF Leaves
    <3>1. b.readings = longer /\ batches' = Append(batches, b)
      BY <3>4 DEF Departs
    <3>2. JSONbuffer' = <<>>
      BY <2>5 DEF Leaves
    <3> HIDE DEF longer
    <3>3. accepted' = Gone + Len(longer)
      BY <1>a, <2>1, <2>2
    <3> QED  BY <1>1, <2>2, <2>3, <3>1, <3>2, <3>3, LeavingKeepsOrder
  <2>6. CASE /\ ~config.JSONbuffertime /\ config.JSONbuffersize = 0
             /\ UNCHANGED JSONbuffer
             /\ LeavesAlone(r)
    <3>5. PICK b \in Batch : Departs(b, <<r>>)
      BY <2>6 DEF LeavesAlone
    <3>1. b.readings = <<r>> /\ batches' = Append(batches, b)
      BY <3>5 DEF Departs
    <3>2. JSONbuffer = <<>> /\ JSONbuffer' = <<>>
      BY <2>6 DEF OrderInv, Direct
    <3>3. /\ <<r>> \in Seq(Reading) /\ Len(<<r>>) = 1
          /\ \A i \in DOMAIN <<r>> : <<r>>[i].id = Gone + i
      BY <1>1, <1>a, <3>2
    <3>4. accepted' = Gone + Len(<<r>>)
      BY <1>a, <2>1, <3>2, <3>3
    <3> QED  BY <1>1, <3>1, <3>2, <3>3, <3>4, LeavingKeepsOrder
  <2> HIDE DEF longer
  <2> QED  BY <1>1, <2>4, <2>5, <2>6, SendJSONEffect DEF Counted, longer
<1>2. CASE TimerTick
  <2>1. SendBuffer(JSONbuffer) /\ UNCHANGED <<homeID, accepted, lost>>
    BY <1>2 DEF TimerTick
  <2>2. Leaves(JSONbuffer)
    BY <1>a, <2>1, SendBufferLeaves DEF TypeOK
  <2>6. PICK b \in Batch : Departs(b, JSONbuffer)
    BY <2>2 DEF Leaves
  <2>3. b.readings = JSONbuffer /\ batches' = Append(batches, b)
    BY <2>6 DEF Departs
  <2>4. JSONbuffer' = <<>> /\ accepted' = Gone + Len(JSONbuffer) /\ lost' = lost
    BY <1>a, <2>1, <2>2 DEF Leaves
  <2>5. \A i \in DOMAIN JSONbuffer : JSONbuffer[i].id = Gone + i
    BY DEF OrderInv, Numbered
  <2> QED  BY <1>a, <2>3, <2>4, <2>5, LeavingKeepsOrder
<1>3. CASE KillTimer
  <2>1. /\ JSONbuffer' = <<>> /\ accepted' = accepted
        /\ lost' = lost \cup Ids(JSONbuffer)
    BY <1>3 DEF KillTimer
  <2>2. SameReadings
    BY <1>3, KillTimerKeepsReadings
  <2>3. Gone' = accepted
    BY <1>a, <2>1 DEF Gone
  <2>4. \A m : m \in Ids(JSONbuffer) <=> m \in (Gone + 1)..accepted
    <3>1. ASSUME NEW m \in (Gone + 1)..accepted
          PROVE  m - Gone \in DOMAIN JSONbuffer /\ JSONbuffer[m - Gone].id = m
      <4>1. m - Gone \in DOMAIN JSONbuffer /\ Gone + (m - Gone) = m
        BY <1>a
      <4> QED  BY <4>1 DEF OrderInv, Numbered
    <3>2. \A i \in DOMAIN JSONbuffer : JSONbuffer[i].id \in (Gone + 1)..accepted
      BY <1>a DEF OrderInv, Numbered
    <3>3. ASSUME NEW m \in (Gone + 1)..accepted
          PROVE  m \in Ids(JSONbuffer)
      BY <3>1 DEF Ids
    <3> QED  BY <3>2, <3>3 DEF Ids
  <2>5. Direct' /\ Numbered'
    BY <1>a, <2>1, <2>3 DEF Direct, Numbered
  <2>6. lost' \subseteq 1..Gone'
    <3>1. \A m \in lost : m \in 1..accepted
      BY <1>a DEF OrderInv
    <3>2. \A m \in Ids(JSONbuffer) : m \in 1..accepted
      BY <1>a, <2>4
    <3> QED  BY <2>1, <2>3, <3>1, <3>2
  <2>7. SentGone'
    BY <1>a, <2>1, <2>2, <2>3, <2>4 DEF OrderInv, SentGone, SameReadings
  <2>8. SentOrdered'
    BY <2>2 DEF OrderInv, SentOrdered, SameReadings
  <2>9. Covered'
    <3> SUFFICES ASSUME NEW m \in 1..accepted
                 PROVE  m \in lost' \/ \E k \in DOMAIN batches' : m \in Ids(batches'[k].readings)
      BY <2>3 DEF Covered
    <3>1. CASE m \in 1..Gone
      BY <2>1, <2>2, <3>1 DEF OrderInv, Covered, SameReadings
    <3>2. CASE m \notin 1..Gone
      BY <1>a, <2>1, <2>4, <3>2
    <3> QED  BY <3>1, <3>2
  <2> QED  BY <2>5, <2>6, <2>7, <2>8, <2>9 DEF OrderInv
<1>4. CASE Quiet
  <2>1. Gone' = Gone /\ JSONbuffer' = JSONbuffer /\ lost' = lost /\ accepted' = accepted
    BY <1>4 DEF Quiet, Gone
  <2>2. SameReadings
    BY <1>4 DEF Quiet
  <2> QED  BY <2>1, <2>2
           DEF OrderInv, Direct, Numbered, SentGone, SentOrdered, Covered, SameReadings
<1> QED  BY <1>1, <1>2, <1>3, <1>4, StepKinds

LEMMA OrderAlways == Spec => [](TypeOK /\ OrderInv)
<1>1. TypeOK /\ OrderInv /\ [Next]_vars => (TypeOK /\ OrderInv)'
  BY NextType, NextOrder
<1> QED  BY InitType, InitOrder, <1>1, PTL DEF Spec

\* No reading that sendJSON accepted is ever unaccounted for.
THEOREM NothingVanishes == Spec => []EveryReadingAccountedFor
<1>1. TypeOK /\ OrderInv => EveryReadingAccountedFor
  <2> SUFFICES ASSUME TypeOK, OrderInv, NEW n \in 1..accepted
               PROVE  \/ n \in Ids(JSONbuffer)
                      \/ \E k \in DOMAIN batches : n \in Ids(batches[k].readings)
                      \/ n \in lost
    BY DEF EveryReadingAccountedFor
  <2>1. /\ accepted \in Nat /\ Len(JSONbuffer) \in Nat
        /\ DOMAIN JSONbuffer = 1..Len(JSONbuffer) /\ Gone = accepted - Len(JSONbuffer)
    BY LenProperties DEF TypeOK, Gone
  <2>2. CASE n \in 1..Gone
    BY <2>2 DEF OrderInv, Covered
  <2>3. CASE n \notin 1..Gone
    <3>1. n - Gone \in DOMAIN JSONbuffer
      BY <2>1, <2>3 DEF OrderInv, Numbered
    <3>2. JSONbuffer[n - Gone].id = n
      BY <2>1, <3>1 DEF OrderInv, Numbered
    <3> QED  BY <3>1, <3>2 DEF Ids
  <2> QED  BY <2>2, <2>3
<1> QED  BY OrderAlways, <1>1, PTL

\* No reading is in two batches.
LEMMA OneBatch ==
  ASSUME TypeOK, OrderInv, NEW k \in DOMAIN batches, NEW l \in DOMAIN batches, NEW n,
         n \in Ids(batches[k].readings), n \in Ids(batches[l].readings)
  PROVE  k = l
<1>1. PICK i \in DOMAIN batches[k].readings : batches[k].readings[i].id = n
  BY DEF Ids
<1>2. PICK j \in DOMAIN batches[l].readings : batches[l].readings[j].id = n
  BY DEF Ids
<1>3. k \in Nat /\ l \in Nat /\ n \in Int
  BY <1>1, LenProperties DEF TypeOK, OrderInv, SentGone
<1>4. ~(k < l) /\ ~(l < k)
  BY <1>1, <1>2, <1>3 DEF OrderInv, SentOrdered
<1> QED  BY <1>3, <1>4

-----------------------------------------------------------------------------
(* What was handed to the network.  A batch joins sent when its POST or    *)
(* publish starts, which without compression is when it leaves JSONbuffer, *)
(* and else when its callback runs, which it does once.                    *)

SentInv ==
  /\ \A a \in DOMAIN sent :
       sent[a] \in DOMAIN batches /\ batches[sent[a]].stage # "deflating"
  /\ \A a, b \in DOMAIN sent : a # b => sent[a] # sent[b]
  /\ ~config.compress =>
       /\ \A k \in DOMAIN batches : batches[k].stage # "deflating"
       /\ \A a, b \in DOMAIN sent : a < b => sent[a] < sent[b]

LEMMA InitSent == Init => SentInv
  BY DEF Init, SentInv

\* Nothing begins to be sent, and no batch goes back to the compressor.
LEMMA SentStays ==
  ASSUME SentInv, UNCHANGED sent, DOMAIN batches' = DOMAIN batches,
         \A k \in DOMAIN batches :
           batches'[k].stage = "deflating" => batches[k].stage = "deflating"
  PROVE  SentInv'
  BY DEF SentInv

\* A batch leaves JSONbuffer, for the compressor or for the network.
LEMMA SentLeaving ==
  ASSUME TypeOK, SentInv, NEW b \in Batch, batches' = Append(batches, b), SentIf(b),
         ~config.compress => b.stage # "deflating"
  PROVE  SentInv'
<1> DEFINE n == Len(batches) + 1
<1>1. /\ DOMAIN batches = 1..Len(batches) /\ Len(batches) \in Nat
      /\ DOMAIN batches' = 1..n /\ batches'[n] = b
      /\ \A k \in 1..Len(batches) : batches'[k] = batches[k]
  BY LenProperties, AppendProperties DEF TypeOK
<1>2. \A a \in DOMAIN sent : /\ sent[a] \in 1..Len(batches)
                             /\ batches'[sent[a]].stage # "deflating"
  BY <1>1 DEF SentInv
<1>3. CASE b.stage = "sending"
  <2>1. sent' = Append(sent, n)
    BY <1>3 DEF SentIf
  <2>2. /\ DOMAIN sent = 1..Len(sent) /\ Len(sent) \in Nat
        /\ DOMAIN sent' = 1..(Len(sent) + 1) /\ sent'[Len(sent) + 1] = n
        /\ \A a \in 1..Len(sent) : sent'[a] = sent[a]
    <3>1. n \in Nat /\ sent \in Seq(Nat)
      BY <1>1 DEF TypeOK
    <3> HIDE DEF n
    <3> QED  BY <2>1, <3>1, LenProperties, AppendProperties
  <2> HIDE DEF n
  <2>3. \A a \in 1..Len(sent) : sent'[a] \in 1..Len(batches) /\ sent'[a] < n
    BY <1>1, <1>2, <2>2 DEF n
  <2>4. ASSUME NEW a \in DOMAIN sent'
        PROVE  sent'[a] \in DOMAIN batches' /\ batches'[sent'[a]].stage # "deflating"
    <3>1. CASE a \in 1..Len(sent)
      <4>1. sent'[a] = sent[a] /\ a \in DOMAIN sent
        BY <2>2, <3>1
      <4> QED  BY <1>1, <1>2, <4>1 DEF n
    <3>2. CASE a = Len(sent) + 1
      <4>1. sent'[a] = n /\ n \in DOMAIN batches'
        BY <1>1, <2>2, <3>2 DEF n
      <4> QED  BY <1>1, <1>3, <4>1
    <3> QED  BY <2>2, <3>1, <3>2
  <2>5. ASSUME NEW a \in DOMAIN sent', NEW c \in DOMAIN sent', a # c
        PROVE  sent'[a] # sent'[c]
    <3>1. CASE a \in 1..Len(sent) /\ c \in 1..Len(sent)
      BY <2>2, <2>5, <3>1 DEF SentInv
    <3>2. CASE a = Len(sent) + 1
      <4>1. c \in 1..Len(sent)
        BY <2>2, <2>5, <3>2
      <4>2. sent'[c] < n /\ sent'[a] = n /\ sent'[c] \in 1..Len(batches)
        BY <2>2, <2>3, <3>2, <4>1
      <4> QED  BY <1>1, <4>2 DEF n
    <3>3. CASE c = Len(sent) + 1
      <4>1. a \in 1..Len(sent)
        BY <2>2, <2>5, <3>3
      <4>2. sent'[a] < n /\ sent'[c] = n /\ sent'[a] \in 1..Len(batches)
        BY <2>2, <2>3, <3>3, <4>1
      <4> QED  BY <1>1, <4>2 DEF n
    <3> QED  BY <2>2, <3>1, <3>2, <3>3
  <2>6. ASSUME ~config.compress, NEW a \in DOMAIN sent', NEW c \in DOMAIN sent', a < c
        PROVE  sent'[a] < sent'[c]
    <3>1. a \in 1..Len(sent)
      BY <2>2, <2>6
    <3>2. CASE c \in 1..Len(sent)
      BY <2>2, <2>6, <3>1, <3>2 DEF SentInv
    <3>3. CASE c = Len(sent) + 1
      BY <2>2, <2>3, <3>1, <3>3
    <3> QED  BY <2>2, <3>2, <3>3
  <2>7. ASSUME ~config.compress, NEW k \in DOMAIN batches'
        PROVE  batches'[k].stage # "deflating"
    <3>1. CASE k \in 1..Len(batches)
      BY <1>1, <2>7, <3>1 DEF SentInv
    <3>2. CASE k = n
      BY <1>1, <1>3, <3>2
    <3> QED  BY <1>1, <3>1, <3>2 DEF n
  <2> QED  BY <2>4, <2>5, <2>6, <2>7 DEF SentInv
<1>4. CASE b.stage # "sending"
  <2>1. sent' = sent
    BY <1>4 DEF SentIf
  <2>2. \A a \in DOMAIN sent' : sent'[a] \in DOMAIN batches'
    BY <1>1, <1>2, <2>1
  <2>3. ASSUME ~config.compress, NEW k \in DOMAIN batches'
        PROVE  batches'[k].stage # "deflating"
    <3>1. CASE k \in 1..Len(batches)
      BY <1>1, <2>3, <3>1 DEF SentInv
    <3>2. CASE k = n
      BY <1>1, <2>3, <3>2
    <3> QED  BY <1>1, <3>1, <3>2
  <2> QED  BY <1>2, <2>1, <2>2, <2>3 DEF SentInv
<1> QED  BY <1>3, <1>4

\* A callback of zlib sends its batch, which was not sent before.
LEMMA SentDeflated ==
  ASSUME TypeOK, SentInv, NEW k \in DOMAIN batches, DeflateDone(k)
  PROVE  SentInv'
<1>1. /\ DOMAIN batches = 1..Len(batches) /\ k \in Nat
      /\ \A l \in DOMAIN batches : batches[l] \in Batch
  BY ElementOfSeq, LenProperties DEF TypeOK
<1>2. batches[k].stage = "deflating" /\ config.compress
  BY DEF DeflateDone, SentInv
<1>3. CASE sent' = Append(sent, k) /\ batches' = [batches EXCEPT ![k].stage = "sending", ![k].homeid = homeID]
  <2>1. /\ DOMAIN batches' = DOMAIN batches /\ batches'[k].stage = "sending"
        /\ \A l \in DOMAIN batches \ {k} : batches'[l].stage = batches[l].stage
    BY <1>1, <1>3 DEF Batch
  <2>2. /\ DOMAIN sent = 1..Len(sent) /\ Len(sent) \in Nat
        /\ DOMAIN sent' = 1..(Len(sent) + 1) /\ sent'[Len(sent) + 1] = k
        /\ \A a \in 1..Len(sent) : sent'[a] = sent[a]
    BY <1>1, <1>3, LenProperties, AppendProperties DEF TypeOK
  <2>3. \A a \in 1..Len(sent) : sent'[a] # k
    BY <1>2, <2>2 DEF SentInv
  <2>4. ASSUME NEW a \in DOMAIN sent'
        PROVE  sent'[a] \in DOMAIN batches' /\ batches'[sent'[a]].stage # "deflating"
    <3>1. CASE a \in 1..Len(sent)
      BY <2>1, <2>2, <2>3, <3>1 DEF SentInv
    <3>2. CASE a = Len(sent) + 1
      BY <2>1, <2>2, <3>2
    <3> QED  BY <2>2, <3>1, <3>2
  <2>5. ASSUME NEW a \in DOMAIN sent', NEW c \in DOMAIN sent', a # c
        PROVE  sent'[a] # sent'[c]
    <3>1. CASE a \in 1..Len(sent) /\ c \in 1..Len(sent)
      BY <2>2, <2>5, <3>1 DEF SentInv
    <3>2. CASE a = Len(sent) + 1 /\ c \in 1..Len(sent)
      BY <2>2, <2>3, <3>2
    <3>3. CASE c = Len(sent) + 1 /\ a \in 1..Len(sent)
      BY <2>2, <2>3, <3>3
    <3> QED  BY <2>2, <2>5, <3>1, <3>2, <3>3
  <2> QED  BY <1>2, <2>4, <2>5 DEF SentInv
<1>4. CASE sent' = sent /\ batches' = [batches EXCEPT ![k].stage = "failed"]
  <2>1. /\ DOMAIN batches' = DOMAIN batches
        /\ \A l \in DOMAIN batches : batches'[l].stage \in {batches[l].stage, "failed"}
    BY <1>1, <1>4 DEF Batch
  <2> QED  BY <1>4, <2>1, SentStays
<1> QED  BY <1>3, <1>4 DEF DeflateDone

LEMMA NextSent == TypeOK /\ SentInv /\ [Next]_vars => SentInv'
<1> SUFFICES ASSUME TypeOK, SentInv, [Next]_vars PROVE SentInv'
  OBVIOUS
<1>a. /\ JSONbuffer \in Seq(Reading) /\ homeID \in Homes \cup {Unknown}
      /\ \A k \in DOMAIN batches : batches[k] \in Batch
  BY ElementOfSeq, LenProperties DEF TypeOK
<1>b. ASSUME NEW readings, NEW b \in Batch, Departs(b, readings) PROVE SentInv'
  <2>1. /\ config.compress \/ b.stage = "sending"
        /\ batches' = Append(batches, b) /\ SentIf(b)
    BY <1>b DEF Departs
  <2>2. ~config.compress => b.stage # "deflating"
    BY <2>1
  <2> QED  BY <2>1, <2>2, SentLeaving
<1>1. ASSUME NEW r \in Reading, SendJSON(r) PROVE SentInv'
  <2>1. CASE Waits(r)
    BY <2>1, SentStays DEF Waits, sendVars
  <2>2. CASE Leaves(Append(JSONbuffer, r))
    BY <1>b, <2>2 DEF Leaves
  <2>3. CASE LeavesAlone(r)
    BY <1>b, <2>3 DEF LeavesAlone
  <2> QED  BY <1>1, <2>1, <2>2, <2>3, SendJSONEffect
<1>2. CASE TimerTick
  <2>1. SendBuffer(JSONbuffer) /\ homeID' = homeID
    BY <1>2 DEF TimerTick
  <2>2. Leaves(JSONbuffer)
    BY <1>a, <2>1, SendBufferLeaves
  <2> QED  BY <1>b, <2>2 DEF Leaves
<1>3. CASE KillTimer
  <2>1. /\ DOMAIN batches' = DOMAIN batches /\ UNCHANGED sent
        /\ \A k \in DOMAIN batches : batches'[k].stage \in {batches[k].stage, "delivered", "failed"}
    BY <1>3, <1>a DEF KillTimer, Batch
  <2> QED  BY <2>1, SentStays
<1>4. CASE Quiet
  <2>1. CASE UNCHANGED sendVars
    BY <2>1, SentStays DEF sendVars
  <2>2. CASE \E k \in DOMAIN batches : DeflateDone(k)
    BY <2>2, SentDeflated
  <2>3. CASE \E k \in DOMAIN batches : \E s \in {"delivered", "failed"} : SendDone(k, s)
    <3>1. PICK k \in DOMAIN batches, s \in {"delivered", "failed"} : SendDone(k, s)
      BY <2>3
    <3>2. /\ DOMAIN batches' = DOMAIN batches /\ UNCHANGED sent
          /\ \A l \in DOMAIN batches : batches'[l].stage \in {batches[l].stage, s}
      BY <1>a, <3>1 DEF SendDone, Batch
    <3> QED  BY <3>2, SentStays
  <2> QED  BY <1>4, <2>1, <2>2, <2>3 DEF Quiet
<1> QED  BY <1>1, <1>2, <1>3, <1>4, StepKinds

LEMMA SentAlways == Spec => [](TypeOK /\ OrderInv /\ SentInv)
<1>1. TypeOK /\ SentInv /\ [Next]_vars => (TypeOK /\ SentInv)'
  BY NextType, NextSent
<1> QED  BY InitType, InitSent, <1>1, OrderAlways, PTL DEF Spec

\* What the two theorems below need of the numbers of readings.
LEMMA SentNumbers ==
  ASSUME TypeOK, OrderInv, SentInv, NEW a \in DOMAIN sent, NEW i \in DOMAIN Sent(a)
  PROVE  /\ sent[a] \in DOMAIN batches /\ sent[a] \in Nat /\ a \in Nat /\ i \in Nat
         /\ i \in DOMAIN batches[sent[a]].readings
         /\ Sent(a)[i].id = batches[sent[a]].readings[i].id
         /\ Sent(a)[i].id \in 1..Gone /\ Sent(a)[i].id \notin lost
         /\ Sent(a)[i].id \in Ids(batches[sent[a]].readings)
         /\ \A j \in DOMAIN JSONbuffer : Sent(a)[i].id < JSONbuffer[j].id
<1>1. sent[a] \in DOMAIN batches
  BY DEF SentInv
<1>2. batches[sent[a]] \in Batch /\ sent[a] \in Nat /\ a \in Nat
  BY <1>1, ElementOfSeq, LenProperties DEF TypeOK
<1>3. i \in Nat
  BY <1>2, LenProperties DEF Batch, Sent
<1>4. Sent(a)[i].id \in 1..Gone /\ Sent(a)[i].id \notin lost
  BY <1>1 DEF OrderInv, SentGone, Sent
<1>5. Sent(a)[i].id \in Ids(batches[sent[a]].readings)
  BY DEF Ids, Sent
<1>6. ASSUME NEW j \in DOMAIN JSONbuffer PROVE Sent(a)[i].id < JSONbuffer[j].id
  <2>1. j \in 1..Len(JSONbuffer) /\ Len(JSONbuffer) \in Nat /\ Gone \in Int
    BY LenProperties DEF TypeOK, Gone
  <2>2. JSONbuffer[j].id = Gone + j
    BY DEF OrderInv, Numbered
  <2> QED  BY <1>4, <2>1, <2>2
<1> QED  BY <1>1, <1>2, <1>3, <1>4, <1>5, <1>6 DEF Sent

\* No reading is handed to the network twice, whatever the order of the
\* callbacks, and none while it waits or after it was lost at an exit.
THEOREM SendsOnce == Spec => []SentOnce
<1>1. TypeOK /\ OrderInv /\ SentInv => SentOnce
  <2> SUFFICES ASSUME TypeOK, OrderInv, SentInv PROVE SentOnce
    OBVIOUS
  <2>1. ASSUME NEW a \in DOMAIN sent, NEW b \in DOMAIN sent,
               NEW i \in DOMAIN Sent(a), NEW j \in DOMAIN Sent(b),
               Sent(a)[i].id = Sent(b)[j].id
        PROVE  a = b /\ i = j
    <3>1. /\ sent[a] \in DOMAIN batches /\ i \in DOMAIN batches[sent[a]].readings
          /\ Sent(a)[i].id \in Ids(batches[sent[a]].readings)
          /\ i \in Nat /\ Sent(a)[i].id \in 1..Gone
          /\ Sent(a)[i].id = batches[sent[a]].readings[i].id
      BY SentNumbers
    <3>2. /\ sent[b] \in DOMAIN batches /\ j \in DOMAIN batches[sent[b]].readings
          /\ Sent(b)[j].id \in Ids(batches[sent[b]].readings)
          /\ j \in Nat /\ Sent(b)[j].id = batches[sent[b]].readings[j].id
      BY SentNumbers
    <3>3. sent[a] = sent[b]
      BY <2>1, <3>1, <3>2, OneBatch
    <3>4. a = b
      BY <3>3 DEF SentInv
    <3>5. ~(i < j) /\ ~(j < i)
      <4> DEFINE k == sent[a]
      <4>1. sent[b] = k
        BY <3>3
      <4>2. batches[k].readings[i].id = batches[k].readings[j].id
        BY <2>1, <3>1, <3>2, <4>1
      <4>3. k \in DOMAIN batches /\ i \in DOMAIN batches[k].readings /\ j \in DOMAIN batches[k].readings
            /\ batches[k].readings[i].id \in Int
        BY <3>1, <3>2, <4>1
      <4> HIDE DEF k
      <4> QED  BY <4>2, <4>3 DEF OrderInv, SentOrdered
    <3> QED  BY <3>1, <3>2, <3>4, <3>5
  <2>2. ASSUME NEW a \in DOMAIN sent, NEW n \in Ids(Sent(a))
        PROVE  n \notin Ids(JSONbuffer) /\ n \notin lost
    <3>1. PICK i \in DOMAIN Sent(a) : n = Sent(a)[i].id
      BY DEF Ids
    <3>2. n \in 1..Gone /\ n \notin lost /\ \A j \in DOMAIN JSONbuffer : n < JSONbuffer[j].id
      BY <3>1, SentNumbers
    <3>3. \A j \in DOMAIN JSONbuffer : n # JSONbuffer[j].id
      BY <3>2
    <3> QED  BY <3>2, <3>3 DEF Ids
  <2> QED  BY <2>1, <2>2 DEF SentOnce
<1> QED  BY SentAlways, <1>1, PTL

\* Readings are handed to the network in the order of their acceptance: without
\* compression all of them, with compression those of one batch; and those that
\* still wait are younger.
THEOREM SendingIsOrdered == Spec => []SentInOrder
<1>1. TypeOK /\ OrderInv /\ SentInv => SentInOrder
  <2> SUFFICES ASSUME TypeOK, OrderInv, SentInv PROVE SentInOrder
    OBVIOUS
  <2>1. ASSUME NEW a \in DOMAIN sent, NEW b \in DOMAIN sent,
               NEW i \in DOMAIN Sent(a), NEW j \in DOMAIN Sent(b),
               (a < b /\ ~config.compress) \/ (a = b /\ i < j)
        PROVE  Sent(a)[i].id < Sent(b)[j].id
    <3>1. /\ sent[a] \in DOMAIN batches /\ i \in DOMAIN batches[sent[a]].readings
          /\ Sent(a)[i].id = batches[sent[a]].readings[i].id
      BY SentNumbers
    <3>2. /\ sent[b] \in DOMAIN batches /\ j \in DOMAIN batches[sent[b]].readings
          /\ Sent(b)[j].id = batches[sent[b]].readings[j].id
      BY SentNumbers
    <3>3. sent[a] < sent[b] \/ (sent[a] = sent[b] /\ i < j)
      BY <2>1 DEF SentInv
    <3> QED  BY <3>1, <3>2, <3>3 DEF OrderInv, SentOrdered
  <2>2. ASSUME NEW a \in DOMAIN sent, NEW i \in DOMAIN Sent(a), NEW j \in DOMAIN JSONbuffer
        PROVE  Sent(a)[i].id < JSONbuffer[j].id
    BY SentNumbers
  <2> QED  BY <2>1, <2>2 DEF SentInOrder
<1> QED  BY SentAlways, <1>1, PTL

-----------------------------------------------------------------------------
(* The label of a published batch.  homeID is the home of the reading that *)
(* waits last, and without compression a batch is never relabelled.        *)

LastHome(readings) == readings[Len(readings)].home_id

LabelInv ==
  /\ JSONbuffer # <<>> => homeID = LastHome(JSONbuffer)
  /\ ~config.compress =>
       \A k \in DOMAIN batches :
         /\ batches[k].stage # "deflating"
         /\ batches[k].readings # <<>> => batches[k].homeid = LastHome(batches[k].readings)

\* A batch that is appended with the right label.
LEMMA LabelledAppend ==
  ASSUME TypeOK, LabelInv, NEW b \in Batch, batches' = Append(batches, b),
         ~config.compress => /\ b.stage # "deflating"
                             /\ b.readings # <<>> => b.homeid = LastHome(b.readings),
         JSONbuffer' = <<>>
  PROVE  LabelInv'
<1>1. batches \in Seq(Batch)
  BY DEF TypeOK
<1>2. ASSUME NEW k \in DOMAIN batches', ~config.compress
      PROVE  /\ batches'[k].stage # "deflating"
             /\ batches'[k].readings # <<>> => batches'[k].homeid = LastHome(batches'[k].readings)
  <2>1. CASE k \in DOMAIN batches
    <3>1. batches'[k] = batches[k]
      BY <1>1, <2>1
    <3> QED  BY <1>2, <2>1, <3>1 DEF LabelInv
  <2>2. CASE k \notin DOMAIN batches
    <3>1. batches'[k] = b
      BY <1>1, <1>2, <2>2
    <3> QED  BY <1>2, <3>1
  <2> QED  BY <2>1, <2>2
<1> QED  BY <1>2 DEF LabelInv

LEMMA LabelledSend ==
  ASSUME TypeOK, LabelInv, NEW readings \in Seq(Reading), SendBuffer(readings),
         homeID' \in Homes \cup {Unknown}, readings # <<>> => homeID' = LastHome(readings)
  PROVE  LabelInv'
<1> DEFINE b == [readings |-> readings,
                 stage |-> IF config.compress THEN "deflating" ELSE "sending",
                 homeid |-> homeID']
<1>1. b \in Batch
  BY DEF Batch, Stage
<1>2. batches' = Append(batches, b) /\ JSONbuffer' = <<>>
  BY DEF SendBuffer, ResetBuffer
<1>3. b.readings = readings /\ b.homeid = homeID' /\ (~config.compress => b.stage # "deflating")
  OBVIOUS
<1> HIDE DEF b
<1> QED  BY <1>1, <1>2, <1>3, LabelledAppend

LEMMA NextLabel == TypeOK /\ OrderInv /\ LabelInv /\ [Next]_vars => LabelInv'
<1> SUFFICES ASSUME TypeOK, OrderInv, LabelInv, [Next]_vars PROVE LabelInv'
  OBVIOUS
<1>0. JSONbuffer \in Seq(Reading) /\ batches \in Seq(Batch)
  BY DEF TypeOK
<1>a. ASSUME NEW r \in Reading, SendJSON(r) PROVE LabelInv'
  <2>1. homeID' = r.home_id /\ homeID' \in Homes
    BY <1>a DEF SendJSON, LearnHome, Reading
  <2>2. /\ Append(JSONbuffer, r) \in Seq(Reading)
        /\ LastHome(Append(JSONbuffer, r)) = r.home_id
        /\ LastHome(<<r>>) = r.home_id
    BY <1>0 DEF LastHome
  <2>3. CASE Waits(r)
    <3>1. JSONbuffer' = Append(JSONbuffer, r) /\ batches' = batches
      BY <2>3 DEF Waits, sendVars
    <3>2. JSONbuffer' # <<>> => homeID' = LastHome(JSONbuffer')
      BY <2>1, <2>2, <3>1
    <3> QED  BY <3>1, <3>2 DEF LabelInv
  <2>4. CASE SendBuffer(Append(JSONbuffer, r))
    BY <2>1, <2>2, <2>4, LabelledSend
  <2>5. CASE ~config.JSONbuffertime /\ config.JSONbuffersize = 0
    <3>1. PostReading(r) /\ JSONbuffer = <<>>
      BY <1>a, <2>5 DEF SendJSON, OrderInv, Direct
    <3> DEFINE b == [readings |-> <<r>>, stage |-> "sending", homeid |-> homeID']
    <3>2. b \in Batch /\ b.readings = <<r>> /\ b.stage = "sending" /\ b.homeid = homeID'
      BY <2>1 DEF Batch, Stage
    <3>3. batches' = Append(batches, b) /\ JSONbuffer' = <<>>
      BY <3>1 DEF PostReading
    <3> HIDE DEF b
    <3> QED  BY <2>1, <2>2, <3>2, <3>3, LabelledAppend
  <2> QED  BY <1>a, <2>3, <2>4, <2>5, SendJSONEffect
<1>1. ASSUME NEW p \in Packets, OnData(p) PROVE LabelInv'
  <2>1. CASE Accepts(p)
    <3> DEFINE r == MakeReading(p, previousGas[p.node_id], accepted + 1)
    <3>1. r \in Reading
      <4>1. p \in Packet /\ p.node_id \in {q.node_id : q \in Packets}
        BY ServerAssumption
      <4>2. accepted + 1 \in Nat /\ previousGas[p.node_id] \in Int \cup {Undefined}
        BY <4>1 DEF TypeOK
      <4> QED  BY <2>1, <4>1, <4>2, MakeReadingType
    <3>2. SendJSON(r)
      BY <1>1, <2>1 DEF OnData
    <3> HIDE DEF r
    <3> QED  BY <1>a, <3>1, <3>2
  <2>2. CASE ~Accepts(p)
    BY <1>1, <2>2 DEF OnData, LabelInv, sendVars
  <2> QED  BY <2>1, <2>2
<1>2. CASE OnJunk \/ UNCHANGED vars
  BY <1>2 DEF OnJunk, vars, loopVars, sendVars, LabelInv
<1>3. CASE OnNull \/ UncaughtException \/ Start
  BY <1>3 DEF OnNull, UncaughtException, Start, loopVars, sendVars, LabelInv
<1>4. CASE TimerTick
  <2>1. SendBuffer(JSONbuffer) /\ homeID' = homeID
    BY <1>4 DEF TimerTick
  <2> QED  BY <2>1, LabelledSend DEF LabelInv, TypeOK
<1>5. ASSUME NEW k \in DOMAIN batches, DeflateDone(k) PROVE LabelInv'
  <2>1. config.compress
    BY <1>5 DEF DeflateDone, LabelInv
  <2> QED  BY <1>5, <2>1 DEF DeflateDone, LabelInv
<1>6. ASSUME NEW k \in DOMAIN batches, NEW s \in {"delivered", "failed"}, SendDone(k, s)
      PROVE  LabelInv'
  <2>1. \A l \in DOMAIN batches : batches[l] \in Batch
    BY <1>0, ElementOfSeq, LenProperties
  <2>2. /\ DOMAIN batches' = DOMAIN batches
        /\ \A l \in DOMAIN batches :
             /\ batches'[l].readings = batches[l].readings
             /\ batches'[l].homeid = batches[l].homeid
             /\ batches'[l].stage \in {batches[l].stage, s}
    BY <1>6, <2>1 DEF SendDone, Batch
  <2>3. UNCHANGED <<homeID, JSONbuffer>>
    BY <1>6 DEF SendDone, loopVars
  <2> QED  BY <2>2, <2>3 DEF LabelInv
<1>7. ASSUME NEW k \in DOMAIN writes, NEW o \in {"saved", "failed"}, WriteDone(k, o)
      PROVE  LabelInv'
  BY <1>7 DEF WriteDone, loopVars, sendVars, LabelInv
<1>8. ASSUME NEW c \in shell, ExecDone(c) PROVE LabelInv'
  BY <1>8 DEF ExecDone, loopVars, sendVars, LabelInv
<1>9. CASE KillTimer
  <2>1. \A l \in DOMAIN batches : batches[l] \in Batch
    BY <1>0, ElementOfSeq, LenProperties
  <2>2. /\ DOMAIN batches' = DOMAIN batches
        /\ \A l \in DOMAIN batches :
             /\ batches'[l].readings = batches[l].readings
             /\ batches'[l].homeid = batches[l].homeid
             /\ batches'[l].stage \in {batches[l].stage, "delivered", "failed"}
    BY <1>9, <2>1 DEF KillTimer, Batch
  <2>3. JSONbuffer' = <<>>
    BY <1>9 DEF KillTimer
  <2> QED  BY <2>2, <2>3 DEF LabelInv
<1> QED  BY <1>1, <1>2, <1>3, <1>4, <1>5, <1>6, <1>7, <1>8, <1>9 DEF Next

\* A batch that is published without compression carries the home of its last
\* reading, across timer ticks, refused packets, exits and restarts.
THEOREM PublishedUnderLastHome == Spec => []LabelledByLastReading
<1>1. Init => LabelInv
  BY DEF Init, LabelInv
<1>2. LabelInv => LabelledByLastReading
  BY DEF LabelInv, LabelledByLastReading, LastHome
<1> QED  BY OrderAlways, NextLabel, <1>1, <1>2, PTL DEF Spec

-----------------------------------------------------------------------------
(* IdealServer implements Relay: every step of the server is a step of the
   at-most-once relay, or changes nothing the relay knows of.  The argument
   rests on OrderInv, which makes the batches disjoint: settling one batch
   moves its readings and no others. *)

InFlight == {"deflating", "sending"}

\* The mapped variables, as sets of numbers.
LEMMA StageMembers ==
  ASSUME NEW stages
  PROVE  \A n : n \in InStage(stages) <=>
           \E k \in DOMAIN batches : batches[k].stage \in stages /\ n \in Ids(batches[k].readings)
  BY DEF InStage

\* A stage that gains and loses no batch keeps its readings.
LEMMA Restaged ==
  ASSUME NEW stages, SameReadings,
         \A l \in DOMAIN batches : batches'[l].stage \in stages <=> batches[l].stage \in stages
  PROVE  InStage(stages)' = InStage(stages)
<1>1. DOMAIN batches' = DOMAIN batches
      /\ \A l \in DOMAIN batches : Ids(batches'[l].readings) = Ids(batches[l].readings)
  BY DEF SameReadings
<1>2. \A n : n \in InStage(stages)' <=>
        \E l \in DOMAIN batches : batches'[l].stage \in stages /\ n \in Ids(batches'[l].readings)
  BY <1>1 DEF InStage
<1>3. \A n : n \in InStage(stages) <=>
        \E l \in DOMAIN batches : batches[l].stage \in stages /\ n \in Ids(batches[l].readings)
  BY DEF InStage
<1>4. ASSUME NEW n PROVE n \in InStage(stages)' <=> n \in InStage(stages)
  BY <1>1, <1>2, <1>3
<1> QED  BY <1>4

\* Settling batch k takes its readings, and no others, out of flight.
LEMMA SettleOne ==
  ASSUME TypeOK, OrderInv, NEW k \in DOMAIN batches, batches[k].stage \in InFlight,
         NEW b, b.readings = batches[k].readings, b.stage \in {"delivered", "failed"},
         batches' = [batches EXCEPT ![k] = b]
  PROVE  LET S == Ids(batches[k].readings)
         IN  /\ S \subseteq InStage(InFlight)
             /\ InStage(InFlight)' = InStage(InFlight) \ S
             /\ InStage({b.stage})' = InStage({b.stage}) \cup S
             /\ \A t \in {"delivered", "failed"} \ {b.stage} : InStage({t})' = InStage({t})
<1> DEFINE S == Ids(batches[k].readings)
<1>1. /\ DOMAIN batches' = DOMAIN batches /\ batches'[k] = b
      /\ \A l \in DOMAIN batches \ {k} : batches'[l] = batches[l]
  OBVIOUS
<1>2. \A stages, n : n \in InStage(stages)' <=>
        \E l \in DOMAIN batches : batches'[l].stage \in stages /\ n \in Ids(batches'[l].readings)
  BY <1>1 DEF InStage
<1>3. \A stages, n : n \in InStage(stages) <=>
        \E l \in DOMAIN batches : batches[l].stage \in stages /\ n \in Ids(batches[l].readings)
  BY DEF InStage
<1>4. \A l \in DOMAIN batches : \A n : n \in S /\ n \in Ids(batches[l].readings) => l = k
  BY OneBatch
<1>5. Ids(batches'[k].readings) = S
  BY <1>1
<1>6. \A l \in DOMAIN batches \ {k} : Ids(batches'[l].readings) = Ids(batches[l].readings)
  BY <1>1
<1> HIDE DEF S
<1>7. S \subseteq InStage(InFlight)
  BY <1>3 DEF S
<1>8. InStage(InFlight)' = InStage(InFlight) \ S
  <2>1. ASSUME NEW n \in InStage(InFlight)' PROVE n \in InStage(InFlight) \ S
    <3>1. PICK l \in DOMAIN batches : batches'[l].stage \in InFlight /\ n \in Ids(batches'[l].readings)
      BY <1>2, <2>1
    <3>2. l # k
      BY <1>1, <3>1 DEF InFlight
    <3> QED  BY <1>1, <1>3, <1>4, <1>6, <3>1, <3>2
  <2>2. ASSUME NEW n \in InStage(InFlight) \ S PROVE n \in InStage(InFlight)'
    <3>1. PICK l \in DOMAIN batches : batches[l].stage \in InFlight /\ n \in Ids(batches[l].readings)
      BY <1>3, <2>2
    <3>2. l # k
      BY <2>2, <3>1 DEF S
    <3> QED  BY <1>1, <1>2, <1>6, <3>1, <3>2
  <2> QED  BY <2>1, <2>2
<1>9. InStage({b.stage})' = InStage({b.stage}) \cup S
  <2>1. ASSUME NEW n \in InStage({b.stage})' PROVE n \in InStage({b.stage}) \cup S
    <3>1. PICK l \in DOMAIN batches : batches'[l].stage = b.stage /\ n \in Ids(batches'[l].readings)
      BY <1>2, <2>1
    <3> QED  BY <1>1, <1>3, <1>5, <1>6, <3>1
  <2>2. ASSUME NEW n \in S PROVE n \in InStage({b.stage})'
    BY <1>1, <1>2, <1>5, <2>2
  <2>3. ASSUME NEW n \in InStage({b.stage}) PROVE n \in InStage({b.stage})'
    <3>1. PICK l \in DOMAIN batches : batches[l].stage = b.stage /\ n \in Ids(batches[l].readings)
      BY <1>3, <2>3
    <3>2. l # k
      BY <3>1 DEF InFlight
    <3> QED  BY <1>1, <1>2, <1>6, <3>1, <3>2
  <2> QED  BY <2>1, <2>2, <2>3
<1>10. ASSUME NEW t \in {"delivered", "failed"} \ {b.stage}
       PROVE  InStage({t})' = InStage({t})
  <2>1. \A l \in DOMAIN batches : batches'[l].stage = t <=> batches[l].stage = t
    BY <1>1, <1>10 DEF InFlight
  <2>2. SameReadings
    BY <1>1 DEF SameReadings
  <2> QED  BY <2>1, <2>2, Restaged
<1> QED  BY <1>7, <1>8, <1>9, <1>10 DEF S

\* A batch that starts on its way adds its readings to those in flight.
LEMMA Appended ==
  ASSUME TypeOK, NEW b \in Batch, b.stage \in InFlight, batches' = Append(batches, b)
  PROVE  /\ InStage(InFlight)' = InStage(InFlight) \cup Ids(b.readings)
         /\ InStage({"delivered"})' = InStage({"delivered"})
         /\ InStage({"failed"})' = InStage({"failed"})
<1> DEFINE m == Len(batches) + 1
<1>1. /\ m \in Nat /\ m \notin DOMAIN batches
      /\ DOMAIN batches' = DOMAIN batches \cup {m} /\ batches'[m] = b
      /\ \A l \in DOMAIN batches : batches'[l] = batches[l]
  BY LenProperties, AppendProperties DEF TypeOK
<1> HIDE DEF m
<1>2. \A stages, n : n \in InStage(stages)' <=>
        \E l \in DOMAIN batches' : batches'[l].stage \in stages /\ n \in Ids(batches'[l].readings)
  BY DEF InStage
<1>3. \A stages, n : n \in InStage(stages) <=>
        \E l \in DOMAIN batches : batches[l].stage \in stages /\ n \in Ids(batches[l].readings)
  BY DEF InStage
<1>4. ASSUME NEW stages, NEW n
      PROVE  n \in InStage(stages)' <=>
               n \in InStage(stages) \/ (b.stage \in stages /\ n \in Ids(b.readings))
  <2>1. ASSUME n \in InStage(stages)'
        PROVE  n \in InStage(stages) \/ (b.stage \in stages /\ n \in Ids(b.readings))
    <3>1. PICK l \in DOMAIN batches' : batches'[l].stage \in stages /\ n \in Ids(batches'[l].readings)
      BY <1>2, <2>1
    <3>2. CASE l = m
      BY <1>1, <3>1, <3>2
    <3>3. CASE l \in DOMAIN batches
      BY <1>1, <1>3, <3>1, <3>3
    <3> QED  BY <1>1, <3>2, <3>3
  <2>2. ASSUME n \in InStage(stages) PROVE n \in InStage(stages)'
    <3>1. PICK l \in DOMAIN batches : batches[l].stage \in stages /\ n \in Ids(batches[l].readings)
      BY <1>3, <2>2
    <3> QED  BY <1>1, <1>2, <3>1
  <2>3. ASSUME b.stage \in stages, n \in Ids(b.readings) PROVE n \in InStage(stages)'
    BY <1>1, <1>2, <2>3
  <2> QED  BY <2>1, <2>2, <2>3
<1>5. b.stage \notin {"delivered"} /\ b.stage \notin {"failed"}
  BY DEF InFlight
<1> QED  BY <1>4, <1>5

\* process.exit(1) ends every flight: the readings of the batches that arrived
\* are delivered, the others of those in flight are dropped.
LEMMA KilledStages ==
  ASSUME TypeOK, OrderInv, KillTimer
  PROVE  \E S \in SUBSET InStage(InFlight) :
           /\ InStage(InFlight)' = {}
           /\ InStage({"delivered"})' = InStage({"delivered"}) \cup S
           /\ InStage({"failed"})' = InStage({"failed"}) \cup (InStage(InFlight) \ S)
<1>1. PICK arrived \in SUBSET {k \in DOMAIN batches : batches[k].stage = "sending"} :
        batches' = [k \in DOMAIN batches |->
          IF k \in arrived THEN [batches[k] EXCEPT !.stage = "delivered"]
          ELSE IF batches[k].stage \in {"deflating", "sending"}
          THEN [batches[k] EXCEPT !.stage = "failed"] ELSE batches[k]]
  BY DEF KillTimer
<1> DEFINE S == UNION {Ids(batches[k].readings) : k \in arrived}
<1>2. DOMAIN batches' = DOMAIN batches
      /\ \A l \in DOMAIN batches : Ids(batches'[l].readings) = Ids(batches[l].readings)
  BY KillTimerKeepsReadings DEF SameReadings
<1>3. \A l \in DOMAIN batches :
        batches'[l].stage = IF l \in arrived THEN "delivered"
                            ELSE IF batches[l].stage \in InFlight THEN "failed"
                            ELSE batches[l].stage
  <2>1. \A l \in DOMAIN batches : batches[l] \in Batch
    BY ElementOfSeq, LenProperties DEF TypeOK
  <2> QED  BY <1>1, <2>1 DEF Batch, InFlight
<1>4. \A l \in arrived : l \in DOMAIN batches /\ batches[l].stage \in InFlight
  BY DEF InFlight
<1>5. \A stages, n : n \in InStage(stages)' <=>
        \E l \in DOMAIN batches : batches'[l].stage \in stages /\ n \in Ids(batches'[l].readings)
  BY <1>2 DEF InStage
<1>6. \A stages, n : n \in InStage(stages) <=>
        \E l \in DOMAIN batches : batches[l].stage \in stages /\ n \in Ids(batches[l].readings)
  BY DEF InStage
<1>7. \A n : n \in S <=> \E l \in arrived : n \in Ids(batches[l].readings)
  OBVIOUS
<1> HIDE DEF S
<1>8. S \in SUBSET InStage(InFlight)
  BY <1>4, <1>6, <1>7
<1>9. InStage(InFlight)' = {}
  BY <1>3, <1>5 DEF InFlight
<1>10. ASSUME NEW n
       PROVE  n \in InStage({"delivered"})' <=> n \in InStage({"delivered"}) \cup S
  <2>1. ASSUME n \in InStage({"delivered"})' PROVE n \in InStage({"delivered"}) \cup S
    <3>1. PICK l \in DOMAIN batches : batches'[l].stage = "delivered" /\ n \in Ids(batches'[l].readings)
      BY <1>5, <2>1
    <3>2. l \in arrived \/ batches[l].stage = "delivered"
      BY <1>3, <3>1
    <3> QED  BY <1>2, <1>6, <1>7, <3>1, <3>2
  <2>2. ASSUME n \in InStage({"delivered"}) PROVE n \in InStage({"delivered"})'
    <3>1. PICK l \in DOMAIN batches : batches[l].stage = "delivered" /\ n \in Ids(batches[l].readings)
      BY <1>6, <2>2
    <3>2. batches'[l].stage = "delivered"
      BY <1>3, <3>1 DEF InFlight
    <3> QED  BY <1>2, <1>5, <3>1, <3>2
  <2>3. ASSUME n \in S PROVE n \in InStage({"delivered"})'
    <3>1. PICK l \in arrived : n \in Ids(batches[l].readings)
      BY <1>7, <2>3
    <3> QED  BY <1>2, <1>3, <1>4, <1>5, <3>1
  <2> QED  BY <2>1, <2>2, <2>3
<1>11. ASSUME NEW n
       PROVE  n \in InStage({"failed"})' <=> n \in InStage({"failed"}) \cup (InStage(InFlight) \ S)
  <2>1. ASSUME n \in InStage({"failed"})'
        PROVE  n \in InStage({"failed"}) \cup (InStage(InFlight) \ S)
    <3>1. PICK l \in DOMAIN batches : batches'[l].stage = "failed" /\ n \in Ids(batches'[l].readings)
      BY <1>5, <2>1
    <3>2. l \notin arrived /\ (batches[l].stage = "failed" \/ batches[l].stage \in InFlight)
      BY <1>3, <3>1
    <3>3. n \in Ids(batches[l].readings)
      BY <1>2, <3>1
    <3>4. n \notin S
      BY <1>4, <1>7, <3>2, <3>3, OneBatch
    <3> QED  BY <1>6, <3>2, <3>3, <3>4
  <2>2. ASSUME n \in InStage({"failed"}) PROVE n \in InStage({"failed"})'
    <3>1. PICK l \in DOMAIN batches : batches[l].stage = "failed" /\ n \in Ids(batches[l].readings)
      BY <1>6, <2>2
    <3>2. batches'[l].stage = "failed"
      BY <1>3, <1>4, <3>1 DEF InFlight
    <3> QED  BY <1>2, <1>5, <3>1, <3>2
  <2>3. ASSUME n \in InStage(InFlight), n \notin S PROVE n \in InStage({"failed"})'
    <3>1. PICK l \in DOMAIN batches : batches[l].stage \in InFlight /\ n \in Ids(batches[l].readings)
      BY <1>6, <2>3
    <3>2. batches'[l].stage = "failed"
      BY <1>3, <1>7, <2>3, <3>1
    <3> QED  BY <1>2, <1>5, <3>1, <3>2
  <2> QED  BY <2>1, <2>2, <2>3
<1>12. /\ InStage({"delivered"})' = InStage({"delivered"}) \cup S
       /\ InStage({"failed"})' = InStage({"failed"}) \cup (InStage(InFlight) \ S)
  BY <1>10, <1>11
<1> QED  BY <1>8, <1>9, <1>12

\* The numbers of an extended buffer.
LEMMA IdsOfAppend ==
  ASSUME NEW s \in Seq(Reading), NEW r \in Reading
  PROVE  Ids(Append(s, r)) = Ids(s) \cup {r.id}
<1> DEFINE t == Append(s, r)
<1>1. /\ Len(s) \in Nat /\ DOMAIN s = 1..Len(s) /\ DOMAIN t = 1..(Len(s) + 1)
      /\ t[Len(s) + 1] = r /\ \A i \in 1..Len(s) : t[i] = s[i]
  BY LenProperties, AppendProperties
<1> HIDE DEF t
<1>2. ASSUME NEW n PROVE n \in Ids(t) <=> n \in Ids(s) \cup {r.id}
  <2>1. ASSUME n \in Ids(t) PROVE n \in Ids(s) \cup {r.id}
    <3>1. PICK i \in DOMAIN t : t[i].id = n
      BY <2>1 DEF Ids
    <3>2. CASE i = Len(s) + 1
      BY <1>1, <3>1, <3>2
    <3>3. CASE i \in 1..Len(s)
      BY <1>1, <3>1, <3>3 DEF Ids
    <3> QED  BY <1>1, <3>2, <3>3
  <2>2. ASSUME n \in Ids(s) PROVE n \in Ids(t)
    <3>1. PICK i \in DOMAIN s : s[i].id = n
      BY <2>2 DEF Ids
    <3>2. i \in DOMAIN t /\ t[i] = s[i]
      BY <1>1
    <3> QED  BY <3>1, <3>2 DEF Ids
  <2>3. r.id \in Ids(t)
    <3>1. Len(s) + 1 \in DOMAIN t
      BY <1>1
    <3> QED  BY <1>1, <3>1 DEF Ids
  <2> QED  BY <2>1, <2>2, <2>3
<1> QED  BY <1>2 DEF t

LEMMA IdsOfEmpty == Ids(<<>>) = {}
  BY DEF Ids

LEMMA InitRelay == Init => R!Init
<1> SUFFICES ASSUME Init PROVE R!Init
  OBVIOUS
<1>1. \A stages : InStage(stages) = {}
  BY DEF Init, InStage
<1>2. Ids(JSONbuffer) = {} /\ accepted = 0 /\ lost = {}
  BY IdsOfEmpty DEF Init
<1> QED  BY <1>1, <1>2 DEF R!Init

\* A reading accepted by sendJSON is a step Accept or AcceptAndDispatch.
LEMMA SendJSONRelay ==
  ASSUME TypeOK, OrderInv, NEW r \in Reading, r.id = accepted + 1, SendJSON(r), UNCHANGED lost
  PROVE  R!Accept \/ R!AcceptAndDispatch
<1>1. JSONbuffer \in Seq(Reading) /\ Ids(Append(JSONbuffer, r)) = Ids(JSONbuffer) \cup {accepted + 1}
  BY IdsOfAppend DEF TypeOK
<1>2. accepted' = accepted + 1
  BY SendJSONEffect
<1>3. CASE Waits(r)
  <2>1. Ids(JSONbuffer)' = Ids(JSONbuffer) \cup {accepted + 1}
    BY <1>1, <1>3 DEF Waits
  <2>2. \A stages : InStage(stages)' = InStage(stages)
    BY <1>3 DEF Waits, InStage, sendVars
  <2> QED  BY <1>2, <2>1, <2>2 DEF R!Accept
<1>4. CASE Leaves(Append(JSONbuffer, r))
  <2>4. PICK b \in Batch : Departs(b, Append(JSONbuffer, r))
    BY <1>4 DEF Leaves
  <2>1. b.readings = Append(JSONbuffer, r) /\ b.stage \in InFlight /\ batches' = Append(batches, b)
    BY <2>4 DEF Departs, InFlight
  <2>2. Ids(JSONbuffer)' = {}
    BY <1>4, IdsOfEmpty DEF Leaves
  <2>3. /\ InStage(InFlight)' = InStage(InFlight) \cup Ids(JSONbuffer) \cup {accepted + 1}
        /\ InStage({"delivered"})' = InStage({"delivered"})
        /\ InStage({"failed"})' = InStage({"failed"})
    BY <1>1, <2>1, Appended
  <2> QED  BY <1>2, <2>2, <2>3 DEF R!AcceptAndDispatch, InFlight
<1>5. CASE /\ ~config.JSONbuffertime /\ config.JSONbuffersize = 0
           /\ UNCHANGED JSONbuffer
           /\ LeavesAlone(r)
  <2>6. PICK b \in Batch : Departs(b, <<r>>)
    BY <1>5 DEF LeavesAlone
  <2>1. b.readings = <<r>> /\ b.stage \in InFlight /\ batches' = Append(batches, b)
    BY <2>6 DEF Departs, InFlight
  <2>2. JSONbuffer = <<>> /\ JSONbuffer' = <<>>
    BY <1>5 DEF OrderInv, Direct
  <2>3. Ids(JSONbuffer) = {} /\ Ids(JSONbuffer)' = {}
    BY <2>2, IdsOfEmpty
  <2>4. Ids(b.readings) = {accepted + 1}
    BY <2>1 DEF Ids
  <2>5. /\ InStage(InFlight)' = InStage(InFlight) \cup Ids(JSONbuffer) \cup {accepted + 1}
        /\ InStage({"delivered"})' = InStage({"delivered"})
        /\ InStage({"failed"})' = InStage({"failed"})
    BY <2>1, <2>3, <2>4, Appended
  <2> QED  BY <1>2, <2>3, <2>5 DEF R!AcceptAndDispatch, InFlight
<1> QED  BY <1>3, <1>4, <1>5, SendJSONEffect

LEMMA TimerTickRelay ==
  ASSUME TypeOK, TimerTick
  PROVE  R!Dispatch
<1>1. JSONbuffer \in Seq(Reading) /\ homeID' \in Homes \cup {Unknown} /\ SendBuffer(JSONbuffer)
      /\ accepted' = accepted /\ lost' = lost
  BY DEF TypeOK, TimerTick
<1>2. Leaves(JSONbuffer)
  BY <1>1, SendBufferLeaves
<1>6. PICK b \in Batch : Departs(b, JSONbuffer)
  BY <1>2 DEF Leaves
<1>3. b.readings = JSONbuffer /\ b.stage \in InFlight /\ batches' = Append(batches, b)
  BY <1>6 DEF Departs, InFlight
<1>4. Ids(JSONbuffer)' = {}
  BY <1>2, IdsOfEmpty DEF Leaves
<1>5. /\ InStage(InFlight)' = InStage(InFlight) \cup Ids(JSONbuffer)
      /\ InStage({"delivered"})' = InStage({"delivered"})
      /\ InStage({"failed"})' = InStage({"failed"})
  BY <1>3, Appended
<1> QED  BY <1>1, <1>4, <1>5 DEF R!Dispatch, InFlight

LEMMA KillTimerRelay ==
  ASSUME TypeOK, OrderInv, KillTimer
  PROVE  \E S \in SUBSET InStage(InFlight) : R!Exit(S)
<1>1. PICK S \in SUBSET InStage(InFlight) :
        /\ InStage(InFlight)' = {}
        /\ InStage({"delivered"})' = InStage({"delivered"}) \cup S
        /\ InStage({"failed"})' = InStage({"failed"}) \cup (InStage(InFlight) \ S)
  BY KilledStages
<1>2. Ids(JSONbuffer)' = {} /\ lost' = lost \cup Ids(JSONbuffer) /\ accepted' = accepted
  BY IdsOfEmpty DEF KillTimer
<1>3. (InStage({"failed"}) \cup lost)' =
        InStage({"failed"}) \cup lost \cup Ids(JSONbuffer) \cup (InStage(InFlight) \ S)
  BY <1>1, <1>2
<1>4. R!Exit(S)
  BY <1>1, <1>2, <1>3 DEF R!Exit, InFlight
<1> QED  BY <1>4

\* A callback that settles a batch is a step Deliver or Drop.
LEMMA SettleRelay ==
  ASSUME TypeOK, OrderInv, UNCHANGED <<JSONbuffer, accepted, lost>>,
         NEW k \in DOMAIN batches, batches[k].stage \in InFlight,
         NEW s \in {"delivered", "failed"}, batches' = [batches EXCEPT ![k].stage = s]
  PROVE  \E S \in SUBSET InStage(InFlight) : R!Deliver(S) \/ R!Drop(S)
<1> DEFINE b == [batches[k] EXCEPT !.stage = s]
           S == Ids(batches[k].readings)
<1>1. batches[k] \in Batch
  BY ElementOfSeq, LenProperties DEF TypeOK
<1>2. b.readings = batches[k].readings /\ b.stage = s /\ batches' = [batches EXCEPT ![k] = b]
  BY <1>1 DEF Batch
<1>3. /\ S \subseteq InStage(InFlight)
      /\ InStage(InFlight)' = InStage(InFlight) \ S
      /\ InStage({s})' = InStage({s}) \cup S
      /\ \A t \in {"delivered", "failed"} \ {s} : InStage({t})' = InStage({t})
  <2> HIDE DEF b
  <2> QED  BY <1>2, SettleOne
<1>4. Ids(JSONbuffer)' = Ids(JSONbuffer)
  OBVIOUS
<1> HIDE DEF S
<1>5. CASE s = "delivered"
  <2>1. R!Deliver(S)
    BY <1>3, <1>4, <1>5 DEF R!Deliver, InFlight
  <2> QED  BY <1>3, <2>1
<1>6. CASE s = "failed"
  <2>1. (InStage({"failed"}) \cup lost)' = InStage({"failed"}) \cup lost \cup S
    BY <1>3, <1>6
  <2>2. R!Drop(S)
    BY <1>3, <1>4, <1>6, <2>1 DEF R!Drop, InFlight
  <2> QED  BY <1>3, <2>2
<1> QED  BY <1>5, <1>6

LEMMA NextRelay == TypeOK /\ OrderInv /\ [Next]_vars => [R!Next]_(R!vars)
<1> SUFFICES ASSUME TypeOK, OrderInv, [Next]_vars PROVE [R!Next]_(R!vars)
  OBVIOUS
<1>1. CASE \E r \in Reading : r.id = accepted + 1 /\ SendJSON(r) /\ UNCHANGED lost
  BY <1>1, SendJSONRelay DEF R!Next
<1>2. CASE TimerTick
  BY <1>2, TimerTickRelay DEF R!Next
<1>3. CASE KillTimer
  BY <1>3, KillTimerRelay DEF R!Next, InFlight
<1>4. CASE Quiet /\ UNCHANGED sendVars
  <2>1. \A stages : InStage(stages)' = InStage(stages)
    BY <1>4 DEF InStage, sendVars
  <2>2. Ids(JSONbuffer)' = Ids(JSONbuffer) /\ accepted' = accepted /\ lost' = lost
    BY <1>4 DEF Quiet
  <2> QED  BY <2>1, <2>2 DEF R!vars
<1>5. CASE \E k \in DOMAIN batches : DeflateDone(k)
  <2>1. PICK k \in DOMAIN batches : DeflateDone(k)
    BY <1>5
  <2>2. /\ batches[k].stage = "deflating" /\ batches[k].stage \in InFlight
        /\ UNCHANGED <<JSONbuffer, accepted, lost>>
    BY <2>1 DEF DeflateDone, InFlight, histVars
  <2>3. CASE batches' = [batches EXCEPT ![k].stage = "sending", ![k].homeid = homeID]
    <3>1. \A l \in DOMAIN batches : batches[l] \in Batch
      BY ElementOfSeq, LenProperties DEF TypeOK
    <3>2. /\ SameReadings /\ batches'[k].stage = "sending"
          /\ \A l \in DOMAIN batches \ {k} : batches'[l].stage = batches[l].stage
      BY <2>3, <3>1 DEF SameReadings, Batch
    <3>3. /\ InStage(InFlight)' = InStage(InFlight)
          /\ InStage({"delivered"})' = InStage({"delivered"})
          /\ InStage({"failed"})' = InStage({"failed"})
      BY <2>2, <3>2, Restaged DEF InFlight
    <3>4. Ids(JSONbuffer)' = Ids(JSONbuffer)
      BY <2>2
    <3> QED  BY <2>2, <3>3, <3>4 DEF R!vars, InFlight
  <2>4. CASE batches' = [batches EXCEPT ![k].stage = "failed"]
    BY <2>2, <2>4, SettleRelay DEF R!Next, InFlight
  <2> QED  BY <2>1, <2>3, <2>4 DEF DeflateDone
<1>6. CASE \E k \in DOMAIN batches : \E s \in {"delivered", "failed"} : SendDone(k, s)
  <2>1. PICK k \in DOMAIN batches, s \in {"delivered", "failed"} : SendDone(k, s)
    BY <1>6
  <2>2. /\ batches[k].stage \in InFlight /\ batches' = [batches EXCEPT ![k].stage = s]
        /\ UNCHANGED <<JSONbuffer, accepted, lost>>
    BY <2>1 DEF SendDone, InFlight, histVars, loopVars
  <2> QED  BY <2>2, SettleRelay DEF R!Next, InFlight
<1> QED  BY <1>1, <1>2, <1>3, <1>4, <1>5, <1>6, StepKinds DEF Quiet

\* The server implements the at-most-once relay: whatever the order of callbacks,
\* ticks and exits, no accepted reading is sent twice, and a reading that waits
\* leaves with the buffer or is lost in an exit.
THEOREM ServerImplementsRelay == Spec => ImplementsRelay
<1>1. TypeOK /\ OrderInv /\ [Next]_vars => [R!Next]_(R!vars)
  BY NextRelay
<1> QED  BY <1>1, InitRelay, OrderAlways, PTL DEF Spec, ImplementsRelay, R!Spec
=============================================================================
