---------------------------- MODULE Hands_proofs ----------------------------
(***************************************************************************)
(* Who has a shard in hand: while connections hold and no result handler   *)
(* is cut short, a shard is with one worker at a time, and a worker the    *)
(* StreamManager offers as idle has none.  From these facts, that the      *)
(* orchestrator implements TrainingJob.                                    *)
(***************************************************************************)
EXTENDS TaskOrchestrator_proofs

(***************************************************************************)
(* Queues as sets of items.                                                *)
(***************************************************************************)
Items(q) == {q[i] : i \in DOMAIN q}

LEMMA ItemsPut ==
  ASSUME NEW S, NEW q \in Seq(S), NEW e \in S
  PROVE  Items(Append(q, e)) = Items(q) \cup {e}
<1>1. /\ DOMAIN Append(q, e) = 1..Len(q) + 1 /\ DOMAIN q = 1..Len(q) /\ Len(q) \in Nat
      /\ \A i \in DOMAIN q : Append(q, e)[i] = q[i]
      /\ Append(q, e)[Len(q) + 1] = e
  BY AppendProperties, LenProperties
<1>2. \A i \in 1..Len(q) + 1 : i \in 1..Len(q) \/ i = Len(q) + 1
  BY <1>1
<1>3. \A i \in 1..Len(q) : i \in 1..Len(q) + 1
  BY <1>1
<1>4. Len(q) + 1 \in 1..Len(q) + 1
  BY <1>1
<1> QED
  BY <1>1, <1>2, <1>3, <1>4 DEF Items

LEMMA ItemsTake ==
  ASSUME NEW S, NEW q \in Seq(S), q # <<>>
  PROVE  Items(q) = {Head(q)} \cup Items(Tail(q))
<1>1. /\ DOMAIN q = 1..Len(q) /\ Len(q) \in Nat \ {0} /\ Head(q) = q[1]
      /\ DOMAIN Tail(q) = 1..Len(q) - 1
      /\ \A i \in DOMAIN Tail(q) : Tail(q)[i] = q[i + 1]
  BY LenProperties, HeadTailProperties, EmptySeq
<1>2. \A i \in 1..Len(q) : i = 1 \/ (i - 1 \in 1..Len(q) - 1 /\ (i - 1) + 1 = i)
  BY <1>1
<1>3. \A i \in 1..Len(q) - 1 : i + 1 \in 1..Len(q)
  BY <1>1
<1>4. 1 \in 1..Len(q)
  BY <1>1
<1>5. ASSUME NEW x \in Items(q) PROVE x \in {Head(q)} \cup Items(Tail(q))
  <2>1. PICK i \in 1..Len(q) : x = q[i]
    BY <1>1, <1>5 DEF Items
  <2>2. i # 1 => x = Tail(q)[i - 1] /\ i - 1 \in DOMAIN Tail(q)
    BY <1>1, <1>2, <2>1
  <2> QED
    BY <1>1, <2>1, <2>2 DEF Items
<1>6. ASSUME NEW x \in Items(Tail(q)) PROVE x \in Items(q)
  <2>1. PICK i \in 1..Len(q) - 1 : x = Tail(q)[i]
    BY <1>1, <1>6 DEF Items
  <2> QED
    BY <1>1, <1>3, <2>1 DEF Items
<1>7. Head(q) \in Items(q)
  BY <1>1, <1>4 DEF Items
<1> QED
  BY <1>5, <1>6, <1>7

LEMMA NoItems == Items(<<>>) = {}
  BY DEF Items

LEMMA SomeItems ==
  ASSUME NEW S, NEW q \in Seq(S), q # <<>>
  PROVE  Items(q) # {}
BY ItemsTake

-----------------------------------------------------------------------------
(***************************************************************************)
(* What a stream carries, and how a shard gets into a worker's hands.      *)
(***************************************************************************)
Carries(s, b) ==
  \/ b \in Items(outbound[s])
  \/ \E m \in Items(inbound[s]) : m[1] = b
  \/ reader[s].pc = "write" /\ reader[s].batch = b

LEMMA HandsCarry ==
  ASSUME NEW w, NEW b
  PROVE  InHands(w, b) <=> training[w] = b \/ \E s \in Streams : Owner(s) = w /\ Carries(s, b)
BY DEF InHands, Carries, Items

LEMMA HandsCarryNext ==
  ASSUME NEW w, NEW b
  PROVE  InHands(w, b)' <=> training'[w] = b \/ \E s \in Streams : Owner(s) = w /\ Carries(s, b)'
BY DEF InHands, Carries, Items

\* Only a request that is loaded puts a handler at its write.
LEMMA NoNewWrite ==
  ASSUME TypeInv, NEW s \in Streams, Handler(s) \/ HandlerError(s),
         NEW t \in Streams, reader'[t].pc = "write"
  PROVE  reader'[t] = reader[t]
<1>1. reader \in [Streams -> ReaderLocals]
  BY DEF TypeInv, TypeOK
<1>2. ASSUME NEW pc \in ReaderPcs \ {"write"}, reader' = [reader EXCEPT ![s].pc = pc]
      PROVE  reader'[t] = reader[t]
  BY <1>1, <1>2, ReaderMoves
<1>3. CASE reader' = [reader EXCEPT ![s] = IdleReader]
  BY <1>1, <1>3, ReaderMoves
<1>4. CASE CommitResult(s)
  BY <1>2, <1>4 DEF CommitResult, ReaderPcs
<1>5. CASE ClearAssignment(s)
  <2>1. NextPc(reader[s].newStatus) \in {"count", "fail", "idle"}
    BY <1>1 DEF NextPc, ReaderLocals, BatchStatus
  <2> QED
    BY <1>2, <1>3, <1>5, <2>1 DEF ClearAssignment, ReaderPcs
<1>6. CASE CountCompleted(s)
  BY <1>2, <1>3, <1>6 DEF CountCompleted, ReaderPcs
<1>7. CASE AcquireEpochLock(s)
  BY <1>2, <1>7 DEF AcquireEpochLock, ReaderPcs
<1>8. CASE Recount(s)
  BY <1>2, <1>3, <1>8 DEF Recount, ReaderPcs
<1>9. CASE AdvanceEpoch(s)
  BY <1>2, <1>9 DEF AdvanceEpoch, ReaderPcs
<1>10. CASE RolloverCommit(s) \/ FinalizeCommit(s) \/ MarkJobFailed(s) \/ HandlerError(s)
  BY <1>3, <1>10 DEF RolloverCommit, FinalizeCommit, MarkJobFailed, HandlerError
<1> QED
  BY <1>4, <1>5, <1>6, <1>7, <1>8, <1>9, <1>10 DEF Handler

\* The dispatch of the engine is the only step that gives a worker a shard.
LEMMA HandsMove ==
  ASSUME TypeInv, [Next]_vars, NEW w \in Workers, NEW b \in Batches, InHands(w, b)'
  PROVE  InHands(w, b) \/ (EngineDispatch /\ engine.worker = w /\ engine.batch = b)
<1> USE DEF clientVars
<1> DEFINE Kept == InHands(w, b)
<1>0. /\ reader \in [Streams -> ReaderLocals] /\ training \in [Workers -> Batches \cup {NoBatch}]
      /\ outbound \in [Streams -> Seq(Batches)] /\ inbound \in [Streams -> Seq(Batches \X Outcomes)]
  BY DEF TypeInv, TypeOK
<1>1. ASSUME training' = training, \A s \in Streams : Carries(s, b)' => Carries(s, b)
      PROVE  Kept
  BY <1>1, HandsCarry, HandsCarryNext
<1>2. ASSUME UNCHANGED <<training, outbound, inbound, reader>> PROVE Kept
  BY <1>1, <1>2 DEF Carries
<1>3. CASE EngineDispatch
  <2> DEFINE e == engine.worker
             t == <<e, queues[e]>>
  <2>1. e \in Workers /\ engine.batch \in Batches
    BY <1>3 DEF EngineDispatch, TypeInv, LocalsOK
  <2>2. CASE t \in Streams /\ outbound' = [outbound EXCEPT ![t] = Append(@, engine.batch)]
    <3>1. ASSUME NEW s \in Streams
          PROVE  Items(outbound'[s]) \subseteq Items(outbound[s]) \cup (IF s = t THEN {engine.batch} ELSE {})
      <4>1. s # t => outbound'[s] = outbound[s]
        BY <1>0, <2>2
      <4>2. s = t => outbound'[s] = Append(outbound[s], engine.batch)
        BY <1>0, <2>2
      <4>3. Items(Append(outbound[s], engine.batch)) = Items(outbound[s]) \cup {engine.batch}
        BY <1>0, <2>1, ItemsPut
      <4> QED
        BY <4>1, <4>2, <4>3
    <3>2. ASSUME NEW s \in Streams, Carries(s, b)'
          PROVE  Carries(s, b) \/ (s = t /\ b = engine.batch)
      BY <1>3, <3>1, <3>2 DEF Carries, EngineDispatch
    <3>3. Owner(t) = e
      BY DEF Owner
    <3>4. training' = training
      BY <1>3 DEF EngineDispatch
    <3> QED
      BY <1>3, <3>2, <3>3, <3>4, HandsCarry, HandsCarryNext
  <2>3. CASE ~ (t \in Streams /\ outbound' = [outbound EXCEPT ![t] = Append(@, engine.batch)])
    <3>1. outbound' = outbound
      BY <1>0, <1>3, <2>3 DEF EngineDispatch, push_assignment
    <3> QED
      BY <1>2, <1>3, <3>1 DEF EngineDispatch
  <2> QED
    BY <2>2, <2>3
<1>4. CASE EnginePayloadError \/ (\E v \in Workers : EnginePick(v)) \/ EngineFetch \/ EngineAssign
  BY <1>2, <1>4 DEF EnginePick, EngineFetch, EngineAssign, EnginePayloadError
<1>5. ASSUME NEW s \in Streams, Handler(s) \/ HandlerError(s) PROVE Kept
  <2>1. UNCHANGED <<training, outbound, inbound>>
    BY <1>5, HandlerMoves
  <2>2. \A t \in Streams : reader'[t].pc = "write" => reader'[t] = reader[t]
    BY <1>5, NoNewWrite
  <2> QED
    BY <1>1, <2>1, <2>2 DEF Carries
<1>6. ASSUME NEW s \in Streams, LoadResult(s) PROVE Kept
  <2> DEFINE r == Head(inbound[s])
  <2>1. /\ inbound' = [inbound EXCEPT ![s] = Tail(@)] /\ inbound[s] # <<>>
        /\ UNCHANGED <<training, outbound>>
    BY <1>6 DEF LoadResult
  <2>2. Items(inbound[s]) = {r} \cup Items(inbound'[s])
    BY <1>0, <2>1, ItemsTake
  <2>3. reader'[s].batch = r[1] /\ \A t \in Streams \ {s} : reader'[t] = reader[t]
    BY <1>0, <1>6 DEF LoadResult
  <2>4. \A t \in Streams \ {s} : inbound'[t] = inbound[t]
    BY <1>0, <2>1
  <2> QED
    BY <1>1, <2>1, <2>2, <2>3, <2>4 DEF Carries
<1>7. ASSUME NEW s \in Streams, Register(s) \/ DisconnectLoad(s) \/ DisconnectUnassign(s) \/ DisconnectUnregister(s)
      PROVE  Kept
  <2>1. UNCHANGED <<training, outbound, inbound, reader>>
    BY <1>7 DEF Register, DisconnectLoad, DisconnectUnassign, DisconnectUnregister
  <2> QED
    BY <1>2, <2>1
<1>8. ASSUME NEW s \in Streams, CloseStream(s) PROVE Kept
  <2>1. /\ UNCHANGED <<training, outbound>>
        /\ inbound' = [inbound EXCEPT ![s] = <<>>] /\ reader' = [reader EXCEPT ![s] = IdleReader]
    BY <1>8 DEF CloseStream
  <2>2. \A t \in Streams : /\ Items(inbound'[t]) \subseteq Items(inbound[t])
                           /\ reader'[t].pc = "write" => reader'[t] = reader[t]
    BY <1>0, <2>1, NoItems, ReaderMoves
  <2> QED
    BY <1>1, <2>1, <2>2 DEF Carries
<1>9. ASSUME NEW s \in Streams, LinkDown(s) PROVE Kept
  <2>1. UNCHANGED <<training, inbound, reader>> /\ outbound' = [outbound EXCEPT ![s] = <<>>]
    BY <1>9 DEF LinkDown
  <2>2. \A t \in Streams : Items(outbound'[t]) \subseteq Items(outbound[t])
    BY <1>0, <2>1, NoItems
  <2> QED
    BY <1>1, <2>1, <2>2 DEF Carries
<1>10. ASSUME NEW v \in Workers, Connect(v) PROVE Kept
  <2>1. UNCHANGED <<training, outbound, inbound, reader>>
    BY <1>10 DEF Connect
  <2> QED
    BY <1>2, <2>1
<1>11. ASSUME NEW v \in Workers, TakeAssignment(v) PROVE Kept
  <2> DEFINE s == Stream(v)
  <2>1. /\ UNCHANGED <<inbound, reader>> /\ outbound[s] # <<>>
        /\ outbound' = [outbound EXCEPT ![s] = Tail(@)]
        /\ training' = [training EXCEPT ![v] = Head(outbound[s])]
    BY <1>11 DEF TakeAssignment
  <2>2. s \in Streams /\ Owner(s) = v
    BY <1>11, StreamOf DEF TakeAssignment, Online, Stream, Owner, TypeInv, TypeOK
  <2>3. Items(outbound[s]) = {Head(outbound[s])} \cup Items(outbound'[s])
    BY <1>0, <2>1, <2>2, ItemsTake
  <2>4. \A t \in Streams \ {s} : outbound'[t] = outbound[t]
    BY <1>0, <2>1
  <2>5. \A t \in Streams : Carries(t, b)' => Carries(t, b)
    BY <2>1, <2>3, <2>4 DEF Carries
  <2>6. training'[w] = b => training[w] = b \/ (w = v /\ Carries(s, b))
    BY <1>0, <2>1, <2>3 DEF Carries
  <2> QED
    BY <2>2, <2>5, <2>6, HandsCarry, HandsCarryNext
<1>12. ASSUME NEW v \in Workers, NEW outcome \in Outcomes, ReportResult(v, outcome) PROVE Kept
  <2> DEFINE s == Stream(v)
             m == <<training[v], outcome>>
  <2>1. /\ UNCHANGED <<outbound, reader>> /\ training[v] # NoBatch
        /\ training' = [training EXCEPT ![v] = NoBatch]
        /\ inbound' \in {inbound, [inbound EXCEPT ![s] = Append(@, m)]}
    BY <1>12 DEF ReportResult
  <2>2. m \in Batches \X Outcomes /\ m[1] = training[v] /\ Owner(s) = v
    BY <1>0, <2>1 DEF Owner, Stream
  <2>3. ASSUME NEW t \in Streams
        PROVE  Items(inbound'[t]) \subseteq Items(inbound[t]) \cup (IF t = s THEN {m} ELSE {})
    <3>1. inbound'[t] = inbound[t] \/ (t = s /\ inbound'[t] = Append(inbound[t], m))
      BY <1>0, <2>1
    <3>2. inbound[t] \in Seq(Batches \X Outcomes) /\ m \in Batches \X Outcomes
      BY <1>0, <2>2
    <3> HIDE DEF m
    <3>3. Items(Append(inbound[t], m)) = Items(inbound[t]) \cup {m}
      BY <3>2, ItemsPut
    <3> QED
      BY <3>1, <3>3
  <2>4. \A t \in Streams : Carries(t, b)' => Carries(t, b) \/ (t = s /\ training[v] = b)
    BY <2>1, <2>2, <2>3 DEF Carries
  <2>5. training'[w] = b => training[w] = b
    BY <1>0, <2>1, Parameters
  <2> QED
    BY <2>2, <2>4, <2>5, HandsCarry, HandsCarryNext
<1>13. CASE Crash
  <2>1. /\ training' = training /\ outbound' = [s \in Streams |-> <<>>]
        /\ inbound' = [s \in Streams |-> <<>>] /\ reader' = [s \in Streams |-> IdleReader]
    BY <1>13 DEF Crash
  <2> QED
    BY <1>1, <2>1, NoItems DEF Carries, IdleReader
<1>14. CASE (\E j \in Jobs : CancelJob(j)) \/ UNCHANGED vars
  BY <1>2, <1>14 DEF CancelJob, vars
<1>15. CASE Engine \/ EnginePayloadError
  BY <1>3, <1>4, <1>15 DEF Engine
<1>16. ASSUME NEW s \in Streams, Close(s) PROVE Kept
  BY <1>7, <1>8, <1>16 DEF Close
<1>17. ASSUME NEW s \in Streams, Register(s) \/ LoadResult(s) PROVE Kept
  BY <1>6, <1>7, <1>17
<1> QED
  BY <1>5, <1>9, <1>10, <1>11, <1>12, <1>13, <1>14, <1>15, <1>16, <1>17, StepCases

-----------------------------------------------------------------------------
(***************************************************************************)
(* The inductive invariant.  A worker has at most one shard, in one place; *)
(* the worker is then BUSY, the shard's row is not one the engine offers   *)
(* and no other worker has it; and the rows of a pass that is being closed *)
(* stay COMPLETED.                                                         *)
(***************************************************************************)
\* No connection breaks and no handler is cut short; payloads may fail to be built.
Unbroken == Faults \subseteq {"payload"}

\* Each worker makes one call, which stays open; its stream is the one registered.
LinesOpen ==
  /\ \A s \in Streams :
       /\ server[s].pc \in {"unused", "open", "named"}
       /\ server[s].pc = "unused" => outbound[s] = <<>> /\ inbound[s] = <<>> /\ reader[s].pc = "idle"
       /\ server[s].pc # "unused" => linkUp[s] /\ s = Stream(Owner(s))
  /\ \A w \in Workers :
       /\ conn[w] # 0 => server[Stream(w)].pc # "unused"
       /\ queues[w] # 0 => queues[w] = conn[w]
       /\ status[w] # "NONE" => queues[w] # 0

\* The engine's worker stays idle and its row stays as the engine left it.
EngineSteady ==
  /\ engine.pc # "idle" => status[engine.worker] = "IDLE"
  /\ engine.pc = "fetched" => batchStatus[engine.batch] = "AVAILABLE"
  /\ engine.pc = "assigned" => batchStatus[engine.batch] \in {"ASSIGNED", "FAILED"}

\* A handler at these points has taken the result and not yet freed the worker.
InWork == {"write", "clear"}

OneThing ==
  \A s \in Streams :
    /\ outbound[s] # <<>> => /\ Len(outbound[s]) = 1 /\ training[Owner(s)] = NoBatch
                             /\ inbound[s] = <<>> /\ reader[s].pc \notin InWork
    /\ inbound[s] # <<>> => Len(inbound[s]) = 1 /\ training[Owner(s)] = NoBatch /\ reader[s].pc \notin InWork
    /\ reader[s].pc \in InWork => training[Owner(s)] = NoBatch /\ status[Owner(s)] = "BUSY"

HandsKnown ==
  \A w \in Workers : \A b \in Batches : InHands(w, b) =>
    status[w] = "BUSY" /\ ~ EngineHolds(b) /\ batchStatus[b] \in {"ASSIGNED", "FAILED"}

Exclusive == \A b \in Batches : \A v, w \in Workers : InHands(v, b) /\ InHands(w, b) => v = w

PassStays == \A s \in Streams : reader[s].pc \in {"advance", "rollover"} => AllCompleted(ReaderJob(s))

HandInv == LinesOpen /\ EngineSteady /\ OneThing /\ HandsKnown /\ Exclusive /\ PassStays /\ HoldsLock

LEMMA HandInit == Init => HandInv
<1> SUFFICES ASSUME Init PROVE HandInv
  OBVIOUS
<1>1. /\ \A s \in Streams : /\ reader[s].pc = "idle" /\ server[s].pc = "unused"
                            /\ outbound[s] = <<>> /\ inbound[s] = <<>>
      /\ \A w \in Workers : conn[w] = 0 /\ queues[w] = 0 /\ status[w] = "NONE" /\ training[w] = NoBatch
      /\ engine.pc = "idle"
  BY DEF Init, IdleReader, IdleEngine, Serving
<1>2. ASSUME NEW w \in Workers, NEW b \in Batches PROVE ~ InHands(w, b)
  BY <1>1, HandsCarry, NoItems, Parameters DEF Carries
<1> QED
  BY <1>1, <1>2 DEF HandInv, LinesOpen, EngineSteady, OneThing, HandsKnown, Exclusive, PassStays,
     HoldsLock, InWork

\* What can happen while connections hold.
LEMMA OpenCases ==
  ASSUME TypeInv, LinesOpen, Unbroken, [Next]_vars
  PROVE  \/ Engine \/ EnginePayloadError
         \/ \E s \in Streams : Register(s) \/ LoadResult(s) \/ Handler(s)
         \/ \E w \in Workers : Connect(w) \/ TakeAssignment(w)
                                 \/ \E outcome \in Outcomes : ReportResult(w, outcome)
         \/ (\E j \in Jobs : CancelJob(j)) \/ UNCHANGED vars
<1>1. ASSUME NEW s \in Streams, HandlerError(s) \/ Close(s) \/ LinkDown(s) PROVE FALSE
  BY <1>1 DEF HandlerError, Close, CloseStream, DisconnectLoad, DisconnectUnassign,
     DisconnectUnregister, LinkDown, LinesOpen, Unbroken
<1>2. CASE Crash
  BY <1>2 DEF Crash, Unbroken
<1> QED
  BY <1>1, <1>2, StepCases

\* Nothing is on the other streams of a worker whose call is open.
LEMMA OneStream ==
  ASSUME LinesOpen, NEW s \in Streams, NEW t \in Streams, Owner(s) = Owner(t),
         server[s].pc # "unused", s # t
  PROVE  server[t].pc = "unused" /\ outbound[t] = <<>> /\ inbound[t] = <<>> /\ reader[t].pc = "idle"
BY DEF LinesOpen

\* A worker that is not BUSY has nothing in hand, on any stream.
LEMMA IdleEmpty ==
  ASSUME TypeInv, OneThing, HandsKnown, NEW w \in Workers, status[w] # "BUSY"
  PROVE  /\ training[w] = NoBatch
         /\ \A s \in Streams : Owner(s) = w =>
              outbound[s] = <<>> /\ inbound[s] = <<>> /\ reader[s].pc \notin InWork
<1>1. \A b \in Batches : ~ InHands(w, b)
  BY DEF HandsKnown
<1>2. training[w] = NoBatch
  BY <1>1, HandsCarry DEF TypeInv, TypeOK
<1>3. ASSUME NEW s \in Streams, Owner(s) = w
      PROVE  outbound[s] = <<>> /\ inbound[s] = <<>> /\ reader[s].pc \notin InWork
  <2>1. /\ outbound[s] \in Seq(Batches) /\ inbound[s] \in Seq(Batches \X Outcomes)
        /\ reader[s].pc = "write" => reader[s].batch \in Batches
    BY DEF TypeInv, TypeOK, LocalsOK
  <2>2. outbound[s] = <<>>
    <3>1. \A b \in Items(outbound[s]) : b \in Batches
      BY <2>1, LenProperties DEF Items
    <3>2. Items(outbound[s]) = {}
      BY <1>1, <1>3, <3>1, HandsCarry DEF Carries
    <3> QED
      BY <2>1, <3>2, SomeItems
  <2>3. inbound[s] = <<>>
    <3>1. \A m \in Items(inbound[s]) : m[1] \in Batches
      BY <2>1, LenProperties DEF Items
    <3>2. Items(inbound[s]) = {}
      BY <1>1, <1>3, <3>1, HandsCarry DEF Carries
    <3> QED
      BY <2>1, <3>2, SomeItems
  <2>4. reader[s].pc # "write"
    BY <1>1, <1>3, <2>1, HandsCarry DEF Carries
  <2>5. reader[s].pc # "clear"
    BY <1>3 DEF OneThing, InWork
  <2> QED
    BY <2>2, <2>3, <2>4, <2>5 DEF InWork
<1> QED
  BY <1>2, <1>3

\* While a handler has a worker's result, nothing else is in that worker's hands.
LEMMA ResultAlone ==
  ASSUME TypeInv, LinesOpen, OneThing, NEW s \in Streams, reader[s].pc \in InWork,
         NEW b \in Batches, InHands(Owner(s), b)
  PROVE  reader[s].pc = "write" /\ reader[s].batch = b
<1>1. training[Owner(s)] = NoBatch /\ outbound[s] = <<>> /\ inbound[s] = <<>>
  BY DEF OneThing
<1>2. server[s].pc # "unused"
  BY DEF LinesOpen, InWork
<1>3. PICK t \in Streams : Owner(t) = Owner(s) /\ Carries(t, b)
  BY <1>1, HandsCarry, Parameters
<1>4. t = s
  BY <1>2, <1>3, OneStream, NoItems DEF Carries
<1> QED
  BY <1>1, <1>3, <1>4, NoItems DEF Carries

-----------------------------------------------------------------------------
(***************************************************************************)
(* What a step may do to a worker's entry in the StreamManager and to a    *)
(* batch's row while connections hold.                                     *)
(***************************************************************************)
LEMMA StatusWrites ==
  ASSUME TypeInv, LinesOpen, Unbroken, [Next]_vars, NEW w \in Workers
  PROVE  \/ status'[w] = status[w]
         \/ status[w] = "NONE" /\ status'[w] = "IDLE" /\ queues'[w] # 0
         \/ EngineDispatch /\ engine.worker = w /\ status'[w] = "BUSY"
         \/ \E s \in Streams : ClearAssignment(s) /\ Owner(s) = w /\ status'[w] = "IDLE"
<1> DEFINE Goal == \/ status'[w] = status[w]
                   \/ status[w] = "NONE" /\ status'[w] = "IDLE" /\ queues'[w] # 0
                   \/ EngineDispatch /\ engine.worker = w /\ status'[w] = "BUSY"
                   \/ \E s \in Streams : ClearAssignment(s) /\ Owner(s) = w /\ status'[w] = "IDLE"
<1> USE DEF smVars
<1>0. status \in [Workers -> {"NONE", "IDLE", "BUSY"}] /\ queues \in [Workers -> Nat]
  BY DEF TypeInv, TypeOK
<1>1. CASE EngineDispatch
  BY <1>0, <1>1 DEF EngineDispatch, assign_batch
<1>2. CASE (\E v \in Workers : EnginePick(v)) \/ EngineFetch \/ EngineAssign \/ EnginePayloadError
  BY <1>2 DEF EnginePick, EngineFetch, EngineAssign, EnginePayloadError
<1>3. ASSUME NEW s \in Streams, Register(s) \/ LoadResult(s) PROVE Goal
  <2>1. register(Owner(s), s[2])
    BY <1>3 DEF Register, LoadResult
  <2>2. s[2] # 0
    BY Parameters DEF Streams
  <2> QED
    BY <1>0, <2>1, <2>2 DEF register
<1>4. ASSUME NEW s \in Streams, Handler(s) PROVE Goal
  <2>1. CASE ClearAssignment(s)
    BY <1>0, <2>1 DEF ClearAssignment, clear_assignment
  <2>2. CASE ~ ClearAssignment(s)
    BY <1>4, <2>2 DEF Handler, CommitResult, CountCompleted, AcquireEpochLock, Recount,
       AdvanceEpoch, RolloverCommit, FinalizeCommit, MarkJobFailed
  <2> QED
    BY <2>1, <2>2
<1>5. ASSUME NEW v \in Workers,
             Connect(v) \/ TakeAssignment(v) \/ \E outcome \in Outcomes : ReportResult(v, outcome)
      PROVE  Goal
  BY <1>5 DEF Connect, TakeAssignment, ReportResult
<1>6. CASE (\E j \in Jobs : CancelJob(j)) \/ UNCHANGED vars
  BY <1>6 DEF CancelJob, vars
<1> QED
  BY <1>1, <1>2, <1>3, <1>4, <1>5, <1>6, OpenCases DEF Engine

LEMMA QueueWrites ==
  ASSUME TypeInv, LinesOpen, Unbroken, [Next]_vars, NEW w \in Workers
  PROVE  \/ queues'[w] = queues[w]
         \/ \E s \in Streams : /\ Owner(s) = w /\ server[s].pc # "unused" /\ queues'[w] = s[2]
                               /\ Register(s) \/ LoadResult(s)
<1> DEFINE Goal == \/ queues'[w] = queues[w]
                   \/ \E s \in Streams : /\ Owner(s) = w /\ server[s].pc # "unused" /\ queues'[w] = s[2]
                                         /\ Register(s) \/ LoadResult(s)
<1> USE DEF smVars
<1>0. queues \in [Workers -> Nat]
  BY DEF TypeInv, TypeOK
<1>1. CASE Engine \/ EnginePayloadError
  BY <1>1 DEF Engine, EnginePick, EngineFetch, EngineAssign, EngineDispatch, EnginePayloadError, assign_batch
<1>2. ASSUME NEW s \in Streams, Register(s) \/ LoadResult(s) PROVE Goal
  <2>1. register(Owner(s), s[2]) /\ server[s].pc # "unused"
    BY <1>2 DEF Register, LoadResult
  <2> QED
    BY <1>0, <1>2, <2>1 DEF register
<1>3. ASSUME NEW s \in Streams, Handler(s) PROVE Goal
  BY <1>3 DEF Handler, CommitResult, ClearAssignment, clear_assignment, CountCompleted,
     AcquireEpochLock, Recount, AdvanceEpoch, RolloverCommit, FinalizeCommit, MarkJobFailed
<1>4. ASSUME NEW v \in Workers,
             Connect(v) \/ TakeAssignment(v) \/ \E outcome \in Outcomes : ReportResult(v, outcome)
      PROVE  Goal
  BY <1>4 DEF Connect, TakeAssignment, ReportResult
<1>5. CASE (\E j \in Jobs : CancelJob(j)) \/ UNCHANGED vars
  BY <1>5 DEF CancelJob, vars
<1> QED
  BY <1>1, <1>2, <1>3, <1>4, <1>5, OpenCases

LEMMA RowWrites ==
  ASSUME TypeInv, LinesOpen, Unbroken, [Next]_vars, NEW b \in Batches
  PROVE  \/ batchStatus'[b] = batchStatus[b]
         \/ EngineAssign /\ engine.batch = b /\ batchStatus'[b] = "ASSIGNED"
         \/ \E s \in Streams : CommitResult(s) /\ reader[s].batch = b /\ RowsFree({b})
         \/ \E s \in Streams : /\ RolloverCommit(s) /\ ReaderJob(s) = JobOf[b]
                               /\ batchStatus'[b] = "AVAILABLE" /\ RowsFree({b})
         \/ \E s \in Streams : /\ MarkJobFailed(s) /\ batchStatus[b] \in {"AVAILABLE", "ASSIGNED"}
                               /\ batchStatus'[b] = "FAILED" /\ RowsFree({b})
<1> DEFINE Goal == \/ batchStatus'[b] = batchStatus[b]
                   \/ EngineAssign /\ engine.batch = b /\ batchStatus'[b] = "ASSIGNED"
                   \/ \E s \in Streams : CommitResult(s) /\ reader[s].batch = b /\ RowsFree({b})
                   \/ \E s \in Streams : /\ RolloverCommit(s) /\ ReaderJob(s) = JobOf[b]
                                         /\ batchStatus'[b] = "AVAILABLE" /\ RowsFree({b})
                   \/ \E s \in Streams : /\ MarkJobFailed(s) /\ batchStatus[b] \in {"AVAILABLE", "ASSIGNED"}
                                         /\ batchStatus'[b] = "FAILED" /\ RowsFree({b})
<1> USE DEF dbVars
<1>0. batchStatus \in [Batches -> BatchStatus]
  BY DEF TypeInv, TypeOK
<1>1. CASE Engine \/ EnginePayloadError
  BY <1>0, <1>1 DEF Engine, EnginePick, EngineFetch, EngineAssign, EngineDispatch, EnginePayloadError
<1>2. ASSUME NEW s \in Streams, Register(s) \/ LoadResult(s) PROVE Goal
  BY <1>2 DEF Register, LoadResult
<1>3. ASSUME NEW s \in Streams, Handler(s) PROVE Goal
  <2>1. CASE CommitResult(s)
    BY <1>0, <2>1 DEF CommitResult, FlushBatch
  <2>2. CASE RolloverCommit(s)
    BY <1>0, <2>2 DEF RolloverCommit, RowsFree, BatchesOf
  <2>3. CASE MarkJobFailed(s)
    BY <1>0, <2>3 DEF MarkJobFailed, RowsFree, BatchesOf
  <2>4. CASE ClearAssignment(s) \/ CountCompleted(s) \/ AcquireEpochLock(s) \/ Recount(s)
             \/ AdvanceEpoch(s) \/ FinalizeCommit(s)
    BY <2>4 DEF ClearAssignment, CountCompleted, AcquireEpochLock, Recount, AdvanceEpoch, FinalizeCommit
  <2> QED
    BY <1>3, <2>1, <2>2, <2>3, <2>4 DEF Handler
<1>4. ASSUME NEW v \in Workers,
             Connect(v) \/ TakeAssignment(v) \/ \E outcome \in Outcomes : ReportResult(v, outcome)
      PROVE  Goal
  BY <1>4 DEF Connect, TakeAssignment, ReportResult
<1>5. CASE (\E j \in Jobs : CancelJob(j)) \/ UNCHANGED vars
  BY <1>5 DEF CancelJob, vars
<1> QED
  BY <1>1, <1>2, <1>3, <1>4, <1>5, OpenCases

\* The engine's worker and row.
LEMMA EngineSteadyStep ==
  ASSUME TypeInv, LinesOpen, EngineSteady, OneThing, HandsKnown, PassStays, Unbroken, [Next]_vars
  PROVE  EngineSteady'
<1>0. /\ engine.pc # "idle" => engine.worker \in Workers
      /\ engine.pc \in {"fetched", "assigned"} => engine.batch \in Batches
      /\ engine \in EngineLocals /\ reader \in [Streams -> ReaderLocals]
      /\ status \in [Workers -> {"NONE", "IDLE", "BUSY"}] /\ batchStatus \in [Batches -> BatchStatus]
  BY DEF TypeInv, TypeOK, LocalsOK
<1>1. CASE UNCHANGED engine
  <2>1. ASSUME engine.pc # "idle" PROVE status'[engine.worker] = "IDLE"
    <3>1. ~ EngineDispatch
      BY <1>0, <1>1, <2>1 DEF EngineDispatch, IdleEngine
    <3> QED
      BY <1>0, <2>1, <3>1, StatusWrites DEF EngineSteady
  <2> DEFINE b == engine.batch
  <2>2. ASSUME engine.pc = "fetched" PROVE batchStatus'[b] = "AVAILABLE"
    <3>1. ~ EngineAssign /\ ~ RowsFree({b})
      BY <1>0, <1>1, <2>2 DEF EngineAssign, EngineLocals, RowsFree
    <3> QED
      BY <1>0, <2>2, <3>1, RowWrites DEF EngineSteady
  <2>3. ASSUME engine.pc = "assigned" PROVE batchStatus'[b] \in {"ASSIGNED", "FAILED"}
    <3>1. ~ EngineAssign
      BY <2>3 DEF EngineAssign
    <3>2. ASSUME NEW s \in Streams, CommitResult(s), reader[s].batch = b PROVE FALSE
      <4>1. InHands(Owner(s), b)
        BY <3>2 DEF InHands, CommitResult
      <4> QED
        BY <1>0, <2>3, <4>1, StreamFields DEF HandsKnown, EngineHolds
    <3>3. ASSUME NEW s \in Streams, RolloverCommit(s), ReaderJob(s) = JobOf[b] PROVE FALSE
      <4>1. AllCompleted(JobOf[b])
        BY <3>3 DEF PassStays, RolloverCommit
      <4> QED
        BY <1>0, <2>3, <4>1 DEF AllCompleted, BatchesOf, EngineSteady
    <3> QED
      BY <1>0, <2>3, <3>1, <3>2, <3>3, RowWrites DEF EngineSteady
  <2> QED
    BY <1>1, <2>1, <2>2, <2>3 DEF EngineSteady
<1>2. CASE \E w \in Workers : EnginePick(w)
  BY <1>0, <1>2 DEF EnginePick, get_idle_worker, EngineSteady, EngineLocals, smVars
<1>3. CASE EngineFetch
  <2>1. UNCHANGED <<status, batchStatus>> /\ engine.pc = "picked"
    BY <1>3 DEF EngineFetch, smVars, dbVars
  <2>2. ASSUME NEW b \in Dispatchable, engine' = [engine EXCEPT !.pc = "fetched", !.batch = b]
        PROVE  EngineSteady'
    BY <1>0, <2>1, <2>2 DEF Dispatchable, EngineSteady, EngineLocals
  <2>3. CASE engine' = IdleEngine
    BY <2>3 DEF EngineSteady, IdleEngine
  <2> QED
    BY <1>3, <2>2, <2>3 DEF EngineFetch
<1>4. CASE EngineAssign
  BY <1>0, <1>4 DEF EngineAssign, EngineSteady, EngineLocals, smVars
<1>5. CASE EngineDispatch \/ EnginePayloadError
  BY <1>5 DEF EngineDispatch, EnginePayloadError, EngineSteady, IdleEngine
<1>6. ASSUME NEW s \in Streams, Register(s) \/ LoadResult(s) \/ Handler(s) PROVE UNCHANGED engine
  BY <1>6, HandlerMoves DEF Register, LoadResult
<1>7. CASE (\E w \in Workers : Connect(w) \/ TakeAssignment(w)
                                 \/ \E outcome \in Outcomes : ReportResult(w, outcome))
           \/ (\E j \in Jobs : CancelJob(j)) \/ UNCHANGED vars
  BY <1>1, <1>7 DEF Connect, TakeAssignment, ReportResult, CancelJob, vars
<1> QED
  BY <1>1, <1>2, <1>3, <1>4, <1>5, <1>6, <1>7, OpenCases DEF Engine

\* A worker calls once.
LEMMA FirstCall ==
  ASSUME TypeInv, LinesOpen, NEW w \in Workers, Connect(w)
  PROVE  conn[w] = 0
<1>1. CASE conn[w] # 0
  <2>1. Stream(w) \in Streams
    BY <1>1, StreamOf DEF Stream, TypeInv, TypeOK
  <2> QED
    BY <1>1, <2>1 DEF LinesOpen, Connect, Online
<1> QED
  BY <1>1

\* A handler's step leaves the other handlers alone.
LEMMA OtherReaders ==
  ASSUME TypeInv, NEW s \in Streams, Handler(s), NEW t \in Streams, t # s
  PROVE  reader'[t] = reader[t]
<1>1. reader \in [Streams -> ReaderLocals]
  BY DEF TypeInv, TypeOK
<1>2. CASE reader' = [reader EXCEPT ![s] = IdleReader]
  BY <1>1, <1>2
<1>3. ASSUME NEW pc \in ReaderPcs, reader' = [reader EXCEPT ![s].pc = pc] PROVE reader'[t] = reader[t]
  BY <1>1, <1>3
<1> QED
  BY <1>2, <1>3, HandlerMoves

\* Connecting and registering keep every worker at its one open call.
LEMMA LinesStep ==
  ASSUME TypeInv, LinesOpen, EngineSteady, OneThing, Unbroken, [Next]_vars
  PROVE  LinesOpen'
<1> USE DEF clientVars
<1>0. /\ server \in [Streams -> ServerLocals] /\ reader \in [Streams -> ReaderLocals]
      /\ outbound \in [Streams -> Seq(Batches)] /\ inbound \in [Streams -> Seq(Batches \X Outcomes)]
      /\ linkUp \in [Streams -> BOOLEAN] /\ conn \in [Workers -> Nat] /\ queues \in [Workers -> Nat]
      /\ status \in [Workers -> {"NONE", "IDLE", "BUSY"}]
      /\ engine.pc # "idle" => engine.worker \in Workers
  BY DEF TypeInv, TypeOK, LocalsOK
<1> DEFINE StreamPart(s) ==
      /\ server[s].pc \in {"unused", "open", "named"}
      /\ server[s].pc = "unused" => outbound[s] = <<>> /\ inbound[s] = <<>> /\ reader[s].pc = "idle"
      /\ server[s].pc # "unused" => linkUp[s] /\ s = Stream(Owner(s))
    CallPart(w) == conn[w] # 0 => server[Stream(w)].pc # "unused"
    Calls == \A s \in Streams : StreamPart(s)'
    Open == \A w \in Workers : CallPart(w)'
<1>1. ASSUME NEW w \in Workers
      PROVE  /\ queues'[w] # 0 => queues'[w] = conn'[w]
             /\ status'[w] # "NONE" => queues'[w] # 0
  <2>1. conn'[w] = conn[w] \/ (Connect(w) /\ conn[w] = 0)
    <3>1. ASSUME NEW v \in Workers, Connect(v)
          PROVE  conn'[w] = conn[w] \/ (Connect(w) /\ conn[w] = 0)
      BY <1>0, <3>1, FirstCall DEF Connect
    <3>2. ASSUME NEW s \in Streams, Register(s) \/ LoadResult(s) \/ Handler(s) PROVE conn' = conn
      BY <3>2, HandlerMoves DEF Register, LoadResult
    <3>3. CASE Engine \/ EnginePayloadError
      BY <3>3 DEF Engine, EnginePick, EngineFetch, EngineAssign, EngineDispatch, EnginePayloadError
    <3>4. CASE (\E v \in Workers : TakeAssignment(v) \/ \E outcome \in Outcomes : ReportResult(v, outcome))
               \/ (\E j \in Jobs : CancelJob(j)) \/ UNCHANGED vars
      BY <3>4 DEF TakeAssignment, ReportResult, CancelJob, vars
    <3> QED
      BY <3>1, <3>2, <3>3, <3>4, OpenCases
  <2>2. CASE Connect(w) /\ conn[w] = 0
    BY <2>2 DEF Connect, smVars, LinesOpen
  <2>3. CASE conn'[w] = conn[w]
    <3>1. queues'[w] = queues[w] \/ (queues'[w] # 0 /\ queues'[w] = conn[w])
      <4>1. ASSUME NEW s \in Streams, Owner(s) = w, server[s].pc # "unused"
            PROVE  s[2] # 0 /\ s[2] = conn[w]
        <5>1. s = <<w, conn[w]>> /\ s[2] # 0
          BY <4>1, Parameters DEF LinesOpen, Stream, Streams
        <5> QED
          BY <5>1
      <4> QED
        BY <4>1, QueueWrites
    <3>2. ASSUME EngineDispatch, engine.worker = w PROVE status[w] # "NONE"
      BY <3>2 DEF EngineDispatch, EngineSteady
    <3>3. ASSUME NEW s \in Streams, ClearAssignment(s), Owner(s) = w PROVE status[w] # "NONE"
      BY <3>3 DEF ClearAssignment, OneThing, InWork
    <3> QED
      BY <2>3, <3>1, <3>2, <3>3, StatusWrites DEF LinesOpen
  <2> QED
    BY <2>1, <2>2, <2>3
<1>2. ASSUME UNCHANGED <<server, conn, linkUp>>,
             \A s \in Streams : server[s].pc = "unused" =>
               outbound'[s] = outbound[s] /\ inbound'[s] = inbound[s] /\ reader'[s] = reader[s]
      PROVE  Calls /\ Open
  BY <1>2 DEF LinesOpen, Stream
<1>3. ASSUME EngineDispatch PROVE Calls /\ Open
  <2> DEFINE e == engine.worker
  <2>1. e \in Workers /\ conn[e] # 0 /\ queues[e] = conn[e]
    BY <1>0, <1>3 DEF EngineDispatch, EngineSteady, LinesOpen
  <2>2. server[<<e, queues[e]>>].pc # "unused"
    BY <2>1 DEF LinesOpen, Stream
  <2>3. \A s \in Streams : server[s].pc = "unused" => outbound'[s] = outbound[s]
    BY <1>0, <1>3, <2>2 DEF EngineDispatch, push_assignment
  <2> QED
    BY <1>2, <1>3, <2>3 DEF EngineDispatch
<1>4. ASSUME \/ (\E w \in Workers : EnginePick(w)) \/ EngineFetch \/ EngineAssign \/ EnginePayloadError
             \/ (\E j \in Jobs : CancelJob(j)) \/ UNCHANGED vars
      PROVE  Calls /\ Open
  BY <1>2, <1>4 DEF EnginePick, EngineFetch, EngineAssign, EnginePayloadError, CancelJob, vars
<1>5. ASSUME NEW s \in Streams, Register(s) PROVE Calls /\ Open
  <2>1. /\ server[s].pc \in {"open", "named"}
        /\ UNCHANGED <<reader, conn, linkUp, outbound, inbound>>
        /\ server' = [server EXCEPT ![s].pc = "named"]
    BY <1>5 DEF Register
  <2>2. server'[s].pc = "named" /\ \A t \in Streams \ {s} : server'[t] = server[t]
    BY <1>0, <2>1 DEF ServerLocals
  <2>3. \A t \in Streams : StreamPart(t)'
    BY <2>1, <2>2 DEF LinesOpen, Stream
  <2>4. ASSUME NEW w \in Workers PROVE CallPart(w)'
    <3>1. conn[w] # 0 => Stream(w) \in Streams
      BY StreamOf DEF Stream, TypeInv, TypeOK
    <3> QED
      BY <2>1, <2>2, <3>1 DEF LinesOpen, Stream
  <2> QED
    BY <2>3, <2>4
<1>6. ASSUME NEW s \in Streams, LoadResult(s) PROVE Calls /\ Open
  <2>1. server[s].pc = "named" /\ UNCHANGED <<server, conn, linkUp, outbound>>
    BY <1>6 DEF LoadResult
  <2>2. \A t \in Streams \ {s} : inbound'[t] = inbound[t] /\ reader'[t] = reader[t]
    BY <1>0, <1>6 DEF LoadResult
  <2> QED
    BY <1>2, <2>1, <2>2
<1>7. ASSUME NEW s \in Streams, Handler(s) PROVE Calls /\ Open
  <2>1. UNCHANGED <<server, clientVars>> /\ server[s].pc # "unused"
    BY <1>7, HandlerMoves DEF LinesOpen
  <2>2. \A t \in Streams \ {s} : reader'[t] = reader[t]
    BY <1>7, OtherReaders
  <2> QED
    BY <1>2, <2>1, <2>2
<1>8. ASSUME NEW w \in Workers, Connect(w) PROVE Calls /\ Open
  <2> DEFINE c == <<w, 1>>
  <2>1. /\ conn[w] = 0 /\ conn' = [conn EXCEPT ![w] = 1] /\ linkUp' = [linkUp EXCEPT ![c] = TRUE]
        /\ server' = [server EXCEPT ![c] = Serving("open")]
        /\ UNCHANGED <<reader, outbound, inbound>>
    <3>1. conn[w] = 0 /\ conn[w] + 1 = 1
      BY <1>8, FirstCall
    <3> QED
      BY <1>8, <3>1 DEF Connect
  <2>2. c \in Streams /\ Owner(c) = w
    BY <1>8, <2>1, StreamOf, Parameters DEF Connect, Owner
  <2>3. /\ server'[c].pc = "open" /\ linkUp'[c] /\ conn'[w] = 1
        /\ \A t \in Streams \ {c} : server'[t] = server[t] /\ linkUp'[t] = linkUp[t]
        /\ \A v \in Workers \ {w} : conn'[v] = conn[v]
    BY <1>0, <2>1, <2>2 DEF Serving
  <2>4. ASSUME NEW t \in Streams, t # c, server[t].pc # "unused" PROVE Owner(t) # w
    <3>1. t = <<Owner(t), conn[Owner(t)]>> /\ t[2] # 0
      BY <2>4, Parameters DEF LinesOpen, Stream, Streams
    <3> QED
      BY <2>1, <3>1
  <2>5. ASSUME NEW t \in Streams PROVE StreamPart(t)'
    <3>1. CASE t = c
      BY <2>2, <2>3, <3>1 DEF Stream
    <3>2. CASE t # c
      BY <2>1, <2>3, <2>4, <3>2, StreamFields DEF LinesOpen, Stream
    <3> QED
      BY <3>1, <3>2
  <2>6. ASSUME NEW v \in Workers PROVE CallPart(v)'
    <3>1. CASE v = w
      BY <2>3, <3>1 DEF Stream
    <3>2. CASE v # w
      <4>1. conn[v] # 0 => Stream(v) \in Streams \ {c}
        BY <3>2, StreamOf DEF Stream, TypeInv, TypeOK
      <4> QED
        BY <2>3, <3>2, <4>1 DEF LinesOpen, Stream
    <3> QED
      BY <3>1, <3>2
  <2> QED
    BY <2>5, <2>6
<1>9. ASSUME NEW w \in Workers, TakeAssignment(w) \/ \E outcome \in Outcomes : ReportResult(w, outcome)
      PROVE  Calls /\ Open
  <2>1. UNCHANGED <<server, conn, linkUp, reader>>
    BY <1>9 DEF TakeAssignment, ReportResult
  <2>2. \A t \in Streams : server[t].pc = "unused" => t # Stream(w)
    <3>1. ASSUME NEW t \in Streams, t = Stream(w) PROVE conn[w] # 0
      BY <3>1, Parameters DEF Stream, Streams
    <3> QED
      BY <3>1 DEF LinesOpen
  <2>3. \A t \in Streams : t # Stream(w) => outbound'[t] = outbound[t] /\ inbound'[t] = inbound[t]
    BY <1>0, <1>9 DEF TakeAssignment, ReportResult
  <2> QED
    BY <1>2, <2>1, <2>2, <2>3
<1>10. Calls /\ Open
  BY <1>3, <1>4, <1>5, <1>6, <1>7, <1>8, <1>9, OpenCases DEF Engine
<1> QED
  BY <1>1, <1>10 DEF LinesOpen

\* A queue of one is empty when that one is taken.
LEMMA LastOne ==
  ASSUME NEW S, NEW q \in Seq(S), Len(q) = 1
  PROVE  Tail(q) = <<>>
<1>1. q # <<>>
  BY EmptySeq
<1>2. Tail(q) \in Seq(S) /\ Len(Tail(q)) = 0
  BY <1>1, HeadTailProperties
<1> QED
  BY <1>2, EmptySeq

\* A handler's own steps do not bring it back to its work.
LEMMA HandlerWork ==
  ASSUME TypeInv, NEW s \in Streams, Handler(s), NEW t \in Streams, reader'[t].pc \in InWork
  PROVE  reader[t].pc \in InWork
<1>0. reader \in [Streams -> ReaderLocals]
  BY DEF TypeInv, TypeOK
<1>1. CASE t # s
  BY <1>1, OtherReaders
<1>2. CASE t = s /\ CommitResult(s)
  BY <1>2 DEF CommitResult, InWork
<1>3. CASE t = s /\ ~ CommitResult(s)
  <2>1. ASSUME NEW pc \in ReaderPcs \ InWork, reader' = [reader EXCEPT ![s].pc = pc] PROVE FALSE
    BY <1>0, <1>3, <2>1, ReaderMoves
  <2>2. CASE reader' = [reader EXCEPT ![s] = IdleReader]
    BY <1>0, <1>3, <2>2, ReaderMoves DEF InWork
  <2>3. NextPc(reader[s].newStatus) \in {"count", "fail", "idle"}
    BY <1>0 DEF NextPc, ReaderLocals, BatchStatus
  <2>4. CASE ClearAssignment(s)
    BY <2>1, <2>2, <2>3, <2>4 DEF ClearAssignment, ReaderPcs, InWork
  <2>5. CASE CountCompleted(s) \/ AcquireEpochLock(s) \/ Recount(s) \/ AdvanceEpoch(s)
    BY <2>1, <2>2, <2>5 DEF CountCompleted, AcquireEpochLock, Recount, AdvanceEpoch, ReaderPcs, InWork
  <2>6. CASE RolloverCommit(s) \/ FinalizeCommit(s) \/ MarkJobFailed(s)
    BY <2>2, <2>6 DEF RolloverCommit, FinalizeCommit, MarkJobFailed
  <2> QED
    BY <1>3, <2>4, <2>5, <2>6 DEF Handler
<1> QED
  BY <1>1, <1>2, <1>3

\* It is loading a result that puts a handler at work.
LEMMA WorkBegins ==
  ASSUME TypeInv, LinesOpen, Unbroken, [Next]_vars, NEW t \in Streams, reader'[t].pc \in InWork
  PROVE  reader[t].pc \in InWork \/ LoadResult(t)
<1>0. reader \in [Streams -> ReaderLocals]
  BY DEF TypeInv, TypeOK
<1>1. ASSUME NEW s \in Streams, LoadResult(s) PROVE reader[t].pc \in InWork \/ LoadResult(t)
  BY <1>0, <1>1 DEF LoadResult
<1>2. ASSUME NEW s \in Streams, Register(s) PROVE reader' = reader
  BY <1>2 DEF Register
<1>3. CASE Engine \/ EnginePayloadError
  BY <1>3 DEF Engine, EnginePick, EngineFetch, EngineAssign, EngineDispatch, EnginePayloadError
<1>4. CASE (\E w \in Workers : Connect(w) \/ TakeAssignment(w)
                                 \/ \E outcome \in Outcomes : ReportResult(w, outcome))
           \/ (\E j \in Jobs : CancelJob(j)) \/ UNCHANGED vars
  BY <1>4 DEF Connect, TakeAssignment, ReportResult, CancelJob, vars
<1> QED
  BY <1>1, <1>2, <1>3, <1>4, HandlerWork, OpenCases

\* A shard moves from the queue to training, to the report and to the handler.
LEMMA OneThingStep ==
  ASSUME TypeInv, LinesOpen, EngineSteady, OneThing, HandsKnown, Unbroken, [Next]_vars
  PROVE  OneThing'
<1> USE DEF clientVars
<1>0. /\ reader \in [Streams -> ReaderLocals] /\ training \in [Workers -> Batches \cup {NoBatch}]
      /\ outbound \in [Streams -> Seq(Batches)] /\ inbound \in [Streams -> Seq(Batches \X Outcomes)]
      /\ status \in [Workers -> {"NONE", "IDLE", "BUSY"}]
  BY DEF TypeInv, TypeOK
<1> DEFINE Part(s) ==
      /\ outbound[s] # <<>> => /\ Len(outbound[s]) = 1 /\ training[Owner(s)] = NoBatch
                               /\ inbound[s] = <<>> /\ reader[s].pc \notin InWork
      /\ inbound[s] # <<>> => Len(inbound[s]) = 1 /\ training[Owner(s)] = NoBatch /\ reader[s].pc \notin InWork
      /\ reader[s].pc \in InWork => training[Owner(s)] = NoBatch
    Busy(s) == reader[s].pc \in InWork => status[Owner(s)] = "BUSY"
    Parts == \A t \in Streams : Part(t)'
<1>a. \A t \in Streams : Part(t) /\ Busy(t)
  BY DEF OneThing
<1>1. ASSUME UNCHANGED <<training, outbound, inbound>>,
             \A t \in Streams : reader'[t].pc \in InWork => reader[t].pc \in InWork
      PROVE  Parts
  BY <1>1, <1>a
<1>2. ASSUME EngineDispatch PROVE Parts
  <2> DEFINE e == engine.worker
             c == <<e, queues[e]>>
  <2>1. e \in Workers /\ engine.batch \in Batches /\ status[e] = "IDLE"
    BY <1>2 DEF EngineDispatch, EngineSteady, TypeInv, LocalsOK
  <2>2. /\ training[e] = NoBatch
        /\ \A t \in Streams : Owner(t) = e =>
             outbound[t] = <<>> /\ inbound[t] = <<>> /\ reader[t].pc \notin InWork
    BY <2>1, IdleEmpty
  <2>3. UNCHANGED <<training, inbound, reader>>
        /\ outbound' \in {outbound, [outbound EXCEPT ![c] = Append(@, engine.batch)]}
    BY <1>2 DEF EngineDispatch, push_assignment
  <2>4. ASSUME NEW t \in Streams PROVE Part(t)'
    <3>1. CASE outbound'[t] = outbound[t]
      BY <1>a, <2>3, <3>1
    <3>2. CASE t = c /\ outbound'[t] = Append(outbound[t], engine.batch)
      <4>1. Owner(t) = e
        BY <3>2 DEF Owner
      <4>2. outbound[t] = <<>> /\ inbound[t] = <<>> /\ reader[t].pc \notin InWork
        BY <2>2, <4>1
      <4>3. Len(Append(<<>>, engine.batch)) = 1
        BY <2>1
      <4> QED
        BY <2>2, <2>3, <3>2, <4>1, <4>2, <4>3
    <3> QED
      BY <1>0, <2>3, <3>1, <3>2
  <2> QED
    BY <2>4
<1>3. ASSUME \/ (\E w \in Workers : EnginePick(w)) \/ EngineFetch \/ EngineAssign \/ EnginePayloadError
             \/ (\E j \in Jobs : CancelJob(j)) \/ UNCHANGED vars
      PROVE  Parts
  <2>1. UNCHANGED <<training, outbound, inbound, reader>>
    BY <1>3 DEF EnginePick, EngineFetch, EngineAssign, EnginePayloadError, CancelJob, vars
  <2> QED
    BY <1>1, <2>1
<1>4. ASSUME (\E s \in Streams : Register(s)) \/ (\E w \in Workers : Connect(w)) PROVE Parts
  <2>1. UNCHANGED <<training, outbound, inbound, reader>>
    BY <1>4 DEF Register, Connect
  <2> QED
    BY <1>1, <2>1
<1>5. ASSUME NEW s \in Streams, LoadResult(s) PROVE Parts
  <2>1. /\ UNCHANGED <<training, outbound>> /\ inbound[s] # <<>>
        /\ inbound' = [inbound EXCEPT ![s] = Tail(@)]
    BY <1>5 DEF LoadResult
  <2>2. \A t \in Streams \ {s} : inbound'[t] = inbound[t] /\ reader'[t] = reader[t]
    BY <1>0, <1>5, <2>1 DEF LoadResult
  <2>3. Len(inbound[s]) = 1 /\ training[Owner(s)] = NoBatch /\ outbound[s] = <<>>
    BY <1>a, <2>1
  <2>4. inbound'[s] = <<>>
    <3>1. inbound[s] \in Seq(Batches \X Outcomes) /\ inbound'[s] = Tail(inbound[s])
      BY <1>0, <2>1
    <3> QED
      BY <2>3, <3>1, LastOne
  <2> QED
    BY <1>a, <2>1, <2>2, <2>3, <2>4
<1>6. ASSUME NEW s \in Streams, Handler(s) PROVE Parts
  BY <1>1, <1>6, HandlerMoves, HandlerWork
<1>7. ASSUME NEW w \in Workers, TakeAssignment(w) PROVE Parts
  <2> DEFINE s == Stream(w)
  <2>1. /\ UNCHANGED <<inbound, reader>> /\ outbound[s] # <<>>
        /\ outbound' = [outbound EXCEPT ![s] = Tail(@)]
        /\ \A v \in Workers \ {w} : training'[v] = training[v]
    BY <1>0, <1>7 DEF TakeAssignment
  <2>2. s \in Streams /\ Owner(s) = w /\ server[s].pc # "unused"
    BY <1>7, StreamOf DEF TakeAssignment, Online, Stream, Owner, TypeInv, TypeOK, LinesOpen
  <2>3. Len(outbound[s]) = 1 /\ inbound[s] = <<>> /\ reader[s].pc \notin InWork
    BY <1>a, <2>1, <2>2
  <2>4. outbound'[s] = <<>>
    <3>1. outbound[s] \in Seq(Batches) /\ outbound'[s] = Tail(outbound[s])
      BY <1>0, <2>1, <2>2
    <3> QED
      BY <2>3, <3>1, LastOne
  <2>5. \A t \in Streams \ {s} : outbound'[t] = outbound[t]
    BY <1>0, <2>1
  <2>6. ASSUME NEW t \in Streams PROVE Part(t)'
    <3>1. CASE t = s
      BY <2>1, <2>3, <2>4, <3>1
    <3>2. CASE t # s /\ Owner(t) = w
      <4>1. outbound[t] = <<>> /\ inbound[t] = <<>> /\ reader[t].pc = "idle"
        BY <2>2, <3>2, OneStream
      <4> QED
        BY <2>1, <2>5, <3>2, <4>1 DEF InWork
    <3>3. CASE t # s /\ Owner(t) # w
      BY <1>a, <2>1, <2>5, <3>3, StreamFields
    <3> QED
      BY <3>1, <3>2, <3>3
  <2> QED
    BY <2>6
<1>8. ASSUME NEW w \in Workers, NEW outcome \in Outcomes, ReportResult(w, outcome) PROVE Parts
  <2> DEFINE s == Stream(w)
             m == <<training[w], outcome>>
  <2>1. /\ UNCHANGED <<outbound, reader>> /\ training[w] # NoBatch
        /\ training' = [training EXCEPT ![w] = NoBatch]
        /\ inbound' \in {inbound, [inbound EXCEPT ![s] = Append(@, m)]}
    BY <1>8 DEF ReportResult
  <2>2. training'[w] = NoBatch /\ \A v \in Workers \ {w} : training'[v] = training[v]
    BY <1>0, <2>1
  <2>3. \A t \in Streams : training[Owner(t)] = NoBatch => training'[Owner(t)] = NoBatch
    BY <2>2, StreamFields
  <2>4. ASSUME NEW t \in Streams PROVE Part(t)'
    <3>1. CASE inbound'[t] = inbound[t]
      BY <1>a, <2>1, <2>3, <3>1
    <3>2. CASE t = s /\ inbound'[t] = Append(inbound[t], m)
      <4>1. Owner(t) = w
        BY <3>2 DEF Owner, Stream
      <4>2. inbound[t] = <<>> /\ outbound[t] = <<>> /\ reader[t].pc \notin InWork
        BY <1>a, <2>1, <4>1
      <4>3. Len(Append(<<>>, m)) = 1
        OBVIOUS
      <4> QED
        BY <2>1, <2>2, <3>2, <4>1, <4>2, <4>3
    <3> QED
      BY <1>0, <2>1, <3>1, <3>2
  <2> QED
    BY <2>4
<1>9. Parts
  BY <1>2, <1>3, <1>4, <1>5, <1>6, <1>7, <1>8, OpenCases DEF Engine
<1>10. ASSUME NEW t \in Streams, reader'[t].pc \in InWork PROVE status'[Owner(t)] = "BUSY"
  <2>1. Owner(t) \in Workers
    BY StreamFields
  <2>2. status[Owner(t)] = "BUSY"
    <3>1. CASE reader[t].pc \in InWork
      BY <1>a, <3>1
    <3>2. CASE LoadResult(t)
      <4>1. inbound[t] # <<>>
        BY <3>2 DEF LoadResult
      <4> QED
        BY <2>1, <4>1, IdleEmpty
    <3> QED
      BY <1>10, <3>1, <3>2, WorkBegins
  <2>3. ASSUME NEW s \in Streams, ClearAssignment(s), Owner(s) = Owner(t) PROVE FALSE
    <3>1. Handler(s) /\ reader[s].pc = "clear" /\ server[s].pc # "unused"
      BY <2>3 DEF ClearAssignment, Handler, LinesOpen
    <3>2. t = s
      BY <1>10, <2>3, <3>1, OneStream, OtherReaders DEF InWork
    <3>3. NextPc(reader[s].newStatus) \in {"count", "fail", "idle"}
      BY <1>0 DEF NextPc, ReaderLocals, BatchStatus
    <3>4. ASSUME NEW pc \in {"count", "fail"}, reader' = [reader EXCEPT ![s].pc = pc] PROVE FALSE
      BY <1>0, <1>10, <3>2, <3>4, ReaderMoves DEF InWork, ReaderPcs
    <3>5. CASE reader' = [reader EXCEPT ![s] = IdleReader]
      BY <1>0, <1>10, <3>2, <3>5, ReaderMoves DEF InWork
    <3> QED
      BY <2>3, <3>3, <3>4, <3>5 DEF ClearAssignment
  <2> QED
    BY <2>1, <2>2, <2>3, StatusWrites
<1> QED
  BY <1>9, <1>10 DEF OneThing

-----------------------------------------------------------------------------
\* The engine takes only rows that are AVAILABLE.
LEMMA EngineTakes ==
  ASSUME TypeInv, LinesOpen, Unbroken, [Next]_vars, NEW b \in Batches, EngineHolds(b)'
  PROVE  EngineHolds(b) \/ batchStatus[b] = "AVAILABLE"
<1> DEFINE Goal == EngineHolds(b) \/ batchStatus[b] = "AVAILABLE"
<1>0. engine \in EngineLocals
  BY DEF TypeInv, TypeOK
<1>1. CASE UNCHANGED engine
  BY <1>1 DEF EngineHolds
<1>2. CASE \E w \in Workers : EnginePick(w)
  BY <1>0, <1>2 DEF EnginePick, EngineHolds, EngineLocals
<1>3. CASE EngineFetch
  <2>1. ASSUME NEW c \in Dispatchable, engine' = [engine EXCEPT !.pc = "fetched", !.batch = c] PROVE Goal
    BY <1>0, <2>1 DEF EngineHolds, EngineLocals, Dispatchable
  <2>2. CASE engine' = IdleEngine
    BY <2>2 DEF EngineHolds, IdleEngine
  <2> QED
    BY <1>3, <2>1, <2>2 DEF EngineFetch
<1>4. CASE EngineAssign
  BY <1>0, <1>4 DEF EngineAssign, EngineHolds, EngineLocals
<1>5. CASE EngineDispatch \/ EnginePayloadError
  BY <1>5 DEF EngineDispatch, EnginePayloadError, EngineHolds, IdleEngine
<1>6. ASSUME NEW s \in Streams, Register(s) \/ LoadResult(s) \/ Handler(s) PROVE UNCHANGED engine
  BY <1>6, HandlerMoves DEF Register, LoadResult
<1>7. CASE (\E w \in Workers : Connect(w) \/ TakeAssignment(w)
                                 \/ \E outcome \in Outcomes : ReportResult(w, outcome))
           \/ (\E j \in Jobs : CancelJob(j)) \/ UNCHANGED vars
  BY <1>1, <1>7 DEF Connect, TakeAssignment, ReportResult, CancelJob, vars
<1> QED
  BY <1>1, <1>2, <1>3, <1>4, <1>5, <1>6, <1>7, OpenCases DEF Engine

\* A worker whose result is committed no longer has the shard.
LEMMA CommitLetsGo ==
  ASSUME TypeInv, LinesOpen, OneThing, NEW s \in Streams, CommitResult(s), NEW b \in Batches
  PROVE  ~ InHands(Owner(s), b)'
<1>1. /\ reader[s].pc = "write" /\ reader' = [reader EXCEPT ![s].pc = "clear"]
      /\ UNCHANGED <<training, outbound, inbound>>
  BY DEF CommitResult, clientVars
<1>2. reader'[s].pc = "clear" /\ \A t \in Streams \ {s} : reader'[t] = reader[t]
  BY <1>1, ReaderMoves DEF ReaderPcs, TypeInv, TypeOK
<1>3. training[Owner(s)] = NoBatch /\ outbound[s] = <<>> /\ inbound[s] = <<>> /\ server[s].pc # "unused"
  BY <1>1 DEF OneThing, InWork, LinesOpen
<1>4. ASSUME NEW t \in Streams, Owner(t) = Owner(s) PROVE ~ Carries(t, b)'
  <2>1. CASE t = s
    BY <1>1, <1>2, <1>3, <2>1, NoItems DEF Carries
  <2>2. CASE t # s
    BY <1>1, <1>2, <1>3, <1>4, <2>2, OneStream, NoItems DEF Carries
  <2> QED
    BY <2>1, <2>2
<1> QED
  BY <1>1, <1>3, <1>4, HandsCarryNext, Parameters

LEMMA HandsStep ==
  ASSUME TypeInv, HandInv, Unbroken, [Next]_vars
  PROVE  HandsKnown' /\ Exclusive'
<1> USE DEF HandInv
<1>1. ASSUME NEW w \in Workers, NEW b \in Batches, InHands(w, b)', InHands(w, b)
      PROVE  status'[w] = "BUSY" /\ ~ EngineHolds(b)' /\ batchStatus'[b] \in {"ASSIGNED", "FAILED"}
  <2>1. status[w] = "BUSY" /\ ~ EngineHolds(b) /\ batchStatus[b] \in {"ASSIGNED", "FAILED"}
    BY <1>1 DEF HandsKnown
  <2>2. status'[w] = "BUSY"
    <3>1. ASSUME NEW s \in Streams, ClearAssignment(s), Owner(s) = w PROVE FALSE
      BY <1>1, <3>1, ResultAlone DEF ClearAssignment, InWork
    <3> QED
      BY <2>1, <3>1, StatusWrites
  <2>3. ~ EngineHolds(b)'
    BY <2>1, EngineTakes
  <2>4. batchStatus'[b] \in {"ASSIGNED", "FAILED"}
    <3>1. ASSUME EngineAssign, engine.batch = b PROVE FALSE
      BY <2>1, <3>1 DEF EngineAssign, EngineHolds
    <3>2. ASSUME NEW s \in Streams, CommitResult(s), reader[s].batch = b PROVE FALSE
      <4>1. InHands(Owner(s), b)
        BY <3>2 DEF InHands, CommitResult
      <4>2. Owner(s) = w
        BY <1>1, <4>1, StreamFields DEF Exclusive
      <4> QED
        BY <1>1, <3>2, <4>2, CommitLetsGo
    <3>3. ASSUME NEW s \in Streams, RolloverCommit(s), ReaderJob(s) = JobOf[b] PROVE FALSE
      BY <2>1, <3>3 DEF RolloverCommit, PassStays, AllCompleted, BatchesOf
    <3> QED
      BY <2>1, <3>1, <3>2, <3>3, RowWrites
  <2> QED
    BY <2>2, <2>3, <2>4
<1>2. ASSUME NEW w \in Workers, NEW b \in Batches, EngineDispatch, engine.worker = w, engine.batch = b
      PROVE  /\ EngineHolds(b)
             /\ status'[w] = "BUSY" /\ ~ EngineHolds(b)' /\ batchStatus'[b] \in {"ASSIGNED", "FAILED"}
  <2>1. status'[w] = "BUSY"
    BY <1>2 DEF EngineDispatch, assign_batch, TypeInv, TypeOK
  <2> QED
    BY <1>2, <2>1 DEF EngineDispatch, EngineHolds, IdleEngine, EngineSteady, dbVars
<1>3. HandsKnown'
  <2> SUFFICES ASSUME NEW w \in Workers, NEW b \in Batches, InHands(w, b)'
               PROVE  status'[w] = "BUSY" /\ ~ EngineHolds(b)' /\ batchStatus'[b] \in {"ASSIGNED", "FAILED"}
    BY DEF HandsKnown
  <2> QED
    BY <1>1, <1>2, HandsMove
<1>4. Exclusive'
  <2> SUFFICES ASSUME NEW b \in Batches, NEW v \in Workers, NEW w \in Workers, InHands(v, b)', InHands(w, b)'
               PROVE  v = w
    BY DEF Exclusive
  <2>1. \A u \in Workers : InHands(u, b) => ~ EngineHolds(b)
    BY DEF HandsKnown
  <2> QED
    BY <1>2, <2>1, HandsMove DEF Exclusive
<1> QED
  BY <1>3, <1>4

\* From the count inside the lock to the roll-over, the pass stays full.
LEMMA PassStaysStep ==
  ASSUME TypeInv, HandInv, Unbroken, [Next]_vars
  PROVE  PassStays'
<1> USE DEF HandInv
<1>0. Uncut /\ reader \in [Streams -> ReaderLocals]
  BY DEF Uncut, Unbroken, TypeInv, TypeOK
<1> SUFFICES ASSUME NEW t \in Streams, reader'[t].pc \in {"advance", "rollover"},
                    NEW b \in Batches, JobOf[b] = JobOf[reader'[t].batch]
             PROVE  batchStatus'[b] = "COMPLETED"
  BY DEF PassStays, AllCompleted, BatchesOf, ReaderJob
<1>1. reader'[t] = reader[t] \/ Recount(t) \/ AdvanceEpoch(t)
  BY LateHandlers DEF LatePcs
<1>2. reader'[t].batch = reader[t].batch
  BY LateHandlers DEF LatePcs
<1>3. AllCompleted(ReaderJob(t)) /\ reader[t].pc \in {"recount", "advance", "rollover"}
  <2>1. CASE reader'[t] = reader[t]
    BY <2>1 DEF PassStays
  <2>2. CASE Recount(t)
    <3>1. reader' # [reader EXCEPT ![t] = IdleReader]
      BY <1>0, ReaderMoves
    <3> QED
      BY <2>2, <3>1 DEF Recount
  <2>3. CASE AdvanceEpoch(t)
    BY <2>3 DEF AdvanceEpoch, PassStays
  <2> QED
    BY <1>1, <2>1, <2>2, <2>3
<1>4. batchStatus[b] = "COMPLETED"
  BY <1>2, <1>3 DEF AllCompleted, BatchesOf, ReaderJob
<1>5. ASSUME EngineAssign, engine.batch = b PROVE FALSE
  BY <1>4, <1>5 DEF EngineAssign, EngineSteady
<1>6. ASSUME NEW s \in Streams, CommitResult(s), reader[s].batch = b PROVE FALSE
  <2>1. InHands(Owner(s), b)
    BY <1>6 DEF InHands, CommitResult
  <2> QED
    BY <1>4, <2>1, StreamFields DEF HandsKnown
<1>7. ASSUME NEW s \in Streams, RolloverCommit(s), ReaderJob(s) = JobOf[b] PROVE FALSE
  <2>1. s = t
    BY <1>2, <1>3, <1>7, OneInLockedSection DEF RolloverCommit, ReaderJob
  <2> QED
    BY <1>0, <1>7, <2>1, ReaderMoves DEF RolloverCommit
<1> QED
  BY <1>4, <1>5, <1>6, <1>7, RowWrites

LEMMA HandStep == TypeInv /\ HandInv /\ Unbroken /\ [Next]_vars => HandInv'
<1> SUFFICES ASSUME TypeInv, HandInv, Unbroken, [Next]_vars PROVE HandInv'
  OBVIOUS
<1>1. Uncut
  BY DEF Uncut, Unbroken
<1> QED
  BY <1>1, LinesStep, EngineSteadyStep, OneThingStep, HandsStep, PassStaysStep, LockStep DEF HandInv

LEMMA HandInvariant ==
  ASSUME Unbroken
  PROVE  Spec => [](TypeInv /\ HandInv)
<1>1. TypeInv /\ HandInv /\ [Next]_vars => (TypeInv /\ HandInv)'
  BY StepType, HandStep
<1> QED
  BY <1>1, InitType, HandInit, PTL DEF Spec

\* While connections hold and no handler is cut short, a shard is in the hands
\* of one worker at a time and never offered again before that worker's result
\* is in: no two workers push gradients of one shard of one pass.
THEOREM ShardsHaveOneTrainer ==
  ASSUME Unbroken
  PROVE  Spec => []OneTrainer
<1>1. HandInv => OneTrainer
  BY DEF HandInv, HandsKnown, Exclusive, OneTrainer
<1> QED
  BY <1>1, HandInvariant, PTL

\* Under the same assumption a worker that get_idle_worker offers has no shard
\* in hand, neither queued, nor in training, nor reported and not committed.
THEOREM IdleWorkersAreFree ==
  ASSUME Unbroken
  PROVE  Spec => []IdleMeansFree
<1>1. HandInv => IdleMeansFree
  BY DEF HandInv, HandsKnown, IdleMeansFree, get_idle_worker
<1> QED
  BY <1>1, HandInvariant, PTL

-----------------------------------------------------------------------------
(***************************************************************************)
(* Without faults, an assigned shard is always with somebody.              *)
(***************************************************************************)
NoFaults == Faults = {}

\* A worker that trains has called.
TrainsOnCall == \A w \in Workers : training[w] # NoBatch => conn[w] # 0

\* The row a handler has loaded was ASSIGNED, unless the job has failed since
\* the assignment.
SeenAssigned ==
  \A s \in Streams : reader[s].pc = "write" =>
    reader[s].seenStatus = "ASSIGNED" \/ batchStatus[reader[s].batch] = "FAILED"

Attended ==
  \A b \in Batches : batchStatus[b] = "ASSIGNED" =>
    EngineHolds(b) \/ \E w \in Workers : InHands(w, b)

KeptInv == HandInv /\ TrainsOnCall /\ SeenAssigned /\ Attended

LEMMA KeptInit == Init => KeptInv
<1> SUFFICES ASSUME Init PROVE KeptInv
  OBVIOUS
<1>1. /\ \A s \in Streams : reader[s].pc = "idle"
      /\ \A w \in Workers : training[w] = NoBatch
      /\ \A b \in Batches : batchStatus[b] = "AVAILABLE"
  BY DEF Init, IdleReader
<1> QED
  BY <1>1, HandInit DEF KeptInv, TrainsOnCall, SeenAssigned, Attended

LEMMA TrainsStep ==
  ASSUME TypeInv, LinesOpen, TrainsOnCall, Unbroken, [Next]_vars
  PROVE  TrainsOnCall'
<1> USE DEF TrainsOnCall, clientVars
<1>0. training \in [Workers -> Batches \cup {NoBatch}] /\ conn \in [Workers -> Nat]
  BY DEF TypeInv, TypeOK
<1>1. CASE UNCHANGED <<training, conn>>
  BY <1>1
<1>2. ASSUME NEW s \in Streams, Register(s) \/ LoadResult(s) \/ Handler(s) PROVE UNCHANGED <<training, conn>>
  BY <1>2, HandlerMoves DEF Register, LoadResult
<1>3. CASE Engine \/ EnginePayloadError \/ (\E j \in Jobs : CancelJob(j)) \/ UNCHANGED vars
  BY <1>1, <1>3 DEF Engine, EnginePick, EngineFetch, EngineAssign, EngineDispatch, EnginePayloadError,
     CancelJob, vars
<1>4. ASSUME NEW v \in Workers, Connect(v) PROVE TrainsOnCall'
  <2>1. conn' = [conn EXCEPT ![v] = @ + 1] /\ training' = training /\ conn[v] + 1 # 0
    BY <1>0, <1>4 DEF Connect
  <2> QED
    BY <1>0, <2>1
<1>5. ASSUME NEW v \in Workers, TakeAssignment(v) \/ \E outcome \in Outcomes : ReportResult(v, outcome)
      PROVE  TrainsOnCall'
  BY <1>0, <1>5, Parameters DEF TakeAssignment, ReportResult, Online
<1> QED
  BY <1>1, <1>2, <1>3, <1>4, <1>5, OpenCases

\* Only the commit of its result takes a shard out of a worker's hands.
LEMMA HandsStay ==
  ASSUME TypeInv, LinesOpen, TrainsOnCall, Unbroken, [Next]_vars,
         NEW w \in Workers, NEW b \in Batches, InHands(w, b)
  PROVE  InHands(w, b)' \/ \E s \in Streams : CommitResult(s) /\ reader[s].batch = b
<1> USE DEF clientVars
<1> DEFINE Kept == InHands(w, b)' \/ \E s \in Streams : CommitResult(s) /\ reader[s].batch = b
<1>0. /\ reader \in [Streams -> ReaderLocals] /\ training \in [Workers -> Batches \cup {NoBatch}]
      /\ outbound \in [Streams -> Seq(Batches)] /\ inbound \in [Streams -> Seq(Batches \X Outcomes)]
  BY DEF TypeInv, TypeOK
<1>1. ASSUME training' = training, \A s \in Streams : Carries(s, b) => Carries(s, b)'
      PROVE  Kept
  BY <1>1, HandsCarry, HandsCarryNext
<1>2. ASSUME UNCHANGED <<training, outbound, inbound, reader>> PROVE Kept
  BY <1>1, <1>2 DEF Carries
<1>3. ASSUME EngineDispatch PROVE Kept
  <2> DEFINE c == <<engine.worker, queues[engine.worker]>>
  <2>1. engine.batch \in Batches /\ UNCHANGED <<training, inbound, reader>>
        /\ outbound' \in {outbound, [outbound EXCEPT ![c] = Append(@, engine.batch)]}
    BY <1>3 DEF EngineDispatch, push_assignment, TypeInv, LocalsOK
  <2>2. ASSUME NEW s \in Streams PROVE Items(outbound[s]) \subseteq Items(outbound'[s])
    <3>1. outbound'[s] = outbound[s] \/ outbound'[s] = Append(outbound[s], engine.batch)
      BY <1>0, <2>1
    <3>2. outbound[s] \in Seq(Batches)
      BY <1>0
    <3>3. Items(Append(outbound[s], engine.batch)) = Items(outbound[s]) \cup {engine.batch}
      BY <2>1, <3>2, ItemsPut
    <3> QED
      BY <3>1, <3>3
  <2> QED
    BY <1>1, <2>1, <2>2 DEF Carries
<1>4. ASSUME \/ (\E v \in Workers : EnginePick(v)) \/ EngineFetch \/ EngineAssign \/ EnginePayloadError
             \/ (\E j \in Jobs : CancelJob(j)) \/ UNCHANGED vars
      PROVE  Kept
  <2>1. UNCHANGED <<training, outbound, inbound, reader>>
    BY <1>4 DEF EnginePick, EngineFetch, EngineAssign, EnginePayloadError, CancelJob, vars
  <2> QED
    BY <1>2, <2>1
<1>5. ASSUME (\E s \in Streams : Register(s)) \/ (\E v \in Workers : Connect(v)) PROVE Kept
  <2>1. UNCHANGED <<training, outbound, inbound, reader>>
    BY <1>5 DEF Register, Connect
  <2> QED
    BY <1>2, <2>1
<1>6. ASSUME NEW s \in Streams, LoadResult(s) PROVE Kept
  <2> DEFINE r == Head(inbound[s])
  <2>1. /\ inbound' = [inbound EXCEPT ![s] = Tail(@)] /\ inbound[s] # <<>> /\ reader[s].pc = "idle"
        /\ UNCHANGED <<training, outbound>>
    BY <1>6 DEF LoadResult
  <2>2. Items(inbound[s]) = {r} \cup Items(inbound'[s])
    BY <1>0, <2>1, ItemsTake
  <2>3. reader'[s].pc = "write" /\ reader'[s].batch = r[1]
        /\ \A t \in Streams \ {s} : reader'[t] = reader[t] /\ inbound'[t] = inbound[t]
    BY <1>0, <1>6, <2>1 DEF LoadResult
  <2> QED
    BY <1>1, <2>1, <2>2, <2>3 DEF Carries
<1>7. ASSUME NEW s \in Streams, Handler(s) PROVE Kept
  <2>1. UNCHANGED <<training, outbound, inbound>>
    BY <1>7, HandlerMoves
  <2>2. CASE reader[s].pc = "write" /\ reader[s].batch = b
    BY <1>7, <2>2 DEF Handler, ClearAssignment, CountCompleted, AcquireEpochLock, Recount,
       AdvanceEpoch, RolloverCommit, FinalizeCommit, MarkJobFailed
  <2>3. CASE ~ (reader[s].pc = "write" /\ reader[s].batch = b)
    BY <1>1, <1>7, <2>1, <2>3, OtherReaders DEF Carries
  <2> QED
    BY <2>2, <2>3
<1>8. ASSUME NEW v \in Workers, TakeAssignment(v) PROVE Kept
  <2> DEFINE s == Stream(v)
  <2>1. /\ UNCHANGED <<inbound, reader>> /\ outbound[s] # <<>> /\ training[v] = NoBatch
        /\ outbound' = [outbound EXCEPT ![s] = Tail(@)]
        /\ training' = [training EXCEPT ![v] = Head(outbound[s])]
    BY <1>8 DEF TakeAssignment
  <2>2. s \in Streams /\ Owner(s) = v
    BY <1>8, StreamOf DEF TakeAssignment, Online, Stream, Owner, TypeInv, TypeOK
  <2>3. Items(outbound[s]) = {Head(outbound[s])} \cup Items(outbound'[s])
    BY <1>0, <2>1, <2>2, ItemsTake
  <2>4. \A t \in Streams \ {s} : outbound'[t] = outbound[t]
    BY <1>0, <2>1
  <2>5. \A t \in Streams : Carries(t, b) => Carries(t, b)' \/ (t = s /\ training'[v] = b)
    BY <1>0, <2>1, <2>3, <2>4 DEF Carries
  <2>6. training[w] = b => training'[w] = b
    BY <1>0, <2>1, Parameters
  <2> QED
    BY <2>2, <2>5, <2>6, HandsCarry, HandsCarryNext
<1>9. ASSUME NEW v \in Workers, NEW outcome \in Outcomes, ReportResult(v, outcome) PROVE Kept
  <2> DEFINE m == <<training[v], outcome>>
  <2>1. UNCHANGED <<outbound, reader>> /\ training[v] # NoBatch
        /\ training' = [training EXCEPT ![v] = NoBatch]
    BY <1>9 DEF ReportResult
  <2>0. Stream(v) \in Streams /\ Owner(Stream(v)) = v /\ linkUp[Stream(v)]
    BY <2>1, StreamOf DEF TrainsOnCall, LinesOpen, Stream, Owner, TypeInv, TypeOK
  <2>2. PICK s \in Streams : s = Stream(v) /\ Owner(s) = v /\ linkUp[s]
    BY <2>0
  <2>3. inbound' = [inbound EXCEPT ![s] = Append(@, m)]
    BY <1>9, <2>2 DEF ReportResult
  <2>4. m \in Batches \X Outcomes /\ m[1] = training[v]
    BY <1>0, <2>1
  <2> HIDE DEF m
  <2>5. Items(inbound'[s]) = Items(inbound[s]) \cup {m}
    <3>1. inbound[s] \in Seq(Batches \X Outcomes) /\ inbound'[s] = Append(inbound[s], m)
      BY <1>0, <2>2, <2>3
    <3> QED
      BY <2>4, <3>1, ItemsPut
  <2>6. \A t \in Streams \ {s} : inbound'[t] = inbound[t]
    BY <1>0, <2>3
  <2>7. \A t \in Streams : Carries(t, b) => Carries(t, b)'
    BY <2>1, <2>5, <2>6 DEF Carries
  <2>8. training[w] = b => training'[w] = b \/ (w = v /\ Carries(s, b)')
    <3>1. w # v => training'[w] = training[w]
      BY <1>0, <2>1
    <3>2. ASSUME w = v, training[w] = b PROVE Carries(s, b)'
      <4>1. m \in Items(inbound'[s]) /\ m[1] = b
        BY <2>4, <2>5, <3>2
      <4> QED
        BY <4>1 DEF Carries
    <3> QED
      BY <3>1, <3>2
  <2> QED
    BY <2>2, <2>7, <2>8, HandsCarry, HandsCarryNext
<1> QED
  BY <1>3, <1>4, <1>5, <1>6, <1>7, <1>8, <1>9, OpenCases DEF Engine

LEMMA SeenStep ==
  ASSUME TypeInv, HandInv, SeenAssigned, Unbroken, [Next]_vars
  PROVE  SeenAssigned'
<1> USE DEF HandInv
<1>0. reader \in [Streams -> ReaderLocals] /\ inbound \in [Streams -> Seq(Batches \X Outcomes)]
  BY DEF TypeInv, TypeOK
<1> SUFFICES ASSUME NEW t \in Streams, reader'[t].pc = "write"
             PROVE  reader'[t].seenStatus = "ASSIGNED" \/ batchStatus'[reader'[t].batch] = "FAILED"
  BY DEF SeenAssigned
<1>1. CASE LoadResult(t)
  <2> DEFINE r == Head(inbound[t])
  <2>1. inbound[t] # <<>> /\ UNCHANGED batchStatus
        /\ reader'[t].batch = r[1] /\ reader'[t].seenStatus = batchStatus[r[1]]
    BY <1>0, <1>1 DEF LoadResult, dbVars
  <2>2. r \in Batches \X Outcomes /\ Items(inbound[t]) = {r} \cup Items(Tail(inbound[t]))
    <3>1. inbound[t] \in Seq(Batches \X Outcomes)
      BY <1>0
    <3> QED
      BY <2>1, <3>1, ItemsTake, HeadTailProperties
  <2>3. InHands(Owner(t), r[1])
    BY <2>2, HandsCarry DEF Carries
  <2>4. batchStatus[r[1]] \in {"ASSIGNED", "FAILED"}
    BY <2>2, <2>3, StreamFields DEF HandsKnown
  <2> QED
    BY <2>1, <2>4
<1>2. CASE ~ LoadResult(t)
  <2>1. reader[t].pc \in InWork
    BY <1>2, WorkBegins DEF InWork
  <2>2. reader'[t] = reader[t]
    <3>1. ASSUME reader'[t] # reader[t] PROVE FALSE
      <4>1. Handler(t)
        BY <2>1, <3>1, UncutHandlers DEF InWork, Uncut, Unbroken
      <4> QED
        BY <3>1, <4>1, NoNewWrite
    <3> QED
      BY <3>1
  <2>a. reader[t].batch \in Batches
    BY <2>2 DEF TypeInv, LocalsOK
  <2>b. PICK b \in Batches : b = reader[t].batch
    BY <2>a
  <2>3. InHands(Owner(t), b) /\ Owner(t) \in Workers
    BY <2>2, <2>b, StreamFields DEF InHands
  <2>4. CASE batchStatus[b] = "FAILED"
    <3>1. ASSUME EngineAssign, engine.batch = b PROVE FALSE
      BY <2>3, <3>1 DEF EngineAssign, EngineHolds, HandsKnown
    <3>2. ASSUME NEW s \in Streams, CommitResult(s), reader[s].batch = b PROVE FALSE
      <4>1. InHands(Owner(s), b)
        BY <3>2 DEF InHands, CommitResult
      <4>2. Owner(s) = Owner(t)
        BY <2>3, <4>1, StreamFields DEF Exclusive
      <4>3. ~ InHands(Owner(s), b)'
        BY <2>3, <3>2, CommitLetsGo
      <4> QED
        BY <2>2, <2>b, <4>2, <4>3 DEF InHands
    <3>3. ASSUME NEW s \in Streams, RolloverCommit(s), ReaderJob(s) = JobOf[b] PROVE FALSE
      BY <2>3, <2>4, <3>3 DEF RolloverCommit, PassStays, AllCompleted, BatchesOf
    <3> QED
      BY <2>2, <2>b, <2>4, <3>1, <3>2, <3>3, RowWrites
  <2> QED
    BY <2>2, <2>b, <2>4 DEF SeenAssigned
<1> QED
  BY <1>1, <1>2

\* A committed result takes the batch out of ASSIGNED.
LEMMA CommitEnds ==
  ASSUME TypeInv, SeenAssigned, NEW s \in Streams, CommitResult(s)
  PROVE  batchStatus'[reader[s].batch] # "ASSIGNED"
<1>1. /\ reader[s].batch \in Batches /\ reader[s].newStatus # "ASSIGNED"
      /\ batchStatus \in [Batches -> BatchStatus]
  BY DEF CommitResult, TypeInv, TypeOK, LocalsOK, ReaderLocals
<1>2. batchStatus'[reader[s].batch] \in {reader[s].newStatus, batchStatus[reader[s].batch]}
      /\ (reader[s].newStatus # reader[s].seenStatus =>
            batchStatus'[reader[s].batch] = reader[s].newStatus)
  BY <1>1 DEF CommitResult, FlushBatch
<1> QED
  BY <1>1, <1>2 DEF SeenAssigned, CommitResult

LEMMA AttendedStep ==
  ASSUME TypeInv, KeptInv, NoFaults, [Next]_vars
  PROVE  Attended'
<1> USE DEF KeptInv, HandInv
<1>0. Unbroken /\ engine \in EngineLocals
  BY DEF NoFaults, Unbroken, TypeInv, TypeOK
<1> SUFFICES ASSUME NEW b \in Batches, batchStatus'[b] = "ASSIGNED"
             PROVE  EngineHolds(b)' \/ \E w \in Workers : InHands(w, b)'
  BY DEF Attended
<1>1. ~ \E s \in Streams : CommitResult(s) /\ reader[s].batch = b
  BY CommitEnds
<1>2. CASE EngineAssign /\ engine.batch = b
  BY <1>0, <1>2 DEF EngineAssign, EngineHolds, EngineLocals
<1>3. CASE batchStatus[b] = "ASSIGNED"
  <2>1. ASSUME NEW w \in Workers, InHands(w, b) PROVE InHands(w, b)'
    BY <1>0, <1>1, <2>1, HandsStay
  <2>2. CASE EngineHolds(b)
    <3>1. engine.pc = "assigned" /\ engine.batch = b
      BY <1>3, <2>2 DEF EngineHolds, EngineSteady
    <3>2. CASE EngineDispatch
      <4> DEFINE e == engine.worker
                 c == <<e, queues[e]>>
      <4>1. e \in Workers /\ conn[e] # 0 /\ queues[e] = conn[e] /\ queues[e] # 0
        BY <3>1 DEF EngineSteady, LinesOpen, TypeInv, LocalsOK
      <4>2. c \in Streams /\ Owner(c) = e /\ linkUp[c]
        BY <4>1, StreamOf DEF LinesOpen, Stream, Owner, TypeInv, TypeOK
      <4>3. outbound' = [outbound EXCEPT ![c] = Append(@, b)]
        BY <3>1, <3>2, <4>1, <4>2 DEF EngineDispatch, push_assignment
      <4>4. outbound[c] \in Seq(Batches) /\ outbound'[c] = Append(outbound[c], b)
        BY <4>2, <4>3 DEF TypeInv, TypeOK
      <4>5. b \in Items(outbound'[c])
        BY <4>4, ItemsPut
      <4> QED
        BY <4>1, <4>2, <4>5, HandsCarryNext DEF Carries
    <3>3. CASE ~ EngineDispatch
      <4>1. ~ EngineAssign /\ ~ EngineFetch /\ ~ EnginePayloadError /\ ~ \E w \in Workers : EnginePick(w)
        BY <3>1 DEF EngineAssign, EngineFetch, EnginePayloadError, EnginePick, NoFaults
      <4>2. ASSUME NEW s \in Streams, Register(s) \/ LoadResult(s) \/ Handler(s) PROVE UNCHANGED engine
        BY <4>2, HandlerMoves DEF Register, LoadResult
      <4>3. UNCHANGED engine
        BY <1>0, <3>3, <4>1, <4>2, OpenCases DEF Engine, Connect, TakeAssignment, ReportResult, CancelJob, vars
      <4> QED
        BY <2>2, <4>3 DEF EngineHolds
    <3> QED
      BY <3>2, <3>3
  <2> QED
    BY <1>3, <2>1, <2>2 DEF Attended
<1> QED
  BY <1>0, <1>1, <1>2, <1>3, RowWrites

\* Without faults, a shard marked ASSIGNED is with the engine or in the hands
\* of a worker that will report on it: none waits for a clean-up that no
\* background job of the orchestrator does.
THEOREM NoShardIsLost ==
  ASSUME NoFaults
  PROVE  Spec => []NoLostAssignment
<1>1. Unbroken
  BY DEF NoFaults, Unbroken
<1>2. TypeInv /\ KeptInv /\ [Next]_vars => (TypeInv /\ KeptInv)'
  BY <1>1, StepType, HandStep, TrainsStep, SeenStep, AttendedStep DEF KeptInv, HandInv
<1>3. KeptInv => NoLostAssignment
  BY DEF KeptInv, Attended, NoLostAssignment
<1> QED
  BY <1>2, <1>3, InitType, KeptInit, PTL DEF Spec

-----------------------------------------------------------------------------
(***************************************************************************)
(* Refinement.  What a user sees of a job, and the work behind it, is what *)
(* TrainingJob promises.                                                   *)
(***************************************************************************)
\* Nothing is done for a job before it is running.
Started ==
  /\ \A b \in Batches : batchStatus[b] # "AVAILABLE" => jobStatus[JobOf[b]] # "pending"
  /\ \A s \in Streams : reader[s].pc # "idle" => jobStatus[ReaderJob(s)] # "pending"

\* A handler on its way to fail its job leaves a shard behind that stays FAILED.
FailedStays ==
  \A s \in Streams : reader[s].pc \in {"clear", "fail"} /\ reader[s].newStatus = "FAILED" =>
    /\ batchStatus[reader[s].batch] = "FAILED"
    /\ ~ EngineHolds(reader[s].batch)
    /\ \A w \in Workers : ~ InHands(w, reader[s].batch)

\* Only the failure of its shard leads a handler to fail a job.
FailsOver == \A s \in Streams : reader[s].pc = "fail" => reader[s].newStatus = "FAILED"

\* A handler on its way to complete its job finds the last pass full.
EndsFull == \A s \in Streams : reader[s].pc = "finalize" => AllCompleted(ReaderJob(s))

RefInv == HandInv /\ PassInv /\ SeenAssigned /\ Started /\ FailedStays /\ FailsOver /\ EndsFull

LEMMA RefInit == Init => RefInv
<1> SUFFICES ASSUME Init PROVE RefInv
  OBVIOUS
<1>1. /\ \A s \in Streams : reader[s].pc = "idle"
      /\ \A b \in Batches : batchStatus[b] = "AVAILABLE"
  BY DEF Init, IdleReader
<1> QED
  BY <1>1, HandInit, PassInit DEF RefInv, SeenAssigned, Started, FailedStays, FailsOver, EndsFull

\* A handler keeps its batch from the loading of the result to its end.
LEMMA ReaderKeeps ==
  ASSUME TypeInv, Unbroken, [Next]_vars, NEW t \in Streams, reader'[t].pc # "idle", ~ LoadResult(t)
  PROVE  /\ reader[t].pc # "idle"
         /\ reader'[t].batch = reader[t].batch /\ reader'[t].newStatus = reader[t].newStatus
<1> DEFINE Goal == /\ reader[t].pc # "idle"
                   /\ reader'[t].batch = reader[t].batch /\ reader'[t].newStatus = reader[t].newStatus
<1>0. reader \in [Streams -> ReaderLocals] /\ reader[t] \in ReaderLocals
  BY DEF TypeInv, TypeOK
<1>1. CASE reader'[t] = reader[t]
  BY <1>1
<1>2. ASSUME NEW pc \in ReaderPcs, reader[t].pc # "idle", reader' = [reader EXCEPT ![t].pc = pc] PROVE Goal
  <2>1. reader'[t] = [reader[t] EXCEPT !.pc = pc]
    BY <1>0, <1>2
  <2> QED
    BY <1>0, <1>2, <2>1 DEF ReaderLocals
<1>3. ASSUME Handler(t) PROVE Goal
  <2>1. reader' # [reader EXCEPT ![t] = IdleReader]
    BY <1>0, ReaderMoves
  <2> QED
    BY <1>2, <1>3, <2>1, HandlerMoves
<1>4. ASSUME reader'[t] # reader[t], reader[t].pc = "idle" PROVE FALSE
  <2>1. ASSUME NEW s \in Streams, Handler(s) PROVE FALSE
    BY <1>4, <2>1, HandlerMoves, OtherReaders
  <2>2. ASSUME NEW s \in Streams, LoadResult(s) PROVE FALSE
    BY <1>0, <1>4, <2>2 DEF LoadResult
  <2>3. ASSUME NEW s \in Streams, HandlerError(s) \/ CloseStream(s) PROVE FALSE
    BY <1>0, <1>4, <2>3, ReaderMoves DEF HandlerError, CloseStream, Unbroken
  <2>4. ASSUME NEW s \in Streams, Register(s) \/ Close(s) \/ LinkDown(s) PROVE FALSE
    BY <1>4, <2>3, <2>4 DEF Register, Close, DisconnectLoad, DisconnectUnassign,
       DisconnectUnregister, LinkDown, clientVars
  <2>5. ~ (Engine \/ EnginePayloadError)
    BY <1>4 DEF Engine, EnginePick, EngineFetch, EngineAssign, EngineDispatch, EnginePayloadError
  <2>6. ~ (\/ \E w \in Workers : Connect(w) \/ TakeAssignment(w)
                                   \/ \E outcome \in Outcomes : ReportResult(w, outcome)
           \/ (\E j \in Jobs : CancelJob(j)) \/ Crash \/ UNCHANGED vars)
    BY <1>4 DEF Connect, TakeAssignment, ReportResult, CancelJob, Crash, Unbroken, vars
  <2> QED
    BY <2>1, <2>2, <2>3, <2>4, <2>5, <2>6, StepCases
<1> QED
  BY <1>1, <1>3, <1>4, UncutHandlers DEF Uncut, Unbroken

\* A loaded result is in its worker's hands.
LEMMA LoadedInHand ==
  ASSUME TypeInv, HandsKnown, NEW t \in Streams, LoadResult(t)
  PROVE  reader'[t].batch \in Batches /\ batchStatus[reader'[t].batch] \in {"ASSIGNED", "FAILED"}
<1> DEFINE r == Head(inbound[t])
<1>1. inbound[t] \in Seq(Batches \X Outcomes) /\ inbound[t] # <<>> /\ reader'[t].batch = r[1]
  BY DEF LoadResult, TypeInv, TypeOK
<1>2. r \in Batches \X Outcomes /\ Items(inbound[t]) = {r} \cup Items(Tail(inbound[t]))
  BY <1>1, ItemsTake, HeadTailProperties
<1>3. InHands(Owner(t), r[1])
  BY <1>2, HandsCarry DEF Carries
<1> QED
  BY <1>1, <1>2, <1>3, StreamFields DEF HandsKnown

LEMMA StartedStep ==
  ASSUME TypeInv, HandInv, Started, Unbroken, [Next]_vars
  PROVE  Started'
<1> USE DEF HandInv
<1>0. \A j \in Jobs : jobStatus'[j] = "pending" => jobStatus[j] = "pending"
  BY JobWrites
<1>1. ASSUME NEW b \in Batches, batchStatus'[b] # "AVAILABLE"
      PROVE  jobStatus'[JobOf[b]] # "pending"
  <2>0. JobOf[b] \in Jobs
    BY Parameters
  <2>1. CASE batchStatus'[b] = batchStatus[b]
    BY <1>0, <1>1, <2>0, <2>1 DEF Started
  <2>2. CASE EngineAssign /\ engine.batch = b
    BY <2>0, <2>2 DEF EngineAssign, TypeInv, TypeOK
  <2>3. ASSUME NEW s \in Streams, CommitResult(s), reader[s].batch = b PROVE jobStatus'[JobOf[b]] # "pending"
    BY <1>0, <2>0, <2>3 DEF CommitResult, Started, ReaderJob
  <2>4. ASSUME NEW s \in Streams, MarkJobFailed(s), batchStatus'[b] # batchStatus[b]
        PROVE  jobStatus'[JobOf[b]] # "pending"
    <3>1. JobOf[b] = ReaderJob(s)
      BY <2>4 DEF MarkJobFailed, BatchesOf, TypeInv, TypeOK
    <3> QED
      BY <1>0, <2>0, <2>4, <3>1 DEF MarkJobFailed, Started
  <2> QED
    BY <1>1, <2>1, <2>2, <2>3, <2>4, RowWrites
<1>2. ASSUME NEW t \in Streams, reader'[t].pc # "idle"
      PROVE  jobStatus'[JobOf[reader'[t].batch]] # "pending"
  <2>1. CASE LoadResult(t)
    <3>1. reader'[t].batch \in Batches /\ batchStatus[reader'[t].batch] # "AVAILABLE"
      BY <2>1, LoadedInHand
    <3> QED
      BY <1>0, <3>1, Parameters DEF Started
  <2>2. CASE ~ LoadResult(t)
    <3>1. reader[t].pc # "idle" /\ reader'[t].batch = reader[t].batch
      BY <1>2, <2>2, ReaderKeeps
    <3>2. reader[t].batch \in Batches
      BY <3>1 DEF TypeInv, LocalsOK
    <3> QED
      BY <1>0, <3>1, <3>2, Parameters DEF Started, ReaderJob
  <2> QED
    BY <2>1, <2>2
<1> QED
  BY <1>1, <1>2 DEF Started, ReaderJob

\* Only the commit of a failure sets a handler on its way to fail the job.
LEMMA FailureBegins ==
  ASSUME TypeInv, LinesOpen, Unbroken, [Next]_vars, NEW t \in Streams,
         reader'[t].pc \in {"clear", "fail"}, reader'[t].newStatus = "FAILED"
  PROVE  /\ reader[t].pc \in {"clear", "fail"} \/ CommitResult(t)
         /\ reader[t].newStatus = "FAILED" /\ reader'[t].batch = reader[t].batch
<1>0. reader \in [Streams -> ReaderLocals]
  BY DEF TypeInv, TypeOK
<1>1. ~ LoadResult(t)
  BY <1>0 DEF LoadResult
<1>2. /\ reader[t].pc # "idle"
      /\ reader[t].newStatus = "FAILED" /\ reader'[t].batch = reader[t].batch
  BY <1>1, ReaderKeeps
<1>3. ASSUME reader'[t] # reader[t] PROVE reader[t].pc \in {"clear", "fail"} \/ CommitResult(t)
  <2>1. Handler(t)
    BY <1>2, <1>3, UncutHandlers DEF Uncut, Unbroken
  <2>2. ASSUME NEW pc \in ReaderPcs \ {"clear", "fail"}, reader' = [reader EXCEPT ![t].pc = pc] PROVE FALSE
    BY <1>0, <2>2, ReaderMoves
  <2>3. reader' # [reader EXCEPT ![t] = IdleReader]
    BY <1>0, ReaderMoves
  <2>4. CASE CountCompleted(t)
    BY <2>2, <2>3, <2>4 DEF CountCompleted, ReaderPcs
  <2>5. CASE AcquireEpochLock(t) \/ Recount(t) \/ AdvanceEpoch(t)
    BY <2>2, <2>3, <2>5 DEF AcquireEpochLock, Recount, AdvanceEpoch, ReaderPcs
  <2>6. CASE RolloverCommit(t) \/ FinalizeCommit(t) \/ MarkJobFailed(t)
    BY <2>3, <2>6 DEF RolloverCommit, FinalizeCommit, MarkJobFailed
  <2> QED
    BY <2>1, <2>4, <2>5, <2>6 DEF Handler, ClearAssignment
<1> QED
  BY <1>2, <1>3

LEMMA FailedStaysStep ==
  ASSUME TypeInv, HandInv, SeenAssigned, FailedStays, Unbroken, [Next]_vars
  PROVE  FailedStays'
<1> USE DEF HandInv
<1> SUFFICES ASSUME NEW t \in Streams, reader'[t].pc \in {"clear", "fail"}, reader'[t].newStatus = "FAILED",
                    NEW b, b = reader'[t].batch
             PROVE  /\ batchStatus'[b] = "FAILED" /\ ~ EngineHolds(b)'
                    /\ \A w \in Workers : ~ InHands(w, b)'
  <2>1. ASSUME NEW t \in Streams, reader'[t].pc \in {"clear", "fail"}, reader'[t].newStatus = "FAILED"
        PROVE  /\ batchStatus'[reader'[t].batch] = "FAILED" /\ ~ EngineHolds(reader[t].batch)'
               /\ \A w \in Workers : ~ InHands(w, reader[t].batch)'
    <3>1. PICK b : b = reader'[t].batch
      OBVIOUS
    <3>2. /\ batchStatus'[b] = "FAILED" /\ ~ EngineHolds(b)'
          /\ \A w \in Workers : ~ InHands(w, b)'
      BY <2>1, <3>1
    <3> QED
      BY <3>1, <3>2 DEF EngineHolds, InHands
  <2> QED
    BY <2>1 DEF FailedStays
<1>1. /\ reader[t].pc \in {"clear", "fail"} \/ CommitResult(t)
      /\ reader[t].newStatus = "FAILED" /\ b = reader[t].batch
  BY FailureBegins
<1>2. b \in Batches
  BY <1>1 DEF CommitResult, TypeInv, LocalsOK
<1>3. CASE CommitResult(t)
  <2>1. InHands(Owner(t), b) /\ Owner(t) \in Workers
    BY <1>1, <1>3, StreamFields DEF InHands, CommitResult
  <2>2. ~ EngineHolds(b) /\ batchStatus[b] \in {"ASSIGNED", "FAILED"}
    BY <1>2, <2>1 DEF HandsKnown
  <2>3. batchStatus'[b] = "FAILED"
    BY <1>1, <1>2, <1>3 DEF CommitResult, FlushBatch, SeenAssigned, TypeInv, TypeOK
  <2>4. ~ EngineHolds(b)'
    BY <1>2, <2>2, EngineTakes
  <2>5. ASSUME NEW w \in Workers, InHands(w, b)' PROVE FALSE
    <3>1. InHands(w, b)
      BY <1>2, <2>2, <2>5, HandsMove DEF EngineDispatch, EngineHolds
    <3>2. w = Owner(t)
      BY <1>2, <2>1, <3>1 DEF Exclusive
    <3> QED
      BY <1>2, <1>3, <2>5, <3>2, CommitLetsGo
  <2> QED
    BY <2>3, <2>4, <2>5
<1>4. CASE reader[t].pc \in {"clear", "fail"}
  <2>1. /\ batchStatus[b] = "FAILED" /\ ~ EngineHolds(b)
        /\ \A w \in Workers : ~ InHands(w, b)
    BY <1>1, <1>4 DEF FailedStays
  <2>2. ~ EngineHolds(b)'
    BY <1>2, <2>1, EngineTakes
  <2>3. \A w \in Workers : ~ InHands(w, b)'
    BY <1>2, <2>1, HandsMove DEF EngineDispatch, EngineHolds
  <2>4. ~ (EngineAssign /\ engine.batch = b)
    BY <2>1 DEF EngineAssign, EngineHolds
  <2>5. ~ \E s \in Streams : CommitResult(s) /\ reader[s].batch = b
    BY <2>1, StreamFields DEF CommitResult, InHands
  <2>6. ~ \E s \in Streams : RolloverCommit(s) /\ ReaderJob(s) = JobOf[b]
    BY <1>2, <2>1 DEF RolloverCommit, PassStays, AllCompleted, BatchesOf
  <2>7. batchStatus'[b] = "FAILED"
    BY <1>2, <2>1, <2>4, <2>5, <2>6, RowWrites
  <2> QED
    BY <2>2, <2>3, <2>7
<1> QED
  BY <1>1, <1>3, <1>4

LEMMA FailsOverStep ==
  ASSUME TypeInv, FailsOver, Unbroken, [Next]_vars
  PROVE  FailsOver'
<1> SUFFICES ASSUME NEW t \in Streams, reader'[t].pc = "fail" PROVE reader'[t].newStatus = "FAILED"
  BY DEF FailsOver
<1>0. reader \in [Streams -> ReaderLocals] /\ reader[t] \in ReaderLocals
  BY DEF TypeInv, TypeOK
<1>1. ~ LoadResult(t)
  BY <1>0 DEF LoadResult
<1>2. reader[t].pc # "idle" /\ reader'[t].newStatus = reader[t].newStatus
  BY <1>1, ReaderKeeps
<1>3. CASE reader'[t] = reader[t]
  BY <1>3 DEF FailsOver
<1>4. ASSUME reader'[t] # reader[t], reader[t].newStatus # "FAILED" PROVE FALSE
  <2>1. Handler(t)
    BY <1>2, <1>4, UncutHandlers DEF Uncut, Unbroken
  <2>2. ASSUME NEW pc \in ReaderPcs \ {"fail"}, reader' = [reader EXCEPT ![t].pc = pc] PROVE FALSE
    BY <1>0, <2>2, ReaderMoves
  <2>3. reader' # [reader EXCEPT ![t] = IdleReader]
    BY <1>0, ReaderMoves
  <2>4. CASE CommitResult(t) \/ CountCompleted(t)
    BY <2>2, <2>3, <2>4 DEF CommitResult, CountCompleted, ReaderPcs
  <2>5. CASE AcquireEpochLock(t) \/ Recount(t) \/ AdvanceEpoch(t)
    BY <2>2, <2>3, <2>5 DEF AcquireEpochLock, Recount, AdvanceEpoch, ReaderPcs
  <2>6. CASE RolloverCommit(t) \/ FinalizeCommit(t) \/ MarkJobFailed(t)
    BY <2>3, <2>6 DEF RolloverCommit, FinalizeCommit, MarkJobFailed
  <2>7. CASE ClearAssignment(t)
    <3>1. NextPc(reader[t].newStatus) \in {"idle", "count"}
      BY <1>0, <1>4 DEF ReaderLocals, BatchStatus, NextPc
    <3> QED
      BY <2>2, <2>3, <2>7, <3>1 DEF ClearAssignment, ReaderPcs
  <2> QED
    BY <2>1, <2>4, <2>5, <2>6, <2>7 DEF Handler
<1> QED
  BY <1>2, <1>3, <1>4

LEMMA EndsFullStep ==
  ASSUME TypeInv, HandInv, PassInv, EndsFull, Unbroken, [Next]_vars
  PROVE  EndsFull'
<1> USE DEF HandInv
<1>0. reader \in [Streams -> ReaderLocals]
  BY DEF TypeInv, TypeOK
<1> SUFFICES ASSUME NEW t \in Streams, reader'[t].pc = "finalize",
                    NEW b \in Batches, JobOf[b] = JobOf[reader'[t].batch]
             PROVE  batchStatus'[b] = "COMPLETED"
  BY DEF EndsFull, AllCompleted, BatchesOf, ReaderJob
<1>1. /\ reader'[t] = reader[t] \/ AdvanceEpoch(t)
      /\ reader'[t].batch = reader[t].batch
  BY LateHandlers DEF LatePcs
<1>2. batchStatus[b] = "COMPLETED"
  BY <1>1 DEF EndsFull, PassStays, AdvanceEpoch, AllCompleted, BatchesOf, ReaderJob
<1>3. ASSUME EngineAssign, engine.batch = b PROVE FALSE
  BY <1>2, <1>3 DEF EngineAssign, EngineSteady
<1>4. ASSUME NEW s \in Streams, CommitResult(s), reader[s].batch = b PROVE FALSE
  <2>1. InHands(Owner(s), b)
    BY <1>4 DEF InHands, CommitResult
  <2> QED
    BY <1>2, <2>1, StreamFields DEF HandsKnown
<1>5. ASSUME NEW s \in Streams, RolloverCommit(s), ReaderJob(s) = JobOf[b] PROVE FALSE
  <2>0. ReaderJob(s) = ReaderJob(t) /\ reader[s].pc = "rollover"
    BY <1>1, <1>5 DEF ReaderJob, RolloverCommit
  <2>1. CASE AdvanceEpoch(t)
    <3>1. s = t
      BY <2>0, <2>1, OneInLockedSection DEF AdvanceEpoch
    <3> QED
      BY <2>0, <2>1, <3>1 DEF AdvanceEpoch
  <2>2. CASE reader'[t] = reader[t]
    <3>1. epochsDone[ReaderJob(s)] < TargetEpochs[ReaderJob(s)] /\ epochsDone[ReaderJob(s)] >= TargetEpochs[ReaderJob(s)]
      BY <2>0, <2>2 DEF PassInv, HandlersAhead
    <3>2. ReaderJob(s) \in Jobs
      BY <1>5, Parameters
    <3>3. epochsDone[ReaderJob(s)] \in Nat /\ TargetEpochs[ReaderJob(s)] \in Nat
      BY <3>2, Parameters DEF TypeInv, TypeOK
    <3> QED
      BY <3>1, <3>3
  <2> QED
    BY <1>1, <2>1, <2>2
<1> QED
  BY <1>2, <1>3, <1>4, <1>5, RowWrites

LEMMA RefStep == TypeInv /\ RefInv /\ Unbroken /\ [Next]_vars => RefInv'
<1> SUFFICES ASSUME TypeInv, RefInv, Unbroken, [Next]_vars PROVE RefInv'
  OBVIOUS
<1>1. Uncut
  BY DEF Uncut, Unbroken
<1> QED
  BY <1>1, HandStep, PassStep, SeenStep, StartedStep, FailedStaysStep, FailsOverStep, EndsFullStep DEF RefInv

-----------------------------------------------------------------------------
\* How many passes are closed changes only by the commit of a roll-over: the
\* counter runs ahead of it.
LEMMA ClosedStill ==
  ASSUME TypeInv, RefInv, Unbroken, [Next]_vars, NEW j \in Jobs,
         ~ \E s \in Streams : RolloverCommit(s) /\ ReaderJob(s) = j
  PROVE  PassesClosed(j)' = PassesClosed(j)
<1> DEFINE E == epochsDone[j]
           T == TargetEpochs[j]
<1>0. /\ E \in Nat /\ T \in Nat \ {0} /\ Uncut /\ HoldsLock
      /\ reader \in [Streams -> ReaderLocals]
  BY Parameters DEF TypeInv, TypeOK, Uncut, Unbroken, RefInv, HandInv
<1>1. ASSUME NEW t \in Streams, reader'[t].pc = "rollover", JobOf[reader'[t].batch] = j
      PROVE  reader'[t] = reader[t] \/ (AdvanceEpoch(t) /\ ReaderJob(t) = j)
  BY <1>1, LateHandlers DEF LatePcs, ReaderJob
<1>2. ASSUME NEW t \in Streams, reader[t].pc = "rollover", ReaderJob(t) = j
      PROVE  reader'[t] = reader[t]
  <2>1. ASSUME reader'[t] # reader[t] PROVE FALSE
    <3>1. Handler(t)
      BY <1>0, <1>2, <2>1, UncutHandlers
    <3> QED
      BY <1>2, <3>1 DEF Handler, CommitResult, ClearAssignment, CountCompleted, AcquireEpochLock,
         Recount, AdvanceEpoch, FinalizeCommit, MarkJobFailed
  <2> QED
    BY <2>1
<1>3. CASE ~ \E s \in Streams : AdvanceEpoch(s) /\ ReaderJob(s) = j
  <2>1. E' = E
    BY <1>0, <1>3, UncutEpochs
  <2>2. RollingOver(j)' <=> RollingOver(j)
    BY <1>1, <1>2, <1>3 DEF RollingOver, ReaderJob
  <2> QED
    BY <2>1, <2>2 DEF PassesClosed
<1>4. ASSUME NEW s \in Streams, AdvanceEpoch(s), ReaderJob(s) = j PROVE PassesClosed(j)' = PassesClosed(j)
  <2>1. ~ RollingOver(j)
    <3>1. ASSUME NEW t \in Streams, reader[t].pc = "rollover", ReaderJob(t) = j PROVE FALSE
      BY <1>0, <1>4, <3>1, OneInLockedSection DEF AdvanceEpoch
    <3> QED
      BY <3>1 DEF RollingOver
  <2>2. E' = E + 1
    BY <1>0, <1>4 DEF AdvanceEpoch, TypeInv, TypeOK
  <2>3. CASE MorePasses(j, E')
    <3>1. reader'[s].pc = "rollover" /\ reader'[s].batch = reader[s].batch
      BY <1>0, <1>4, <2>3, AdvanceMoves
    <3>2. RollingOver(j)'
      BY <1>4, <3>1 DEF RollingOver, ReaderJob
    <3> HIDE DEF E, T
    <3>3. E' < T
      BY <2>3 DEF MorePasses, T
    <3>4. PassesClosed(j)' = E' - 1
      BY <1>0, <2>2, <3>2, <3>3 DEF PassesClosed, E, T
    <3>5. PassesClosed(j) = E
      BY <1>0, <2>1, <2>2, <3>3 DEF PassesClosed, E, T
    <3> QED
      BY <1>0, <2>2, <3>4, <3>5
  <2>4. CASE ~ MorePasses(j, E')
    <3> HIDE DEF E, T
    <3>1. ~ E' < T
      BY <2>4 DEF MorePasses, T
    <3>2. PassesClosed(j)' = T - 1
      BY <1>0, <2>2, <3>1 DEF PassesClosed, E, T
    <3>3. PassesClosed(j) = T - 1
      BY <1>0, <2>1, <2>2, <3>1 DEF PassesClosed, E, T
    <3> QED
      BY <3>2, <3>3
  <2> QED
    BY <2>3, <2>4
<1> QED
  BY <1>3, <1>4

\* The roll-over of a job closes one pass of it.
LEMMA ClosedByRollover ==
  ASSUME TypeInv, RefInv, Unbroken, [Next]_vars, NEW s \in Streams, RolloverCommit(s),
         NEW j \in Jobs, j = ReaderJob(s)
  PROVE  /\ PassesClosed(j) \in Int /\ PassesClosed(j)' = PassesClosed(j) + 1
         /\ PassesClosed(j) + 1 < TargetEpochs[j]
<1> DEFINE E == epochsDone[j]
           T == TargetEpochs[j]
<1>0. /\ E \in Nat /\ T \in Nat \ {0} /\ HoldsLock /\ E < T /\ E' = E
      /\ reader \in [Streams -> ReaderLocals]
  BY Parameters DEF TypeInv, TypeOK, RefInv, HandInv, PassInv, HandlersAhead, RolloverCommit, redisVars
<1>1. RollingOver(j)
  BY DEF RollingOver, RolloverCommit
<1>2. ~ RollingOver(j)'
  <2>1. ASSUME NEW t \in Streams, reader'[t].pc = "rollover", JobOf[reader'[t].batch] = j PROVE FALSE
    <3>1. reader'[t] = reader[t]
      <4>1. reader' = [reader EXCEPT ![s] = IdleReader]
        BY DEF RolloverCommit
      <4> QED
        BY <1>0, <2>1, <4>1 DEF IdleReader
    <3>2. t = s
      BY <1>0, <2>1, <3>1, OneInLockedSection DEF RolloverCommit, ReaderJob
    <3>3. reader'[s].pc = "idle"
      BY <1>0, ReaderMoves DEF RolloverCommit
    <3> QED
      BY <2>1, <3>2, <3>3
  <2> QED
    BY <2>1 DEF RollingOver, ReaderJob
<1> HIDE DEF E, T
<1>3. PassesClosed(j) = E - 1 /\ PassesClosed(j)' = E
  BY <1>0, <1>1, <1>2 DEF PassesClosed, E, T
<1> QED
  BY <1>0, <1>3 DEF T

Done == {b \in Batches : batchStatus[b] = "COMPLETED"}
Closed == [j \in Jobs |-> PassesClosed(j)]

\* Only the commit of a success and a roll-over change what is done of a pass.
LEMMA DoneStill ==
  ASSUME TypeInv, RefInv, Unbroken, [Next]_vars,
         ~ \E s \in Streams : CommitResult(s) \/ RolloverCommit(s)
  PROVE  Done' = Done
<1>1. ASSUME NEW b \in Batches PROVE batchStatus'[b] = "COMPLETED" <=> batchStatus[b] = "COMPLETED"
  BY RowWrites DEF RefInv, HandInv, EngineSteady, EngineAssign
<1> QED
  BY <1>1 DEF Done

LEMMA ClosedFunction ==
  ASSUME TypeInv, RefInv, Unbroken, [Next]_vars, ~ \E s \in Streams : RolloverCommit(s)
  PROVE  Closed' = Closed
<1>1. \A j \in Jobs : PassesClosed(j)' = PassesClosed(j)
  BY ClosedStill
<1> QED
  BY <1>1 DEF Closed

\* Every step of the orchestrator is a step of TrainingJob, or none.
LEMMA Simulation ==
  ASSUME TypeInv, RefInv, Unbroken, [Next]_vars
  PROVE  [Abstract!Next]_(Abstract!vars)
<1> DEFINE Step == \/ jobStatus' = jobStatus /\ Done' = Done /\ Closed' = Closed
                   \/ \E j \in Jobs :
                        \/ Abstract!Start(j) \/ Abstract!NextPass(j) \/ Abstract!Complete(j)
                        \/ Abstract!Fail(j) \/ Abstract!Cancel(j)
                   \/ \E b \in Batches : Abstract!Train(b)
<1> USE DEF RefInv, HandInv
<1>0. /\ jobStatus \in [Jobs -> JobStatus] /\ batchStatus \in [Batches -> BatchStatus]
      /\ reader \in [Streams -> ReaderLocals]
  BY DEF TypeInv, TypeOK
<1>1. ASSUME NEW s \in Streams, RolloverCommit(s) PROVE Step
  <2>0. /\ ReaderJob(s) \in Jobs /\ AllCompleted(ReaderJob(s))
        /\ jobStatus[ReaderJob(s)] # "pending"
    BY <1>1, Parameters DEF RolloverCommit, ReaderJob, TypeInv, LocalsOK, PassStays, Started
  <2>1. PICK j \in Jobs : j = ReaderJob(s) /\ AllCompleted(j) /\ jobStatus[j] # "pending"
    BY <2>0
  <2>2. jobStatus' = jobStatus
    BY <1>0, <1>1, <2>1 DEF RolloverCommit, JobStatus
  <2>3. /\ PassesClosed(j) \in Int /\ PassesClosed(j)' = PassesClosed(j) + 1
        /\ PassesClosed(j) + 1 < TargetEpochs[j]
    BY <1>1, <2>1, ClosedByRollover
  <2>4. \A k \in Jobs \ {j} : PassesClosed(k)' = PassesClosed(k)
    <3>1. ASSUME NEW k \in Jobs \ {j}, NEW t \in Streams, RolloverCommit(t), ReaderJob(t) = k PROVE FALSE
      <4>1. t # s
        BY <2>1, <3>1
      <4>2. reader'[t] = reader[t] /\ reader'[t].pc = "idle" /\ reader[t].pc = "rollover"
        BY <1>0, <1>1, <3>1, <4>1, ReaderMoves DEF RolloverCommit
      <4> QED
        BY <4>2
    <3> QED
      BY <3>1, ClosedStill
  <2>5. Closed' = [Closed EXCEPT ![j] = @ + 1]
    <3>1. \A k \in Jobs : PassesClosed(k)' = IF k = j THEN Closed[j] + 1 ELSE Closed[k]
      BY <2>1, <2>3, <2>4 DEF Closed
    <3>2. Closed' = [k \in Jobs |-> PassesClosed(k)']
      BY DEF Closed
    <3>3. Closed = [k \in Jobs |-> PassesClosed(k)]
      BY DEF Closed
    <3> HIDE DEF Closed
    <3> QED
      BY <3>1, <3>2, <3>3
  <2>6. Done' = Done \ {b \in Batches : JobOf[b] = j}
    BY <1>0, <1>1, <2>1 DEF RolloverCommit, Done
  <2>7. {b \in Batches : JobOf[b] = j} \subseteq Done
    BY <2>1 DEF AllCompleted, BatchesOf, Done
  <2>8. Closed[j] + 1 < TargetEpochs[j]
    BY <2>1, <2>3 DEF Closed
  <2>9. Abstract!NextPass(j)
    BY <2>2, <2>5, <2>6, <2>7, <2>8 DEF Abstract!NextPass, Abstract!PassDone, Abstract!ShardsOf, Done, Closed
  <2> QED
    BY <2>1, <2>9
<1>2. ASSUME NEW s \in Streams, CommitResult(s) PROVE Step
  <2>a. PICK b \in Batches : b = reader[s].batch
    BY <1>2 DEF CommitResult, TypeInv, LocalsOK
  <2>0. /\ jobStatus[JobOf[b]] # "pending" /\ jobStatus' = jobStatus
        /\ \A c \in Batches \ {b} : batchStatus'[c] = batchStatus[c]
    BY <1>0, <1>2, <2>a DEF CommitResult, FlushBatch, Started, ReaderJob
  <2>1. Closed' = Closed
    <3>1. ~ \E t \in Streams : RolloverCommit(t)
      <4>1. ASSUME NEW t \in Streams, RolloverCommit(t) PROVE FALSE
        <5>1. t # s /\ reader[t].pc = "rollover"
          BY <1>2, <4>1 DEF RolloverCommit, CommitResult
        <5>2. reader'[t].pc = "idle"
          BY <1>0, <4>1, ReaderMoves DEF RolloverCommit
        <5>3. reader' = [reader EXCEPT ![s].pc = "clear"]
          BY <1>2 DEF CommitResult
        <5>4. reader'[t] = reader[t]
          BY <1>0, <5>1, <5>3
        <5> QED
          BY <5>1, <5>2, <5>4
      <4> QED
        BY <4>1
    <3> QED
      BY <3>1, ClosedFunction
  <2>2. batchStatus[b] \in {"ASSIGNED", "FAILED"}
    <3>1. InHands(Owner(s), b)
      BY <1>2, <2>a DEF InHands, CommitResult
    <3> QED
      BY <3>1, StreamFields DEF HandsKnown
  <2>3. CASE batchStatus'[b] = "COMPLETED"
    <3>1. Done' = Done \cup {b} /\ b \notin Done
      BY <2>0, <2>2, <2>3 DEF Done
    <3>2. Abstract!Train(b)
      BY <2>0, <2>1, <3>1 DEF Abstract!Train, Done, Closed
    <3> QED
      BY <2>0, <3>2
  <2>4. CASE batchStatus'[b] # "COMPLETED"
    <3>1. Done' = Done
      BY <2>0, <2>2, <2>4 DEF Done
    <3> QED
      BY <2>0, <2>1, <3>1
  <2> QED
    BY <2>3, <2>4
<1>3. ASSUME ~ \E s \in Streams : CommitResult(s) \/ RolloverCommit(s) PROVE Step
  <2>1. Done' = Done /\ Closed' = Closed
    BY <1>3, DoneStill, ClosedFunction
  <2>2. ASSUME NEW s \in Streams, FinalizeCommit(s) PROVE Step
    <3>0. ReaderJob(s) \in Jobs
      BY <2>2, Parameters DEF FinalizeCommit, ReaderJob, TypeInv, LocalsOK
    <3>1. PICK j \in Jobs : j = ReaderJob(s) /\ AllCompleted(j) /\ jobStatus[j] # "pending"
      BY <2>2, <3>0 DEF FinalizeCommit, EndsFull, Started
    <3>2. CASE jobStatus[j] = "running"
      <4>1. jobStatus' = [jobStatus EXCEPT ![j] = "completed"]
        BY <2>2, <3>1, <3>2 DEF FinalizeCommit, NotCompletable
      <4>2. epochsDone[j] >= TargetEpochs[j] /\ TargetEpochs[j] \in Nat
        BY <2>2, <3>1, Parameters DEF FinalizeCommit, PassInv, HandlersAhead
      <4>3. Closed[j] + 1 = TargetEpochs[j]
        BY <3>1, <4>2 DEF Closed, PassesClosed
      <4>4. {b \in Batches : JobOf[b] = j} \subseteq Done
        BY <3>1 DEF AllCompleted, BatchesOf, Done
      <4>5. Abstract!Complete(j)
        BY <2>1, <3>2, <4>1, <4>3, <4>4
           DEF Abstract!Complete, Abstract!Live, Abstract!PassDone, Abstract!ShardsOf, Done, Closed
      <4> QED
        BY <3>1, <4>5
    <3>3. CASE jobStatus[j] # "running"
      <4>1. jobStatus' = jobStatus
        BY <1>0, <2>2, <3>1, <3>3 DEF FinalizeCommit, NotCompletable, JobStatus
      <4> QED
        BY <2>1, <4>1
    <3> QED
      BY <3>2, <3>3
  <2>3. ASSUME NEW s \in Streams, MarkJobFailed(s) PROVE Step
    <3>0. ReaderJob(s) \in Jobs /\ reader[s].batch \in Batches
      BY <2>3, Parameters DEF MarkJobFailed, ReaderJob, TypeInv, LocalsOK
    <3>1. PICK j \in Jobs : j = ReaderJob(s) /\ jobStatus[j] # "pending"
      BY <2>3, <3>0 DEF MarkJobFailed, Started
    <3>2. CASE jobStatus[j] = "running"
      <4>1. jobStatus' = [jobStatus EXCEPT ![j] = "failed"]
        BY <2>3, <3>1, <3>2 DEF MarkJobFailed
      <4>2. batchStatus[reader[s].batch] = "FAILED"
        BY <2>3 DEF MarkJobFailed, FailedStays, FailsOver
      <4>3. ~ {b \in Batches : JobOf[b] = j} \subseteq Done
        BY <3>0, <3>1, <4>2 DEF Done, ReaderJob
      <4>4. Abstract!Fail(j)
        BY <2>1, <3>2, <4>1, <4>3
           DEF Abstract!Fail, Abstract!Live, Abstract!PassDone, Abstract!ShardsOf, Done, Closed
      <4> QED
        BY <3>1, <4>4
    <3>3. CASE jobStatus[j] # "running"
      <4>1. jobStatus' = jobStatus
        BY <1>0, <2>3, <3>1, <3>3 DEF MarkJobFailed, JobStatus
      <4> QED
        BY <2>1, <4>1
    <3> QED
      BY <3>2, <3>3
  <2>4. CASE EngineAssign
    <3>0. JobOf[engine.batch] \in Jobs
      BY <2>4, Parameters DEF EngineAssign, TypeInv, LocalsOK
    <3>1. PICK j \in Jobs : j = JobOf[engine.batch]
      BY <3>0
    <3>2. CASE jobStatus[j] = "pending"
      <4>1. jobStatus' = [jobStatus EXCEPT ![j] = "running"]
        BY <2>4, <3>1, <3>2 DEF EngineAssign
      <4>2. Abstract!Start(j)
        BY <2>1, <3>2, <4>1 DEF Abstract!Start, Done, Closed
      <4> QED
        BY <3>1, <4>2
    <3>3. CASE jobStatus[j] # "pending"
      <4>1. jobStatus' = jobStatus
        BY <1>0, <2>4, <3>1, <3>3 DEF EngineAssign
      <4> QED
        BY <2>1, <4>1
    <3> QED
      BY <3>2, <3>3
  <2>5. ASSUME NEW j \in Jobs, CancelJob(j) PROVE Step
    <3>1. jobStatus' = [jobStatus EXCEPT ![j] = "cancelled"]
      BY <2>5 DEF CancelJob
    <3>2. Abstract!Cancel(j)
      BY <2>1, <3>1 DEF Abstract!Cancel, Done, Closed
    <3> QED
      BY <3>2
  <2>6. CASE (\E w \in Workers : EnginePick(w)) \/ EngineFetch \/ EngineDispatch \/ EnginePayloadError
    <3>1. jobStatus' = jobStatus
      BY <2>6 DEF EnginePick, EngineFetch, EngineDispatch, EnginePayloadError, dbVars
    <3> QED
      BY <2>1, <3>1
  <2>7. ASSUME NEW s \in Streams, Register(s) \/ LoadResult(s) PROVE Step
    BY <2>1, <2>7 DEF Register, LoadResult, dbVars
  <2>8. ASSUME NEW s \in Streams, ClearAssignment(s) \/ CountCompleted(s) \/ AcquireEpochLock(s)
                                  \/ Recount(s) \/ AdvanceEpoch(s)
        PROVE  Step
    BY <2>1, <2>8 DEF ClearAssignment, CountCompleted, AcquireEpochLock, Recount, AdvanceEpoch, dbVars
  <2>9. CASE (\E w \in Workers : Connect(w) \/ TakeAssignment(w)
                                   \/ \E outcome \in Outcomes : ReportResult(w, outcome))
             \/ UNCHANGED vars
    BY <2>1, <2>9 DEF Connect, TakeAssignment, ReportResult, dbVars, vars
  <2>10. ASSUME NEW s \in Streams, Handler(s) PROVE Step
    BY <1>3, <2>2, <2>3, <2>8, <2>10 DEF Handler
  <2> QED
    BY <2>4, <2>5, <2>6, <2>7, <2>9, <2>10, OpenCases DEF Engine
<1>4. Step
  BY <1>1, <1>2, <1>3
<1> QED
  BY <1>4 DEF Abstract!Next, Abstract!vars, Done, Closed

\* While connections hold and no handler is cut short, the orchestrator does to
\* a job only what the epoch loop promises: shards are done one at a time, a
\* pass is closed when every shard of it is done, a job is completed at the end
\* of its last pass, and failed only over a shard that is not done.
THEOREM JobsRunAsPromised ==
  ASSUME Unbroken
  PROVE  Spec => ImplementsTrainingJob
<1>1. Init => Abstract!Init
  <2> SUFFICES ASSUME Init PROVE Abstract!Init
    OBVIOUS
  <2>1. ASSUME NEW j \in Jobs PROVE PassesClosed(j) = 0
    <3>1. epochsDone[j] = 0 /\ TargetEpochs[j] \in Nat \ {0} /\ ~ RollingOver(j)
      BY Parameters DEF Init, RollingOver, IdleReader
    <3> QED
      BY <3>1 DEF PassesClosed
  <2> QED
    BY <2>1 DEF Init, Abstract!Init
<1>2. TypeInv /\ RefInv /\ [Next]_vars => (TypeInv /\ RefInv)'
  BY StepType, RefStep
<1>3. TypeInv /\ RefInv /\ [Next]_vars => [Abstract!Next]_(Abstract!vars)
  BY Simulation
<1> QED
  BY <1>1, <1>2, <1>3, InitType, RefInit, PTL DEF Spec, ImplementsTrainingJob, Abstract!Spec
=============================================================================
