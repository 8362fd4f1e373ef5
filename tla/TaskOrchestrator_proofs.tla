---------------------- MODULE TaskOrchestrator_proofs ----------------------
(* Theorems about TaskOrchestrator, for every value of its constants.      *)
EXTENDS TaskOrchestrator, SequenceTheorems, TLAPS

(***************************************************************************)
(* Types.  TypeOK alone is not inductive: a handler that is under way must *)
(* have a batch, and the engine a worker, for what they write to be typed. *)
(***************************************************************************)
LocalsOK ==
  /\ engine.pc # "idle" => engine.worker \in Workers
  /\ engine.pc \in {"fetched", "assigned"} => engine.batch \in Batches
  /\ \A s \in Streams : reader[s].pc # "idle" => reader[s].batch \in Batches
  /\ \A s \in Streams : server[s].pc \in {"release", "unassign"} => server[s].batch \in Batches

TypeInv == TypeOK /\ LocalsOK

\* A stream is a worker and the number of one of its calls.
LEMMA StreamFields ==
  ASSUME NEW s \in Streams
  PROVE  Owner(s) \in Workers /\ s[2] \in Nat
<1>1. PICK w \in Workers : s \in {w} \X (1..MaxConn[w])
  BY DEF Streams
<1>2. MaxConn[w] \in Nat
  BY Parameters
<1> QED
  BY <1>1, <1>2 DEF Owner

LEMMA StreamPairs ==
  ASSUME NEW s \in Streams
  PROVE  s \in Workers \X Nat
<1>1. PICK w \in Workers : s \in {w} \X (1..MaxConn[w])
  BY DEF Streams
<1>2. MaxConn[w] \in Nat
  BY Parameters
<1> QED
  BY <1>1, <1>2

LEMMA StreamOf ==
  ASSUME NEW w \in Workers, NEW n \in Nat, n # 0, n <= MaxConn[w]
  PROVE  <<w, n>> \in Streams
<1>1. n \in 1..MaxConn[w]
  BY Parameters
<1> QED
  BY <1>1 DEF Streams

\* Taking the head of a queue leaves a queue; the head is one of its elements.
LEMMA QueueTake ==
  ASSUME NEW S, NEW D, NEW f \in [D -> Seq(S)], NEW x \in D, f[x] # <<>>
  PROVE  Head(f[x]) \in S /\ [f EXCEPT ![x] = Tail(@)] \in [D -> Seq(S)]
<1>1. f[x] \in Seq(S)
  OBVIOUS
<1>2. Head(f[x]) \in S /\ Tail(f[x]) \in Seq(S)
  BY <1>1
<1> QED
  BY <1>2

\* Appending to the queue at any place, of the domain or not, leaves queues.
LEMMA QueuePut ==
  ASSUME NEW S, NEW D, NEW f \in [D -> Seq(S)], NEW x, NEW e \in S
  PROVE  [f EXCEPT ![x] = Append(@, e)] \in [D -> Seq(S)]
<1>1. CASE x \in D
  <2>1. Append(f[x], e) \in Seq(S)
    BY <1>1
  <2> QED
    BY <1>1, <2>1
<1>2. CASE x \notin D
  BY <1>2
<1> QED
  BY <1>1, <1>2

\* Moving a handler's program counter, or ending the handler, keeps its locals typed.
LEMMA ReaderMoves ==
  ASSUME NEW f \in [Streams -> ReaderLocals], NEW s \in Streams
  PROVE  /\ \A pc \in ReaderPcs :
              LET g == [f EXCEPT ![s].pc = pc] IN
              /\ g \in [Streams -> ReaderLocals]
              /\ g[s].pc = pc
              /\ g[s].batch = f[s].batch
              /\ \A t \in Streams \ {s} : g[t] = f[t]
         /\ LET g == [f EXCEPT ![s] = IdleReader] IN
              /\ g \in [Streams -> ReaderLocals]
              /\ g[s].pc = "idle"
              /\ \A t \in Streams \ {s} : g[t] = f[t]
<1>1. IdleReader \in ReaderLocals /\ IdleReader.pc = "idle"
  BY DEF IdleReader, ReaderLocals, ReaderPcs, BatchStatus
<1>2. f[s] \in ReaderLocals
  OBVIOUS
<1>3. ASSUME NEW pc \in ReaderPcs
      PROVE  LET r == [f[s] EXCEPT !.pc = pc] IN
               r \in ReaderLocals /\ r.pc = pc /\ r.batch = f[s].batch
  BY <1>2 DEF ReaderLocals
<1> QED
  BY <1>1, <1>3

LEMMA InitType == Init => TypeInv
<1> SUFFICES ASSUME Init PROVE TypeInv
  OBVIOUS
<1> USE DEF Init
<1>1. inbound \in [Streams -> Seq(Batches \X Outcomes)] /\ outbound \in [Streams -> Seq(Batches)]
  OBVIOUS
<1>2. engine \in EngineLocals /\ engine.pc = "idle"
  BY DEF IdleEngine, EngineLocals, EnginePcs
<1>3. server \in [Streams -> ServerLocals] /\ \A s \in Streams : server[s].pc = "unused"
  BY DEF Serving, ServerLocals, ServerPcs
<1>4. reader \in [Streams -> ReaderLocals] /\ \A s \in Streams : reader[s].pc = "idle"
  BY DEF IdleReader, ReaderLocals, ReaderPcs, BatchStatus
<1>5. conn \in [Workers -> Nat] /\ \A w \in Workers : conn[w] <= MaxConn[w]
  BY Parameters
<1>6. jobStatus \in [Jobs -> JobStatus] /\ batchStatus \in [Batches -> BatchStatus]
  BY DEF JobStatus, BatchStatus
<1> QED
  BY <1>1, <1>2, <1>3, <1>4, <1>5, <1>6 DEF TypeInv, TypeOK, LocalsOK

LEMMA EngineType ==
  ASSUME TypeInv, Engine \/ EnginePayloadError
  PROVE  TypeInv'
<1> USE DEF TypeInv, TypeOK, LocalsOK, EngineLocals, EnginePcs, dbVars, redisVars, smVars, clientVars
<1>1. ASSUME NEW w \in Workers, EnginePick(w) PROVE TypeInv'
  BY <1>1 DEF EnginePick
<1>2. CASE EngineFetch
  <2>1. ASSUME NEW b \in Dispatchable, engine' = [engine EXCEPT !.pc = "fetched", !.batch = b]
        PROVE  TypeInv'
    <3>1. b \in Batches
      BY DEF Dispatchable
    <3> QED
      BY <1>2, <2>1, <3>1 DEF EngineFetch
  <2>2. CASE engine' = IdleEngine
    BY <1>2, <2>2 DEF EngineFetch, IdleEngine
  <2> QED
    BY <1>2, <2>1, <2>2 DEF EngineFetch
<1>3. CASE EngineAssign
  BY <1>3 DEF EngineAssign, BatchStatus, JobStatus
<1>4. CASE EngineDispatch
  <2>1. engine.batch \in Batches
    BY <1>4 DEF EngineDispatch
  <2>2. outbound' \in [Streams -> Seq(Batches)]
    <3> DEFINE q == <<engine.worker, queues[engine.worker]>>
    <3>1. [outbound EXCEPT ![q] = Append(@, engine.batch)] \in [Streams -> Seq(Batches)]
      <4>1. outbound \in [Streams -> Seq(Batches)]
        OBVIOUS
      <4> QED
        BY ONLY <2>1, <4>1, QueuePut
    <3> QED
      BY <1>4, <3>1 DEF EngineDispatch, push_assignment
  <2> QED
    BY <1>4, <2>2 DEF EngineDispatch, assign_batch, IdleEngine
<1>5. CASE EnginePayloadError
  BY <1>5 DEF EnginePayloadError, IdleEngine
<1> QED
  BY <1>1, <1>2, <1>3, <1>4, <1>5 DEF Engine

\* A step of a handler under way moves its program counter or ends it, and
\* leaves the engine and the other streams alone.
LEMMA HandlerMoves ==
  ASSUME TypeInv, NEW s \in Streams, Handler(s) \/ HandlerError(s)
  PROVE  /\ reader[s].pc # "idle"
         /\ \/ \E pc \in ReaderPcs : reader' = [reader EXCEPT ![s].pc = pc]
            \/ reader' = [reader EXCEPT ![s] = IdleReader]
         /\ UNCHANGED <<engine, server, clientVars>>
<1>1. CASE CommitResult(s)
  BY <1>1 DEF CommitResult, ReaderPcs
<1>2. CASE ClearAssignment(s)
  <2>1. CASE NextPc(reader[s].newStatus) = "idle"
    BY <1>2, <2>1 DEF ClearAssignment
  <2>2. CASE NextPc(reader[s].newStatus) # "idle"
    <3>1. reader[s].newStatus \in {"AVAILABLE", "COMPLETED", "FAILED"}
      BY DEF TypeInv, TypeOK, ReaderLocals, BatchStatus
    <3>2. NextPc(reader[s].newStatus) \in ReaderPcs
      BY <3>1 DEF NextPc, ReaderPcs
    <3> QED
      BY <1>2, <2>2, <3>2 DEF ClearAssignment
  <2> QED
    BY <2>1, <2>2
<1>3. CASE CountCompleted(s)
  BY <1>3 DEF CountCompleted, ReaderPcs
<1>4. CASE AcquireEpochLock(s)
  BY <1>4 DEF AcquireEpochLock, ReaderPcs
<1>5. CASE Recount(s)
  BY <1>5 DEF Recount, ReaderPcs
<1>6. CASE AdvanceEpoch(s)
  BY <1>6 DEF AdvanceEpoch, ReaderPcs
<1>7. CASE RolloverCommit(s)
  BY <1>7 DEF RolloverCommit
<1>8. CASE FinalizeCommit(s)
  BY <1>8 DEF FinalizeCommit
<1>9. CASE MarkJobFailed(s)
  BY <1>9 DEF MarkJobFailed
<1>10. CASE HandlerError(s)
  BY <1>10 DEF HandlerError
<1> QED
  BY <1>1, <1>2, <1>3, <1>4, <1>5, <1>6, <1>7, <1>8, <1>9, <1>10 DEF Handler

LEMMA HandlerLocals ==
  ASSUME TypeInv, NEW s \in Streams, Handler(s) \/ HandlerError(s)
  PROVE  reader' \in [Streams -> ReaderLocals] /\ LocalsOK'
<1>1. reader[s].pc # "idle" /\ UNCHANGED <<engine, server>>
  BY HandlerMoves
<1>2. reader \in [Streams -> ReaderLocals] /\ reader[s].batch \in Batches
  BY <1>1 DEF TypeInv, TypeOK, LocalsOK
<1>3. /\ reader' \in [Streams -> ReaderLocals]
      /\ reader'[s].pc # "idle" => reader'[s].batch = reader[s].batch
      /\ \A t \in Streams \ {s} : reader'[t] = reader[t]
  <2>1. CASE reader' = [reader EXCEPT ![s] = IdleReader]
    BY <1>2, <2>1, ReaderMoves
  <2>2. ASSUME NEW pc \in ReaderPcs, reader' = [reader EXCEPT ![s].pc = pc]
        PROVE  <1>3!:
    BY <1>2, <2>2, ReaderMoves
  <2> QED
    BY <2>1, <2>2, HandlerMoves
<1> QED
  BY <1>1, <1>2, <1>3 DEF TypeInv, LocalsOK

LEMMA HandlerType ==
  ASSUME TypeInv, NEW s \in Streams, Handler(s) \/ HandlerError(s)
  PROVE  TypeInv'
<1> USE DEF TypeInv, TypeOK, dbVars, redisVars, smVars, clientVars
<1>1. LocalsOK' /\ reader' \in [Streams -> ReaderLocals]
  BY HandlerLocals
<1>2. Owner(s) \in Workers /\ reader[s].newStatus \in BatchStatus
  BY StreamFields DEF ReaderLocals, BatchStatus
<1>3. reader[s].batch \in Batches /\ ReaderJob(s) \in Jobs
  BY HandlerMoves, Parameters DEF LocalsOK, ReaderJob
<1>4. CASE CommitResult(s)
  <2>1. passes[reader[s].batch] + 1 \in Nat
    BY <1>3
  <2>2. passes' \in [Batches -> Nat]
    BY <1>4, <2>1 DEF CommitResult
  <2>3. batchStatus' \in [Batches -> BatchStatus]
        /\ assignedWorker' \in [Batches -> Workers \cup {NoWorker}]
    BY <1>2, <1>3, <1>4 DEF CommitResult, FlushBatch
  <2> QED
    BY <1>1, <1>4, <2>2, <2>3 DEF CommitResult
<1>5. CASE ClearAssignment(s)
  BY <1>1, <1>5 DEF ClearAssignment, clear_assignment
<1>6. CASE CountCompleted(s)
  BY <1>1, <1>6 DEF CountCompleted
<1>7. CASE AcquireEpochLock(s)
  BY <1>1, <1>7 DEF AcquireEpochLock
<1>8. CASE Recount(s)
  BY <1>1, <1>8 DEF Recount
<1>9. CASE AdvanceEpoch(s)
  <2>1. epochsDone[ReaderJob(s)] + 1 \in Nat
    BY <1>3
  <2>2. epochsDone' \in [Jobs -> Nat]
    BY <1>9, <2>1 DEF AdvanceEpoch
  <2>3. epochLock' \in [Jobs -> Streams \cup {NoStream}]
    BY <1>9 DEF AdvanceEpoch
  <2> QED
    BY <1>1, <1>9, <2>2, <2>3 DEF AdvanceEpoch
<1>10. CASE RolloverCommit(s)
  BY <1>1, <1>10 DEF RolloverCommit, BatchStatus, JobStatus
<1>11. CASE FinalizeCommit(s)
  BY <1>1, <1>11 DEF FinalizeCommit, JobStatus
<1>12. CASE MarkJobFailed(s)
  BY <1>1, <1>12 DEF MarkJobFailed, BatchStatus, JobStatus
<1>13. CASE HandlerError(s)
  BY <1>1, <1>3, <1>13 DEF HandlerError, ReleaseBy
<1> QED
  BY <1>4, <1>5, <1>6, <1>7, <1>8, <1>9, <1>10, <1>11, <1>12, <1>13 DEF Handler

LEMMA RequestType ==
  ASSUME TypeInv, NEW s \in Streams, Register(s) \/ LoadResult(s)
  PROVE  TypeInv'
<1> USE StreamFields DEF TypeInv, TypeOK, LocalsOK, dbVars, redisVars, smVars, clientVars
<1>1. CASE Register(s)
  <2>1. /\ server' \in [Streams -> ServerLocals]
        /\ \A t \in Streams : server'[t].pc \in {"release", "unassign"} => server'[t] = server[t]
    BY <1>1 DEF Register, ServerLocals, ServerPcs
  <2> QED
    BY <1>1, <2>1 DEF Register, register
<1>2. CASE LoadResult(s)
  <2> DEFINE r == Head(inbound[s])
  <2>1. r \in Batches \X Outcomes /\ inbound' \in [Streams -> Seq(Batches \X Outcomes)]
    BY <1>2, QueueTake DEF LoadResult
  <2>2. r[1] \in Batches /\ r[2] \in {"success", "error", "critical"}
    BY <2>1 DEF Outcomes
  <2>3. batchFailures[r[1]] + 1 \in Nat /\ FailureLimit \in Nat
    BY <2>2, Parameters
  <2>4. batchFailures' \in [Batches -> Nat]
    BY <1>2, <2>2, <2>3 DEF LoadResult
  <2>5. reader'[s] \in ReaderLocals /\ reader'[s].batch = r[1]
        /\ \A t \in Streams \ {s} : reader'[t] = reader[t]
    BY <1>2, <2>2, <2>3 DEF LoadResult, ReaderLocals, ReaderPcs, BatchStatus
  <2>6. reader' \in [Streams -> ReaderLocals]
    BY <1>2, <2>5 DEF LoadResult
  <2>7. queues' \in [Workers -> Nat] /\ status' \in [Workers -> {"NONE", "IDLE", "BUSY"}]
    BY <1>2 DEF LoadResult, register
  <2> QED
    BY <1>2, <2>1, <2>2, <2>4, <2>5, <2>6, <2>7 DEF LoadResult, register
<1> QED
  BY <1>1, <1>2

LEMMA CloseType ==
  ASSUME TypeInv, NEW s \in Streams, Close(s)
  PROVE  TypeInv'
<1> USE StreamFields
<1> USE DEF TypeInv, TypeOK, LocalsOK, ServerLocals, ServerPcs, Serving, dbVars, redisVars, smVars, clientVars
<1>1. CASE CloseStream(s)
  <2>1. inbound' \in [Streams -> Seq(Batches \X Outcomes)]
    BY <1>1 DEF CloseStream
  <2>2. epochLock' \in [Jobs -> Streams \cup {NoStream}]
    BY <1>1 DEF CloseStream, ReleaseBy
  <2>3. server' \in [Streams -> [pc : ServerPcs, batch : Batches \cup {NoBatch}]]
        /\ \A t \in Streams : server'[t].pc \in {"release", "unassign"} => server'[t].batch \in Batches
    BY <1>1 DEF CloseStream
  <2>4. /\ reader' \in [Streams -> ReaderLocals] /\ reader'[s].pc = "idle"
        /\ \A t \in Streams \ {s} : reader'[t] = reader[t]
    <3>1. reader' = [reader EXCEPT ![s] = IdleReader] /\ reader \in [Streams -> ReaderLocals]
      BY <1>1 DEF CloseStream
    <3>2. s \in Streams
      OBVIOUS
    <3> QED
      BY ONLY <3>1, <3>2, ReaderMoves
  <2> QED
    BY <1>1, <2>1, <2>2, <2>3, <2>4 DEF CloseStream
<1>2. CASE DisconnectLoad(s)
  BY <1>2 DEF DisconnectLoad
<1>3. CASE DisconnectUnassign(s)
  BY <1>3 DEF DisconnectUnassign, BatchStatus
<1>4. CASE DisconnectUnregister(s)
  BY <1>4 DEF DisconnectUnregister, unregister
<1> QED
  BY <1>1, <1>2, <1>3, <1>4 DEF Close

LEMMA WorkerType ==
  ASSUME TypeInv, NEW w \in Workers,
         Connect(w) \/ TakeAssignment(w) \/ \E outcome \in Outcomes : ReportResult(w, outcome)
  PROVE  TypeInv'
<1> USE DEF TypeInv, TypeOK, LocalsOK, dbVars, redisVars, smVars, clientVars
<1>1. CASE Connect(w)
  <2>1. server' \in [Streams -> ServerLocals]
        /\ \A t \in Streams : server'[t].pc \in {"release", "unassign"} => server'[t] = server[t]
    BY <1>1 DEF Connect, ServerLocals, Serving, ServerPcs
  <2>2. conn[w] + 1 \in Nat /\ conn[w] + 1 <= MaxConn[w]
    <3>1. conn[w] \in Nat /\ conn[w] < MaxConn[w] /\ MaxConn[w] \in Nat
      BY <1>1, Parameters DEF Connect
    <3> QED
      BY <3>1
  <2>3. conn' \in [Workers -> Nat] /\ \A v \in Workers : conn'[v] <= MaxConn[v]
    BY <1>1, <2>2 DEF Connect
  <2> QED
    BY <1>1, <2>1, <2>3 DEF Connect
<1>2. CASE TakeAssignment(w)
  <2> DEFINE q == outbound[Stream(w)]
  <2>1. Stream(w) \in Streams
    BY <1>2, StreamOf DEF TakeAssignment, Online, Stream
  <2>2. Head(q) \in Batches /\ outbound' \in [Streams -> Seq(Batches)]
    BY <1>2, <2>1, QueueTake DEF TakeAssignment
  <2> QED
    BY <1>2, <2>2 DEF TakeAssignment
<1>3. ASSUME NEW outcome \in Outcomes, ReportResult(w, outcome) PROVE TypeInv'
  <2>1. <<training[w], outcome>> \in Batches \X Outcomes
    BY <1>3 DEF ReportResult
  <2>2. inbound' \in [Streams -> Seq(Batches \X Outcomes)]
    BY <1>3, <2>1, QueuePut DEF ReportResult
  <2> QED
    BY <1>3, <2>2 DEF ReportResult
<1> QED
  BY <1>1, <1>2, <1>3

LEMMA FaultType ==
  ASSUME TypeInv, (\E s \in Streams : LinkDown(s)) \/ (\E j \in Jobs : CancelJob(j)) \/ Crash
  PROVE  TypeInv'
<1> USE DEF TypeInv, TypeOK, LocalsOK, dbVars, redisVars, smVars, clientVars
<1>1. ASSUME NEW s \in Streams, LinkDown(s) PROVE TypeInv'
  <2>1. outbound' \in [Streams -> Seq(Batches)]
    BY <1>1 DEF LinkDown
  <2> QED
    BY <1>1, <2>1 DEF LinkDown
<1>2. ASSUME NEW j \in Jobs, CancelJob(j) PROVE TypeInv'
  BY <1>2 DEF CancelJob, JobStatus
<1>3. CASE Crash
  <2>1. inbound' \in [Streams -> Seq(Batches \X Outcomes)] /\ outbound' \in [Streams -> Seq(Batches)]
    BY <1>3 DEF Crash
  <2> QED
    BY <1>3, <2>1 DEF Crash, IdleEngine, IdleReader, Serving, EngineLocals, ReaderLocals, ServerLocals, EnginePcs, ReaderPcs, ServerPcs,
       BatchStatus
<1> QED
  BY <1>1, <1>2, <1>3

\* Every step of the specification falls under one of these heads.
LEMMA StepCases ==
  ASSUME Next
  PROVE  \/ Engine \/ EnginePayloadError
         \/ \E s \in Streams : Register(s) \/ LoadResult(s)
         \/ \E s \in Streams : Handler(s) \/ HandlerError(s)
         \/ \E s \in Streams : Close(s)
         \/ \E w \in Workers : Connect(w) \/ TakeAssignment(w)
                                 \/ \E outcome \in Outcomes : ReportResult(w, outcome)
         \/ (\E s \in Streams : LinkDown(s)) \/ (\E j \in Jobs : CancelJob(j)) \/ Crash
BY DEF Next

LEMMA StepType == TypeInv /\ [Next]_vars => TypeInv'
<1> SUFFICES ASSUME TypeInv, [Next]_vars PROVE TypeInv'
  OBVIOUS
<1>1. CASE Next
  BY <1>1, StepCases, EngineType, RequestType, HandlerType, CloseType, WorkerType, FaultType
<1>2. CASE UNCHANGED vars
  BY <1>2 DEF vars, dbVars, redisVars, smVars, clientVars, TypeInv, TypeOK, LocalsOK
<1> QED
  BY <1>1, <1>2

LEMMA TypeInvariant == Spec => []TypeInv
  BY InitType, StepType, PTL DEF Spec

\* The variables keep their types, whatever the faults: in particular no
\* handler writes a batch it does not have.
THEOREM TypeCorrect == Spec => []TypeOK
<1>1. TypeInv => TypeOK
  BY DEF TypeInv
<1> QED
  BY <1>1, TypeInvariant, PTL

-----------------------------------------------------------------------------
(***************************************************************************)
(* What a step may do to a job's row, to a batch's row and to a handler.   *)
(* The invariants below are proved from these three lemmas.                *)
(***************************************************************************)
\* A step other than a handler's writes a job's row only to start or to cancel it.
LEMMA OtherJobWrites ==
  ASSUME TypeInv, [Next]_vars, ~ \E s \in Streams : Handler(s), NEW j \in Jobs
  PROVE  \/ jobStatus'[j] = jobStatus[j]
         \/ jobStatus'[j] = "cancelled"
         \/ jobStatus[j] = "pending" /\ jobStatus'[j] = "running"
<1> USE DEF TypeInv, TypeOK, dbVars
<1>1. CASE Engine \/ EnginePayloadError
  BY <1>1 DEF Engine, EnginePick, EngineFetch, EngineAssign, EngineDispatch, EnginePayloadError
<1>2. ASSUME NEW s \in Streams, Register(s) \/ LoadResult(s) PROVE jobStatus' = jobStatus
  BY <1>2 DEF Register, LoadResult
<1>3. ASSUME NEW s \in Streams, HandlerError(s) \/ Close(s) \/ LinkDown(s) PROVE jobStatus' = jobStatus
  BY <1>3 DEF HandlerError, Close, CloseStream, DisconnectLoad, DisconnectUnassign,
     DisconnectUnregister, LinkDown
<1>4. ASSUME NEW w \in Workers,
             Connect(w) \/ TakeAssignment(w) \/ \E outcome \in Outcomes : ReportResult(w, outcome)
      PROVE  jobStatus' = jobStatus
  BY <1>4 DEF Connect, TakeAssignment, ReportResult
<1>5. ASSUME NEW k \in Jobs, CancelJob(k) PROVE jobStatus'[j] \in {jobStatus[j], "cancelled"}
  BY <1>5 DEF CancelJob
<1>6. CASE Crash \/ UNCHANGED vars
  BY <1>6 DEF Crash, vars
<1> QED
  BY <1>1, <1>2, <1>3, <1>4, <1>5, <1>6, StepCases

LEMMA JobWrites ==
  ASSUME TypeInv, [Next]_vars, NEW j \in Jobs
  PROVE  \/ jobStatus'[j] = jobStatus[j]
         \/ jobStatus'[j] = "cancelled"
         \/ jobStatus[j] \in Active /\ jobStatus'[j] \in {"running", "failed"}
         \/ /\ jobStatus[j] \in Active /\ jobStatus'[j] = "completed"
            /\ \E s \in Streams : FinalizeCommit(s) /\ ReaderJob(s) = j
<1> DEFINE Written ==
      \/ jobStatus'[j] = jobStatus[j]
      \/ jobStatus'[j] = "cancelled"
      \/ jobStatus[j] \in Active /\ jobStatus'[j] \in {"running", "failed"}
      \/ /\ jobStatus[j] \in Active /\ jobStatus'[j] = "completed"
         /\ \E s \in Streams : FinalizeCommit(s) /\ ReaderJob(s) = j
<1>1. CASE ~ \E s \in Streams : Handler(s)
  BY <1>1, OtherJobWrites DEF Active
<1>2. ASSUME NEW s \in Streams, Handler(s) PROVE Written
  <2> USE DEF TypeInv, TypeOK, JobStatus, Active, dbVars
  <2>1. CASE CommitResult(s) \/ ClearAssignment(s) \/ CountCompleted(s) \/ AcquireEpochLock(s)
             \/ Recount(s) \/ AdvanceEpoch(s)
    BY <2>1 DEF CommitResult, ClearAssignment, CountCompleted, AcquireEpochLock, Recount, AdvanceEpoch
  <2>2. CASE RolloverCommit(s)
    BY <2>2 DEF RolloverCommit
  <2>3. CASE FinalizeCommit(s)
    BY <2>3 DEF FinalizeCommit, NotCompletable
  <2>4. CASE MarkJobFailed(s)
    BY <2>4 DEF MarkJobFailed
  <2> QED
    BY <1>2, <2>1, <2>2, <2>3, <2>4 DEF Handler
<1> QED
  BY <1>1, <1>2

\* A batch that turns COMPLETED has been trained once more; nothing else counts.
LEMMA BatchWrites ==
  ASSUME TypeInv, [Next]_vars, NEW b \in Batches
  PROVE  /\ passes'[b] \in Nat
         /\ \/ passes'[b] = passes[b] /\ (batchStatus'[b] = "COMPLETED" => batchStatus[b] = "COMPLETED")
            \/ passes'[b] = passes[b] + 1 /\ \E s \in Streams : CommitResult(s)
<1> USE DEF TypeInv, TypeOK, dbVars
<1> DEFINE Quiet == passes'[b] = passes[b] /\ (batchStatus'[b] = "COMPLETED" => batchStatus[b] = "COMPLETED")
           Counted == passes'[b] = passes[b] + 1 /\ \E s \in Streams : CommitResult(s)
<1>0. passes[b] \in Nat
  OBVIOUS
<1>1. CASE Engine \/ EnginePayloadError
  BY <1>1 DEF Engine, EnginePick, EngineFetch, EngineAssign, EngineDispatch, EnginePayloadError, LocalsOK
<1>2. ASSUME NEW s \in Streams, Register(s) \/ LoadResult(s) PROVE Quiet
  BY <1>2 DEF Register, LoadResult
<1>3. ASSUME NEW s \in Streams, Handler(s) \/ HandlerError(s) PROVE Quiet \/ Counted
  <2>1. CASE CommitResult(s)
    <3>1. reader[s].batch \in Batches /\ passes[b] \in Nat
      BY <2>1 DEF CommitResult, LocalsOK
    <3>2. batchStatus'[b] = "COMPLETED" /\ b # reader[s].batch => batchStatus[b] = "COMPLETED"
      BY <2>1 DEF CommitResult, FlushBatch
    <3> DEFINE Turned == batchStatus[reader[s].batch] # "COMPLETED"
                         /\ batchStatus'[reader[s].batch] = "COMPLETED"
    <3>3. CASE ~ Turned
      BY <2>1, <3>1, <3>2, <3>3 DEF CommitResult
    <3>4. CASE Turned
      <4>1. passes' = [passes EXCEPT ![reader[s].batch] = @ + 1]
        BY <2>1, <3>4 DEF CommitResult
      <4>2. passes'[b] = IF b = reader[s].batch THEN passes[b] + 1 ELSE passes[b]
        BY <3>1, <4>1
      <4>3. b # reader[s].batch => Quiet
        BY <3>2, <4>1
      <4> QED
        BY <2>1, <4>2, <4>3
    <3> QED
      BY <3>3, <3>4
  <2>2. CASE ClearAssignment(s) \/ CountCompleted(s) \/ AcquireEpochLock(s) \/ Recount(s)
             \/ AdvanceEpoch(s) \/ HandlerError(s)
    BY <2>2 DEF ClearAssignment, CountCompleted, AcquireEpochLock, Recount, AdvanceEpoch, HandlerError
  <2>3. CASE RolloverCommit(s)
    BY <2>3 DEF RolloverCommit
  <2>4. CASE FinalizeCommit(s)
    BY <2>4 DEF FinalizeCommit
  <2>5. CASE MarkJobFailed(s)
    BY <2>5 DEF MarkJobFailed
  <2> QED
    BY <1>3, <2>1, <2>2, <2>3, <2>4, <2>5 DEF Handler
<1>4. ASSUME NEW s \in Streams, Close(s) PROVE Quiet
  BY <1>4 DEF Close, CloseStream, DisconnectLoad, DisconnectUnassign, DisconnectUnregister, LocalsOK
<1>5. ASSUME NEW w \in Workers,
             Connect(w) \/ TakeAssignment(w) \/ \E outcome \in Outcomes : ReportResult(w, outcome)
      PROVE  Quiet
  BY <1>5 DEF Connect, TakeAssignment, ReportResult
<1>6. CASE (\E s \in Streams : LinkDown(s)) \/ (\E j \in Jobs : CancelJob(j)) \/ Crash \/ UNCHANGED vars
  BY <1>6 DEF LinkDown, CancelJob, Crash, vars
<1> QED
  BY <1>0, <1>1, <1>2, <1>3, <1>4, <1>5, <1>6, StepCases

LEMMA PassesGrow ==
  ASSUME TypeInv, [Next]_vars, NEW b \in Batches
  PROVE  passes[b] \in Nat /\ passes'[b] \in Nat /\ passes'[b] >= passes[b]
<1>1. passes[b] \in Nat
  BY DEF TypeInv, TypeOK
<1>2. passes'[b] \in Nat /\ passes'[b] \in {passes[b], passes[b] + 1}
  BY BatchWrites
<1> QED
  BY <1>1, <1>2

\* A handler gets past the acquisition of the lock one step at a time.
LatePcs == {"advance", "rollover", "finalize"}

LEMMA LateHandlers ==
  ASSUME TypeInv, [Next]_vars, NEW t \in Streams,
         reader'[t] # reader[t], reader'[t].pc \in LatePcs \cup {"recount"}
  PROVE  /\ AcquireEpochLock(t) \/ Recount(t) \/ AdvanceEpoch(t)
         /\ reader'[t].pc = "recount" => AcquireEpochLock(t)
         /\ reader'[t].pc = "advance" => Recount(t)
         /\ reader'[t].pc \in {"rollover", "finalize"} => AdvanceEpoch(t)
         /\ reader'[t].batch = reader[t].batch
<1> USE DEF LatePcs
<1>1. reader[t] \in ReaderLocals /\ reader \in [Streams -> ReaderLocals]
  BY DEF TypeInv, TypeOK
<1>2. CASE UNCHANGED reader
  BY <1>2
<1>3. CASE \E s \in Streams : Handler(s) \/ HandlerError(s)
  <2>1. PICK s \in Streams : Handler(s) \/ HandlerError(s)
    BY <1>3
  <2>2. \/ \E pc \in ReaderPcs : reader' = [reader EXCEPT ![s].pc = pc]
        \/ reader' = [reader EXCEPT ![s] = IdleReader]
    BY <2>1, HandlerMoves
  <2>3. s = t /\ reader'[t].batch = reader[t].batch
    <3>1. CASE reader' = [reader EXCEPT ![s] = IdleReader]
      BY <1>1, <3>1, ReaderMoves
    <3>2. ASSUME NEW pc \in ReaderPcs, reader' = [reader EXCEPT ![s].pc = pc] PROVE <2>3
      BY <1>1, <3>2, ReaderMoves
    <3> QED
      BY <2>2, <3>1, <3>2
  <2>4. CASE CommitResult(t)
    BY <1>1, <2>4 DEF CommitResult
  <2>5. CASE ClearAssignment(t)
    <3>1. reader[t].newStatus \in {"AVAILABLE", "COMPLETED", "FAILED"}
      BY <1>1 DEF ReaderLocals, BatchStatus
    <3>2. NextPc(reader[t].newStatus) \in {"count", "fail", "idle"}
      BY <3>1 DEF NextPc
    <3> QED
      BY <1>1, <2>5, <3>2 DEF ClearAssignment, IdleReader
  <2>6. CASE CountCompleted(t)
    BY <1>1, <2>6 DEF CountCompleted, IdleReader
  <2>7. CASE AcquireEpochLock(t)
    BY <1>1, <2>3, <2>7 DEF AcquireEpochLock
  <2>8. CASE Recount(t)
    <3>1. CASE reader' = [reader EXCEPT ![t].pc = "advance"]
      <4>1. reader'[t].pc = "advance"
        BY <1>1, <3>1, ReaderMoves DEF ReaderPcs
      <4> QED
        BY <2>3, <2>8, <4>1
    <3>2. CASE reader' = [reader EXCEPT ![t] = IdleReader]
      BY <1>1, <3>2, ReaderMoves
    <3> QED
      BY <2>8, <3>1, <3>2 DEF Recount
  <2>9. CASE AdvanceEpoch(t)
    <3>1. PICK pc \in {"rollover", "finalize"} : reader' = [reader EXCEPT ![t].pc = pc]
      BY <2>9 DEF AdvanceEpoch
    <3>2. reader'[t].pc = pc
      BY <1>1, <3>1, ReaderMoves DEF ReaderPcs
    <3> QED
      BY <2>3, <2>9, <3>2
  <2>10. CASE RolloverCommit(t) \/ FinalizeCommit(t) \/ MarkJobFailed(t) \/ HandlerError(t)
    BY <1>1, <2>10 DEF RolloverCommit, FinalizeCommit, MarkJobFailed, HandlerError, IdleReader
  <2> QED
    BY <2>1, <2>3, <2>4, <2>5, <2>6, <2>7, <2>8, <2>9, <2>10 DEF Handler
<1>4. CASE Crash \/ \E s \in Streams : CloseStream(s)
  BY <1>1, <1>4 DEF Crash, CloseStream, IdleReader
<1>5. CASE \E s \in Streams : LoadResult(s)
  BY <1>1, <1>5 DEF LoadResult
<1>6. CASE Engine \/ EnginePayloadError
  BY <1>2, <1>6 DEF Engine, EnginePick, EngineFetch, EngineAssign, EngineDispatch, EnginePayloadError
<1>7. CASE \E s \in Streams : Register(s) \/ Close(s) \/ LinkDown(s)
  BY <1>2, <1>4, <1>7 DEF Register, Close, DisconnectLoad, DisconnectUnassign,
     DisconnectUnregister, LinkDown
<1>8. CASE \E w \in Workers : Connect(w) \/ TakeAssignment(w)
                                \/ \E outcome \in Outcomes : ReportResult(w, outcome)
  BY <1>2, <1>8 DEF Connect, TakeAssignment, ReportResult
<1>9. CASE (\E j \in Jobs : CancelJob(j)) \/ UNCHANGED vars
  BY <1>2, <1>9 DEF CancelJob, vars
<1> QED
  BY <1>3, <1>4, <1>5, <1>6, <1>7, <1>8, <1>9, StepCases

-----------------------------------------------------------------------------
(***************************************************************************)
(* A completed job was trained, whatever fails.  The invariant follows the *)
(* evidence from the batch rows to the job row: a COMPLETED row was        *)
(* trained, a handler past its recount saw all of them, and only such a    *)
(* handler completes a job.  The counter of trainings never goes down, so  *)
(* what a handler saw stays true however late it commits.                  *)
(***************************************************************************)
RowsTrained    == \A b \in Batches : batchStatus[b] = "COMPLETED" => passes[b] > 0
HandlersTrained == \A s \in Streams : reader[s].pc \in LatePcs =>
                     \A b \in BatchesOf(ReaderJob(s)) : passes[b] > 0

TrainedInv == RowsTrained /\ HandlersTrained /\ CompletedMeansTrained

(***************************************************************************)
(* A completed job was trained as often as it asked for, as long as no     *)
(* handler is cut short.  The epoch counter and the rows disagree between  *)
(* AdvanceEpoch and RolloverCommit; the lock makes that window the only    *)
(* one, and a handler that leaves it early opens it for good.              *)
(***************************************************************************)
HoldsLock == \A s \in Streams : reader[s].pc \in {"recount", "advance", "rollover"} =>
               epochLock[ReaderJob(s)] = s

\* Every counted pass was trained.
CountedTrained == \A b \in Batches :
  passes[b] >= epochsDone[JobOf[b]] \/ passes[b] >= TargetEpochs[JobOf[b]]

\* Outside the window, a COMPLETED row is one training ahead of the counter.
RowsAhead == \A b \in Batches :
  batchStatus[b] = "COMPLETED" =>
    \/ passes[b] > epochsDone[JobOf[b]]
    \/ epochsDone[JobOf[b]] >= TargetEpochs[JobOf[b]]
    \/ RollingOver(JobOf[b])

HandlersAhead == \A s \in Streams :
  /\ reader[s].pc = "advance" => \A b \in BatchesOf(ReaderJob(s)) :
       passes[b] > epochsDone[ReaderJob(s)] \/ passes[b] >= TargetEpochs[ReaderJob(s)]
  /\ reader[s].pc = "rollover" => epochsDone[ReaderJob(s)] < TargetEpochs[ReaderJob(s)]
  /\ reader[s].pc = "finalize" => epochsDone[ReaderJob(s)] >= TargetEpochs[ReaderJob(s)]

CompletedCounted == \A j \in Jobs : jobStatus[j] = "completed" => epochsDone[j] >= TargetEpochs[j]

PassInv == HoldsLock /\ CountedTrained /\ RowsAhead /\ HandlersAhead /\ CompletedCounted

\* A job that ended stays as it ended, unless its owner cancels it: every write
\* of a job's row by a late handler checks the status in the same statement.
THEOREM TerminalJobsStick == Spec => TerminalSticks
<1>1. TypeInv /\ [Next]_vars =>
        [\A j \in Jobs : jobStatus[j] \notin Active => jobStatus'[j] \in {jobStatus[j], "cancelled"}]_vars
  BY JobWrites
<1> QED
  BY <1>1, TypeInvariant, PTL DEF Spec, TerminalSticks

LEMMA TrainedInit == Init => TrainedInv
  BY DEF Init, TrainedInv, RowsTrained, HandlersTrained, CompletedMeansTrained, IdleReader, LatePcs

LEMMA TrainedStep == TypeInv /\ TrainedInv /\ [Next]_vars => TrainedInv'
<1> SUFFICES ASSUME TypeInv, TrainedInv, [Next]_vars PROVE TrainedInv'
  OBVIOUS
<1>1. ASSUME NEW b \in Batches
      PROVE  passes[b] \in Nat /\ passes'[b] \in Nat /\ passes'[b] >= passes[b]
  BY PassesGrow
<1>2. RowsTrained'
  BY <1>1, BatchWrites DEF TypeInv, TypeOK, TrainedInv, RowsTrained
<1>3. HandlersTrained'
  <2> SUFFICES ASSUME NEW s \in Streams, reader'[s].pc \in LatePcs,
                      NEW b \in BatchesOf(JobOf[reader'[s].batch])
               PROVE  passes'[b] > 0
    BY DEF HandlersTrained, ReaderJob, BatchesOf
  <2>1. b \in Batches
    BY DEF BatchesOf
  <2>2. CASE reader'[s] = reader[s] \/ AdvanceEpoch(s)
    BY <1>1, <2>1, <2>2, LateHandlers DEF TrainedInv, HandlersTrained, ReaderJob, AdvanceEpoch, LatePcs
  <2>3. CASE reader'[s].pc = "advance" /\ Recount(s)
    <3>1. reader'[s].batch = reader[s].batch
      BY <2>3, LateHandlers DEF Recount
    <3>2. AllCompleted(ReaderJob(s))
      BY <2>3 DEF Recount, TypeInv, TypeOK, IdleReader
    <3> QED
      BY <1>1, <2>1, <3>1, <3>2 DEF AllCompleted, ReaderJob, TrainedInv, RowsTrained
  <2> QED
    BY <2>2, <2>3, LateHandlers DEF LatePcs
<1>4. CompletedMeansTrained'
  <2> SUFFICES ASSUME NEW j \in Jobs, jobStatus'[j] = "completed", NEW b \in BatchesOf(j)
               PROVE  passes'[b] > 0
    BY DEF CompletedMeansTrained, BatchesOf
  <2>1. b \in Batches
    BY DEF BatchesOf
  <2>2. CASE jobStatus'[j] = jobStatus[j]
    BY <1>1, <2>1, <2>2 DEF TrainedInv, CompletedMeansTrained
  <2>3. ASSUME NEW s \in Streams, FinalizeCommit(s), ReaderJob(s) = j PROVE passes'[b] > 0
    BY <1>1, <2>1, <2>3 DEF TrainedInv, HandlersTrained, FinalizeCommit, LatePcs
  <2> QED
    BY <2>2, <2>3, JobWrites
<1> QED
  BY <1>2, <1>3, <1>4 DEF TrainedInv

\* Whatever fails - broken connections, cancelled handlers, failed statements,
\* restarts - a job is completed only if each of its shards was trained.
THEOREM CompletedJobsTrained == Spec => []CompletedMeansTrained
<1>1. Init => TypeInv /\ TrainedInv
  BY InitType, TrainedInit
<1>2. TypeInv /\ TrainedInv /\ [Next]_vars => (TypeInv /\ TrainedInv)'
  BY StepType, TrainedStep
<1>3. TrainedInv => CompletedMeansTrained
  BY DEF TrainedInv
<1> QED
  BY <1>1, <1>2, <1>3, PTL DEF Spec

-----------------------------------------------------------------------------
\* AdvanceEpoch keeps the lock when another pass follows, and only then.
LEMMA AdvanceMoves ==
  ASSUME TypeInv, NEW s \in Streams, AdvanceEpoch(s)
  PROVE  LET j == ReaderJob(s) IN
         /\ reader'[s] # reader[s]
         /\ reader'[s].batch = reader[s].batch
         /\ \/ reader'[s].pc = "rollover" /\ MorePasses(j, epochsDone'[j]) /\ UNCHANGED epochLock
            \/ reader'[s].pc = "finalize" /\ ~ MorePasses(j, epochsDone'[j])
<1> DEFINE j == ReaderJob(s)
<1>1. reader \in [Streams -> ReaderLocals] /\ reader[s].pc = "advance"
  BY DEF TypeInv, TypeOK, AdvanceEpoch
<1>2. CASE MorePasses(j, epochsDone'[j])
  <2>1. reader' = [reader EXCEPT ![s].pc = "rollover"] /\ UNCHANGED epochLock
    BY <1>2 DEF AdvanceEpoch
  <2>2. reader'[s].pc = "rollover" /\ reader'[s].batch = reader[s].batch
    BY <1>1, <2>1, ReaderMoves DEF ReaderPcs
  <2> QED
    BY <1>1, <1>2, <2>1, <2>2
<1>3. CASE ~ MorePasses(j, epochsDone'[j])
  <2>1. reader' = [reader EXCEPT ![s].pc = "finalize"]
    BY <1>3 DEF AdvanceEpoch
  <2>2. reader'[s].pc = "finalize" /\ reader'[s].batch = reader[s].batch
    BY <1>1, <2>1, ReaderMoves DEF ReaderPcs
  <2> QED
    BY <1>1, <1>3, <2>2
<1> QED
  BY <1>2, <1>3

\* Connections may break and payloads fail to be built; nothing cuts a handler.
Uncut == Faults \subseteq {"disconnect", "payload"}

\* A handler under way moves by its own steps only, and the epoch counter only
\* by a handler's.
LEMMA UncutHandlers ==
  ASSUME TypeInv, Uncut, [Next]_vars, NEW t \in Streams, reader[t].pc # "idle",
         reader'[t] # reader[t]
  PROVE  Handler(t)
<1>1. reader \in [Streams -> ReaderLocals]
  BY DEF TypeInv, TypeOK
<1>2. CASE UNCHANGED reader
  BY <1>2
<1>3. ASSUME NEW s \in Streams, Handler(s) PROVE Handler(t)
  <2>1. CASE reader' = [reader EXCEPT ![s] = IdleReader]
    BY <1>1, <1>3, <2>1, ReaderMoves
  <2>2. ASSUME NEW pc \in ReaderPcs, reader' = [reader EXCEPT ![s].pc = pc] PROVE Handler(t)
    BY <1>1, <1>3, <2>2, ReaderMoves
  <2> QED
    BY <1>3, <2>1, <2>2, HandlerMoves
<1>4. ASSUME NEW s \in Streams, LoadResult(s) PROVE FALSE
  BY <1>1, <1>4 DEF LoadResult
<1>5. ASSUME NEW s \in Streams, CloseStream(s) PROVE FALSE
  BY <1>1, <1>5, ReaderMoves DEF CloseStream, Uncut
<1>6. CASE (\E s \in Streams : HandlerError(s)) \/ Crash
  BY <1>6 DEF HandlerError, Crash, Uncut
<1>7. CASE Engine \/ EnginePayloadError
  BY <1>2, <1>7 DEF Engine, EnginePick, EngineFetch, EngineAssign, EngineDispatch, EnginePayloadError
<1>8. CASE \E s \in Streams : Register(s) \/ Close(s) \/ LinkDown(s)
  BY <1>2, <1>5, <1>8 DEF Register, Close, DisconnectLoad, DisconnectUnassign,
     DisconnectUnregister, LinkDown
<1>9. CASE \E w \in Workers : Connect(w) \/ TakeAssignment(w)
                                \/ \E outcome \in Outcomes : ReportResult(w, outcome)
  BY <1>2, <1>9 DEF Connect, TakeAssignment, ReportResult
<1>10. CASE (\E j \in Jobs : CancelJob(j)) \/ UNCHANGED vars
  BY <1>2, <1>10 DEF CancelJob, vars
<1> QED
  BY <1>3, <1>4, <1>5, <1>6, <1>7, <1>8, <1>9, <1>10, StepCases

\* The lock and the epoch counter of a job, under the same assumption.
LEMMA UncutEpochs ==
  ASSUME TypeInv, Uncut, [Next]_vars, NEW j \in Jobs
  PROVE  /\ \/ epochsDone'[j] = epochsDone[j]
            \/ \E s \in Streams : /\ AdvanceEpoch(s) /\ ReaderJob(s) = j
                                  /\ epochsDone'[j] = epochsDone[j] + 1
         /\ \/ epochLock'[j] = epochLock[j]
            \/ \E s \in Streams : \/ AcquireEpochLock(s)
                                  \/ /\ Recount(s) \/ AdvanceEpoch(s) \/ RolloverCommit(s)
                                     /\ ReaderJob(s) = j /\ reader'[s] # reader[s]
                                  \/ epochLock[j] = s /\ reader[s].pc = "idle"
<1> DEFINE Counted == \/ epochsDone'[j] = epochsDone[j]
                      \/ \E s \in Streams : /\ AdvanceEpoch(s) /\ ReaderJob(s) = j
                                            /\ epochsDone'[j] = epochsDone[j] + 1
           Locked  == \/ epochLock'[j] = epochLock[j]
                      \/ \E s \in Streams : \/ AcquireEpochLock(s)
                                            \/ /\ Recount(s) \/ AdvanceEpoch(s) \/ RolloverCommit(s)
                                               /\ ReaderJob(s) = j /\ reader'[s] # reader[s]
                                            \/ epochLock[j] = s /\ reader[s].pc = "idle"
<1> USE DEF TypeInv, TypeOK, redisVars
<1>1. CASE UNCHANGED <<epochsDone, epochLock>>
  BY <1>1
<1>2. ASSUME NEW s \in Streams, Handler(s) PROVE Counted /\ Locked
  <2>1. CASE CommitResult(s) \/ ClearAssignment(s) \/ CountCompleted(s) \/ FinalizeCommit(s)
             \/ MarkJobFailed(s)
    BY <2>1 DEF CommitResult, ClearAssignment, CountCompleted, FinalizeCommit, MarkJobFailed
  <2>2. CASE AcquireEpochLock(s)
    BY <2>2 DEF AcquireEpochLock
  <2>3. CASE Recount(s)
    <3>1. reader'[s].pc # "recount"
      BY <2>3, ReaderMoves DEF Recount, ReaderPcs
    <3>2. epochLock'[j] # epochLock[j] => ReaderJob(s) = j
      BY <2>3 DEF Recount
    <3> QED
      BY <2>3, <3>1, <3>2 DEF Recount
  <2>4. CASE AdvanceEpoch(s)
    <3>1. reader'[s].pc # "advance"
      BY <2>4, ReaderMoves DEF AdvanceEpoch, ReaderPcs
    <3>2. epochLock'[j] # epochLock[j] => ReaderJob(s) = j
      BY <2>4 DEF AdvanceEpoch
    <3>3. epochsDone' = [epochsDone EXCEPT ![ReaderJob(s)] = @ + 1]
      BY <2>4 DEF AdvanceEpoch
    <3> QED
      BY <2>4, <3>1, <3>2, <3>3 DEF AdvanceEpoch
  <2>5. CASE RolloverCommit(s)
    <3>1. reader'[s].pc # "rollover"
      BY <2>5, ReaderMoves DEF RolloverCommit
    <3>2. epochLock'[j] # epochLock[j] => ReaderJob(s) = j
      BY <2>5 DEF RolloverCommit
    <3> QED
      BY <2>5, <3>1, <3>2 DEF RolloverCommit
  <2> QED
    BY <1>2, <2>1, <2>2, <2>3, <2>4, <2>5 DEF Handler
<1>3. ASSUME NEW s \in Streams, CloseStream(s) PROVE Counted /\ Locked
  BY <1>3 DEF CloseStream, ReleaseBy, Uncut
<1>4. CASE (\E s \in Streams : HandlerError(s)) \/ Crash
  BY <1>4 DEF HandlerError, Crash, Uncut
<1>5. CASE Engine \/ EnginePayloadError
  BY <1>1, <1>5 DEF Engine, EnginePick, EngineFetch, EngineAssign, EngineDispatch, EnginePayloadError
<1>6. CASE \E s \in Streams : Register(s) \/ LoadResult(s) \/ Close(s) \/ LinkDown(s)
  BY <1>1, <1>3, <1>6 DEF Register, LoadResult, Close, DisconnectLoad, DisconnectUnassign,
     DisconnectUnregister, LinkDown
<1>7. CASE \E w \in Workers : Connect(w) \/ TakeAssignment(w)
                                \/ \E outcome \in Outcomes : ReportResult(w, outcome)
  BY <1>1, <1>7 DEF Connect, TakeAssignment, ReportResult
<1>8. CASE (\E k \in Jobs : CancelJob(k)) \/ UNCHANGED vars
  BY <1>1, <1>8 DEF CancelJob, vars
<1> QED
  BY <1>2, <1>3, <1>4, <1>5, <1>6, <1>7, <1>8, StepCases

LEMMA PassInit == Init => PassInv
<1> SUFFICES ASSUME Init PROVE PassInv
  OBVIOUS
<1>1. \A s \in Streams : reader[s].pc = "idle"
  BY DEF Init, IdleReader
<1>2. \A b \in Batches : passes[b] = 0 /\ epochsDone[JobOf[b]] = 0
  BY Parameters DEF Init
<1>3. \A j \in Jobs : jobStatus[j] # "completed"
  BY DEF Init
<1>4. \A b \in Batches : batchStatus[b] # "COMPLETED"
  BY DEF Init
<1> QED
  BY <1>1, <1>2, <1>3, <1>4 DEF PassInv, HoldsLock, CountedTrained, RowsAhead, HandlersAhead, CompletedCounted

\* Two handlers of one job are never in the locked section together.
LEMMA OneInLockedSection ==
  ASSUME HoldsLock, NEW s \in Streams, NEW t \in Streams, ReaderJob(s) = ReaderJob(t),
         reader[s].pc \in {"recount", "advance", "rollover"},
         reader[t].pc \in {"recount", "advance", "rollover"}
  PROVE  s = t
BY DEF HoldsLock

LEMMA LockStep ==
  ASSUME TypeInv, HoldsLock, Uncut, [Next]_vars
  PROVE  HoldsLock'
<1> DEFINE Locked == {"recount", "advance", "rollover"}
<1> SUFFICES ASSUME NEW t \in Streams, reader'[t].pc \in Locked
             PROVE  epochLock'[JobOf[reader'[t].batch]] = t
  BY DEF HoldsLock, ReaderJob
<1>1. CASE reader'[t] = reader[t]
  <2> DEFINE j == ReaderJob(t)
  <2>1. epochLock[j] = t /\ j \in Jobs
    BY <1>1, Parameters DEF HoldsLock, ReaderJob, TypeInv, LocalsOK
  <2>2. ASSUME NEW s \in Streams, AcquireEpochLock(s) PROVE epochLock'[j] = epochLock[j]
    <3>1. epochLock[ReaderJob(s)] = NoStream /\ t # NoStream
      BY <2>2, StreamFields, StreamPairs, Parameters DEF AcquireEpochLock
    <3> QED
      BY <2>1, <2>2, <3>1 DEF AcquireEpochLock
  <2>3. ASSUME NEW s \in Streams, Recount(s) \/ AdvanceEpoch(s) \/ RolloverCommit(s),
               ReaderJob(s) = j, reader'[s] # reader[s]
        PROVE  FALSE
    <3>1. reader[s].pc \in Locked
      BY <2>3 DEF Recount, AdvanceEpoch, RolloverCommit
    <3> QED
      BY <1>1, <2>3, <3>1, OneInLockedSection
  <2>4. ASSUME NEW s \in Streams, epochLock[j] = s, reader[s].pc = "idle" PROVE FALSE
    BY <1>1, <2>1, <2>4
  <2> HIDE DEF j
  <2>5. epochLock'[j] = epochLock[j]
    BY <2>1, <2>2, <2>3, <2>4, UncutEpochs
  <2> QED
    BY <1>1, <2>1, <2>5 DEF j, ReaderJob
<1>2. CASE reader'[t] # reader[t]
  <2>1. reader'[t].batch = reader[t].batch
    BY <1>2, LateHandlers DEF LatePcs
  <2>2. CASE AcquireEpochLock(t)
    BY <2>1, <2>2, HandlerMoves, Parameters DEF AcquireEpochLock, Handler, ReaderJob, TypeInv, TypeOK, LocalsOK
  <2>3. CASE Recount(t) /\ reader'[t].pc = "advance"
    BY <2>1, <2>3 DEF Recount, ReaderJob, HoldsLock, TypeInv, TypeOK, IdleReader
  <2>4. CASE AdvanceEpoch(t) /\ reader'[t].pc = "rollover"
    <3>1. UNCHANGED epochLock
      BY <2>4, AdvanceMoves
    <3>2. epochLock[ReaderJob(t)] = t
      BY <2>4 DEF AdvanceEpoch, HoldsLock
    <3> QED
      BY <2>1, <3>1, <3>2 DEF ReaderJob
  <2> QED
    BY <1>2, <2>2, <2>3, <2>4, LateHandlers DEF LatePcs
<1> QED
  BY <1>1, <1>2

\* The epoch counter does not move while a handler waits in the locked section.
LEMMA CounterStill ==
  ASSUME TypeInv, HoldsLock, Uncut, [Next]_vars, NEW t \in Streams,
         reader'[t] = reader[t], reader[t].pc \in {"advance", "rollover"}
  PROVE  epochsDone'[ReaderJob(t)] = epochsDone[ReaderJob(t)]
<1>1. ReaderJob(t) \in Jobs
  BY Parameters DEF ReaderJob, TypeInv, LocalsOK
<1>2. ASSUME NEW s \in Streams, AdvanceEpoch(s), ReaderJob(s) = ReaderJob(t) PROVE FALSE
  <2>1. s = t
    BY <1>2, OneInLockedSection DEF AdvanceEpoch
  <2> QED
    BY <1>2, <2>1, AdvanceMoves
<1> QED
  BY <1>1, <1>2, UncutEpochs

\* Counter, target and number of trainings of a job are numbers, and the
\* counter and the trainings never go down.
LEMMA CounterTypes ==
  ASSUME TypeInv, Uncut, [Next]_vars, NEW j \in Jobs
  PROVE  /\ TargetEpochs[j] \in Nat /\ epochsDone[j] \in Nat /\ epochsDone'[j] \in Nat
         /\ epochsDone'[j] >= epochsDone[j]
<1>1. TargetEpochs[j] \in Nat /\ epochsDone[j] \in Nat
  BY Parameters DEF TypeInv, TypeOK
<1>2. epochsDone'[j] \in {epochsDone[j], epochsDone[j] + 1}
  BY UncutEpochs
<1> QED
  BY <1>1, <1>2

LEMMA PassStep == Uncut /\ TypeInv /\ PassInv /\ [Next]_vars => PassInv'
<1> SUFFICES ASSUME Uncut, TypeInv, PassInv, [Next]_vars PROVE PassInv'
  OBVIOUS
<1> USE DEF PassInv
<1>1. HoldsLock'
  BY LockStep
<1>2. CountedTrained'
  <2> SUFFICES ASSUME NEW b \in Batches
               PROVE  passes'[b] >= epochsDone'[JobOf[b]] \/ passes'[b] >= TargetEpochs[JobOf[b]]
    BY DEF CountedTrained
  <2> DEFINE j == JobOf[b]
  <2>1. j \in Jobs
    BY Parameters
  <2>2. passes[b] \in Nat /\ passes'[b] \in Nat /\ passes'[b] >= passes[b]
    BY PassesGrow
  <2>3. TargetEpochs[j] \in Nat /\ epochsDone[j] \in Nat /\ epochsDone'[j] \in Nat
    BY <2>1, CounterTypes
  <2>4. passes[b] >= epochsDone[j] \/ passes[b] >= TargetEpochs[j]
    BY DEF CountedTrained
  <2>5. ASSUME NEW s \in Streams, AdvanceEpoch(s), ReaderJob(s) = j
        PROVE  passes[b] > epochsDone[j] \/ passes[b] >= TargetEpochs[j]
    BY <2>5 DEF HandlersAhead, AdvanceEpoch, BatchesOf
  <2> HIDE DEF j
  <2>6. CASE epochsDone'[j] = epochsDone[j]
    BY <2>2, <2>3, <2>4, <2>6 DEF j
  <2>7. CASE epochsDone'[j] = epochsDone[j] + 1
             /\ (passes[b] > epochsDone[j] \/ passes[b] >= TargetEpochs[j])
    BY <2>2, <2>3, <2>7 DEF j
  <2> QED
    BY <2>1, <2>5, <2>6, <2>7, UncutEpochs
<1>3. RowsAhead'
  <2> SUFFICES ASSUME NEW b \in Batches, batchStatus'[b] = "COMPLETED"
               PROVE  \/ passes'[b] > epochsDone'[JobOf[b]]
                      \/ epochsDone'[JobOf[b]] >= TargetEpochs[JobOf[b]]
                      \/ RollingOver(JobOf[b])'
    BY DEF RowsAhead
  <2> DEFINE j == JobOf[b]
  <2>1. j \in Jobs
    BY Parameters
  <2>2. passes[b] \in Nat /\ passes'[b] \in Nat /\ passes'[b] >= passes[b]
    BY PassesGrow
  <2>3. /\ TargetEpochs[j] \in Nat /\ epochsDone[j] \in Nat /\ epochsDone'[j] \in Nat
        /\ epochsDone'[j] >= epochsDone[j]
    BY <2>1, CounterTypes
  <2>4. ASSUME NEW s \in Streams, CommitResult(s), passes'[b] = passes[b] + 1
        PROVE  passes'[b] > epochsDone'[j] \/ epochsDone'[j] >= TargetEpochs[j]
    <3>1. epochsDone' = epochsDone
      BY <2>4 DEF CommitResult, redisVars
    <3>2. passes[b] >= epochsDone[j] \/ passes[b] >= TargetEpochs[j]
      BY DEF CountedTrained
    <3> QED
      BY <2>2, <2>3, <2>4, <3>1, <3>2
  <2>5. CASE passes'[b] = passes[b] /\ batchStatus[b] = "COMPLETED"
    <3>1. \/ passes[b] > epochsDone[j]
          \/ epochsDone[j] >= TargetEpochs[j]
          \/ RollingOver(j)
      BY <2>5 DEF RowsAhead
    <3>2. ASSUME NEW s \in Streams, AdvanceEpoch(s), ReaderJob(s) = j
          PROVE  epochsDone'[j] >= TargetEpochs[j] \/ RollingOver(j)'
      <4>1. CASE reader'[s].pc = "rollover"
        BY <3>2, <4>1, AdvanceMoves DEF RollingOver, ReaderJob
      <4>2. CASE ~ MorePasses(j, epochsDone'[j])
        BY <2>3, <4>2 DEF MorePasses
      <4> QED
        BY <3>2, <4>1, <4>2, AdvanceMoves
    <3>3. CASE RollingOver(j)
      <4>1. PICK s \in Streams : reader[s].pc = "rollover" /\ ReaderJob(s) = j
        BY <3>3 DEF RollingOver
      <4>2. CASE reader'[s] = reader[s]
        BY <4>1, <4>2 DEF RollingOver, ReaderJob
      <4>3. CASE RolloverCommit(s)
        BY <4>1, <4>3 DEF RolloverCommit
      <4>4. CASE reader'[s] # reader[s]
        <5>1. Handler(s)
          BY <4>1, <4>4, UncutHandlers
        <5>2. RolloverCommit(s)
          BY <4>1, <5>1 DEF Handler, CommitResult, ClearAssignment, CountCompleted, AcquireEpochLock,
             Recount, AdvanceEpoch, FinalizeCommit, MarkJobFailed
        <5> QED
          BY <4>3, <5>2
      <4> QED
        BY <4>2, <4>4
    <3>4. CASE epochsDone[j] >= TargetEpochs[j]
      BY <2>3, <3>4
    <3>5. CASE passes[b] > epochsDone[j] /\ epochsDone'[j] = epochsDone[j]
      BY <2>2, <2>3, <3>5
    <3> HIDE DEF j
    <3> QED
      BY <2>1, <3>1, <3>2, <3>3, <3>4, <3>5, UncutEpochs DEF j
  <2> HIDE DEF j
  <2> QED
    BY <2>4, <2>5, BatchWrites DEF j
<1>4. HandlersAhead'
  <2> SUFFICES ASSUME NEW t \in Streams
               PROVE  LET j == JobOf[reader'[t].batch] IN
                      /\ reader'[t].pc = "advance" => \A b \in BatchesOf(j) :
                           passes'[b] > epochsDone'[j] \/ passes'[b] >= TargetEpochs[j]
                      /\ reader'[t].pc = "rollover" => epochsDone'[j] < TargetEpochs[j]
                      /\ reader'[t].pc = "finalize" => epochsDone'[j] >= TargetEpochs[j]
    BY DEF HandlersAhead, ReaderJob, BatchesOf
  <2> SUFFICES ASSUME reader'[t].pc \in LatePcs
               PROVE  LET j == JobOf[reader'[t].batch] IN
                      /\ reader'[t].pc = "advance" => \A b \in BatchesOf(j) :
                           passes'[b] > epochsDone'[j] \/ passes'[b] >= TargetEpochs[j]
                      /\ reader'[t].pc = "rollover" => epochsDone'[j] < TargetEpochs[j]
                      /\ reader'[t].pc = "finalize" => epochsDone'[j] >= TargetEpochs[j]
    BY DEF LatePcs
  <2> DEFINE j == ReaderJob(t)
  <2>1. reader'[t].batch = reader[t].batch
    BY LateHandlers
  <2>2. j \in Jobs
    <3>1. reader'[t].batch \in Batches
      BY StepType DEF TypeInv, LocalsOK, LatePcs
    <3> QED
      BY <2>1, <3>1, Parameters DEF ReaderJob
  <2>3. /\ TargetEpochs[j] \in Nat /\ epochsDone[j] \in Nat /\ epochsDone'[j] \in Nat
        /\ epochsDone'[j] >= epochsDone[j]
    BY <2>2, CounterTypes
  <2>4. \A b \in BatchesOf(j) : passes[b] \in Nat /\ passes'[b] \in Nat /\ passes'[b] >= passes[b]
    BY PassesGrow DEF BatchesOf
  <2>5. CASE reader'[t].pc = "advance"
    <3> SUFFICES ASSUME NEW b \in BatchesOf(j)
                 PROVE  passes'[b] > epochsDone'[j] \/ passes'[b] >= TargetEpochs[j]
      BY <2>1, <2>5 DEF ReaderJob
    <3>1. b \in Batches /\ JobOf[b] = j
      BY DEF BatchesOf
    <3>2. passes[b] > epochsDone[j] \/ passes[b] >= TargetEpochs[j]
      <4>1. CASE reader'[t] = reader[t]
        BY <2>5, <4>1 DEF HandlersAhead
      <4>2. CASE Recount(t)
        <5>1. batchStatus[b] = "COMPLETED"
          BY <2>5, <3>1, <4>2 DEF Recount, AllCompleted, TypeInv, TypeOK, IdleReader
        <5>2. ~ RollingOver(j)
          BY <4>2, OneInLockedSection DEF RollingOver, Recount
        <5>3. passes[b] > epochsDone[j] \/ epochsDone[j] >= TargetEpochs[j]
          BY <3>1, <5>1, <5>2 DEF RowsAhead
        <5>4. passes[b] >= epochsDone[j] \/ passes[b] >= TargetEpochs[j]
          BY <3>1 DEF CountedTrained
        <5> QED
          BY <2>3, <2>4, <5>3, <5>4
      <4> QED
        BY <2>5, <4>1, <4>2, LateHandlers DEF LatePcs
    <3>3. epochsDone'[j] = epochsDone[j]
      <4>1. CASE reader'[t] = reader[t]
        BY <2>5, <4>1, CounterStill
      <4>2. CASE Recount(t)
        BY <4>2 DEF Recount, redisVars
      <4> QED
        BY <2>5, <4>1, <4>2, LateHandlers DEF LatePcs
    <3> QED
      BY <2>3, <2>4, <3>2, <3>3
  <2>6. CASE reader'[t].pc = "rollover"
    <3>1. CASE reader'[t] = reader[t]
      BY <2>1, <2>6, <3>1, CounterStill DEF HandlersAhead, ReaderJob
    <3>2. CASE AdvanceEpoch(t)
      <4>1. MorePasses(j, epochsDone'[j])
        BY <2>6, <3>2, AdvanceMoves
      <4> QED
        BY <2>1, <2>6, <4>1 DEF MorePasses, ReaderJob
    <3> QED
      BY <2>6, <3>1, <3>2, LateHandlers DEF LatePcs
  <2>7. CASE reader'[t].pc = "finalize"
    <3>1. CASE reader'[t] = reader[t]
      <4>1. epochsDone[j] >= TargetEpochs[j]
        BY <2>7, <3>1 DEF HandlersAhead
      <4>2. epochsDone'[j] >= TargetEpochs[j]
        BY <2>3, <4>1
      <4> QED
        BY <2>1, <2>7, <4>2 DEF ReaderJob
    <3>2. CASE AdvanceEpoch(t)
      <4>1. ~ MorePasses(j, epochsDone'[j])
        BY <2>7, <3>2, AdvanceMoves
      <4>2. epochsDone'[j] >= TargetEpochs[j]
        BY <2>3, <4>1 DEF MorePasses
      <4> QED
        BY <2>1, <2>7, <4>2 DEF ReaderJob
    <3> QED
      BY <2>7, <3>1, <3>2, LateHandlers DEF LatePcs
  <2> QED
    BY <2>5, <2>6, <2>7 DEF LatePcs
<1>5. CompletedCounted'
  <2> SUFFICES ASSUME NEW j \in Jobs, jobStatus'[j] = "completed"
               PROVE  epochsDone'[j] >= TargetEpochs[j]
    BY DEF CompletedCounted
  <2>1. epochsDone[j] >= TargetEpochs[j]
    BY JobWrites DEF CompletedCounted, HandlersAhead, FinalizeCommit
  <2> QED
    BY <2>1, CounterTypes
<1> QED
  BY <1>1, <1>2, <1>3, <1>4, <1>5

\* Unless a handler is cut short, a completed job was trained as many times
\* over every shard as it asked for: neither a broken connection, nor a result
\* reported late, nor two results that end a pass together skip a pass.
THEOREM CompletedJobsPassed ==
  ASSUME Uncut
  PROVE  Spec => []CompletedMeansAllPasses
<1>1. Init => TypeInv /\ PassInv
  BY InitType, PassInit
<1>2. TypeInv /\ PassInv /\ [Next]_vars => (TypeInv /\ PassInv)'
  BY StepType, PassStep
<1>3. TypeInv /\ PassInv => CompletedMeansAllPasses
  <2> SUFFICES ASSUME TypeInv, PassInv, NEW j \in Jobs, jobStatus[j] = "completed", NEW b \in BatchesOf(j)
               PROVE  passes[b] >= TargetEpochs[j]
    BY DEF CompletedMeansAllPasses
  <2>1. b \in Batches /\ JobOf[b] = j
    BY DEF BatchesOf
  <2>2. passes[b] \in Nat /\ epochsDone[j] \in Nat /\ TargetEpochs[j] \in Nat
    BY <2>1, Parameters DEF TypeInv, TypeOK
  <2>3. epochsDone[j] >= TargetEpochs[j]
    BY DEF PassInv, CompletedCounted
  <2>4. passes[b] >= epochsDone[j] \/ passes[b] >= TargetEpochs[j]
    BY <2>1 DEF PassInv, CountedTrained
  <2> QED
    BY <2>2, <2>3, <2>4
<1> QED
  BY <1>1, <1>2, <1>3, PTL DEF Spec

-----------------------------------------------------------------------------
\* A row turns COMPLETED when a handler commits the success of that batch, and
\* that handler then goes on to clear its worker.
LEMMA TurnedCompleted ==
  ASSUME TypeInv, [Next]_vars, NEW b \in Batches,
         batchStatus[b] # "COMPLETED", batchStatus'[b] = "COMPLETED"
  PROVE  \E s \in Streams : /\ reader'[s].batch = b
                            /\ reader'[s].newStatus = "COMPLETED"
                            /\ reader'[s].pc = "clear"
<1>1. PICK s \in Streams : CommitResult(s)
  BY BatchWrites
<1>2. reader[s].batch \in Batches /\ reader \in [Streams -> ReaderLocals]
  BY <1>1 DEF CommitResult, TypeInv, TypeOK, LocalsOK
<1>3. reader[s].batch = b /\ reader[s].newStatus = "COMPLETED"
  BY <1>1, <1>2 DEF CommitResult, FlushBatch, TypeInv, TypeOK
<1>4. reader' = [reader EXCEPT ![s].pc = "clear"]
  BY <1>1 DEF CommitResult
<1>5. reader'[s] = [reader[s] EXCEPT !.pc = "clear"]
  BY <1>2, <1>4
<1> QED
  BY <1>2, <1>3, <1>5 DEF ReaderLocals

\* The handler of a completed batch, once it has committed the row.
Noticing(s, j) ==
  /\ reader[s].batch \in BatchesOf(j)
  /\ reader[s].newStatus = "COMPLETED"
  /\ reader[s].pc \notin {"idle", "write"}

\* While the pass is full and the job is active, such a handler goes on.
LEMMA NoticingGoesOn ==
  ASSUME TypeInv, Uncut, [Next]_vars, NEW s \in Streams, NEW j \in Jobs, Noticing(s, j),
         \A b \in BatchesOf(j) : batchStatus[b] = "COMPLETED" /\ batchStatus'[b] = "COMPLETED",
         jobStatus'[j] \in Active
  PROVE  Noticing(s, j)'
<1>1. /\ reader \in [Streams -> ReaderLocals] /\ reader[s] \in ReaderLocals
      /\ reader[s].batch \in Batches /\ JobOf[reader[s].batch] = j /\ ReaderJob(s) = j
      /\ AllCompleted(j)
  BY DEF Noticing, BatchesOf, ReaderJob, AllCompleted, TypeInv, TypeOK
<1>2. CASE reader'[s] = reader[s]
  BY <1>2 DEF Noticing
<1>3. ASSUME NEW pc \in ReaderPcs \ {"idle", "write"}, reader' = [reader EXCEPT ![s].pc = pc]
      PROVE  Noticing(s, j)'
  <2>1. reader'[s] = [reader[s] EXCEPT !.pc = pc]
    BY <1>1, <1>3
  <2> QED
    BY <1>1, <2>1 DEF Noticing, ReaderLocals
<1>4. CASE reader'[s] # reader[s]
  <2>1. Handler(s)
    BY <1>4, UncutHandlers DEF Noticing
  <2>2. CASE CommitResult(s)
    BY <2>2 DEF CommitResult, Noticing
  <2>3. CASE ClearAssignment(s)
    <3>1. NextPc(reader[s].newStatus) = "count"
      BY DEF NextPc, Noticing
    <3> QED
      BY <1>3, <2>3, <3>1 DEF ClearAssignment, ReaderPcs
  <2>4. CASE CountCompleted(s)
    BY <1>1, <1>3, <2>4 DEF CountCompleted, ReaderPcs
  <2>5. CASE AcquireEpochLock(s)
    BY <1>3, <2>5 DEF AcquireEpochLock, ReaderPcs
  <2>6. CASE Recount(s)
    BY <1>1, <1>3, <2>6 DEF Recount, ReaderPcs
  <2>7. CASE AdvanceEpoch(s)
    BY <1>3, <2>7 DEF AdvanceEpoch, ReaderPcs
  <2>8. CASE RolloverCommit(s)
    BY <1>1, <2>8 DEF RolloverCommit, Noticing
  <2>9. CASE FinalizeCommit(s)
    BY <1>1, <2>9 DEF FinalizeCommit, NotCompletable, Active, TypeInv, TypeOK
  <2>10. CASE MarkJobFailed(s)
    BY <1>1, <2>10 DEF MarkJobFailed, Active, TypeInv, TypeOK
  <2> QED
    BY <2>1, <2>2, <2>3, <2>4, <2>5, <2>6, <2>7, <2>8, <2>9, <2>10 DEF Handler
<1> QED
  BY <1>2, <1>4

LEMMA NoticedStep ==
  ASSUME TypeInv, Uncut, FullPassIsNoticed, [Next]_vars
  PROVE  FullPassIsNoticed'
<1> SUFFICES ASSUME NEW j \in Jobs, jobStatus'[j] \in Active, BatchesOf(j) # {},
                    \A b \in BatchesOf(j) : batchStatus'[b] = "COMPLETED"
             PROVE  \E s \in Streams : Noticing(s, j)'
  BY DEF FullPassIsNoticed, Noticing
<1>1. CASE \A b \in BatchesOf(j) : batchStatus[b] = "COMPLETED"
  <2>1. jobStatus[j] \in Active
    BY JobWrites DEF Active
  <2>2. PICK s \in Streams : Noticing(s, j)
    BY <1>1, <2>1 DEF FullPassIsNoticed, Noticing
  <2>3. Noticing(s, j)'
    BY <1>1, <2>2, NoticingGoesOn
  <2> QED
    BY <2>3
<1>2. ASSUME NEW b \in BatchesOf(j), batchStatus[b] # "COMPLETED"
      PROVE  \E s \in Streams : Noticing(s, j)'
  <2>1. b \in Batches
    BY DEF BatchesOf
  <2>2. PICK s \in Streams : /\ reader'[s].batch = b
                             /\ reader'[s].newStatus = "COMPLETED"
                             /\ reader'[s].pc = "clear"
    BY <1>2, <2>1, TurnedCompleted
  <2>3. Noticing(s, j)'
    BY <2>2 DEF Noticing
  <2> QED
    BY <2>3
<1> QED
  BY <1>1, <1>2

\* Unless a handler is cut short, a pass whose last shard is done is noticed:
\* the count outside the lock, the wait for it and the count inside never all
\* leave the job's rows COMPLETED with no handler on its way to end the pass.
THEOREM FullPassesNoticed ==
  ASSUME Uncut
  PROVE  Spec => []FullPassIsNoticed
<1>1. Init => FullPassIsNoticed
  BY DEF Init, FullPassIsNoticed, BatchesOf
<1>2. TypeInv /\ FullPassIsNoticed /\ [Next]_vars => FullPassIsNoticed'
  BY NoticedStep
<1> QED
  BY <1>1, <1>2, TypeInvariant, PTL DEF Spec
=============================================================================
