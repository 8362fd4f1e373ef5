-------------------------- MODULE TaskOrchestrator --------------------------
(***************************************************************************)
(* The task orchestrator's streaming plane: the bidirectional StreamTasks  *)
(* call of every worker, the in-memory StreamManager, the AssignmentEngine *)
(* poll loop, the handling of task results up to the epoch rollover and    *)
(* the finalisation of a job, and the clean-up after a disconnect.         *)
(*                                                                         *)
(* The service is one asyncio process: code between two awaits is atomic,  *)
(* and every await (a SELECT, a COMMIT, a remote call) is a point where    *)
(* the other coroutines run.  Each handler is therefore split at its       *)
(* awaits, its local variables being kept in a record with a "pc" field.   *)
(* PostgreSQL runs READ COMMITTED: a transaction's writes become visible   *)
(* at its commit, and a row the engine has selected FOR UPDATE cannot be   *)
(* written by others until the engine commits.                             *)
(***************************************************************************)
EXTENDS Naturals, Sequences, FiniteSets

CONSTANTS
  Workers,        \* python-worker processes
  Jobs,           \* rows of table jobs
  Batches,        \* rows of table data_batches
  JobOf,          \* JobOf[b]: column data_batches.job_id
  TargetEpochs,   \* TargetEpochs[j]: job config "final_version", at least 1
  FailureLimit,   \* the literal 3 of _handle_task_result
  StrictFailure,  \* environment variable STRICT_FAILURE
  MaxConn,        \* bound: MaxConn[w] is how many StreamTasks calls w may open
  Faults,         \* which faults may happen, a subset of FaultKinds
  NoWorker, NoBatch, NoStream

FaultKinds == {"disconnect",   \* a worker's connection breaks
               "cut",          \* ... and the reader task is cancelled inside a handler
               "dberror",      \* a statement of a result handler raises
               "payload",      \* a remote call of _build_assignment_payload raises
               "crash"}        \* the orchestrator process restarts

ASSUME Parameters ==
  /\ JobOf \in [Batches -> Jobs]
  /\ TargetEpochs \in [Jobs -> Nat \ {0}]
  /\ FailureLimit \in Nat \ {0}
  /\ StrictFailure \in BOOLEAN
  /\ MaxConn \in [Workers -> Nat \ {0}]
  /\ Faults \subseteq FaultKinds
  /\ NoWorker \notin Workers
  /\ NoBatch \notin Batches
  /\ NoStream \notin Workers \X Nat

\* The n-th StreamTasks call of worker w is the pair <<w, n>>.
Streams  == UNION {{w} \X (1..MaxConn[w]) : w \in Workers}
Owner(s) == s[1]
BatchesOf(j) == {b \in Batches : JobOf[b] = j}

JobStatus   == {"pending", "running", "completed", "failed", "cancelled"}
Active      == {"pending", "running"}
BatchStatus == {"AVAILABLE", "ASSIGNED", "COMPLETED", "FAILED"}
\* What a TaskResult reports.  "critical" is an error whose message contains
\* CRITICAL; it is told apart from the others only under STRICT_FAILURE.
Outcomes    == {"success", "error"} \cup (IF StrictFailure THEN {"critical"} ELSE {})

VARIABLES
  \* PostgreSQL and Redis: these survive a restart of the orchestrator
  jobStatus,       \* jobs.status
  batchStatus,     \* data_batches.status
  assignedWorker,  \* data_batches.assigned_worker_id
  epochsDone,      \* Redis counter epoch:{job}
  batchFailures,   \* Redis counter batch_failures:{job}:{batch}
  \* StreamManager
  queues,          \* _queues: which stream's outbound queue, 0 if none
  status,          \* _status: "IDLE", "BUSY" or absent ("NONE")
  assignedBatch,   \* _assigned_batch
  \* coroutines of the orchestrator
  engine,          \* locals of AssignmentEngine.run
  server,          \* per stream: where StreamTasks / _handle_disconnect is
  reader,          \* per stream: locals of _handle_task_result
  epochLock,       \* _epoch_locks: the stream whose handler holds it
  \* workers and the network
  conn,            \* the worker's current call: 0 before the first
  linkUp,          \* is the connection of the call alive?
  outbound,        \* assignments pushed and not yet read by the worker
  inbound,         \* task results written and not yet read by the server
  training,        \* the batch the worker is training
  \* history
  passes           \* how often a batch turned COMPLETED

dbVars     == <<jobStatus, batchStatus, assignedWorker, passes>>
redisVars  == <<epochsDone, batchFailures>>
smVars     == <<queues, status, assignedBatch>>
clientVars == <<conn, linkUp, outbound, inbound, training>>
vars == <<dbVars, redisVars, smVars, engine, server, reader, epochLock, clientVars>>

IdleEngine == [pc |-> "idle", worker |-> NoWorker, batch |-> NoBatch]
IdleReader == [pc |-> "idle", batch |-> NoBatch, newStatus |-> "AVAILABLE",
               seenStatus |-> "AVAILABLE", seenWorker |-> NoWorker]
Serving(pc) == [pc |-> pc, batch |-> NoBatch]

EnginePcs == {"idle", "picked", "fetched", "assigned"}
ReaderPcs == {"idle", "write", "clear", "count", "acquire", "recount", "advance",
              "rollover", "finalize", "fail"}
ServerPcs == {"unused", "open", "named", "release", "unassign", "offline", "closed"}

EngineLocals == [pc : EnginePcs, worker : Workers \cup {NoWorker}, batch : Batches \cup {NoBatch}]
ReaderLocals == [pc : ReaderPcs, batch : Batches \cup {NoBatch}, newStatus : BatchStatus \ {"ASSIGNED"},
                 seenStatus : BatchStatus, seenWorker : Workers \cup {NoWorker}]
ServerLocals == [pc : ServerPcs, batch : Batches \cup {NoBatch}]

TypeOK ==
  /\ jobStatus \in [Jobs -> JobStatus]
  /\ batchStatus \in [Batches -> BatchStatus]
  /\ assignedWorker \in [Batches -> Workers \cup {NoWorker}]
  /\ epochsDone \in [Jobs -> Nat]
  /\ batchFailures \in [Batches -> Nat]
  /\ queues \in [Workers -> Nat]
  /\ status \in [Workers -> {"NONE", "IDLE", "BUSY"}]
  /\ assignedBatch \in [Workers -> Batches \cup {NoBatch}]
  /\ engine \in EngineLocals
  /\ server \in [Streams -> ServerLocals]
  /\ reader \in [Streams -> ReaderLocals]
  /\ epochLock \in [Jobs -> Streams \cup {NoStream}]
  /\ conn \in [Workers -> Nat] /\ \A w \in Workers : conn[w] <= MaxConn[w]
  /\ linkUp \in [Streams -> BOOLEAN]
  /\ outbound \in [Streams -> Seq(Batches)]
  /\ inbound \in [Streams -> Seq(Batches \X Outcomes)]
  /\ training \in [Workers -> Batches \cup {NoBatch}]
  /\ passes \in [Batches -> Nat]

(* The dataset sharder has committed the batches of every job, no worker   *)
(* has connected, and the orchestrator has just started.                   *)
Init ==
  /\ jobStatus = [j \in Jobs |-> "pending"]
  /\ batchStatus = [b \in Batches |-> "AVAILABLE"]
  /\ assignedWorker = [b \in Batches |-> NoWorker]
  /\ epochsDone = [j \in Jobs |-> 0]
  /\ batchFailures = [b \in Batches |-> 0]
  /\ queues = [w \in Workers |-> 0]
  /\ status = [w \in Workers |-> "NONE"]
  /\ assignedBatch = [w \in Workers |-> NoBatch]
  /\ engine = IdleEngine
  /\ server = [s \in Streams |-> Serving("unused")]
  /\ reader = [s \in Streams |-> IdleReader]
  /\ epochLock = [j \in Jobs |-> NoStream]
  /\ conn = [w \in Workers |-> 0]
  /\ linkUp = [s \in Streams |-> FALSE]
  /\ outbound = [s \in Streams |-> <<>>]
  /\ inbound = [s \in Streams |-> <<>>]
  /\ training = [w \in Workers |-> NoBatch]
  /\ passes = [b \in Batches |-> 0]

-----------------------------------------------------------------------------
(* StreamManager: plain synchronous methods.                               *)

register(w, n) ==
  /\ queues' = [queues EXCEPT ![w] = n]
  /\ status' = [status EXCEPT ![w] = IF @ = "NONE" THEN "IDLE" ELSE @]
  /\ UNCHANGED assignedBatch

unregister(w) ==
  /\ queues' = [queues EXCEPT ![w] = 0]
  /\ status' = [status EXCEPT ![w] = "NONE"]
  /\ assignedBatch' = [assignedBatch EXCEPT ![w] = NoBatch]

get_idle_worker == {w \in Workers : status[w] = "IDLE" /\ queues[w] # 0}

\* Mutant: the worker is not marked busy.
assign_batch_StaysIdle(w, b) ==
  /\ assignedBatch' = [assignedBatch EXCEPT ![w] = b]
  /\ UNCHANGED <<queues, status>>

assign_batch(w, b) ==
  /\ status' = [status EXCEPT ![w] = "BUSY"]
  /\ assignedBatch' = [assignedBatch EXCEPT ![w] = b]
  /\ UNCHANGED queues

\* Mutant: the batch is forgotten but the worker stays busy.
clear_assignment_StaysBusy(w) ==
  /\ assignedBatch' = [assignedBatch EXCEPT ![w] = NoBatch]
  /\ UNCHANGED <<queues, status>>

\* Mutant: the worker is given the status of a batch.
clear_assignment_WrongStatus(w) ==
  /\ status' = [status EXCEPT ![w] = "AVAILABLE"]
  /\ assignedBatch' = [assignedBatch EXCEPT ![w] = NoBatch]
  /\ UNCHANGED queues

clear_assignment(w) ==
  /\ status' = [status EXCEPT ![w] = "IDLE"]
  /\ assignedBatch' = [assignedBatch EXCEPT ![w] = NoBatch]
  /\ UNCHANGED queues

\* A push goes to the queue registered at that moment: it is dropped when there
\* is none, and nobody reads it when that queue's connection is gone.
push_assignment(w, b) ==
  outbound' = IF queues[w] # 0 /\ linkUp[<<w, queues[w]>>]
                THEN [outbound EXCEPT ![<<w, queues[w]>>] = Append(@, b)]
                ELSE outbound

-----------------------------------------------------------------------------
(* AssignmentEngine.run: one coroutine, one batch at a time.               *)

EnginePick(w) ==
  /\ engine.pc = "idle"
  /\ w \in get_idle_worker
  /\ engine' = [engine EXCEPT !.pc = "picked", !.worker = w]
  /\ UNCHANGED <<dbVars, redisVars, smVars, server, reader, epochLock, clientVars>>

\* Mutant: every batch that is not done is offered.
Dispatchable_NotDone == {b \in Batches : batchStatus[b] # "COMPLETED" /\ jobStatus[JobOf[b]] \in Active}

\* _fetch_available_batch: SELECT ... FOR UPDATE SKIP LOCKED LIMIT 1, in no
\* particular order.
Dispatchable == {b \in Batches : batchStatus[b] = "AVAILABLE" /\ jobStatus[JobOf[b]] \in Active}

EngineFetch ==
  /\ engine.pc = "picked"
  /\ \/ \E b \in Dispatchable :
           engine' = [engine EXCEPT !.pc = "fetched", !.batch = b]
     \/ Dispatchable = {} /\ engine' = IdleEngine
  /\ UNCHANGED <<dbVars, redisVars, smVars, server, reader, epochLock, clientVars>>

\* _assign_batch commits, and the row lock goes with the commit.
EngineAssign ==
  LET b == engine.batch IN
  /\ engine.pc = "fetched"
  /\ batchStatus' = [batchStatus EXCEPT ![b] = "ASSIGNED"]
  /\ assignedWorker' = [assignedWorker EXCEPT ![b] = engine.worker]
  /\ jobStatus' = [jobStatus EXCEPT ![JobOf[b]] = IF @ = "pending" THEN "running" ELSE @]
  /\ engine' = [engine EXCEPT !.pc = "assigned"]
  /\ UNCHANGED <<passes, redisVars, smVars, server, reader, epochLock, clientVars>>

\* The payload is built: the StreamManager is told and the worker is sent the
\* assignment, whatever became of its stream in the meantime.
EngineDispatch ==
  /\ engine.pc = "assigned"
  /\ assign_batch(engine.worker, engine.batch)
  /\ push_assignment(engine.worker, engine.batch)
  /\ engine' = IdleEngine
  /\ UNCHANGED <<dbVars, redisVars, server, reader, epochLock, conn, linkUp, inbound, training>>

\* _build_assignment_payload raises: run() logs it and polls again.
EnginePayloadError ==
  /\ "payload" \in Faults
  /\ engine.pc = "assigned"
  /\ engine' = IdleEngine
  /\ UNCHANGED <<dbVars, redisVars, smVars, server, reader, epochLock, clientVars>>

Engine == (\E w \in Workers : EnginePick(w)) \/ EngineFetch \/ EngineAssign \/ EngineDispatch

\* A transaction of another coroutine that writes a row of B must wait while
\* the engine holds its row lock.
RowsFree(B) == ~ (engine.pc = "fetched" /\ engine.batch \in B)

-----------------------------------------------------------------------------
(* StreamTasks, reader side.  Requests of one stream are handled one at a  *)
(* time; every request registers the stream again before anything else.    *)

\* A heartbeat or a task request.
Register(s) ==
  /\ server[s].pc \in {"open", "named"} /\ linkUp[s]
  /\ reader[s].pc = "idle"
  /\ register(Owner(s), s[2])
  /\ server' = [server EXCEPT ![s].pc = "named"]
  /\ UNCHANGED <<dbVars, redisVars, engine, reader, epochLock, clientVars>>

\* _handle_task_result up to its first commit: the batch row is loaded, and a
\* failure is counted in Redis.  Nothing compares the row with the reporter.
LoadResult(s) ==
  /\ server[s].pc = "named"
  /\ reader[s].pc = "idle"
  /\ inbound[s] # <<>>
  /\ LET b       == Head(inbound[s])[1]
         outcome == Head(inbound[s])[2]
         counted == outcome = "error"
         count   == batchFailures[b] + 1
     IN /\ inbound' = [inbound EXCEPT ![s] = Tail(@)]
        /\ batchFailures' = IF counted THEN [batchFailures EXCEPT ![b] = count] ELSE batchFailures
        /\ reader' = [reader EXCEPT ![s] =
             [pc |-> "write", batch |-> b,
              newStatus |-> CASE outcome = "success"               -> "COMPLETED"
                              [] outcome = "critical"              -> "FAILED"
                              [] counted /\ count >= FailureLimit  -> "FAILED"
                              [] counted /\ count < FailureLimit   -> "AVAILABLE",
              seenStatus |-> batchStatus[b], seenWorker |-> assignedWorker[b]]]
  /\ register(Owner(s), s[2])
  /\ UNCHANGED <<dbVars, epochsDone, engine, server, epochLock, conn, linkUp, outbound, training>>

\* Mutant: a batch to be retried is not released.
FlushBatch_KeepsRetry(b, seenStatus, seenWorker, newStatus) ==
  /\ RowsFree({b})
  /\ batchStatus' = [batchStatus EXCEPT ![b] = IF newStatus \notin {seenStatus, "AVAILABLE"} THEN newStatus ELSE @]
  /\ assignedWorker' = [assignedWorker EXCEPT ![b] = IF seenWorker # NoWorker THEN NoWorker ELSE @]

\* session.commit(): the ORM writes only the columns that differ from the row
\* as it was loaded, whatever the row holds now.
FlushBatch(b, seenStatus, seenWorker, newStatus) ==
  /\ RowsFree({b})
  /\ batchStatus' = [batchStatus EXCEPT ![b] = IF newStatus # seenStatus THEN newStatus ELSE @]
  /\ assignedWorker' = [assignedWorker EXCEPT ![b] = IF seenWorker # NoWorker THEN NoWorker ELSE @]

CommitResult(s) ==
  LET r == reader[s] IN
  /\ r.pc = "write"
  /\ FlushBatch(r.batch, r.seenStatus, r.seenWorker, r.newStatus)
  /\ passes' = IF batchStatus[r.batch] # "COMPLETED" /\ batchStatus'[r.batch] = "COMPLETED"
                 THEN [passes EXCEPT ![r.batch] = @ + 1]
                 ELSE passes
  /\ reader' = [reader EXCEPT ![s].pc = "clear"]
  /\ UNCHANGED <<jobStatus, redisVars, smVars, engine, server, epochLock, clientVars>>

\* Mutant: a completed batch does not make the handler count.
NextPc_NoCount(newStatus) == IF newStatus = "FAILED" THEN "fail" ELSE "idle"

NextPc(newStatus) ==
  CASE newStatus = "COMPLETED" -> "count"
    [] newStatus = "FAILED"    -> "fail"
    [] newStatus = "AVAILABLE" -> "idle"

ClearAssignment(s) ==
  LET r == reader[s] IN
  /\ r.pc = "clear"
  /\ clear_assignment(Owner(s))
  /\ reader' = [reader EXCEPT ![s] = IF NextPc(r.newStatus) = "idle"
                                       THEN IdleReader
                                       ELSE [@ EXCEPT !.pc = NextPc(r.newStatus)]]
  /\ UNCHANGED <<dbVars, redisVars, engine, server, epochLock, clientVars>>

-----------------------------------------------------------------------------
(* _maybe_complete_job and _mark_job_failed, in the reader's coroutine.    *)

\* Mutant: one completed batch is taken for all.
AllCompleted_Some(j) == \E b \in BatchesOf(j) : batchStatus[b] = "COMPLETED"

AllCompleted(j) == \A b \in BatchesOf(j) : batchStatus[b] = "COMPLETED"
ReaderJob(s)    == JobOf[reader[s].batch]

\* The count outside the lock.
CountCompleted(s) ==
  /\ reader[s].pc = "count"
  /\ reader' = [reader EXCEPT ![s] =
       IF AllCompleted(ReaderJob(s)) THEN [@ EXCEPT !.pc = "acquire"] ELSE IdleReader]
  /\ UNCHANGED <<dbVars, redisVars, smVars, engine, server, epochLock, clientVars>>

AcquireEpochLock(s) ==
  /\ reader[s].pc = "acquire"
  /\ epochLock[ReaderJob(s)] = NoStream
  /\ epochLock' = [epochLock EXCEPT ![ReaderJob(s)] = s]
  /\ reader' = [reader EXCEPT ![s].pc = "recount"]
  /\ UNCHANGED <<dbVars, redisVars, smVars, engine, server, clientVars>>

\* The count inside the lock; the target is read next.
Recount(s) ==
  LET j == ReaderJob(s) IN
  /\ reader[s].pc = "recount"
  /\ IF AllCompleted(j)
       THEN /\ reader' = [reader EXCEPT ![s].pc = "advance"]
            /\ UNCHANGED epochLock
       ELSE /\ reader' = [reader EXCEPT ![s] = IdleReader]
            /\ epochLock' = [epochLock EXCEPT ![j] = NoStream]
  /\ UNCHANGED <<dbVars, redisVars, smVars, engine, server, clientVars>>

\* Mutant: one pass too many.
MorePasses_OneExtra(j, epochs) == epochs <= TargetEpochs[j]

MorePasses(j, epochs) == epochs < TargetEpochs[j]

\* _advance_epoch counts the pass before anything about it is written to the
\* database; on the last pass the lock is released here.
AdvanceEpoch(s) ==
  LET j == ReaderJob(s) IN
  /\ reader[s].pc = "advance"
  /\ epochsDone' = [epochsDone EXCEPT ![j] = @ + 1]
  /\ IF MorePasses(j, epochsDone'[j])
       THEN /\ reader' = [reader EXCEPT ![s].pc = "rollover"]
            /\ UNCHANGED epochLock
       ELSE /\ reader' = [reader EXCEPT ![s].pc = "finalize"]
            /\ epochLock' = [epochLock EXCEPT ![j] = NoStream]
  /\ UNCHANGED <<dbVars, batchFailures, smVars, engine, server, clientVars>>

\* Every batch of the job becomes available again and the next pass begins.
RolloverCommit(s) ==
  LET j == ReaderJob(s) IN
  /\ reader[s].pc = "rollover"
  /\ RowsFree(BatchesOf(j))
  /\ batchStatus' = [b \in Batches |-> IF JobOf[b] = j THEN "AVAILABLE" ELSE batchStatus[b]]
  /\ assignedWorker' = [b \in Batches |-> IF JobOf[b] = j THEN NoWorker ELSE assignedWorker[b]]
  /\ jobStatus' = [jobStatus EXCEPT ![j] =
       IF @ \notin {"cancelled", "completed", "failed"} THEN "running" ELSE @]
  /\ epochLock' = [epochLock EXCEPT ![j] = NoStream]
  /\ reader' = [reader EXCEPT ![s] = IdleReader]
  /\ UNCHANGED <<passes, redisVars, smVars, engine, server, clientVars>>

\* Mutant: the UPDATE spares failed jobs only.
NotCompletable_Failed == {"failed"}

\* The UPDATE that completes a job spares these.
NotCompletable == {"cancelled", "failed"}

FinalizeCommit(s) ==
  LET j == ReaderJob(s) IN
  /\ reader[s].pc = "finalize"
  /\ jobStatus' = [jobStatus EXCEPT ![j] =
       IF @ \notin NotCompletable THEN "completed" ELSE @]
  /\ reader' = [reader EXCEPT ![s] = IdleReader]
  /\ UNCHANGED <<batchStatus, assignedWorker, passes, redisVars, smVars, engine, server,
                 epochLock, clientVars>>

\* _mark_job_failed takes the job's unfinished batches out of circulation.
MarkJobFailed(s) ==
  LET j      == ReaderJob(s)
      halted == {b \in BatchesOf(j) : batchStatus[b] \in {"AVAILABLE", "ASSIGNED"}}
  IN
  /\ reader[s].pc = "fail"
  /\ RowsFree(BatchesOf(j))
  /\ jobStatus' = [jobStatus EXCEPT ![j] =
       IF @ \notin {"cancelled", "completed"} THEN "failed" ELSE @]
  /\ batchStatus' = [b \in Batches |-> IF b \in halted THEN "FAILED" ELSE batchStatus[b]]
  /\ assignedWorker' = [b \in Batches |-> IF b \in halted THEN NoWorker ELSE assignedWorker[b]]
  /\ reader' = [reader EXCEPT ![s] = IdleReader]
  /\ UNCHANGED <<passes, redisVars, smVars, engine, server, epochLock, clientVars>>

\* The steps of a result handler after the message was taken.
Handler(s) ==
  \/ CommitResult(s) \/ ClearAssignment(s) \/ CountCompleted(s) \/ AcquireEpochLock(s)
  \/ Recount(s) \/ AdvanceEpoch(s) \/ RolloverCommit(s) \/ FinalizeCommit(s) \/ MarkJobFailed(s)

\* A handler that ends early leaves its "async with lock" block.
ReleaseBy(s) == [j \in Jobs |-> IF epochLock[j] = s THEN NoStream ELSE epochLock[j]]

\* A database statement raises: the reader logs it and goes on to the next
\* request; the session rolls back what was not committed.  When it is the
\* reading of the target, _get_target_epochs answers 1 instead, the pass is
\* counted, and it is the next statement of the broken transaction that raises.
HandlerError(s) ==
  /\ "dberror" \in Faults
  /\ reader[s].pc \notin {"idle", "clear", "acquire"}
  /\ epochsDone' = IF reader[s].pc = "advance"
                     THEN [epochsDone EXCEPT ![ReaderJob(s)] = @ + 1]
                     ELSE epochsDone
  /\ reader' = [reader EXCEPT ![s] = IdleReader]
  /\ epochLock' = ReleaseBy(s)
  /\ UNCHANGED <<dbVars, batchFailures, smVars, engine, server, clientVars>>

-----------------------------------------------------------------------------
(* The end of StreamTasks and _handle_disconnect.                          *)

\* The call is cancelled: the reader task with it, wherever it is, and the
\* first statement of _handle_disconnect reads the worker's assignment.  A call
\* that never named its worker has nothing to clean up.
CloseStream(s) ==
  LET w == Owner(s) IN
  /\ server[s].pc \in {"open", "named"} /\ ~ linkUp[s]
  /\ reader[s].pc = "idle" \/ "cut" \in Faults
  /\ reader' = [reader EXCEPT ![s] = IdleReader]
  /\ epochLock' = ReleaseBy(s)
  /\ inbound' = [inbound EXCEPT ![s] = <<>>]
  /\ server' = [server EXCEPT ![s] =
       CASE server[s].pc = "open"         -> Serving("closed")
         [] assignedBatch[w] # NoBatch    -> [pc |-> "release", batch |-> assignedBatch[w]]
         [] OTHER                         -> Serving("offline")]
  /\ UNCHANGED <<dbVars, redisVars, smVars, engine, conn, linkUp, outbound, training>>

DisconnectLoad(s) ==
  /\ server[s].pc = "release"
  /\ server' = [server EXCEPT ![s] = IF batchStatus[@.batch] = "ASSIGNED"
                                       THEN [@ EXCEPT !.pc = "unassign"]
                                       ELSE Serving("offline")]
  /\ UNCHANGED <<dbVars, redisVars, smVars, engine, reader, epochLock, clientVars>>

\* The row was loaded as ASSIGNED, so both columns are written.
DisconnectUnassign(s) ==
  LET b == server[s].batch IN
  /\ server[s].pc = "unassign"
  /\ RowsFree({b})
  /\ batchStatus' = [batchStatus EXCEPT ![b] = "AVAILABLE"]
  /\ assignedWorker' = [assignedWorker EXCEPT ![b] = NoWorker]
  /\ server' = [server EXCEPT ![s] = Serving("offline")]
  /\ UNCHANGED <<jobStatus, passes, redisVars, smVars, engine, reader, epochLock, clientVars>>

\* Reached once the worker's row is marked offline: the worker is dropped from
\* the StreamManager, whichever stream it is registered with by now.
DisconnectUnregister(s) ==
  /\ server[s].pc = "offline"
  /\ unregister(Owner(s))
  /\ server' = [server EXCEPT ![s] = Serving("closed")]
  /\ UNCHANGED <<dbVars, redisVars, engine, reader, epochLock, clientVars>>

Close(s) ==
  CloseStream(s) \/ DisconnectLoad(s) \/ DisconnectUnassign(s) \/ DisconnectUnregister(s)

-----------------------------------------------------------------------------
(* Workers: one call at a time, one assignment at a time.  The assignment  *)
(* handler is awaited inside the read loop, so a worker whose call has     *)
(* broken notices only after it has finished training.                     *)

Stream(w) == <<w, conn[w]>>
Online(w) == conn[w] # 0 /\ linkUp[Stream(w)]

Connect(w) ==
  LET s == <<w, conn[w] + 1>> IN
  /\ conn[w] < MaxConn[w] /\ ~ Online(w)
  /\ training[w] = NoBatch
  /\ conn' = [conn EXCEPT ![w] = @ + 1]
  /\ linkUp' = [linkUp EXCEPT ![s] = TRUE]
  /\ server' = [server EXCEPT ![s] = Serving("open")]
  /\ UNCHANGED <<dbVars, redisVars, smVars, engine, reader, epochLock, outbound, inbound, training>>

TakeAssignment(w) ==
  LET s == Stream(w) IN
  /\ Online(w) /\ training[w] = NoBatch
  /\ outbound[s] # <<>>
  /\ training' = [training EXCEPT ![w] = Head(outbound[s])]
  /\ outbound' = [outbound EXCEPT ![s] = Tail(@)]
  /\ UNCHANGED <<dbVars, redisVars, smVars, engine, server, reader, epochLock, conn, linkUp, inbound>>

\* The handler returns and its result is written to the call, if that is alive.
ReportResult(w, outcome) ==
  LET s == Stream(w) IN
  /\ training[w] # NoBatch
  /\ inbound' = IF linkUp[s] THEN [inbound EXCEPT ![s] = Append(@, <<training[w], outcome>>)]
                             ELSE inbound
  /\ training' = [training EXCEPT ![w] = NoBatch]
  /\ UNCHANGED <<dbVars, redisVars, smVars, engine, server, reader, epochLock, conn, linkUp, outbound>>

\* The connection breaks.  What the worker had not read is lost; what the
\* server had received it may still read until it sees the call cancelled.
\* Bound: a worker's last call does not break.
LinkDown(s) ==
  /\ "disconnect" \in Faults /\ s[2] < MaxConn[Owner(s)]
  /\ linkUp[s]
  /\ linkUp' = [linkUp EXCEPT ![s] = FALSE]
  /\ outbound' = [outbound EXCEPT ![s] = <<>>]
  /\ UNCHANGED <<dbVars, redisVars, smVars, engine, server, reader, epochLock, conn, inbound, training>>

-----------------------------------------------------------------------------
(* cancel_job of the API gateway writes jobs.status whatever it was.       *)
CancelJob(j) ==
  /\ jobStatus[j] # "cancelled"
  /\ jobStatus' = [jobStatus EXCEPT ![j] = "cancelled"]
  /\ UNCHANGED <<batchStatus, assignedWorker, passes, redisVars, smVars, engine, server, reader,
                 epochLock, clientVars>>

\* The orchestrator restarts: every coroutine, the StreamManager and the locks
\* are gone, and nothing is reconciled with the database on start-up.
\* Bound: not on a worker's last call.
Crash ==
  /\ "crash" \in Faults /\ \A w \in Workers : conn[w] < MaxConn[w]
  /\ queues' = [w \in Workers |-> 0]
  /\ status' = [w \in Workers |-> "NONE"]
  /\ assignedBatch' = [w \in Workers |-> NoBatch]
  /\ engine' = IdleEngine
  /\ server' = [s \in Streams |-> IF server[s].pc = "unused" THEN server[s] ELSE Serving("closed")]
  /\ reader' = [s \in Streams |-> IdleReader]
  /\ epochLock' = [j \in Jobs |-> NoStream]
  /\ linkUp' = [s \in Streams |-> FALSE]
  /\ outbound' = [s \in Streams |-> <<>>]
  /\ inbound' = [s \in Streams |-> <<>>]
  /\ UNCHANGED <<dbVars, redisVars, conn, training>>

-----------------------------------------------------------------------------
Next ==
  \/ Engine \/ EnginePayloadError
  \/ \E s \in Streams : \/ Register(s) \/ LoadResult(s) \/ Handler(s) \/ HandlerError(s)
                        \/ Close(s) \/ LinkDown(s)
  \/ \E w \in Workers : \/ Connect(w) \/ TakeAssignment(w)
                        \/ \E outcome \in Outcomes : ReportResult(w, outcome)
  \/ \E j \in Jobs : CancelJob(j)
  \/ Crash

Spec == Init /\ [][Next]_vars

(***************************************************************************)
(* Fairness.  asyncio runs every coroutine that can run, database and      *)
(* remote calls return or raise, a worker goes on connecting, reading and  *)
(* reporting, and its heartbeats keep coming.  A waiter of the epoch lock  *)
(* is served in turn (asyncio.Lock is first come, first served).  Nothing  *)
(* is assumed of users, or of faults.                                      *)
(***************************************************************************)
Fairness ==
  /\ WF_vars(Engine)
  /\ \A s \in Streams :
       /\ WF_vars(Register(s)) /\ WF_vars(LoadResult(s)) /\ WF_vars(Close(s))
       /\ SF_vars(Handler(s))
  /\ \A w \in Workers :
       /\ WF_vars(Connect(w)) /\ WF_vars(TakeAssignment(w))
       /\ WF_vars(\E outcome \in Outcomes : ReportResult(w, outcome))

FairSpec == Spec /\ Fairness

-----------------------------------------------------------------------------
(* Properties.                                                             *)

\* A job is completed only after each of its shards was trained as many times
\* as the job asks for (_maybe_complete_job: the epoch counter is compared with
\* the target, and a pass ends when every batch row is COMPLETED).
CompletedMeansAllPasses ==
  \A j \in Jobs : jobStatus[j] = "completed" =>
    \A b \in BatchesOf(j) : passes[b] >= TargetEpochs[j]

\* Whatever fails, a job is completed only if each of its shards was trained.
CompletedMeansTrained ==
  \A j \in Jobs : jobStatus[j] = "completed" => \A b \in BatchesOf(j) : passes[b] > 0

\* The epoch counter never passes the target: two results that finish a pass
\* together must not both count it (the per-job lock of _maybe_complete_job).
EpochsWithinTarget == \A j \in Jobs : epochsDone[j] <= TargetEpochs[j]

\* Worker w has work on b: it trains it, is about to read it, or has reported
\* on it and the result has not yet reached the database.
InHands(w, b) ==
  \/ training[w] = b
  \/ \E s \in Streams : /\ Owner(s) = w
                        /\ \/ \E i \in DOMAIN outbound[s] : outbound[s][i] = b
                           \/ \E i \in DOMAIN inbound[s] : inbound[s][i][1] = b
                           \/ reader[s].pc = "write" /\ reader[s].batch = b
EngineHolds(b) == engine.pc \in {"fetched", "assigned"} /\ engine.batch = b

\* A shard is in the hands of one worker at a time: no two workers push
\* gradients of the same shard of the same pass.
OneTrainer ==
  \A b \in Batches : \A v, w \in Workers :
    InHands(v, b) => /\ InHands(w, b) => v = w
                     /\ ~ EngineHolds(b)

\* A shard marked ASSIGNED is with somebody who will report on it or release
\* it: the engine, a worker, or the clean-up of a broken connection.  No
\* background job looks for stale assignments, so one nobody has is lost.
NoLostAssignment ==
  \A b \in Batches : batchStatus[b] = "ASSIGNED" =>
    \/ EngineHolds(b)
    \/ \E w \in Workers : InHands(w, b)
    \/ \E s \in Streams : \/ server[s].batch = b
                          \/ server[s].pc = "named" /\ ~ linkUp[s] /\ assignedBatch[Owner(s)] = b

\* A worker the StreamManager offers as idle has no work in hand, so the engine
\* never queues a second shard behind the one being trained.
IdleMeansFree ==
  \A w \in get_idle_worker : \A b \in Batches : ~ InHands(w, b)

\* When the last shard of a pass is done, some result handler of the job is
\* still on its way to roll the epoch over or finish the job: nothing else does.
FullPassIsNoticed ==
  \A j \in Jobs :
    /\ jobStatus[j] \in Active /\ BatchesOf(j) # {}
    /\ \A b \in BatchesOf(j) : batchStatus[b] = "COMPLETED"
    =>
      \E s \in Streams : /\ reader[s].batch \in BatchesOf(j)
                         /\ reader[s].newStatus = "COMPLETED"
                         /\ reader[s].pc \notin {"idle", "write"}

\* Handlers of results that arrive late never revive a job: once completed,
\* failed or cancelled, its status changes only to cancelled, by its owner.
TerminalSticks ==
  [][\A j \in Jobs : jobStatus[j] \notin Active => jobStatus'[j] \in {jobStatus[j], "cancelled"}]_vars

-----------------------------------------------------------------------------
(* Refinement: the batches COMPLETED in the database are the shards done   *)
(* in the current pass.  The epoch counter runs ahead of the passes: by    *)
(* one while a handler has counted a pass and not yet committed the next,  *)
(* and it keeps counting after the last.                                   *)

RollingOver(j) == \E s \in Streams : reader[s].pc = "rollover" /\ ReaderJob(s) = j

PassesClosed(j) ==
  IF epochsDone[j] >= TargetEpochs[j] THEN TargetEpochs[j] - 1
  ELSE IF RollingOver(j) THEN epochsDone[j] - 1 ELSE epochsDone[j]

Abstract == INSTANCE TrainingJob WITH
  done <- {b \in Batches : batchStatus[b] = "COMPLETED"},
  pass <- [j \in Jobs |-> PassesClosed(j)]

\* The orchestrator implements TrainingJob: what a user sees of a job, and the
\* work behind it, is what the epoch loop promises.
ImplementsTrainingJob == Abstract!Spec

-----------------------------------------------------------------------------
\* Every job ends: it is completed, failed or cancelled.
EveryJobEnds == \A j \in Jobs : <>(jobStatus[j] \notin Active)
=============================================================================
