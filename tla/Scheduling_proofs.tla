------------------------- MODULE Scheduling_proofs -------------------------
(* Theorems about Scheduling, for every value of its constants.            *)
EXTENDS Scheduling, DataLemmas, FiniteSetTheorems

(***************************************************************************)
(* The pools.                                                              *)
(***************************************************************************)
PoolsTyped ==
  /\ registry \in [Workers -> Groups \cup {NoGroup}]
  /\ pools \in [Groups -> SUBSET Workers]
  /\ existing \subseteq Groups
  /\ poolOf \in [Workers -> Groups \cup {NoGroup}]

PoolInv == PoolsTyped /\ PoolsAgree /\ PoolCapacity

\* What a step may do to the pools.
PoolStep ==
  \/ \E w \in Workers, g \in Groups : RegisterWorker(w, g)
  \/ \E w \in Workers : UnregisterWorker(w)
  \/ \E g \in Groups : CreatePool(g) \/ \E force \in BOOLEAN : DeletePool(g, force)
  \/ PoolRestart
  \/ UNCHANGED poolVars

LEMMA StepsOfPools ==
  ASSUME [SchedulingNext]_schedVars
  PROVE  PoolStep
<1>1. CASE SchedulingNext
  BY <1>1 DEF SchedulingNext, InitiateTraining, FinishInitiate, InitiateFails, RequestTask,
       ShardingFails, RequestAssign, FinishAssign, AssignFails, Rollback, FinishRollback, Register,
       Gateway, MaintainQueue, FinishMaintenance, MaintainPools, Restart, Reply, PoolStep
<1>2. CASE UNCHANGED schedVars
  BY <1>2 DEF schedVars, PoolStep
<1> QED
  BY <1>1, <1>2

LEMMA PoolsKeepTypes ==
  ASSUME PoolsTyped, PoolStep
  PROVE  PoolsTyped'
  BY DEF PoolStep, PoolsTyped, RegisterWorker, Enter, UnregisterWorker, CreatePool, DeletePool, PoolRestart, poolVars

\* A pool that grows had room, and grows by one.
LEMMA PoolsKeepCapacity ==
  ASSUME PoolsTyped, PoolCapacity, PoolStep
  PROVE  PoolCapacity'
<1> SUFFICES ASSUME NEW g \in Groups
             PROVE  Cardinality(pools'[g]) <= MaxWorkers[g]
  BY DEF PoolCapacity
<1> DEFINE n == Cardinality(pools[g])
<1>1. IsFiniteSet(pools[g]) /\ n \in Nat /\ MaxWorkers[g] \in Nat \ {0}
  BY PoolParameters, FS_Subset, FS_CardinalityType DEF PoolsTyped
<1>2. n <= MaxWorkers[g]
  BY DEF PoolCapacity
<1>3. ASSUME pools'[g] \subseteq pools[g]
      PROVE  Cardinality(pools'[g]) <= MaxWorkers[g]
  <2>1. IsFiniteSet(pools'[g]) /\ Cardinality(pools'[g]) <= n /\ Cardinality(pools'[g]) \in Nat
    BY <1>1, <1>3, FS_Subset, FS_CardinalityType
  <2> QED
    BY <1>1, <1>2, <2>1
<1>4. ASSUME NEW w \in Workers, NEW h \in Groups, RegisterWorker(w, h)
      PROVE  Cardinality(pools'[g]) <= MaxWorkers[g]
  <2>1. CASE g # h
    BY <1>3, <1>4, <2>1 DEF RegisterWorker, PoolsTyped
  <2>2. CASE g = h
    <3>1. pools'[g] = pools[g] \cup {w}
      BY <1>4, <2>2 DEF RegisterWorker, PoolsTyped
    <3>2. n < MaxWorkers[g]
      BY <1>1, <1>4, <2>2 DEF RegisterWorker, AtCapacity
    <3>3. Cardinality(pools[g] \cup {w}) = IF w \in pools[g] THEN n ELSE n + 1
      BY <1>1, FS_AddElement
    <3> QED
      BY <1>1, <3>1, <3>2, <3>3
  <2> QED
    BY <2>1, <2>2
<1>5. CASE \E w \in Workers, h \in Groups : RegisterWorker(w, h)
  BY <1>4, <1>5
<1>6. CASE ~ \E w \in Workers, h \in Groups : RegisterWorker(w, h)
  <2>1. pools'[g] \subseteq pools[g]
    BY <1>6 DEF PoolStep, PoolsTyped, UnregisterWorker, CreatePool, DeletePool, PoolRestart, poolVars
  <2> QED
    BY <1>3, <2>1
<1> QED
  BY <1>5, <1>6

LEMMA PoolsKeepAgreeing ==
  ASSUME PoolsTyped, PoolsAgree, PoolStep
  PROVE  PoolsAgree'
<1> SUFFICES ASSUME NEW w \in Workers, poolOf'[w] # NoGroup
             PROVE  poolOf'[w] \in existing' /\ w \in pools'[poolOf'[w]]
  BY DEF PoolsAgree
<1>1. ASSUME NEW v \in Workers, NEW g \in Groups, RegisterWorker(v, g)
      PROVE  poolOf'[w] \in existing' /\ w \in pools'[poolOf'[w]]
  BY <1>1 DEF RegisterWorker, PoolsTyped, PoolsAgree
<1>2. ASSUME NEW v \in Workers, UnregisterWorker(v)
      PROVE  poolOf'[w] \in existing' /\ w \in pools'[poolOf'[w]]
  BY <1>2 DEF UnregisterWorker, PoolsTyped, PoolsAgree
<1>3. ASSUME NEW g \in Groups, NEW force \in BOOLEAN, DeletePool(g, force)
      PROVE  poolOf'[w] \in existing' /\ w \in pools'[poolOf'[w]]
  BY <1>3 DEF DeletePool, PoolsTyped, PoolsAgree
<1>4. CASE PoolRestart
  BY <1>4 DEF PoolRestart
<1>5. CASE UNCHANGED poolVars \/ \E g \in Groups : CreatePool(g)
  BY <1>5 DEF poolVars, CreatePool, PoolsAgree
<1> QED
  BY <1>1, <1>2, <1>3, <1>4, <1>5 DEF PoolStep

LEMMA PoolInvHolds == SchedulingSpec => []PoolInv
<1>1. SchedulingInit => PoolInv
  <2>1. Cardinality({}) = 0
    BY FS_EmptySet
  <2> QED
    BY <2>1, PoolParameters DEF SchedulingInit, PoolInit, PoolInv, PoolsTyped, PoolsAgree, PoolCapacity
<1>2. PoolInv /\ [SchedulingNext]_schedVars => PoolInv'
  BY StepsOfPools, PoolsKeepTypes, PoolsKeepCapacity, PoolsKeepAgreeing DEF PoolInv
<1> QED
  BY <1>1, <1>2, PTL DEF SchedulingSpec

\* The pool that worker_to_pool names for a worker exists and has it, through
\* any sequence of registrations, moves and deletions (worker_discovery.py:320).
THEOREM PoolsAlwaysAgree == SchedulingSpec => []PoolsAgree
  BY PoolInvHolds, PTL DEF PoolInv

\* No pool ever has more members than max_workers.
THEOREM PoolsWithinCapacity == SchedulingSpec => []PoolCapacity
  BY PoolInvHolds, PTL DEF PoolInv

-----------------------------------------------------------------------------
(***************************************************************************)
(* Types of the records, calls, cancellations and requests.                *)
(***************************************************************************)
Calls == [op : Methods, job : QueueJobs, worker : Workers \cup {NoWorker}, seen : JobInfo]
Cancels == {NoCancel, [pc |-> "done"]} \cup [pc : {"read", "set"}, seen : JobInfo]

RecordsTyped ==
  /\ job \in [QueueJobs -> JobInfo \cup {NoJob}]
  /\ byStatus \in [QueueStatus -> SUBSET QueueJobs]
  /\ byWorker \in [Workers -> SUBSET QueueJobs]
  /\ cancel \in [QueueJobs -> Cancels]

CallTyped == call \in {NoCall} \cup Calls /\ (call # NoCall => job[call.job] \in JobInfo)

RequestsTyped ==
  /\ request \in [Workers -> [pc : RequestPcs, job : QueueJobs \cup {NoJob}]]
  /\ \A w \in Workers : request[w].pc # "idle" => request[w].job \in QueueJobs /\ job[request[w].job] \in JobInfo

JobsTyped == RecordsTyped /\ CallTyped /\ RequestsTyped

LEMMA NoCallIsNone ==
  /\ NoCall.op = "none" /\ NoCall \notin Calls
  /\ \A c \in Calls : c.op # "none" /\ c # NoCall
<1>1. NoCall.op = "none"
  BY DEF NoCall
<1>2. \A c \in Calls : c.op # "none"
  BY DEF Calls, Methods
<1> QED
  BY <1>1, <1>2

\* update_job_status writes the record it was given with the new status, or nothing.
LEMMA UpdateWrites ==
  ASSUME RecordsTyped, NEW j \in QueueJobs, NEW rec \in JobInfo, NEW new \in QueueStatus,
         NEW w \in Workers \cup {NoWorker}, UpdateStatus(j, rec, new, w)
  PROVE  /\ job' \in [QueueJobs -> JobInfo \cup {NoJob}]
         /\ byStatus' \in [QueueStatus -> SUBSET QueueJobs]
         /\ \A i \in QueueJobs : i # j => job'[i] = job[i]
         /\ IF ValidTransition(rec.status, new)
            THEN /\ job'[j] \in JobInfo /\ job'[j].status = new
                 /\ new = "running" => job'[j].worker = w
            ELSE job' = job
<1> DEFINE next == [rec EXCEPT !.status = new, !.worker = IF new = "running" THEN w ELSE @]
<1>1. next \in JobInfo /\ next.status = new /\ (new = "running" => next.worker = w)
  BY DEF JobInfo
<1>2. CASE ValidTransition(rec.status, new)
  <2>1. job' = [job EXCEPT ![j] = next] /\ byStatus' = [byStatus EXCEPT ![rec.status] = @ \ {j}, ![new] = @ \cup {j}]
    BY <1>2 DEF UpdateStatus
  <2> HIDE DEF next
  <2> QED
    BY <1>1, <1>2, <2>1 DEF RecordsTyped
<1>3. CASE ~ValidTransition(rec.status, new)
  BY <1>3 DEF UpdateStatus, RecordsTyped
<1> QED
  BY <1>2, <1>3

LEMMA CallParts ==
  ASSUME CallTyped, call # NoCall
  PROVE  /\ call \in Calls /\ call.op \in Methods /\ call.job \in QueueJobs
         /\ call.worker \in Workers \cup {NoWorker} /\ call.seen \in JobInfo
         /\ job[call.job] \in JobInfo
  BY DEF CallTyped, Calls

LEMMA CallStarted == NoCall.op = "none" /\ (call.op # "none" => call # NoCall)
  BY DEF NoCall

Statuses == {"pending", "waiting", "running", "failed", "cancelled", "timeout"}
LEMMA StatusesAreStatuses == Statuses \subseteq QueueStatus
  BY DEF Statuses, QueueStatus

\* What release_job_from_worker makes of the record it has read.
Released(r) == [r EXCEPT !.retries = @ + 1, !.worker = NoWorker]

LEMMA ReleasedIsRecord ==
  ASSUME NEW r \in JobInfo
  PROVE  Released(r) \in JobInfo /\ Released(r).status = r.status
<1> DEFINE n == r.retries + 1
<1>1. n \in Nat /\ NoWorker \in Workers \cup {NoWorker}
  BY DEF JobInfo
<1>2. Released(r) = [[r EXCEPT !.retries = n] EXCEPT !.worker = NoWorker]
  BY DEF Released
<1> HIDE DEF n
<1>3. [r EXCEPT !.retries = n] \in JobInfo /\ [r EXCEPT !.retries = n].status = r.status
  BY <1>1 DEF JobInfo
<1> QED
  BY <1>1, <1>2, <1>3 DEF JobInfo

\* The writes of a call: an update of the record it read, and of the owner index.
CallWrites ==
  /\ call # NoCall
  /\ \E new \in Statuses, w \in Workers \cup {NoWorker} : UpdateStatus(call.job, call.seen, new, w)
  /\ byWorker' \in [Workers -> SUBSET QueueJobs]
  /\ cancel' = cancel

ReleaseWrites ==
  /\ call # NoCall
  /\ \/ UpdateStatus(call.job, Released(call.seen), "failed", NoWorker)
     \/ job' = [job EXCEPT ![call.job] = Released(call.seen)] /\ UNCHANGED byStatus
  /\ byWorker' \in [Workers -> SUBSET QueueJobs]
  /\ cancel' = cancel

GatewayWrites == \E j \in QueueJobs : GatewayReads(j) \/ GatewaySets(j) \/ GatewayUnindexes(j)

LEMMA StepsOfRecords ==
  ASSUME RecordsTyped, CallTyped, [SchedulingNext]_schedVars
  PROVE  \/ \E j \in QueueJobs, p \in Levels : SubmitJob(j, p)
         \/ SubmitIndexes
         \/ CallWrites
         \/ ReleaseWrites
         \/ GatewayWrites
         \/ UNCHANGED <<job, byStatus, byWorker, cancel>>
<1> DEFINE Goal == \/ \E j \in QueueJobs, p \in Levels : SubmitJob(j, p)
                   \/ SubmitIndexes
                   \/ CallWrites
                   \/ ReleaseWrites
                   \/ GatewayWrites
                   \/ UNCHANGED <<job, byStatus, byWorker, cancel>>
<1>a. Statuses = {"pending", "waiting", "running", "failed", "cancelled", "timeout"}
  BY DEF Statuses
<1>1. ASSUME NEW j \in QueueJobs, NEW p \in Levels, InitiateTraining(j, p) PROVE Goal
  BY <1>1 DEF InitiateTraining
<1>2. ASSUME FinishInitiate PROVE Goal
  <2>1. CASE SubmitIndexes
    BY <2>1
  <2>2. CASE MarkValidationComplete
    BY <2>2, <1>a, CallStarted DEF MarkValidationComplete, CallWrites, Return, RecordsTyped
  <2> QED
    BY <1>2, <2>1, <2>2 DEF FinishInitiate
<1>3. ASSUME InitiateFails PROVE Goal
  BY <1>3 DEF InitiateFails, SubmitBreaks
<1>4. ASSUME NEW w \in Workers, NEW j \in QueueJobs, RequestTask(w, j) PROVE Goal
  BY <1>4 DEF RequestTask, queueVars, redisVars
<1>5. ASSUME NEW w \in Workers, ShardingFails(w) \/ RequestAssign(w) \/ Rollback(w) PROVE Goal
  BY <1>5 DEF ShardingFails, RequestAssign, Rollback, Read, queueVars, redisVars
<1>6. ASSUME NEW w \in Workers, FinishAssign(w) \/ AssignFails(w) PROVE Goal
  <2>1. call.op = "assign" /\ call # NoCall /\ call.worker \in Workers \cup {NoWorker}
    BY <1>6, CallStarted, CallParts DEF FinishAssign, AssignFails, AssignJobToWorker, AssignBreaks
  <2>2. CASE UNCHANGED <<job, byStatus, byWorker, cancel>>
    BY <2>2
  <2>3. CASE /\ UpdateStatus(call.job, call.seen, "running", call.worker) /\ cancel' = cancel
             /\ byWorker' = byWorker \/ byWorker' = [byWorker EXCEPT ![call.worker] = @ \cup {call.job}]
    <3>1. byWorker' \in [Workers -> SUBSET QueueJobs]
      BY <2>1, <2>3, CallParts DEF RecordsTyped
    <3> QED
      BY <2>1, <2>3, <3>1, <1>a DEF CallWrites
  <2> QED
    BY <1>6, <2>2, <2>3 DEF FinishAssign, AssignFails, AssignJobToWorker, AssignBreaks, Return
<1>7. ASSUME ReleaseJobFromWorker PROVE Goal
  <2>1. byWorker' \in [Workers -> SUBSET QueueJobs]
    BY <1>7 DEF ReleaseJobFromWorker, RecordsTyped
  <2> QED
    BY <1>7, <2>1, CallStarted DEF ReleaseJobFromWorker, ReleaseWrites, Return, Released
<1>8. ASSUME NEW j \in QueueJobs, Gateway(j) PROVE Goal
  BY <1>8 DEF Gateway, GatewayWrites
<1>9. ASSUME NEW j \in QueueJobs, MaintainQueue(j) PROVE Goal
  BY <1>9 DEF MaintainQueue, Read, redisVars
<1>10. ASSUME FinishMaintenance PROVE Goal
  <2>1. CASE CancelJob \/ ExpireValidation \/ ExpireExecution
    <3>1. byWorker' \in [Workers -> SUBSET QueueJobs]
      BY <2>1 DEF CancelJob, ExpireValidation, ExpireExecution, RecordsTyped
    <3> QED
      BY <2>1, <3>1, <1>a, CallStarted DEF CancelJob, ExpireValidation, ExpireExecution, CallWrites, Return
  <2> QED
    BY <1>7, <1>10, <2>1 DEF FinishMaintenance
<1>11. ASSUME NEW w \in Workers, NEW g \in Groups, Register(w, g) PROVE Goal
  BY <1>11 DEF Register, queueVars, redisVars
<1>12. ASSUME MaintainPools \/ Restart PROVE Goal
  BY <1>12 DEF MaintainPools, Restart, queueVars, redisVars
<1>13. ASSUME UNCHANGED schedVars PROVE Goal
  BY <1>13 DEF schedVars, queueVars, redisVars
<1>14. ASSUME NEW w \in Workers, FinishRollback(w) PROVE Goal
  BY <1>7, <1>14 DEF FinishRollback
<1> HIDE DEF Goal
<1>15. Goal
  BY <1>1, <1>2, <1>3, <1>4, <1>5, <1>6, <1>8, <1>9, <1>10, <1>11, <1>12, <1>13, <1>14 DEF SchedulingNext
<1> QED
  BY <1>15 DEF Goal

\* Records stay records: no job is ever taken out of Redis.
LEMMA RecordsKept ==
  ASSUME JobsTyped, [SchedulingNext]_schedVars
  PROVE  RecordsTyped' /\ \A j \in QueueJobs : job[j] \in JobInfo => job'[j] \in JobInfo
<1> USE DEF JobsTyped
<1>1. ASSUME NEW j \in QueueJobs, NEW p \in Levels, SubmitJob(j, p)
      PROVE  RecordsTyped' /\ \A i \in QueueJobs : job[i] \in JobInfo => job'[i] \in JobInfo
  <2> DEFINE rec == [status |-> "pending", level |-> p, worker |-> NoWorker, retries |-> 0]
  <2>1. rec \in JobInfo
    BY DEF JobInfo, QueueStatus
  <2>2. job' = [job EXCEPT ![j] = rec] /\ UNCHANGED <<byStatus, byWorker, cancel>>
    BY <1>1 DEF SubmitJob
  <2> HIDE DEF rec
  <2> QED
    BY <2>1, <2>2 DEF RecordsTyped
<1>2. CASE SubmitIndexes
  <2>1. call # NoCall
    BY <1>2, CallStarted DEF SubmitIndexes
  <2> QED
    BY <1>2, <2>1, CallParts DEF SubmitIndexes, RecordsTyped
<1>3. CASE CallWrites
  <2>1. PICK new \in Statuses, w \in Workers \cup {NoWorker} : UpdateStatus(call.job, call.seen, new, w)
    BY <1>3 DEF CallWrites
  <2>2. call # NoCall /\ byWorker' \in [Workers -> SUBSET QueueJobs] /\ cancel' = cancel
    BY <1>3 DEF CallWrites
  <2>3. call.job \in QueueJobs /\ call.seen \in JobInfo /\ new \in QueueStatus
    BY <2>2, CallParts, StatusesAreStatuses
  <2> QED
    BY <2>1, <2>2, <2>3, UpdateWrites DEF RecordsTyped
<1>4. CASE ReleaseWrites
  <2> DEFINE rec == Released(call.seen)
  <2>2. call # NoCall /\ byWorker' \in [Workers -> SUBSET QueueJobs] /\ cancel' = cancel
    BY <1>4 DEF ReleaseWrites
  <2>3. call.job \in QueueJobs /\ call.seen \in JobInfo /\ "failed" \in QueueStatus
    BY <2>2, CallParts DEF QueueStatus
  <2>4. rec \in JobInfo
    BY <2>3, ReleasedIsRecord
  <2>5. \/ UpdateStatus(call.job, rec, "failed", NoWorker)
        \/ job' = [job EXCEPT ![call.job] = rec] /\ UNCHANGED byStatus
    BY <1>4 DEF ReleaseWrites
  <2> HIDE DEF rec
  <2>6. CASE UpdateStatus(call.job, rec, "failed", NoWorker)
    BY <2>2, <2>3, <2>4, <2>6, UpdateWrites DEF RecordsTyped
  <2> QED
    BY <2>2, <2>3, <2>4, <2>5, <2>6 DEF RecordsTyped
<1>5. ASSUME NEW j \in QueueJobs, GatewayReads(j) \/ GatewaySets(j) \/ GatewayUnindexes(j)
      PROVE  RecordsTyped' /\ \A i \in QueueJobs : job[i] \in JobInfo => job'[i] \in JobInfo
  <2>1. CASE GatewayReads(j)
    <3>1. [pc |-> "done"] \in Cancels
      BY DEF Cancels
    <3>2. [pc |-> "read", seen |-> job[j]] \in Cancels
      BY <2>1 DEF GatewayReads, Cancels, RecordsTyped
    <3> QED
      BY <2>1, <3>1, <3>2 DEF GatewayReads, RecordsTyped, redisVars
  <2>2. cancel[j].pc \in {"read", "set"} => cancel[j] \in [pc : {"read", "set"}, seen : JobInfo]
    BY DEF RecordsTyped, Cancels, NoCancel
  <2>3. CASE GatewaySets(j)
    <3>1. [cancel[j].seen EXCEPT !.status = "cancelled"] \in JobInfo
      BY <2>2, <2>3 DEF GatewaySets, JobInfo, QueueStatus
    <3>2. [cancel[j] EXCEPT !.pc = "set"] \in Cancels
      BY <2>2, <2>3 DEF GatewaySets, Cancels
    <3> QED
      BY <2>3, <3>1, <3>2 DEF GatewaySets, RecordsTyped
  <2>4. CASE GatewayUnindexes(j)
    <3>1. [pc |-> "done"] \in Cancels
      BY DEF Cancels
    <3> QED
      BY <2>4, <3>1 DEF GatewayUnindexes, RecordsTyped
  <2> QED
    BY <1>5, <2>1, <2>3, <2>4
<1>6. CASE UNCHANGED <<job, byStatus, byWorker, cancel>>
  BY <1>6 DEF RecordsTyped
<1> QED
  BY <1>1, <1>2, <1>3, <1>4, <1>5, <1>6, StepsOfRecords DEF GatewayWrites

\* Every step leaves the call alone, ends it, moves it on, or starts one.
LEMMA StepsOfCalls ==
  ASSUME [SchedulingNext]_schedVars
  PROVE  \/ call' = call
         \/ call' = NoCall
         \/ \E j \in QueueJobs, p \in Levels : SubmitJob(j, p)
         \/ SubmitIndexes
         \/ call.op = "assign" /\ call' = [call EXCEPT !.op = "undo"]
         \/ \E w \in Workers : Rollback(w)
         \/ \E w \in Workers : RequestAssign(w) /\ Waiting(request[w].job) /\ Read("assign", request[w].job, w)
         \/ \E j \in QueueJobs : MaintainQueue(j)
  BY DEF SchedulingNext, schedVars, queueVars, redisVars, InitiateTraining, FinishInitiate, InitiateFails, SubmitBreaks,
       RequestTask, ShardingFails, RequestAssign, FinishAssign, AssignFails, FinishRollback, Register,
       Gateway, GatewayReads, GatewaySets, GatewayUnindexes, FinishMaintenance, MaintainPools, Restart,
       MarkValidationComplete, AssignJobToWorker, ReleaseJobFromWorker, CancelJob, ExpireValidation,
       ExpireExecution, Return

LEMMA CallsKeepTypes ==
  ASSUME JobsTyped, [SchedulingNext]_schedVars
  PROVE  CallTyped'
<1> USE DEF JobsTyped
<1>a. RecordsTyped' /\ \A j \in QueueJobs : job[j] \in JobInfo => job'[j] \in JobInfo
  BY RecordsKept
<1>1. CASE call' = call \/ call' = NoCall
  BY <1>a, <1>1, CallParts DEF CallTyped
<1>2. ASSUME NEW op \in Methods, NEW j \in QueueJobs, NEW w \in Workers \cup {NoWorker},
             NEW rec \in JobInfo, call' = [op |-> op, job |-> j, worker |-> w, seen |-> rec],
             job'[j] \in JobInfo
      PROVE  CallTyped'
  <2>1. call' \in Calls /\ call'.job = j
    BY <1>2 DEF Calls
  <2> QED
    BY <1>2, <2>1 DEF CallTyped
<1>3. ASSUME NEW op \in Methods, call # NoCall, call' = [call EXCEPT !.op = op]
      PROVE  CallTyped'
  <2>1. call' \in Calls /\ call'.job = call.job
    BY <1>3, CallParts DEF Calls
  <2> QED
    BY <1>a, <1>3, <2>1, CallParts DEF CallTyped
<1>4. ASSUME NEW op \in Methods, call # NoCall, call' = [call EXCEPT !.op = op, !.seen = job[call.job]]
      PROVE  CallTyped'
  <2> DEFINE rec == job[call.job]
  <2>1. rec \in JobInfo
    BY <1>4, CallParts
  <2>2. call' = [call EXCEPT !.op = op, !.seen = rec]
    BY <1>4
  <2> HIDE DEF rec
  <2>3. call' \in Calls /\ call'.job = call.job
    BY <1>4, <2>1, <2>2, CallParts DEF Calls
  <2> QED
    BY <1>a, <1>4, <2>3, CallParts DEF CallTyped
<1>5. ASSUME NEW j \in QueueJobs, NEW p \in Levels, SubmitJob(j, p) PROVE CallTyped'
  <2> DEFINE rec == [status |-> "pending", level |-> p, worker |-> NoWorker, retries |-> 0]
  <2>1. rec \in JobInfo
    BY DEF JobInfo, QueueStatus
  <2>2. /\ job' = [job EXCEPT ![j] = rec]
        /\ call' = [op |-> "submit", job |-> j, worker |-> NoWorker, seen |-> rec]
    BY <1>5 DEF SubmitJob
  <2> HIDE DEF rec
  <2>3. job'[j] \in JobInfo
    BY <2>1, <2>2 DEF RecordsTyped
  <2> QED
    BY <1>2, <2>1, <2>2, <2>3 DEF Methods
<1>6. CASE SubmitIndexes
  BY <1>4, <1>6, CallStarted DEF SubmitIndexes, Methods
<1>7. CASE call.op = "assign" /\ call' = [call EXCEPT !.op = "undo"]
  BY <1>3, <1>7, CallStarted DEF Methods
<1>8. ASSUME NEW w \in Workers, Rollback(w) PROVE CallTyped'
  BY <1>4, <1>8, CallStarted DEF Rollback, Methods
<1>9. ASSUME NEW op \in Methods, NEW j \in QueueJobs, NEW w \in Workers \cup {NoWorker}, Read(op, j, w)
      PROVE  CallTyped'
  <2>1. job[j] \in JobInfo /\ job'[j] \in JobInfo
    BY <1>9 DEF Read, redisVars, RecordsTyped
  <2> QED
    BY <1>2, <1>9, <2>1 DEF Read
<1>10. ASSUME NEW w \in Workers, RequestAssign(w), Read("assign", request[w].job, w)
       PROVE  CallTyped'
  <2>1. request[w].job \in QueueJobs
    BY <1>10 DEF RequestAssign, RequestsTyped
  <2> QED
    BY <1>9, <1>10, <2>1 DEF Methods
<1>11. ASSUME NEW j \in QueueJobs, MaintainQueue(j) PROVE CallTyped'
  BY <1>9, <1>11 DEF MaintainQueue, Methods
<1> QED
  BY <1>1, <1>5, <1>6, <1>7, <1>8, <1>10, <1>11, StepsOfCalls

\* Every step leaves a worker's request alone, ends it, starts it with a waiting
\* job, or moves it on with the job it has.
LEMMA StepsOfRequests ==
  ASSUME RequestsTyped, [SchedulingNext]_schedVars
  PROVE  /\ request' \in [Workers -> [pc : RequestPcs, job : QueueJobs \cup {NoJob}]]
         /\ \A w \in Workers :
              \/ request'[w] = request[w]
              \/ request'[w] = NoRequest
              \/ \E j \in QueueJobs : RequestTask(w, j) /\ request'[w].job = j
              \/ request[w].pc # "idle" /\ request'[w].job = request[w].job
<1> DEFINE Goal == /\ request' \in [Workers -> [pc : RequestPcs, job : QueueJobs \cup {NoJob}]]
                   /\ \A w \in Workers :
                        \/ request'[w] = request[w]
                        \/ request'[w] = NoRequest
                        \/ \E j \in QueueJobs : RequestTask(w, j) /\ request'[w].job = j
                        \/ request[w].pc # "idle" /\ request'[w].job = request[w].job
<1>1. NoRequest \in [pc : RequestPcs, job : QueueJobs \cup {NoJob}]
  BY DEF NoRequest, RequestPcs
<1>2. CASE UNCHANGED request \/ request' = [v \in Workers |-> NoRequest]
  BY <1>1, <1>2 DEF RequestsTyped
<1>3. ASSUME NEW v \in Workers, request' = [request EXCEPT ![v] = NoRequest] PROVE Goal
  BY <1>1, <1>3 DEF RequestsTyped
<1>4. ASSUME NEW v \in Workers, NEW j \in QueueJobs, RequestTask(v, j) PROVE Goal
  BY <1>4 DEF RequestTask, RequestsTyped, RequestPcs
<1>5. ASSUME NEW v \in Workers, NEW pc \in {"assigning", "rollback"}, request[v].pc # "idle",
             request' = [request EXCEPT ![v].pc = pc]
      PROVE  Goal
  <2>1. [request[v] EXCEPT !.pc = pc] \in [pc : RequestPcs, job : QueueJobs \cup {NoJob}]
    BY DEF RequestsTyped, RequestPcs
  <2>2. [request[v] EXCEPT !.pc = pc].job = request[v].job
    BY DEF RequestsTyped
  <2> QED
    BY <1>5, <2>1, <2>2 DEF RequestsTyped
<1>6. \/ UNCHANGED request \/ request' = [v \in Workers |-> NoRequest]
      \/ \E v \in Workers : request' = [request EXCEPT ![v] = NoRequest]
      \/ \E v \in Workers, j \in QueueJobs : RequestTask(v, j)
      \/ \E v \in Workers, pc \in {"assigning", "rollback"} :
           request[v].pc # "idle" /\ request' = [request EXCEPT ![v].pc = pc]
  BY DEF SchedulingNext, schedVars, InitiateTraining, FinishInitiate, InitiateFails, ShardingFails,
       RequestAssign, FinishAssign, AssignFails, Rollback, FinishRollback, Register, Reply, Gateway,
       MaintainQueue, FinishMaintenance, MaintainPools, Restart
<1> HIDE DEF Goal
<1>7. Goal
  BY <1>2, <1>3, <1>4, <1>5, <1>6 DEF Goal
<1> QED
  BY <1>7 DEF Goal

LEMMA JobsKeepTypes ==
  ASSUME JobsTyped, [SchedulingNext]_schedVars
  PROVE  JobsTyped'
<1>1. RecordsTyped' /\ CallTyped' /\ \A j \in QueueJobs : job[j] \in JobInfo => job'[j] \in JobInfo
  BY RecordsKept, CallsKeepTypes
<1>2. request' \in [Workers -> [pc : RequestPcs, job : QueueJobs \cup {NoJob}]]
  BY StepsOfRequests DEF JobsTyped
<1>3. ASSUME NEW w \in Workers, request'[w].pc # "idle"
      PROVE  request'[w].job \in QueueJobs /\ job'[request'[w].job] \in JobInfo
  <2>1. ASSUME NEW j \in QueueJobs, RequestTask(w, j), request'[w].job = j
        PROVE  request'[w].job \in QueueJobs /\ job'[request'[w].job] \in JobInfo
    <3>1. job[j] \in JobInfo
      BY <2>1 DEF RequestTask, Waiting, JobsTyped, RecordsTyped
    <3> QED
      BY <1>1, <2>1, <3>1
  <2> QED
    BY <1>1, <1>3, <2>1, StepsOfRequests DEF JobsTyped, RequestsTyped, NoRequest
<1> QED
  BY <1>1, <1>2, <1>3 DEF JobsTyped, RequestsTyped

LEMMA JobsTypedInit == SchedulingInit => JobsTyped
<1> SUFFICES ASSUME SchedulingInit PROVE JobsTyped
  OBVIOUS
<1>1. RecordsTyped
  BY DEF SchedulingInit, QueueInit, RecordsTyped, Cancels
<1>2. CallTyped
  BY DEF SchedulingInit, QueueInit, CallTyped
<1>3. RequestsTyped
  BY DEF SchedulingInit, RequestsTyped, NoRequest, RequestPcs
<1> QED
  BY <1>1, <1>2, <1>3 DEF JobsTyped

LEMMA JobsTypedHolds == SchedulingSpec => []JobsTyped
  BY JobsTypedInit, JobsKeepTypes, PTL DEF SchedulingSpec

-----------------------------------------------------------------------------
\* A cancellation is undone only by a call that had read the job before it: no
\* method revives a job that it sees cancelled (jobs.py:470).
THEOREM CancellationsStay == SchedulingSpec => CancelledStays
<1>1. ASSUME JobsTyped, [SchedulingNext]_schedVars, NEW j \in QueueJobs,
             job[j] # NoJob, job[j].status = "cancelled", Settled(j) \/ call.seen.status = "cancelled"
      PROVE  job'[j].status = "cancelled"
  <2> USE DEF JobsTyped
  <2>1. job[j] \in JobInfo
    BY <1>1 DEF RecordsTyped
  <2>2. ASSUME call # NoCall
        PROVE  /\ call.job \in QueueJobs /\ call.seen \in JobInfo
               /\ call.job = j => call.seen.status = "cancelled"
    <3>1. call.op # "none"
      BY <1>1, <2>2, CallParts, NoCallIsNone
    <3> QED
      BY <1>1, <2>2, <3>1, CallParts DEF Settled
  <2>3. \A new \in Statuses : ~ValidTransition("cancelled", new)
    BY DEF ValidTransition
  <2>9. ASSUME call # NoCall, NEW rec \in JobInfo, rec.status = call.seen.status, NEW new \in Statuses,
               NEW w \in Workers \cup {NoWorker}, UpdateStatus(call.job, rec, new, w)
        PROVE  job'[j].status = "cancelled"
    <3>1. new \in QueueStatus /\ call.job \in QueueJobs
      BY <2>2, <2>9, StatusesAreStatuses
    <3>2. /\ \A i \in QueueJobs : i # call.job => job'[i] = job[i]
          /\ ~ValidTransition(rec.status, new) => job' = job
      BY <1>1, <2>9, <3>1, UpdateWrites
    <3>3. CASE call.job = j
      <4>1. ~ValidTransition(rec.status, new)
        BY <2>2, <2>3, <2>9, <3>3
      <4> QED
        BY <1>1, <3>2, <4>1
    <3> QED
      BY <1>1, <3>2, <3>3
  <2>4. CASE CallWrites
    <3>1. PICK new \in Statuses, w \in Workers \cup {NoWorker} : UpdateStatus(call.job, call.seen, new, w)
      BY <2>4 DEF CallWrites
    <3>2. call # NoCall
      BY <2>4 DEF CallWrites
    <3> QED
      BY <2>2, <2>9, <3>1, <3>2
  <2>5. CASE ReleaseWrites
    <3> DEFINE rec == Released(call.seen)
    <3>1. call # NoCall
      BY <2>5 DEF ReleaseWrites
    <3>2. rec \in JobInfo /\ rec.status = call.seen.status
      BY <2>2, <3>1, ReleasedIsRecord
    <3>3. \/ UpdateStatus(call.job, rec, "failed", NoWorker)
          \/ job' = [job EXCEPT ![call.job] = rec] /\ UNCHANGED byStatus
      BY <2>5 DEF ReleaseWrites
    <3>4. "failed" \in Statuses
      BY DEF Statuses
    <3> HIDE DEF rec
    <3>5. CASE UpdateStatus(call.job, rec, "failed", NoWorker)
      BY <2>9, <3>1, <3>2, <3>4, <3>5
    <3>6. CASE job' = [job EXCEPT ![call.job] = rec]
      BY <1>1, <2>2, <3>1, <3>2, <3>6 DEF RecordsTyped
    <3> QED
      BY <3>3, <3>5, <3>6
  <2>6. ASSUME NEW i \in QueueJobs, GatewaySets(i)
        PROVE  job'[j].status = "cancelled"
    <3>1. cancel[i] \in [pc : {"read", "set"}, seen : JobInfo]
      <4>1. cancel[i] \in Cancels /\ cancel[i].pc = "read"
        BY <1>1, <2>6 DEF GatewaySets, RecordsTyped
      <4> QED
        BY <4>1 DEF Cancels, NoCancel
    <3>2. [cancel[i].seen EXCEPT !.status = "cancelled"].status = "cancelled"
      BY <3>1 DEF JobInfo
    <3> QED
      BY <1>1, <2>6, <3>2 DEF GatewaySets, RecordsTyped
  <2>7. CASE \E i \in QueueJobs, p \in Levels : SubmitJob(i, p)
    BY <1>1, <2>7 DEF SubmitJob, RecordsTyped
  <2>8. CASE UNCHANGED job
    BY <1>1, <2>8
  <2> QED
    BY <1>1, <2>4, <2>5, <2>6, <2>7, <2>8, StepsOfRecords
       DEF GatewayWrites, GatewayReads, GatewayUnindexes, SubmitIndexes, redisVars
<1>2. JobsTyped /\ [SchedulingNext]_schedVars =>
        [\A j \in QueueJobs :
           /\ job[j] # NoJob /\ job[j].status = "cancelled"
           /\ Settled(j) \/ call.seen.status = "cancelled"
           => job'[j].status = "cancelled"]_schedVars
  BY <1>1
<1> QED
  BY <1>2, JobsTypedHolds, PTL DEF SchedulingSpec, CancelledStays

-----------------------------------------------------------------------------
(***************************************************************************)
(* Who owns a job.  A job that nobody was given, and a job that a call is  *)
(* about to give away, is in no worker's index; and a call that is about   *)
(* to write has read what is still there, unless the gateway has set the   *)
(* job cancelled in between.                                               *)
(***************************************************************************)
OneIndex == \A j \in QueueJobs : \A v, w \in Workers : j \in byWorker[v] /\ j \in byWorker[w] => v = w

Unowned ==
  \A j \in QueueJobs :
    job[j] = NoJob \/ job[j].status \in {"pending", "waiting"} => \A w \in Workers : j \notin byWorker[w]

FreshCall ==
  /\ call.op \in {"submit", "validate", "assign"} => \A w \in Workers : call.job \notin byWorker[w]
  /\ call.op = "assign" => call.seen.status = "waiting" /\ call.worker \in Workers

ReadIsCurrent ==
  call.op \notin {"none", "undo"} => job[call.job] = call.seen \/ job[call.job].status = "cancelled"

RunningIsIndexed ==
  \A j \in QueueJobs :
    job[j] # NoJob /\ job[j].status = "running" /\ j \notin broken /\ cancel[j].pc # "done"
      => job[j].worker \in Workers /\ j \in byWorker[job[j].worker]

OwnerInv == OneIndex /\ Unowned /\ FreshCall /\ ReadIsCurrent /\ RunningIsIndexed

\* What a step may do to records, indexes and cancellations together.
Frozen == UNCHANGED <<job, byWorker, cancel>> /\ broken \subseteq broken'
Assigns == AssignJobToWorker /\ UNCHANGED <<cancel, broken>> /\ call' \in {NoCall, [call EXCEPT !.op = "undo"]}
Expires == CancelJob \/ ExpireValidation \/ ExpireExecution

LEMMA StepsOfOwners ==
  ASSUME [SchedulingNext]_schedVars
  PROVE  \/ Frozen
         \/ \E j \in QueueJobs, p \in Levels : SubmitJob(j, p)
         \/ MarkValidationComplete
         \/ Assigns
         \/ \E written \in BOOLEAN : AssignBreaks(written) /\ call' = NoCall
         \/ ReleaseJobFromWorker
         \/ Expires
         \/ GatewayWrites
<1> DEFINE Goal == \/ Frozen
                   \/ \E j \in QueueJobs, p \in Levels : SubmitJob(j, p)
                   \/ MarkValidationComplete
                   \/ Assigns
                   \/ \E written \in BOOLEAN : AssignBreaks(written) /\ call' = NoCall
                   \/ ReleaseJobFromWorker
                   \/ Expires
                   \/ GatewayWrites
<1>0. ASSUME NEW w \in Workers, \/ ShardingFails(w) \/ RequestAssign(w) \/ Rollback(w) \/ FinishRollback(w)
                                \/ \E g \in Groups : Register(w, g)
      PROVE  Goal
  BY <1>0 DEF ShardingFails, RequestAssign, Rollback, FinishRollback, Register, Read, queueVars, redisVars, Frozen
<1>7. ASSUME NEW w \in Workers, NEW j \in QueueJobs, RequestTask(w, j) PROVE Goal
  BY <1>7 DEF RequestTask, queueVars, redisVars, Frozen
<1>1. ASSUME NEW w \in Workers, FinishAssign(w) PROVE Goal
  BY <1>1 DEF FinishAssign, Return, Assigns
<1>6. ASSUME NEW w \in Workers, AssignFails(w) PROVE Goal
  BY <1>6 DEF AssignFails
<1>2. ASSUME NEW j \in QueueJobs, Gateway(j) \/ MaintainQueue(j) PROVE Goal
  BY <1>2 DEF Gateway, MaintainQueue, Read, redisVars, Frozen, GatewayWrites
<1>3. ASSUME \/ \E j \in QueueJobs, p \in Levels : InitiateTraining(j, p)
             \/ FinishInitiate \/ InitiateFails \/ FinishMaintenance
      PROVE  Goal
  BY <1>3 DEF InitiateTraining, FinishInitiate, SubmitIndexes, InitiateFails, SubmitBreaks, FinishMaintenance, Frozen, Expires
<1>4. ASSUME MaintainPools \/ Restart \/ UNCHANGED schedVars PROVE Goal
  BY <1>4 DEF MaintainPools, Restart, schedVars, queueVars, redisVars, Frozen
<1> HIDE DEF Goal
<1>5. ASSUME \E w \in Workers : \/ ShardingFails(w) \/ RequestAssign(w) \/ FinishAssign(w)
                                 \/ AssignFails(w) \/ Rollback(w) \/ FinishRollback(w)
                                 \/ \E g \in Groups : Register(w, g)
      PROVE  Goal
  BY <1>0, <1>1, <1>5, <1>6
<1>8. Goal
  BY <1>2, <1>3, <1>4, <1>5, <1>7 DEF SchedulingNext
<1> QED
  BY <1>8 DEF Goal

LEMMA GatewayParts ==
  ASSUME RecordsTyped, NEW i \in QueueJobs, GatewayReads(i) \/ GatewaySets(i) \/ GatewayUnindexes(i)
  PROVE  /\ call' = call /\ broken \subseteq broken'
         /\ \A j \in QueueJobs : j # i => job'[j] = job[j] /\ cancel'[j] = cancel[j]
         /\ \A j \in QueueJobs : job'[j] = job[j] \/ job'[j].status = "cancelled"
         /\ \A w \in Workers : byWorker'[w] \subseteq byWorker[w] /\ byWorker[w] \ {i} \subseteq byWorker'[w]
         /\ \/ job'[i].status = "cancelled" \/ cancel'[i].pc = "done"
            \/ cancel[i].pc = "idle" /\ job' = job /\ byWorker' = byWorker
<1>1. CASE GatewayReads(i)
  <2>1. cancel[i].pc = "idle" /\ job' = job /\ byWorker' = byWorker
    BY <1>1 DEF GatewayReads, redisVars
  <2> QED
    BY <1>1, <2>1 DEF GatewayReads, RecordsTyped
<1>2. CASE GatewaySets(i)
  <2> DEFINE rec == [cancel[i].seen EXCEPT !.status = "cancelled"]
  <2>1. cancel[i] \in Cancels /\ cancel[i].pc = "read"
    BY <1>2 DEF GatewaySets, RecordsTyped
  <2>2. cancel[i].seen \in JobInfo
    BY <2>1 DEF Cancels, NoCancel
  <2>3. rec.status = "cancelled"
    BY <2>2 DEF JobInfo
  <2>4. job' = [job EXCEPT ![i] = rec] /\ UNCHANGED <<byWorker, call, broken>>
    BY <1>2 DEF GatewaySets
  <2>5. \A j \in QueueJobs : j # i => cancel'[j] = cancel[j]
    BY <1>2 DEF GatewaySets, RecordsTyped
  <2> HIDE DEF rec
  <2> QED
    BY <2>3, <2>4, <2>5 DEF RecordsTyped
<1>3. CASE GatewayUnindexes(i)
  BY <1>3 DEF GatewayUnindexes, RecordsTyped
<1> QED
  BY <1>1, <1>2, <1>3

\* What the writes of the calls do to the record they are about.
LEMMA ReleaseParts ==
  ASSUME JobsTyped, ReleaseJobFromWorker
  PROVE  /\ call # NoCall /\ call.job \in QueueJobs /\ call' = NoCall /\ UNCHANGED <<cancel, broken>>
         /\ \A i \in QueueJobs : i # call.job => job'[i] = job[i]
         /\ job'[call.job].status \in {"failed", "completed", "cancelled"}
         /\ \A w \in Workers : byWorker'[w] \subseteq byWorker[w] /\ byWorker[w] \ {call.job} \subseteq byWorker'[w]
<1> USE DEF JobsTyped
<1> DEFINE rec == Released(call.seen)
<1>1. call # NoCall /\ call.job \in QueueJobs /\ call.seen \in JobInfo
  BY CallStarted, CallParts DEF ReleaseJobFromWorker
<1>2. rec \in JobInfo /\ rec.status = call.seen.status /\ "failed" \in QueueStatus
  BY <1>1, ReleasedIsRecord DEF QueueStatus
<1>3. IF ValidTransition(rec.status, "failed") THEN UpdateStatus(call.job, rec, "failed", NoWorker)
                                              ELSE job' = [job EXCEPT ![call.job] = rec]
  BY DEF ReleaseJobFromWorker, Released
<1>4. /\ call' = NoCall /\ UNCHANGED <<cancel, broken>>
      /\ \A w \in Workers : byWorker'[w] \subseteq byWorker[w] /\ byWorker[w] \ {call.job} \subseteq byWorker'[w]
  BY DEF ReleaseJobFromWorker, Return, RecordsTyped
<1> HIDE DEF rec
<1>5. CASE ValidTransition(rec.status, "failed")
  BY <1>1, <1>2, <1>3, <1>4, <1>5, UpdateWrites
<1>6. CASE ~ValidTransition(rec.status, "failed")
  <2>1. rec.status \in {"completed", "cancelled"}
    BY <1>6 DEF ValidTransition
  <2> QED
    BY <1>1, <1>3, <1>4, <1>6, <2>1 DEF RecordsTyped
<1> QED
  BY <1>5, <1>6

LEMMA ExpireParts ==
  ASSUME JobsTyped, Expires
  PROVE  /\ call # NoCall /\ call.job \in QueueJobs /\ call.op \in {"cancel", "expire", "timeout"}
         /\ call' = NoCall /\ UNCHANGED <<cancel, broken>>
         /\ \A i \in QueueJobs : i # call.job => job'[i] = job[i]
         /\ \/ job'[call.job].status \in {"cancelled", "failed", "timeout"}
            \/ job' = job /\ call.seen.status # "running"
         /\ \A w \in Workers : byWorker'[w] \subseteq byWorker[w] /\ byWorker[w] \ {call.job} \subseteq byWorker'[w]
<1> USE DEF JobsTyped
<1>1. call # NoCall /\ call.job \in QueueJobs /\ call.seen \in JobInfo
  BY CallStarted, CallParts DEF Expires, CancelJob, ExpireValidation, ExpireExecution
<1>2. PICK new \in {"cancelled", "failed", "timeout"} : UpdateStatus(call.job, call.seen, new, NoWorker)
  BY DEF Expires, CancelJob, ExpireValidation, ExpireExecution
<1>3. /\ call.op \in {"cancel", "expire", "timeout"} /\ call' = NoCall /\ UNCHANGED <<cancel, broken>>
      /\ \A w \in Workers : byWorker'[w] \subseteq byWorker[w] /\ byWorker[w] \ {call.job} \subseteq byWorker'[w]
  BY DEF Expires, CancelJob, ExpireValidation, ExpireExecution, Return, RecordsTyped
<1>4. ValidTransition("running", new)
  BY DEF ValidTransition
<1>5. new \in QueueStatus /\ NoWorker \in Workers \cup {NoWorker}
  BY DEF QueueStatus
<1> QED
  BY <1>1, <1>2, <1>3, <1>4, <1>5, UpdateWrites

LEMMA MarkParts ==
  ASSUME JobsTyped, MarkValidationComplete
  PROVE  /\ call.op = "validate" /\ call # NoCall /\ call.job \in QueueJobs
         /\ call' = NoCall /\ UNCHANGED <<byWorker, cancel, broken>>
         /\ \A i \in QueueJobs : i # call.job => job'[i] = job[i]
         /\ job'[call.job].status = "waiting" \/ job' = job
<1> USE DEF JobsTyped
<1>1. call # NoCall /\ call.job \in QueueJobs /\ call.seen \in JobInfo
  BY CallStarted, CallParts DEF MarkValidationComplete
<1>2. "waiting" \in QueueStatus /\ NoWorker \in Workers \cup {NoWorker}
  BY DEF QueueStatus
<1>3. UpdateStatus(call.job, call.seen, "waiting", NoWorker)
  BY DEF MarkValidationComplete
<1> QED
  BY <1>1, <1>2, <1>3, UpdateWrites DEF MarkValidationComplete, Return

\* An assignment that found the job waiting makes it running.
LEMMA AssignParts ==
  ASSUME JobsTyped, FreshCall, call.op = "assign", UpdateStatus(call.job, call.seen, "running", call.worker)
  PROVE  /\ call # NoCall /\ call.job \in QueueJobs /\ call.worker \in Workers
         /\ \A i \in QueueJobs : i # call.job => job'[i] = job[i]
         /\ job'[call.job].status = "running" /\ job'[call.job].worker = call.worker
<1> USE DEF JobsTyped
<1>1. call # NoCall /\ call.job \in QueueJobs /\ call.seen \in JobInfo /\ call.worker \in Workers
  BY CallStarted, CallParts DEF FreshCall
<1>2. ValidTransition(call.seen.status, "running") /\ "running" \in QueueStatus
  BY DEF ValidTransition, FreshCall, QueueStatus
<1> QED
  BY <1>1, <1>2, UpdateWrites

\* The index of a worker grows only by the job that a call assigns to it.
LEMMA IndexesGrow ==
  ASSUME JobsTyped, FreshCall, [SchedulingNext]_schedVars, NEW v \in Workers
  PROVE  \/ byWorker'[v] \subseteq byWorker[v]
         \/ /\ Assigns /\ v = call.worker /\ byWorker'[v] = byWorker[v] \cup {call.job}
            /\ call.op = "assign" /\ call # NoCall
<1> USE DEF JobsTyped
<1>1. CASE Frozen \/ \E j \in QueueJobs, p \in Levels : SubmitJob(j, p)
  BY <1>1 DEF Frozen, SubmitJob
<1>2. CASE MarkValidationComplete
  BY <1>2, MarkParts
<1>3. CASE Assigns
  BY <1>3, CallStarted DEF Assigns, AssignJobToWorker, RecordsTyped
<1>4. CASE \E written \in BOOLEAN : AssignBreaks(written)
  BY <1>4 DEF AssignBreaks
<1>5. CASE ReleaseJobFromWorker
  BY <1>5, ReleaseParts
<1>6. CASE Expires
  BY <1>6, ExpireParts
<1>7. CASE GatewayWrites
  BY <1>7, GatewayParts DEF GatewayWrites
<1> QED
  BY <1>1, <1>2, <1>3, <1>4, <1>5, <1>6, <1>7, StepsOfOwners

\* A job comes to wait only at the end of its own submission.
LEMMA JobsComeToWait ==
  ASSUME JobsTyped, FreshCall, [SchedulingNext]_schedVars, NEW j \in QueueJobs
  PROVE  \/ job'[j] = job[j]
         \/ job[j] = NoJob /\ call'.op = "submit" /\ UNCHANGED byWorker
         \/ MarkValidationComplete /\ call.job = j
         \/ job'[j].status \notin {"pending", "waiting"}
<1> USE DEF JobsTyped
<1>1. CASE Frozen
  BY <1>1 DEF Frozen
<1>2. ASSUME NEW i \in QueueJobs, NEW p \in Levels, SubmitJob(i, p)
      PROVE  \/ job'[j] = job[j]
             \/ job[j] = NoJob /\ call'.op = "submit" /\ UNCHANGED byWorker
  BY <1>2 DEF SubmitJob, RecordsTyped
<1>3. CASE MarkValidationComplete
  BY <1>3, MarkParts
<1>4. CASE Assigns
  BY <1>4, AssignParts DEF Assigns, AssignJobToWorker
<1>5. CASE \E written \in BOOLEAN : AssignBreaks(written)
  BY <1>5, AssignParts DEF AssignBreaks
<1>6. CASE ReleaseJobFromWorker
  BY <1>6, ReleaseParts
<1>7. CASE Expires
  BY <1>7, ExpireParts
<1>8. CASE GatewayWrites
  BY <1>8, GatewayParts DEF GatewayWrites
<1> QED
  BY <1>1, <1>2, <1>3, <1>4, <1>5, <1>6, <1>7, <1>8, StepsOfOwners

LEMMA OneIndexKept ==
  ASSUME JobsTyped, OneIndex, FreshCall, [SchedulingNext]_schedVars
  PROVE  OneIndex'
<1> SUFFICES ASSUME NEW j \in QueueJobs, NEW v \in Workers, NEW w \in Workers,
                    j \in byWorker'[v], j \in byWorker'[w], v # w
             PROVE  FALSE
  BY DEF OneIndex
<1>1. ASSUME NEW u \in Workers, j \in byWorker'[u]
      PROVE  j \in byWorker[u] \/ (u = call.worker /\ j = call.job /\ call.op = "assign")
  BY <1>1, IndexesGrow
<1>2. call.op = "assign" => call.job \notin byWorker[v] /\ call.job \notin byWorker[w]
  BY DEF FreshCall
<1> QED
  BY <1>1, <1>2 DEF OneIndex

LEMMA UnownedKept ==
  ASSUME JobsTyped, Unowned, FreshCall, [SchedulingNext]_schedVars
  PROVE  Unowned'
<1> SUFFICES ASSUME NEW j \in QueueJobs, job'[j] = NoJob \/ job'[j].status \in {"pending", "waiting"},
                    NEW w \in Workers, j \in byWorker'[w]
             PROVE  FALSE
  BY DEF Unowned
<1> USE DEF JobsTyped
<1>1. job'[j] = NoJob => job'[j] = job[j]
  BY RecordsKept, AbsentJob DEF RecordsTyped
<1>2. job'[j] = job[j] => j \notin byWorker[w]
  BY DEF Unowned
<1>3. job[j] = NoJob => j \notin byWorker[w]
  BY DEF Unowned
<1>4. CASE MarkValidationComplete /\ call.job = j
  <2>1. call.op = "validate" /\ byWorker' = byWorker
    BY <1>4, MarkParts
  <2> QED
    BY <1>4, <2>1 DEF FreshCall
<1>5. CASE job'[j] = job[j]
  <2>1. Assigns /\ call.op = "assign" /\ call.job = j /\ call # NoCall
    BY <1>2, <1>5, IndexesGrow
  <2>2. job'[j].status = "running"
    BY <2>1, AssignParts DEF Assigns, AssignJobToWorker
  <2>3. job'[j] # NoJob
    BY <1>5, <2>1, CallParts, AbsentJob
  <2> QED
    BY <2>2, <2>3
<1> QED
  BY <1>1, <1>3, <1>4, <1>5, JobsComeToWait

LEMMA FreshCallKept ==
  ASSUME JobsTyped, Unowned, FreshCall, [SchedulingNext]_schedVars
  PROVE  FreshCall'
<1> USE DEF JobsTyped
<1>1. ASSUME NEW w \in Workers, call'.op \in {"submit", "validate", "assign"},
             call'.job \notin byWorker[w], call'.job \in byWorker'[w]
      PROVE  FALSE
  BY <1>1, IndexesGrow, CallStarted, CallParts DEF Assigns, Calls
<1>2. CASE call' = call
  BY <1>1, <1>2 DEF FreshCall
<1>3. CASE call' = NoCall
  BY <1>3, CallStarted DEF FreshCall
<1>4. ASSUME NEW j \in QueueJobs, NEW p \in Levels, SubmitJob(j, p) PROVE FreshCall'
  BY <1>4 DEF SubmitJob, FreshCall, Unowned
<1>5. CASE SubmitIndexes
  <2>1. call'.op = "validate" /\ call'.job = call.job /\ call.op = "submit" /\ byWorker' = byWorker
    BY <1>5, CallStarted, CallParts DEF SubmitIndexes, Calls
  <2> QED
    BY <2>1 DEF FreshCall
<1>6. CASE call.op = "assign" /\ call' = [call EXCEPT !.op = "undo"]
  <2>1. call'.op = "undo"
    BY <1>6, CallStarted, CallParts DEF Calls
  <2> QED
    BY <2>1 DEF FreshCall
<1>7. ASSUME NEW w \in Workers, Rollback(w) PROVE FreshCall'
  <2>1. call'.op = "release"
    BY <1>7, CallStarted, CallParts DEF Rollback, Calls
  <2> QED
    BY <2>1 DEF FreshCall
<1>8. ASSUME NEW w \in Workers, RequestAssign(w), Waiting(request[w].job), Read("assign", request[w].job, w)
      PROVE  FreshCall'
  <2>1. request[w].job \in QueueJobs
    BY <1>8 DEF RequestAssign, RequestsTyped
  <2> QED
    BY <1>8, <2>1 DEF Read, redisVars, Waiting, FreshCall, Unowned
<1>9. ASSUME NEW j \in QueueJobs, MaintainQueue(j) PROVE FreshCall'
  BY <1>9 DEF MaintainQueue, Read, FreshCall
<1> QED
  BY <1>2, <1>3, <1>4, <1>5, <1>6, <1>7, <1>8, <1>9, StepsOfCalls

\* While a call is between its read and its write, only the gateway writes.
LEMMA OnlyGatewayComesBetween ==
  ASSUME JobsTyped, [SchedulingNext]_schedVars, call' = call, call # NoCall, NEW j \in QueueJobs
  PROVE  job'[j] = job[j] \/ job'[j].status = "cancelled"
<1> USE DEF JobsTyped
<1>1. CASE Frozen
  BY <1>1 DEF Frozen
<1>2. CASE \E i \in QueueJobs, p \in Levels : SubmitJob(i, p)
  BY <1>2 DEF SubmitJob
<1>3. CASE MarkValidationComplete
  BY <1>3, MarkParts
<1>4. CASE Assigns
  <2>1. call.op = "assign" /\ call' = [call EXCEPT !.op = "undo"]
    BY <1>4 DEF Assigns, AssignJobToWorker
  <2>2. call'.op = "undo"
    BY <2>1, CallParts DEF Calls
  <2> QED
    BY <2>1, <2>2
<1>5. CASE \E written \in BOOLEAN : AssignBreaks(written) /\ call' = NoCall
  BY <1>5
<1>6. CASE ReleaseJobFromWorker
  BY <1>6, ReleaseParts
<1>7. CASE Expires
  BY <1>7, ExpireParts
<1>8. CASE GatewayWrites
  BY <1>8, GatewayParts DEF GatewayWrites
<1> QED
  BY <1>1, <1>2, <1>3, <1>4, <1>5, <1>6, <1>7, <1>8, StepsOfOwners

LEMMA ReadIsCurrentKept ==
  ASSUME JobsTyped, ReadIsCurrent, [SchedulingNext]_schedVars
  PROVE  ReadIsCurrent'
<1> USE DEF JobsTyped
<1>1. CASE call' = call
  <2>1. CASE call = NoCall
    BY <1>1, <2>1, CallStarted DEF ReadIsCurrent
  <2>2. CASE call # NoCall
    BY <1>1, <2>2, CallParts, OnlyGatewayComesBetween DEF ReadIsCurrent
  <2> QED
    BY <2>1, <2>2
<1>2. CASE call' = NoCall
  BY <1>2, CallStarted DEF ReadIsCurrent
<1>3. ASSUME NEW j \in QueueJobs, NEW p \in Levels, SubmitJob(j, p) PROVE ReadIsCurrent'
  <2> DEFINE rec == [status |-> "pending", level |-> p, worker |-> NoWorker, retries |-> 0]
  <2>1. /\ job' = [job EXCEPT ![j] = rec]
        /\ call' = [op |-> "submit", job |-> j, worker |-> NoWorker, seen |-> rec]
    BY <1>3 DEF SubmitJob
  <2> HIDE DEF rec
  <2> QED
    BY <2>1 DEF ReadIsCurrent, RecordsTyped
<1>4. ASSUME call # NoCall, job' = job, NEW op \in Methods, call' = [call EXCEPT !.op = op, !.seen = job[call.job]]
      PROVE  ReadIsCurrent'
  <2>1. call'.job = call.job /\ call'.seen = job[call.job]
    BY <1>4, CallParts DEF Calls
  <2> QED
    BY <1>4, <2>1 DEF ReadIsCurrent
<1>5. CASE SubmitIndexes
  BY <1>4, <1>5, CallStarted DEF SubmitIndexes, Methods
<1>6. CASE call.op = "assign" /\ call' = [call EXCEPT !.op = "undo"]
  <2>1. call'.op = "undo"
    BY <1>6, CallStarted, CallParts DEF Calls
  <2> QED
    BY <2>1 DEF ReadIsCurrent
<1>7. ASSUME NEW w \in Workers, Rollback(w) PROVE ReadIsCurrent'
  BY <1>4, <1>7, CallStarted DEF Rollback, Methods, redisVars
<1>8. ASSUME NEW op \in Methods, NEW j \in QueueJobs, NEW w \in Workers \cup {NoWorker}, Read(op, j, w)
      PROVE  ReadIsCurrent'
  BY <1>8 DEF Read, redisVars, ReadIsCurrent
<1>9. ASSUME NEW w \in Workers, RequestAssign(w), Read("assign", request[w].job, w)
      PROVE  ReadIsCurrent'
  <2>1. request[w].job \in QueueJobs
    BY <1>9 DEF RequestAssign, RequestsTyped
  <2> QED
    BY <1>8, <1>9, <2>1 DEF Methods
<1>10. ASSUME NEW j \in QueueJobs, MaintainQueue(j) PROVE ReadIsCurrent'
  BY <1>8, <1>10 DEF MaintainQueue, Methods
<1> QED
  BY <1>1, <1>2, <1>3, <1>5, <1>6, <1>7, <1>9, <1>10, StepsOfCalls

LEMMA RunningIsIndexedKept ==
  ASSUME JobsTyped, FreshCall, ReadIsCurrent, RunningIsIndexed, [SchedulingNext]_schedVars
  PROVE  RunningIsIndexed'
<1> SUFFICES ASSUME NEW j \in QueueJobs, job'[j] # NoJob, job'[j].status = "running",
                    j \notin broken', cancel'[j].pc # "done"
             PROVE  job'[j].worker \in Workers /\ j \in byWorker'[job'[j].worker]
  BY DEF RunningIsIndexed
<1> USE DEF JobsTyped
<1>1. ASSUME job'[j] = job[j], j \notin broken, cancel[j].pc # "done",
             \A w \in Workers : j \in byWorker[w] => j \in byWorker'[w]
      PROVE  job'[j].worker \in Workers /\ j \in byWorker'[job'[j].worker]
  BY <1>1 DEF RunningIsIndexed
<1> DEFINE Goal == job'[j].worker \in Workers /\ j \in byWorker'[job'[j].worker]
<1>2. ASSUME Frozen PROVE Goal
  BY <1>1, <1>2 DEF Frozen
<1>3. ASSUME NEW i \in QueueJobs, NEW p \in Levels, SubmitJob(i, p) PROVE Goal
  BY <1>1, <1>3 DEF SubmitJob, RecordsTyped
<1>4. ASSUME MarkValidationComplete PROVE Goal
  BY <1>1, <1>4, MarkParts
<1>5. ASSUME Assigns PROVE Goal
  <2>1. /\ call.op = "assign" /\ UpdateStatus(call.job, call.seen, "running", call.worker)
        /\ UNCHANGED <<cancel, broken>>
        /\ byWorker' = [byWorker EXCEPT ![call.worker] = @ \cup {call.job}]
    BY <1>5 DEF Assigns, AssignJobToWorker
  <2> QED
    BY <1>1, <2>1, AssignParts DEF RecordsTyped
<1>6. ASSUME NEW written \in BOOLEAN, AssignBreaks(written) PROVE Goal
  <2>1. j # call.job /\ j \notin broken
    BY <1>6 DEF AssignBreaks
  <2>2. call.op = "assign" /\ UNCHANGED <<byWorker, cancel>>
    BY <1>6 DEF AssignBreaks
  <2>3. job'[j] = job[j]
    BY <1>6, <2>1, AssignParts DEF AssignBreaks
  <2> QED
    BY <1>1, <2>1, <2>2, <2>3
<1>7. ASSUME ReleaseJobFromWorker PROVE Goal
  BY <1>1, <1>7, ReleaseParts
<1>8. ASSUME Expires PROVE Goal
  <2>1. CASE j # call.job
    BY <1>1, <1>8, <2>1, ExpireParts
  <2>2. CASE j = call.job
    <3>1. job' = job /\ call.seen.status # "running" /\ call.op \notin {"none", "undo"}
      BY <1>8, <2>2, ExpireParts
    <3>2. job[j] = call.seen \/ job[j].status = "cancelled"
      BY <2>2, <3>1 DEF ReadIsCurrent
    <3> QED
      BY <3>1, <3>2
  <2> QED
    BY <2>1, <2>2
<1>9. ASSUME NEW i \in QueueJobs, GatewayReads(i) \/ GatewaySets(i) \/ GatewayUnindexes(i) PROVE Goal
  <2>1. CASE i = j
    BY <1>1, <1>9, <2>1, GatewayParts
  <2>2. CASE i # j
    BY <1>1, <1>9, <2>2, GatewayParts
  <2> QED
    BY <2>1, <2>2
<1> HIDE DEF Goal
<1>10. Goal
  BY <1>2, <1>3, <1>4, <1>5, <1>6, <1>7, <1>8, <1>9, StepsOfOwners DEF GatewayWrites
<1> QED
  BY <1>10 DEF Goal

LEMMA OwnerInvHolds == SchedulingSpec => [](JobsTyped /\ OwnerInv)
<1>1. SchedulingInit => OwnerInv
  BY CallStarted DEF SchedulingInit, QueueInit, OwnerInv, OneIndex, Unowned, FreshCall, ReadIsCurrent, RunningIsIndexed
<1>2. JobsTyped /\ OwnerInv /\ [SchedulingNext]_schedVars => JobsTyped' /\ OwnerInv'
  BY JobsKeepTypes, OneIndexKept, UnownedKept, FreshCallKept, ReadIsCurrentKept, RunningIsIndexedKept DEF OwnerInv
<1> QED
  BY <1>1, <1>2, JobsTypedInit, PTL DEF SchedulingSpec

\* No order of racing requests, cancellations, timeouts, rollbacks and restarts
\* puts a job into the index of two workers, or a running job out of the index
\* of its own (job_queue.py:390, jobs.py:470).
THEOREM JobsHaveOneOwner == SchedulingSpec => []OneOwner
<1>1. OwnerInv => OneOwner
  BY DEF OwnerInv, OneIndex, RunningIsIndexed, OneOwner
<1> QED
  BY <1>1, OwnerInvHolds, PTL

-----------------------------------------------------------------------------
(***************************************************************************)
(* What was handed out.  A request that is in the queue's methods owns the *)
(* call they make, and a job that was requested or handed out has its      *)
(* submission behind it, the only call that makes a job wait.              *)
(***************************************************************************)
CallOfRequest ==
  \A w \in Workers :
    /\ request[w].pc = "assigning" => call.op = "assign" /\ call.worker = w /\ call.job = request[w].job
    /\ request[w].pc = "rollback" => call.op \in {"undo", "release"} /\ call.worker = w /\ call.job = request[w].job

\* Job j is past its submission.
Submitted(j) == job[j] \in JobInfo /\ ~(call.op \in {"submit", "validate"} /\ call.job = j)

RequestsSubmitted == \A w \in Workers : request[w].pc # "idle" => Submitted(request[w].job)
HandedSubmitted == \A j \in handed : j \in QueueJobs /\ Submitted(j)

LEMMA CallOfRequestKept ==
  ASSUME JobsTyped, CallOfRequest, [SchedulingNext]_schedVars
  PROVE  CallOfRequest'
<1> USE DEF JobsTyped, RequestsTyped
<1>1. CASE UNCHANGED <<call, request>>
  BY <1>1 DEF CallOfRequest
<1>2. ASSUME UNCHANGED request, \A w \in Workers : request[w].pc \notin {"assigning", "rollback"}
      PROVE  CallOfRequest'
  BY <1>2 DEF CallOfRequest
<1>3. ASSUME call.op \notin {"assign", "undo", "release"}
      PROVE  \A w \in Workers : request[w].pc \notin {"assigning", "rollback"}
  BY <1>3 DEF CallOfRequest
<1>4. ASSUME NEW w \in Workers, request' = [request EXCEPT ![w] = NoRequest],
             \/ UNCHANGED call
             \/ request[w].pc \in {"assigning", "rollback"} /\ call' = NoCall
      PROVE  CallOfRequest'
  BY <1>4, CallStarted DEF CallOfRequest, NoRequest
<1>5. ASSUME NEW w \in Workers, NEW pc \in RequestPcs, request' = [request EXCEPT ![w].pc = pc]
      PROVE  /\ request'[w].pc = pc /\ request'[w].job = request[w].job
             /\ \A v \in Workers : v # w => request'[v] = request[v]
  BY <1>5
<1>6. ASSUME NEW j \in QueueJobs, NEW p \in Levels, InitiateTraining(j, p) PROVE CallOfRequest'
  BY <1>2, <1>3, <1>6, CallStarted DEF InitiateTraining, SubmitJob
<1>7. ASSUME FinishInitiate \/ InitiateFails PROVE CallOfRequest'
  BY <1>2, <1>3, <1>7 DEF FinishInitiate, InitiateFails, SubmitBreaks, SubmitIndexes, MarkValidationComplete
<1>8. ASSUME NEW w \in Workers, NEW j \in QueueJobs, RequestTask(w, j) PROVE CallOfRequest'
  <2>1. call.op = "none" /\ call' = call /\ request' = [request EXCEPT ![w] = [pc |-> "sharding", job |-> j]]
    BY <1>8, CallStarted DEF RequestTask, queueVars
  <2> QED
    BY <1>3, <2>1 DEF CallOfRequest
<1>9. ASSUME NEW w \in Workers, ShardingFails(w) PROVE CallOfRequest'
  BY <1>4, <1>9 DEF ShardingFails, queueVars
<1>10. ASSUME NEW w \in Workers, RequestAssign(w) PROVE CallOfRequest'
  <2>1. CASE Read("assign", request[w].job, w) /\ request' = [request EXCEPT ![w].pc = "assigning"]
    <3>1. call.op = "none" /\ call'.op = "assign" /\ call'.worker = w /\ call'.job = request[w].job
      BY <2>1, CallStarted DEF Read
    <3>2. "assigning" \in RequestPcs
      BY DEF RequestPcs
    <3> QED
      BY <1>3, <1>5, <2>1, <3>1, <3>2 DEF CallOfRequest
  <2>2. CASE Reply(w) /\ UNCHANGED queueVars
    BY <1>4, <2>2 DEF Reply, queueVars
  <2> QED
    BY <1>10, <2>1, <2>2 DEF RequestAssign
<1>11. ASSUME NEW w \in Workers, FinishAssign(w) PROVE CallOfRequest'
  <2>1. request[w].pc = "assigning" /\ call.op = "assign" /\ call.worker = w /\ call.job = request[w].job
    BY <1>11 DEF FinishAssign, CallOfRequest
  <2>2. CASE Return /\ Reply(w)
    BY <1>4, <2>1, <2>2 DEF Return, Reply
  <2>3. CASE request' = [request EXCEPT ![w].pc = "rollback"] /\ call' = [call EXCEPT !.op = "undo"]
    <3>1. call'.op = "undo" /\ call'.worker = w /\ call'.job = request[w].job
      BY <2>1, <2>3, CallStarted, CallParts DEF Calls
    <3>2. "rollback" \in RequestPcs
      BY DEF RequestPcs
    <3>3. \A v \in Workers : v # w => request[v].pc \notin {"assigning", "rollback"}
      BY <2>1 DEF CallOfRequest
    <3> QED
      BY <1>5, <2>3, <3>1, <3>2, <3>3 DEF CallOfRequest
  <2> QED
    BY <1>11, <2>2, <2>3 DEF FinishAssign
<1>12. ASSUME NEW w \in Workers, AssignFails(w) PROVE CallOfRequest'
  BY <1>4, <1>12 DEF AssignFails, Reply
<1>13. ASSUME NEW w \in Workers, Rollback(w) PROVE CallOfRequest'
  <2>1. call.op = "undo" /\ UNCHANGED request /\ call' = [call EXCEPT !.op = "release", !.seen = job[call.job]]
    BY <1>13 DEF Rollback
  <2>2. call'.op = "release" /\ call'.worker = call.worker /\ call'.job = call.job
    BY <2>1, CallStarted, CallParts DEF Calls
  <2> QED
    BY <2>1, <2>2 DEF CallOfRequest
<1>14. ASSUME NEW w \in Workers, FinishRollback(w) PROVE CallOfRequest'
  BY <1>4, <1>14 DEF FinishRollback, ReleaseJobFromWorker, Return, Reply
<1>15. ASSUME NEW w \in Workers, NEW g \in Groups, Register(w, g) PROVE CallOfRequest'
  BY <1>1, <1>15 DEF Register, queueVars
<1>16. ASSUME NEW j \in QueueJobs, Gateway(j) PROVE CallOfRequest'
  BY <1>1, <1>16 DEF Gateway, GatewayReads, GatewaySets, GatewayUnindexes
<1>17. ASSUME NEW j \in QueueJobs, MaintainQueue(j) PROVE CallOfRequest'
  <2>1. call = NoCall /\ UNCHANGED request
    BY <1>17 DEF MaintainQueue, Read
  <2> QED
    BY <1>2, <1>3, <2>1, CallStarted
<1>18. ASSUME FinishMaintenance PROVE CallOfRequest'
  <2>1. call.op \in {"cancel", "expire", "timeout", "release"} /\ UNCHANGED request
    BY <1>18 DEF FinishMaintenance, CancelJob, ExpireValidation, ExpireExecution, ReleaseJobFromWorker
  <2>2. \A w \in Workers : request[w].pc \notin {"assigning", "rollback"}
    BY <1>18, <2>1 DEF FinishMaintenance, CallOfRequest
  <2> QED
    BY <1>2, <2>1, <2>2
<1>19. ASSUME MaintainPools PROVE CallOfRequest'
  BY <1>1, <1>19 DEF MaintainPools, queueVars
<1>20. ASSUME Restart PROVE CallOfRequest'
  BY <1>20 DEF Restart, NoRequest, CallOfRequest
<1>21. CASE UNCHANGED schedVars
  BY <1>1, <1>21 DEF schedVars, queueVars
<1> QED
  BY <1>6, <1>7, <1>8, <1>9, <1>10, <1>11, <1>12, <1>13, <1>14, <1>15, <1>16, <1>17, <1>18, <1>19, <1>20, <1>21
     DEF SchedulingNext

LEMMA SubmittedStays ==
  ASSUME JobsTyped, [SchedulingNext]_schedVars, NEW j \in QueueJobs, Submitted(j)
  PROVE  Submitted(j)'
<1> USE DEF JobsTyped
<1>1. job[j] \in JobInfo /\ job'[j] \in JobInfo /\ ~(call.op \in {"submit", "validate"} /\ call.job = j)
  BY RecordsKept DEF Submitted
<1>2. SUFFICES ASSUME call'.op \in {"submit", "validate"}, call'.job = j PROVE FALSE
  BY <1>1 DEF Submitted
<1>3. CASE call' = call \/ call' = NoCall
  BY <1>1, <1>2, <1>3, CallStarted
<1>4. ASSUME NEW i \in QueueJobs, NEW p \in Levels, SubmitJob(i, p) PROVE FALSE
  BY <1>1, <1>2, <1>4, AbsentJob DEF SubmitJob
<1>5. CASE SubmitIndexes
  BY <1>1, <1>2, <1>5, CallStarted, CallParts DEF SubmitIndexes, Calls
<1>6. CASE call.op = "assign" /\ call' = [call EXCEPT !.op = "undo"]
  BY <1>2, <1>6, CallStarted, CallParts DEF Calls
<1>7. ASSUME NEW w \in Workers, Rollback(w) PROVE FALSE
  BY <1>2, <1>7, CallStarted, CallParts DEF Rollback, Calls
<1>8. ASSUME NEW w \in Workers, Read("assign", request[w].job, w) PROVE FALSE
  BY <1>2, <1>8 DEF Read
<1>9. ASSUME NEW i \in QueueJobs, MaintainQueue(i) PROVE FALSE
  BY <1>2, <1>9 DEF MaintainQueue, Read
<1> QED
  BY <1>3, <1>4, <1>5, <1>6, <1>7, <1>8, <1>9, StepsOfCalls

LEMMA RequestsStaySubmitted ==
  ASSUME JobsTyped, RequestsSubmitted, [SchedulingNext]_schedVars
  PROVE  RequestsSubmitted'
<1> USE DEF JobsTyped
<1> SUFFICES ASSUME NEW w \in Workers, request'[w].pc # "idle" PROVE Submitted(request[w].job)'
  BY DEF RequestsSubmitted
<1>1. ASSUME request[w].pc # "idle", request'[w].job = request[w].job
      PROVE  Submitted(request[w].job)'
  <2>1. request[w].job \in QueueJobs /\ Submitted(request[w].job)
    BY <1>1 DEF RequestsSubmitted, RequestsTyped
  <2>2. Submitted(request[w].job)'
    <3> DEFINE i == request[w].job
    <3>1. \A k \in QueueJobs : Submitted(k) => job'[k] \in JobInfo /\ ~(call'.op \in {"submit", "validate"} /\ call'.job = k)
      BY SubmittedStays DEF Submitted
    <3> QED
      BY <1>1, <2>1, <3>1 DEF Submitted
  <2> QED
    BY <1>1, <2>2
<1>2. ASSUME NEW j \in QueueJobs, RequestTask(w, j), request'[w].job = j
      PROVE  Submitted(request[w].job)'
  <2>1. job[j] \in JobInfo /\ job' = job /\ call' = NoCall
    BY <1>2 DEF RequestTask, Waiting, RecordsTyped, queueVars, redisVars
  <2> QED
    BY <1>2, <2>1, CallStarted DEF Submitted
<1> QED
  BY <1>1, <1>2, StepsOfRequests DEF NoRequest

\* A step hands out no job, or the one of a request, which waits no more unless
\* its assignment broke off.
LEMMA StepsOfHanded ==
  ASSUME JobsTyped, FreshCall, CallOfRequest, [SchedulingNext]_schedVars
  PROVE  /\ broken \subseteq broken'
         /\ \/ handed' = handed
            \/ \E w \in Workers, j \in QueueJobs :
                 /\ request[w].pc # "idle" /\ request[w].job = j
                 /\ handed' = handed \cup {j}
                 /\ j \in broken' \/ ~Waiting(j)'
<1> USE DEF JobsTyped
<1> DEFINE Goal == /\ broken \subseteq broken'
                   /\ \/ handed' = handed
                      \/ \E w \in Workers, j \in QueueJobs :
                           /\ request[w].pc # "idle" /\ request[w].job = j
                           /\ handed' = handed \cup {j}
                           /\ j \in broken' \/ ~Waiting(j)'
<1>1. ASSUME \E j \in QueueJobs, p \in Levels : InitiateTraining(j, p) PROVE Goal
  BY <1>1 DEF InitiateTraining, SubmitJob
<1>2. ASSUME FinishInitiate \/ InitiateFails PROVE Goal
  BY <1>2 DEF FinishInitiate, InitiateFails, SubmitBreaks, SubmitIndexes, MarkValidationComplete, Return
<1>3. ASSUME \E w \in Workers, j \in QueueJobs : RequestTask(w, j) PROVE Goal
  BY <1>3 DEF RequestTask, queueVars
<1>4. ASSUME NEW w \in Workers, ShardingFails(w) \/ Rollback(w) \/ \E g \in Groups : Register(w, g) PROVE Goal
  BY <1>4 DEF ShardingFails, Rollback, Register, queueVars
<1>0. ASSUME NEW w \in Workers, request[w].pc # "idle" PROVE request[w].job \in QueueJobs
  BY <1>0 DEF RequestsTyped
<1>5. ASSUME NEW w \in Workers, RequestAssign(w) PROVE Goal
  <2>1. CASE Read("assign", request[w].job, w) /\ UNCHANGED handed
    BY <2>1 DEF Read
  <2>2. CASE ~Waiting(request[w].job) /\ Reply(w) /\ UNCHANGED queueVars
    <3>1. PICK j \in QueueJobs : j = request[w].job
      BY <1>0, <1>5 DEF RequestAssign
    <3>2. ~Waiting(j)' /\ broken' = broken /\ handed' = handed \cup {j} /\ request[w].pc # "idle"
      BY <1>5, <2>2, <3>1 DEF RequestAssign, Reply, Waiting, queueVars, redisVars
    <3> QED
      BY <3>1, <3>2
  <2> QED
    BY <1>5, <2>1, <2>2 DEF RequestAssign
<1>6. ASSUME NEW w \in Workers, FinishAssign(w) PROVE Goal
  <2>1. /\ request[w].pc = "assigning" /\ call.op = "assign" /\ call.job = request[w].job
        /\ UpdateStatus(call.job, call.seen, "running", call.worker)
    BY <1>6 DEF FinishAssign, AssignJobToWorker, CallOfRequest
  <2>2. PICK j \in QueueJobs : j = request[w].job
    BY <1>0, <2>1
  <2>3. ~Waiting(j)'
    BY <2>1, <2>2, AssignParts DEF Waiting
  <2>4. broken' = broken /\ (handed' = handed \/ handed' = handed \cup {j})
    BY <1>6, <2>2 DEF FinishAssign, Return, Reply
  <2> QED
    BY <2>1, <2>2, <2>3, <2>4
<1>7. ASSUME NEW w \in Workers, AssignFails(w) PROVE Goal
  <2>1. request[w].pc = "assigning" /\ broken' = broken \cup {request[w].job} /\ handed' = handed \cup {request[w].job}
    BY <1>7 DEF AssignFails, AssignBreaks, Reply, CallOfRequest
  <2> QED
    BY <1>0, <2>1
<1>8. ASSUME NEW w \in Workers, FinishRollback(w) PROVE Goal
  <2>1. request[w].pc = "rollback" /\ call.job = request[w].job /\ handed' = handed \cup {request[w].job}
    BY <1>8 DEF FinishRollback, Reply, CallOfRequest
  <2>2. PICK j \in QueueJobs : j = request[w].job
    BY <1>0, <2>1
  <2>3. ~Waiting(j)' /\ broken' = broken
    BY <1>8, <2>1, <2>2, ReleaseParts DEF FinishRollback, Waiting
  <2> QED
    BY <2>1, <2>2, <2>3
<1>9. ASSUME NEW j \in QueueJobs, Gateway(j) \/ MaintainQueue(j) PROVE Goal
  BY <1>9 DEF Gateway, GatewayReads, GatewaySets, GatewayUnindexes, MaintainQueue, Read
<1>10. ASSUME FinishMaintenance \/ MaintainPools PROVE Goal
  BY <1>10 DEF FinishMaintenance, CancelJob, ExpireValidation, ExpireExecution, ReleaseJobFromWorker, Return,
       MaintainPools, queueVars
<1>11. ASSUME Restart \/ UNCHANGED schedVars PROVE Goal
  BY <1>11 DEF Restart, schedVars, queueVars
<1> HIDE DEF Goal
<1>12. Goal
  BY <1>1, <1>2, <1>3, <1>4, <1>5, <1>6, <1>7, <1>8, <1>9, <1>10, <1>11 DEF SchedulingNext
<1> QED
  BY <1>12 DEF Goal

TakenInv == CallOfRequest /\ RequestsSubmitted /\ HandedSubmitted /\ HandedOutIsTaken

LEMMA TakenInvKept ==
  ASSUME JobsTyped, FreshCall, TakenInv, [SchedulingNext]_schedVars
  PROVE  TakenInv'
<1> USE DEF TakenInv
<1>1. CallOfRequest' /\ RequestsSubmitted'
  BY CallOfRequestKept, RequestsStaySubmitted
<1>2. \A j \in handed : j \in QueueJobs /\ Submitted(j)'
  BY SubmittedStays DEF HandedSubmitted
<1>3. \A w \in Workers : request[w].pc # "idle" => request[w].job \in QueueJobs
  BY DEF JobsTyped, RequestsTyped
<1>4. \A j \in QueueJobs : Submitted(j) => Submitted(j)'
  BY SubmittedStays
<1>5. HandedSubmitted'
  BY <1>2, <1>3, <1>4, StepsOfHanded DEF HandedSubmitted, RequestsSubmitted, Submitted
<1>6. ASSUME NEW j \in handed, j \notin broken PROVE ~Waiting(j)'
  <2>1. j \in QueueJobs /\ job[j] \in JobInfo /\ ~Waiting(j) /\ ~(call.op \in {"submit", "validate"} /\ call.job = j)
    BY <1>6 DEF HandedSubmitted, HandedOutIsTaken, Submitted
  <2> QED
    BY <2>1, JobsComeToWait, MarkParts, AbsentJob DEF Waiting
<1>7. HandedOutIsTaken'
  BY <1>6, StepsOfHanded DEF HandedOutIsTaken, Waiting
<1> QED
  BY <1>1, <1>5, <1>7

LEMMA TakenInvHolds == SchedulingSpec => []TakenInv
<1>1. SchedulingInit => TakenInv
  BY DEF SchedulingInit, NoRequest, TakenInv, CallOfRequest, RequestsSubmitted, HandedSubmitted, HandedOutIsTaken
<1>2. JobsTyped /\ OwnerInv /\ TakenInv /\ [SchedulingNext]_schedVars => TakenInv'
  BY TakenInvKept DEF OwnerInv
<1> QED
  BY <1>1, <1>2, OwnerInvHolds, PTL DEF SchedulingSpec

\* A job that RequestTask handed out is not offered again, though RequestTask
\* never looks at whether the assignment succeeded (grpc_server.py:371).
THEOREM HandedOutStaysTaken == SchedulingSpec => []HandedOutIsTaken
  BY TakenInvHolds, PTL DEF TakenInv

-----------------------------------------------------------------------------
(***************************************************************************)
(* A sorted set as a sequence: it has every member once, zrem takes a      *)
(* member out wherever it is, and zadd puts it last.                       *)
(***************************************************************************)
Distinct(q) == \A a, b \in DOMAIN q : q[a] = q[b] => a = b

LEMMA RemoveFirstFacts ==
  ASSUME NEW S, NEW q \in Seq(S), Distinct(q), NEW e
  PROVE  /\ RemoveFirst(q, e) \in Seq(S)
         /\ Distinct(RemoveFirst(q, e))
         /\ ToSet(RemoveFirst(q, e)) = ToSet(q) \ {e}
<1> DEFINE r == RemoveFirst(q, e)
<1>0. DOMAIN q = 1..Len(q) /\ Len(q) \in Nat /\ \A i \in 1..Len(q) : q[i] \in S
  OBVIOUS
<1>1. ASSUME ~ \E i \in 1..Len(q) : q[i] = e
      PROVE  r = q
  BY <1>1 DEF RemoveFirst
<1>2. ASSUME NEW k \in 1..Len(q), q[k] = e
      PROVE  /\ r \in Seq(S) /\ Len(r) = Len(q) - 1
             /\ \A i \in 1..Len(r) : r[i] = q[IF i < k THEN i ELSE i + 1]
  <2>1. {i \in 1..Len(q) : q[i] = e} = {k}
    BY <1>0, <1>2 DEF Distinct
  <2>2. Min({k}) = k
    BY DEF Min
  <2>3. SelectInSeq(q, LAMBDA v : v = e) = k
    BY <2>1, <2>2 DEF SelectInSeq
  <2>4. r = RemoveAt(q, k)
    BY <1>2, <2>3 DEF RemoveFirst
  <2> QED
    BY <2>4, RemoveAtFacts
<1> HIDE DEF r
<1>3. ASSUME NEW k \in 1..Len(q), q[k] = e
      PROVE  Distinct(r) /\ ToSet(r) = ToSet(q) \ {e}
  <2>1. /\ r \in Seq(S) /\ Len(r) = Len(q) - 1 /\ DOMAIN r = 1..Len(r)
        /\ \A i \in 1..Len(r) : r[i] = q[IF i < k THEN i ELSE i + 1]
    BY <1>2, <1>3
  <2>2. Distinct(r)
    <3>1. SUFFICES ASSUME NEW a \in 1..Len(r), NEW b \in 1..Len(r), r[a] = r[b] PROVE a = b
      BY <2>1 DEF Distinct
    <3> DEFINE m == IF a < k THEN a ELSE a + 1
               n == IF b < k THEN b ELSE b + 1
    <3>2. m \in DOMAIN q /\ n \in DOMAIN q /\ (m = n => a = b)
      BY <1>0, <2>1
    <3>3. q[m] = q[n]
      BY <2>1, <3>1
    <3> QED
      BY <3>2, <3>3 DEF Distinct
  <2>3. ASSUME NEW i \in 1..Len(q), i # k PROVE q[i] \in ToSet(r)
    <3>1. PICK n \in 1..Len(r) : i = IF n < k THEN n ELSE n + 1
      <4>1. i < k => i \in 1..Len(r)
        BY <1>0, <2>1
      <4>2. i > k => i - 1 \in 1..Len(r) /\ ~(i - 1 < k) /\ i = (i - 1) + 1
        BY <1>0, <2>1
      <4> QED
        BY <1>0, <2>3, <4>1, <4>2
    <3> QED
      BY <2>1, <3>1 DEF ToSet
  <2>4. ASSUME NEW i \in 1..Len(r) PROVE r[i] \in ToSet(q) /\ r[i] # e
    <3> DEFINE n == IF i < k THEN i ELSE i + 1
    <3>1. n \in 1..Len(q) /\ n # k /\ r[i] = q[n]
      BY <1>0, <2>1
    <3> QED
      BY <1>0, <1>3, <3>1 DEF ToSet, Distinct
  <2> QED
    <3>1. ToSet(r) \subseteq ToSet(q) \ {e}
      BY <2>1, <2>4 DEF ToSet
    <3>2. ToSet(q) \ {e} \subseteq ToSet(r)
      BY <1>0, <1>3, <2>3 DEF ToSet
    <3> QED
      BY <2>2, <3>1, <3>2
<1>4. CASE \E i \in 1..Len(q) : q[i] = e
  BY <1>2, <1>3, <1>4 DEF r
<1>5. CASE ~ \E i \in 1..Len(q) : q[i] = e
  <2>1. e \notin ToSet(q)
    BY <1>0, <1>5 DEF ToSet
  <2> QED
    BY <1>1, <1>5, <2>1 DEF r
<1> QED
  BY <1>4, <1>5

LEMMA AppendFacts ==
  ASSUME NEW S, NEW q \in Seq(S), Distinct(q), NEW e \in S, e \notin ToSet(q)
  PROVE  /\ Append(q, e) \in Seq(S)
         /\ Distinct(Append(q, e))
         /\ ToSet(Append(q, e)) = ToSet(q) \cup {e}
<1> DEFINE r == Append(q, e)
<1>1. /\ DOMAIN q = 1..Len(q) /\ Len(q) \in Nat
      /\ r \in Seq(S) /\ DOMAIN r = 1..(Len(q) + 1)
      /\ r[Len(q) + 1] = e /\ \A i \in 1..Len(q) : r[i] = q[i]
  OBVIOUS
<1> HIDE DEF r
<1>2. \A i \in 1..(Len(q) + 1) : i \in 1..Len(q) \/ i = Len(q) + 1
  BY <1>1
<1>3. Distinct(r)
  BY <1>1, <1>2 DEF Distinct, ToSet
<1>4. ToSet(r) = ToSet(q) \cup {e}
  <2>1. Len(q) + 1 \in DOMAIN r /\ 1..Len(q) \subseteq DOMAIN r
    BY <1>1
  <2> QED
    BY <1>1, <1>2, <2>1 DEF ToSet
<1> QED
  BY <1>1, <1>3, <1>4 DEF r

-----------------------------------------------------------------------------
(***************************************************************************)
(* What the queues hold.  A sorted set holds a job once, only in the queue *)
(* of the job's own priority, and no step changes a job's priority.        *)
(***************************************************************************)
Restarts ==
  /\ call' = NoCall
  /\ broken' = IF call = NoCall THEN broken ELSE broken \cup {call.job}
  /\ UNCHANGED <<redisVars, cancel>>

RollbackReads ==
  /\ call.op = "undo"
  /\ call' = [call EXCEPT !.op = "release", !.seen = job[call.job]]
  /\ UNCHANGED <<redisVars, cancel, broken>>

\* A method reads job j, having been called for a reason.
Starts(op, j, w) ==
  /\ Read(op, j, w)
  /\ \/ op = "assign" /\ w \in Workers /\ Waiting(j)
     \/ op = "cancel" /\ ~Terminal(job[j])
     \/ op = "expire" /\ j \in unvalidated
     \/ op = "timeout"
     \/ op = "release" /\ w \in Workers /\ job[j].worker = w

QueueStep ==
  \/ \E j \in QueueJobs, p \in Levels : SubmitJob(j, p)
  \/ SubmitIndexes
  \/ \E n \in 0..2 : SubmitBreaks(n)
  \/ MarkValidationComplete
  \/ Assigns
  \/ \E written \in BOOLEAN : AssignBreaks(written) /\ call' = NoCall
  \/ ReleaseJobFromWorker
  \/ Expires
  \/ \E j \in QueueJobs : GatewayReads(j) \/ GatewaySets(j) \/ GatewayUnindexes(j)
  \/ \E op \in Methods, j \in QueueJobs, w \in Workers \cup {NoWorker} : Starts(op, j, w)
  \/ RollbackReads
  \/ Restarts
  \/ UNCHANGED queueVars

LEMMA StepsOfQueue ==
  ASSUME JobsTyped, [SchedulingNext]_schedVars
  PROVE  QueueStep
<1> USE DEF JobsTyped
<1>1. ASSUME \E j \in QueueJobs, p \in Levels : InitiateTraining(j, p) PROVE QueueStep
  BY <1>1 DEF InitiateTraining, QueueStep
<1>2. ASSUME FinishInitiate \/ InitiateFails PROVE QueueStep
  BY <1>2 DEF FinishInitiate, InitiateFails, QueueStep
<1>3. ASSUME \E w \in Workers, j \in QueueJobs : RequestTask(w, j) PROVE QueueStep
  BY <1>3 DEF RequestTask, QueueStep
<1>4. ASSUME NEW w \in Workers, ShardingFails(w) \/ \E g \in Groups : Register(w, g) PROVE QueueStep
  BY <1>4 DEF ShardingFails, Register, QueueStep
<1>5. ASSUME NEW w \in Workers, RequestAssign(w) PROVE QueueStep
  <2>1. CASE UNCHANGED queueVars
    BY <2>1 DEF QueueStep
  <2>2. CASE Waiting(request[w].job) /\ Read("assign", request[w].job, w)
    <3>1. request[w].job \in QueueJobs
      BY <1>5 DEF RequestAssign, RequestsTyped
    <3>2. Starts("assign", request[w].job, w) /\ "assign" \in Methods
      BY <2>2 DEF Starts, Methods
    <3> QED
      BY <3>1, <3>2 DEF QueueStep
  <2> QED
    BY <1>5, <2>1, <2>2 DEF RequestAssign
<1>6. ASSUME NEW w \in Workers, FinishAssign(w) \/ AssignFails(w) PROVE QueueStep
  BY <1>6 DEF FinishAssign, AssignFails, Return, Assigns, QueueStep
<1>7. ASSUME NEW w \in Workers, Rollback(w) \/ FinishRollback(w) PROVE QueueStep
  BY <1>7 DEF Rollback, FinishRollback, RollbackReads, QueueStep
<1>8. ASSUME NEW j \in QueueJobs, Gateway(j) PROVE QueueStep
  BY <1>8 DEF Gateway, QueueStep
<1>9. ASSUME NEW j \in QueueJobs, MaintainQueue(j) PROVE QueueStep
  <2>1. {"cancel", "expire", "timeout", "release"} \subseteq Methods
    BY DEF Methods
  <2>2. \E op \in Methods, w \in Workers \cup {NoWorker} : Starts(op, j, w)
    BY <1>9, <2>1 DEF MaintainQueue, Starts
  <2> QED
    BY <2>2 DEF QueueStep
<1>10. ASSUME FinishMaintenance PROVE QueueStep
  BY <1>10 DEF FinishMaintenance, Expires, QueueStep
<1>11. ASSUME MaintainPools \/ UNCHANGED schedVars PROVE QueueStep
  BY <1>11 DEF MaintainPools, schedVars, QueueStep
<1>12. ASSUME Restart PROVE QueueStep
  <2>1. Restarts
    BY <1>12 DEF Restart, Restarts
  <2> QED
    BY <2>1 DEF QueueStep
<1> HIDE DEF JobsTyped
<1> QED
  BY <1>1, <1>2, <1>3, <1>4, <1>5, <1>6, <1>7, <1>8, <1>9, <1>10, <1>11, <1>12 DEF SchedulingNext

QueuesProper ==
  /\ queue \in [Levels -> Seq(QueueJobs)]
  /\ \A p \in Levels : Distinct(queue[p])

OwnQueue == \A p \in Levels : \A j \in ToSet(queue[p]) : job[j] # NoJob /\ job[j].level = p

LevelsKept ==
  /\ call # NoCall => call.seen.level = job[call.job].level
  /\ \A j \in QueueJobs :
       /\ cancel[j].pc \in {"read", "set"} => job[j] # NoJob /\ cancel[j].seen.level = job[j].level
       /\ job[j] = NoJob => cancel[j].pc = "idle"

\* A job that does not run yet has no worker.
NobodysYet(rec) == rec.status \in {"pending", "validating", "waiting"} => rec.worker = NoWorker
NobodysJobs ==
  /\ \A j \in QueueJobs : job[j] # NoJob => NobodysYet(job[j])
  /\ call # NoCall => NobodysYet(call.seen)

InSubmission(j) == call.op \in {"submit", "validate"} /\ call.job = j

\* Only a submission that broke off leaves a job awaiting its validation.
AwaitsValidation ==
  /\ \A j \in unvalidated : j \in QueueJobs /\ (j \in broken \/ (call.op = "validate" /\ call.job = j))
  /\ call.op = "expire" => call.job \in broken

Submitting ==
  call.op = "submit" =>
    /\ ~Queued(call.job)
    /\ call.job \notin broken =>
         job[call.job] = call.seen /\ call.seen.status = "pending" /\ cancel[call.job].pc = "idle"

Validating ==
  call.op = "validate" /\ call.job \notin broken =>
    /\ call.seen.status = "pending"
    /\ cancel[call.job].pc \in {"idle", "read"} => job[call.job] = call.seen
    /\ cancel[call.job].pc # "done" => call.job \in ToSet(queue[job[call.job].level])

\* Where a job is: nowhere after its cancellation, and otherwise, unless it is
\* being submitted, in its queue just when it waits.
Place(j) ==
  /\ cancel[j].pc = "done" /\ j \notin broken => ~Queued(j)
  /\ job[j] # NoJob /\ j \notin broken /\ ~InSubmission(j) =>
       /\ Waiting(j) /\ cancel[j].pc = "idle" => j \in ToSet(queue[job[j].level])
       /\ Queued(j) => Waiting(j) \/ (job[j].status = "cancelled" /\ cancel[j].pc = "set")

\* What a method may have read of a job that is in a queue when it comes to write.
ReadWhileQueued ==
  call.op \notin {"none", "submit", "validate"} /\ call.job \notin broken /\ Queued(call.job) =>
    /\ call.op # "undo"
    /\ \/ call.seen.status = "cancelled"
       \/ call.seen.status = "waiting" /\ call.op # "release"

QueueInv ==
  /\ QueuesProper /\ OwnQueue /\ LevelsKept /\ NobodysJobs /\ AwaitsValidation /\ Submitting
  /\ Validating /\ ReadWhileQueued /\ \A j \in QueueJobs : Place(j)

LEMMA UnqueueFacts ==
  ASSUME QueuesProper, NEW j
  PROVE  /\ Unqueue(j) \in [Levels -> Seq(QueueJobs)]
         /\ \A p \in Levels : /\ Distinct(Unqueue(j)[p])
                              /\ ToSet(Unqueue(j)[p]) = ToSet(queue[p]) \ {j}
<1> DEFINE r(p) == RemoveFirst(queue[p], j)
<1>1. \A p \in Levels : r(p) \in Seq(QueueJobs) /\ Distinct(r(p)) /\ ToSet(r(p)) = ToSet(queue[p]) \ {j}
  BY RemoveFirstFacts DEF QueuesProper
<1>2. Unqueue(j) = [p \in Levels |-> r(p)]
  BY DEF Unqueue
<1> HIDE DEF r
<1> QED
  BY <1>1, <1>2

LEMMA EnqueueFacts ==
  ASSUME QueuesProper, NEW j \in QueueJobs, NEW p \in Levels
  PROVE  /\ Enqueue(j, p) \in [Levels -> Seq(QueueJobs)]
         /\ \A q \in Levels : /\ Distinct(Enqueue(j, p)[q])
                              /\ ToSet(Enqueue(j, p)[q]) = IF q = p THEN ToSet(queue[p]) \cup {j} ELSE ToSet(queue[q])
<1> DEFINE r == RemoveFirst(queue[p], j)
           a == Append(r, j)
<1>1. r \in Seq(QueueJobs) /\ Distinct(r) /\ ToSet(r) = ToSet(queue[p]) \ {j}
  BY RemoveFirstFacts DEF QueuesProper
<1> HIDE DEF r
<1>2. a \in Seq(QueueJobs) /\ Distinct(a) /\ ToSet(a) = ToSet(r) \cup {j}
  BY <1>1, AppendFacts
<1>3. ToSet(a) = ToSet(queue[p]) \cup {j}
  BY <1>1, <1>2
<1>4. Enqueue(j, p) = [queue EXCEPT ![p] = a]
  BY DEF Enqueue, r
<1> HIDE DEF a
<1> QED
  BY <1>2, <1>3, <1>4 DEF QueuesProper

\* The gateway takes a cancelled job out of the one queue it can be in.
LEMMA UnindexFacts ==
  ASSUME QueuesProper, OwnQueue, LevelsKept, JobsTyped, NEW j \in QueueJobs, GatewayUnindexes(j)
  PROVE  /\ QueuesProper'
         /\ \A p \in Levels : ToSet(queue'[p]) = ToSet(queue[p]) \ {j}
<1> DEFINE l == cancel[j].seen.level
           r == RemoveFirst(queue[l], j)
<1>1. l \in Levels /\ l = job[j].level
  <2>1. cancel[j] \in Cancels /\ cancel[j].pc = "set"
    BY DEF GatewayUnindexes, JobsTyped, RecordsTyped
  <2>2. cancel[j].seen \in JobInfo
    BY <2>1 DEF Cancels, NoCancel
  <2> QED
    BY <2>1, <2>2 DEF JobInfo, LevelsKept
<1>2. r \in Seq(QueueJobs) /\ Distinct(r) /\ ToSet(r) = ToSet(queue[l]) \ {j}
  BY <1>1, RemoveFirstFacts DEF QueuesProper
<1>3. queue' = [queue EXCEPT ![l] = r]
  BY DEF GatewayUnindexes
<1>4. \A p \in Levels : p # l => j \notin ToSet(queue[p])
  BY <1>1 DEF OwnQueue
<1> HIDE DEF l, r
<1> QED
  BY <1>1, <1>2, <1>3, <1>4 DEF QueuesProper

\* An update keeps the priority, and the worker unless the job starts to run.
LEMMA UpdateKeeps ==
  ASSUME RecordsTyped, NEW j \in QueueJobs, NEW rec \in JobInfo, NEW new \in QueueStatus,
         NEW w \in Workers \cup {NoWorker}, UpdateStatus(j, rec, new, w), ValidTransition(rec.status, new)
  PROVE  job'[j].level = rec.level /\ (new # "running" => job'[j].worker = rec.worker)
<1> DEFINE next == [rec EXCEPT !.status = new, !.worker = IF new = "running" THEN w ELSE @]
<1>1. next.level = rec.level /\ (new # "running" => next.worker = rec.worker)
  BY DEF JobInfo
<1>2. job' = [job EXCEPT ![j] = next]
  BY DEF UpdateStatus
<1> HIDE DEF next
<1> QED
  BY <1>1, <1>2 DEF RecordsTyped

LEMMA InQueuesAreJobs ==
  ASSUME QueuesProper, NEW p \in Levels, NEW j \in ToSet(queue[p])
  PROVE  j \in QueueJobs
  BY DEF QueuesProper, ToSet

\* Queues that only lose jobs hold their own jobs still.
LEMMA OwnQueueKept ==
  ASSUME JobsTyped, QueueInv,
         \A j \in QueueJobs : job[j] # NoJob => job'[j] # NoJob /\ job'[j].level = job[j].level,
         \A p \in Levels : ToSet(queue'[p]) \subseteq ToSet(queue[p])
  PROVE  OwnQueue'
<1> SUFFICES ASSUME NEW p \in Levels, NEW j \in ToSet(queue'[p])
             PROVE  job'[j] # NoJob /\ job'[j].level = p
  BY DEF OwnQueue
<1>1. j \in ToSet(queue[p]) /\ j \in QueueJobs
  BY InQueuesAreJobs DEF QueueInv
<1> QED
  BY <1>1 DEF QueueInv, OwnQueue

\* A job that a step has nothing to do with is where it was.
LEMMA OthersStay ==
  ASSUME JobsTyped, QueueInv, NEW j \in QueueJobs, job'[j] = job[j], cancel'[j] = cancel[j],
         j \in broken => j \in broken',
         \A p \in Levels : j \in ToSet(queue'[p]) <=> j \in ToSet(queue[p]),
         InSubmission(j) => InSubmission(j)'
  PROVE  Place(j)'
<1>1. Place(j) /\ (Queued(j)' <=> Queued(j)) /\ (Waiting(j)' <=> Waiting(j))
  BY DEF QueueInv, Queued, Waiting
<1>2. job[j] # NoJob => job[j].level \in Levels
  BY DEF JobsTyped, RecordsTyped, JobInfo
<1> QED
  BY <1>1, <1>2 DEF Place

\* InitiateTraining begins: the record alone.
LEMMA SubmitKeepsQueues ==
  ASSUME JobsTyped, QueueInv, NEW i \in QueueJobs, NEW l \in Levels, SubmitJob(i, l)
  PROVE  QueueInv'
<1> DEFINE rec == [status |-> "pending", level |-> l, worker |-> NoWorker, retries |-> 0]
<1>1. /\ rec.status = "pending" /\ rec.level = l /\ rec.worker = NoWorker /\ rec # NoJob
  BY AbsentJob DEF JobInfo, QueueStatus
<1>2. /\ call = NoCall /\ job[i] = NoJob
      /\ job' = [job EXCEPT ![i] = rec]
      /\ call' = [op |-> "submit", job |-> i, worker |-> NoWorker, seen |-> rec]
      /\ UNCHANGED <<queue, unvalidated, cancel, broken>>
  BY DEF SubmitJob
<1> HIDE DEF rec
<1>3. /\ job'[i] = rec /\ \A j \in QueueJobs : j # i => job'[j] = job[j]
      /\ call.op = "none" /\ call'.op = "submit" /\ call'.job = i /\ call'.seen = rec
  BY <1>2, CallStarted DEF JobsTyped, RecordsTyped
<1>4. ~Queued(i) /\ cancel[i].pc = "idle"
  BY <1>2 DEF Queued, QueueInv, OwnQueue, LevelsKept
<1>5. QueuesProper'
  BY <1>2 DEF QueueInv, QueuesProper
<1>6. OwnQueue'
  <2>1. \A p \in Levels : \A j \in ToSet(queue[p]) : j \in QueueJobs /\ j # i
    BY <1>2 DEF QueueInv, QueuesProper, OwnQueue, ToSet
  <2> QED
    BY <1>2, <1>3, <2>1 DEF QueueInv, OwnQueue
<1>7. LevelsKept'
  BY <1>1, <1>2, <1>3, <1>4 DEF QueueInv, LevelsKept
<1>8. NobodysJobs'
  BY <1>1, <1>2, <1>3 DEF QueueInv, NobodysJobs, NobodysYet
<1>9. AwaitsValidation'
  BY <1>2, <1>3 DEF QueueInv, AwaitsValidation
<1>10. Submitting' /\ Validating' /\ ReadWhileQueued'
  BY <1>1, <1>2, <1>3, <1>4 DEF Queued, Submitting, Validating, ReadWhileQueued
<1>11. ASSUME NEW j \in QueueJobs PROVE Place(j)'
  <2>1. CASE j = i
    BY <1>2, <1>3, <1>4, <2>1 DEF Place, InSubmission
  <2>2. CASE j # i
    BY <1>2, <1>3, <2>2, OthersStay DEF InSubmission
  <2> QED
    BY <2>1, <2>2
<1> QED
  BY <1>5, <1>6, <1>7, <1>8, <1>9, <1>10, <1>11 DEF QueueInv

\* ... its indexes, and the reading again.
LEMMA IndexingKeepsQueues ==
  ASSUME JobsTyped, QueueInv, SubmitIndexes
  PROVE  QueueInv'
<1> DEFINE i == call.job
<1>1. call # NoCall /\ i \in QueueJobs /\ call.seen \in JobInfo /\ job[i] \in JobInfo /\ call.op = "submit"
  BY CallStarted, CallParts DEF JobsTyped, SubmitIndexes
<1>2. /\ job' = job /\ cancel' = cancel /\ broken' = broken
      /\ unvalidated' = unvalidated \cup {i}
      /\ queue' = Enqueue(i, call.seen.level)
      /\ call'.op = "validate" /\ call'.job = i /\ call'.seen = job[i] /\ call' # NoCall
  BY <1>1, CallStarted, CallParts DEF SubmitIndexes, JobsTyped, Calls, NoCall
<1> DEFINE l == call.seen.level
<1>3. l \in Levels /\ job[i].level = l /\ job[i] # NoJob
  BY <1>1, AbsentJob DEF JobInfo, QueueInv, LevelsKept
<1>4. /\ QueuesProper'
      /\ \A p \in Levels : ToSet(queue'[p]) = IF p = l THEN ToSet(queue[p]) \cup {i} ELSE ToSet(queue[p])
  BY <1>1, <1>2, <1>3, EnqueueFacts DEF QueueInv, QueuesProper
<1>5. i \in ToSet(queue'[job[i].level])
  BY <1>3, <1>4
<1> HIDE DEF i, l
<1>8. OwnQueue'
  <2>1. ASSUME NEW p \in Levels, NEW j \in ToSet(queue'[p]) PROVE job[j] # NoJob /\ job[j].level = p
    <3>1. j \in ToSet(queue[p]) \/ (j = i /\ p = l)
      BY <1>4
    <3>2. OwnQueue
      BY DEF QueueInv
    <3> QED
      BY <1>3, <3>1, <3>2 DEF OwnQueue
  <2> QED
    BY <1>2, <2>1 DEF OwnQueue
<1>9. LevelsKept' /\ NobodysJobs'
  BY <1>1, <1>2, <1>3 DEF QueueInv, LevelsKept, NobodysJobs, NobodysYet
<1>10. AwaitsValidation' /\ Submitting' /\ ReadWhileQueued'
  BY <1>1, <1>2 DEF QueueInv, AwaitsValidation, Submitting, ReadWhileQueued
<1>11. i \notin broken => cancel[i].pc = "idle" /\ job[i].status = "pending"
  BY <1>1 DEF QueueInv, Submitting, i
<1>12. Validating'
  BY <1>1, <1>2, <1>5, <1>11 DEF Validating
<1>13. ASSUME NEW j \in QueueJobs PROVE Place(j)'
  <2>1. CASE j = i
    BY <1>1, <1>2, <1>11, <2>1 DEF Place, InSubmission
  <2>2. CASE j # i
    <3>1. \A p \in Levels : j \in ToSet(queue'[p]) <=> j \in ToSet(queue[p])
      BY <1>4, <2>2
    <3> QED
      BY <1>1, <1>2, <2>2, <3>1, OthersStay DEF InSubmission, i
  <2> QED
    BY <2>1, <2>2
<1> QED
  BY <1>4, <1>8, <1>9, <1>10, <1>12, <1>13 DEF QueueInv

\* A call ends, or turns to the rollback of an assignment, having written of
\* its own job alone.
LEMMA EndOfCallKeepsQueues ==
  ASSUME JobsTyped, QueueInv, call # NoCall, cancel' = cancel,
         NEW i \in QueueJobs, i = call.job,
         call' = NoCall \/ (call.op = "assign" /\ call' = [call EXCEPT !.op = "undo"] /\ ~Queued(i)'),
         \A j \in QueueJobs : j # i => job'[j] = job[j],
         job'[i] # NoJob, job'[i].level = job[i].level, NobodysYet(job'[i]),
         unvalidated' \subseteq unvalidated \cup {i}, broken \subseteq broken',
         i \in unvalidated' => i \in broken',
         QueuesProper',
         \A p \in Levels : \A j : j # i => (j \in ToSet(queue'[p]) <=> j \in ToSet(queue[p])),
         \A p \in Levels : i \in ToSet(queue'[p]) => p = job[i].level,
         Place(i)'
  PROVE  QueueInv'
<1>1. job[i] \in JobInfo /\ job[i] # NoJob
  BY CallParts, AbsentJob DEF JobsTyped
<1>2. /\ call'.op \in {"none", "undo"}
      /\ call' # NoCall => call'.seen = call.seen /\ call'.job = i /\ ~Queued(i)'
  BY CallStarted, CallParts DEF JobsTyped, Calls
<1>3. OwnQueue'
  <2>1. ASSUME NEW p \in Levels, NEW j \in ToSet(queue'[p]) PROVE job'[j] # NoJob /\ job'[j].level = p
    <3>1. CASE j = i
      BY <1>1, <2>1, <3>1
    <3>2. CASE j # i
      <4>1. j \in ToSet(queue[p]) /\ j \in QueueJobs
        BY <1>1, <2>1, <3>2, InQueuesAreJobs DEF QueueInv
      <4> QED
        BY <1>1, <3>2, <4>1 DEF QueueInv, OwnQueue
    <3> QED
      BY <3>1, <3>2
  <2> QED
    BY <2>1 DEF OwnQueue
<1>4. LevelsKept'
  BY <1>1, <1>2 DEF QueueInv, LevelsKept
<1>5. NobodysJobs'
  BY <1>1, <1>2 DEF QueueInv, NobodysJobs, NobodysYet
<1>6. AwaitsValidation'
  BY <1>1, <1>2 DEF QueueInv, AwaitsValidation
<1>7. Submitting' /\ Validating' /\ ReadWhileQueued'
  BY <1>2, CallStarted DEF Submitting, Validating, ReadWhileQueued
<1>8. ASSUME NEW j \in QueueJobs PROVE Place(j)'
  <2>1. CASE j = i
    BY <1>1, <2>1
  <2>2. CASE j # i
    <3>1. ~InSubmission(j)
      BY <2>2 DEF InSubmission
    <3> QED
      BY <1>1, <2>2, <3>1, OthersStay
  <2> QED
    BY <2>1, <2>2
<1> QED
  BY <1>3, <1>4, <1>5, <1>6, <1>7, <1>8 DEF QueueInv

LEMMA BrokenSubmissionKeepsQueues ==
  ASSUME JobsTyped, QueueInv, NEW n \in 0..2, SubmitBreaks(n)
  PROVE  QueueInv'
<1> DEFINE l == call.seen.level
<1>1. PICK i \in QueueJobs : i = call.job /\ call # NoCall /\ job[i] \in JobInfo /\ call.seen \in JobInfo
  BY CallStarted, CallParts DEF JobsTyped, SubmitBreaks
<1>2. l \in Levels /\ job[i].level = l /\ job[i] # NoJob
  BY <1>1, AbsentJob DEF JobInfo, QueueInv, LevelsKept
<1>3. /\ call' = NoCall /\ cancel' = cancel /\ job' = job /\ broken' = broken \cup {i}
      /\ unvalidated' \subseteq unvalidated \cup {i}
      /\ queue' = Enqueue(i, l) \/ queue' = queue
  BY <1>1 DEF SubmitBreaks
<1>4. /\ QueuesProper'
      /\ \A p \in Levels : \A j : j # i => (j \in ToSet(queue'[p]) <=> j \in ToSet(queue[p]))
      /\ \A p \in Levels : i \in ToSet(queue'[p]) => p = l
  <2>1. CASE queue' = Enqueue(i, l)
    <3> DEFINE next == Enqueue(i, l)
    <3>1. /\ next \in [Levels -> Seq(QueueJobs)]
          /\ \A p \in Levels : Distinct(next[p])
          /\ \A p \in Levels : ToSet(next[p]) = IF p = l THEN ToSet(queue[l]) \cup {i} ELSE ToSet(queue[p])
      BY <1>1, <1>2, EnqueueFacts DEF QueueInv
    <3> HIDE DEF next
    <3>2. QueuesProper' /\ \A p \in Levels : ToSet(queue'[p]) = IF p = l THEN ToSet(queue[p]) \cup {i} ELSE ToSet(queue[p])
      BY <2>1, <3>1 DEF QueuesProper, next
    <3>3. \A p \in Levels : i \in ToSet(queue[p]) => p = l
      BY <1>2 DEF QueueInv, OwnQueue
    <3> QED
      BY <3>2, <3>3
  <2>2. CASE queue' = queue
    BY <1>2, <2>2 DEF QueueInv, QueuesProper, OwnQueue
  <2> QED
    BY <1>3, <2>1, <2>2
<1>5. Place(i)'
  BY <1>1, <1>3 DEF Place
<1>6. NobodysYet(job[i])
  BY <1>1, <1>2 DEF QueueInv, NobodysJobs
<1> QED
  BY <1>1, <1>2, <1>3, <1>4, <1>5, <1>6, EndOfCallKeepsQueues

LEMMA ValidationKeepsQueues ==
  ASSUME JobsTyped, QueueInv, MarkValidationComplete
  PROVE  QueueInv'
<1>1. PICK i \in QueueJobs : i = call.job /\ call # NoCall /\ call.seen \in JobInfo /\ job[i] \in JobInfo /\ job[i] # NoJob
  BY CallStarted, CallParts, AbsentJob DEF JobsTyped, MarkValidationComplete
<1>2. /\ call.op = "validate" /\ call' = NoCall /\ UNCHANGED <<queue, cancel, broken>>
      /\ unvalidated' = unvalidated \ {i} /\ UpdateStatus(i, call.seen, "waiting", NoWorker)
  BY <1>1 DEF MarkValidationComplete, Return
<1> DEFINE moves == ValidTransition(call.seen.status, "waiting")
<1>3. /\ \A j \in QueueJobs : j # i => job'[j] = job[j]
      /\ moves => /\ job'[i] \in JobInfo /\ job'[i].status = "waiting" /\ job'[i].level = call.seen.level
                  /\ job'[i].worker = call.seen.worker
      /\ ~moves => job' = job
  BY <1>1, <1>2, UpdateWrites, UpdateKeeps DEF JobsTyped, QueueStatus
<1>4. job'[i] # NoJob /\ job'[i].level = job[i].level
  BY <1>1, <1>3, AbsentJob DEF QueueInv, LevelsKept
<1>5. NobodysYet(job'[i])
  <2>1. moves => call.seen.status \in {"pending", "validating"}
    BY <1>1 DEF ValidTransition, JobInfo, QueueStatus
  <2> QED
    BY <1>1, <1>3, <2>1 DEF QueueInv, NobodysJobs, NobodysYet
<1>6. Place(i)'
  <2>1. SUFFICES ASSUME i \notin broken PROVE Place(i)'
    BY <1>2 DEF Place
  <2>2. /\ call.seen.status = "pending"
        /\ cancel[i].pc # "done" => i \in ToSet(queue[job[i].level])
    BY <1>1, <1>2, <2>1 DEF QueueInv, Validating
  <2>3. moves
    BY <2>2 DEF ValidTransition
  <2>4. cancel[i].pc = "done" => ~Queued(i)
    BY <2>1 DEF QueueInv, Place
  <2> QED
    BY <1>2, <1>3, <1>4, <2>2, <2>3, <2>4 DEF Place, Queued, Waiting
<1>7. QueuesProper' /\ \A p \in Levels : i \in ToSet(queue'[p]) => p = job[i].level
  BY <1>2 DEF QueueInv, QueuesProper, OwnQueue
<1> QED
  BY <1>1, <1>2, <1>3, <1>4, <1>5, <1>6, <1>7, EndOfCallKeepsQueues

LEMMA AssignmentKeepsQueues ==
  ASSUME JobsTyped, FreshCall, QueueInv, Assigns
  PROVE  QueueInv'
<1>1. PICK i \in QueueJobs : i = call.job /\ call # NoCall /\ job[i] \in JobInfo /\ job[i] # NoJob /\ call.seen \in JobInfo
  BY CallStarted, CallParts, AbsentJob DEF JobsTyped, Assigns, AssignJobToWorker
<1>2. /\ call.op = "assign" /\ UNCHANGED <<unvalidated, cancel, broken>> /\ queue' = Unqueue(i)
      /\ UpdateStatus(i, call.seen, "running", call.worker)
      /\ call' = NoCall \/ call' = [call EXCEPT !.op = "undo"]
  BY <1>1 DEF Assigns, AssignJobToWorker
<1>3. /\ \A j \in QueueJobs : j # i => job'[j] = job[j]
      /\ job'[i].status = "running"
  BY <1>1, <1>2, AssignParts
<1>4. job'[i].level = job[i].level /\ job'[i] # NoJob
  <2>1. ValidTransition(call.seen.status, "running")
    BY <1>2 DEF FreshCall, ValidTransition
  <2>2. "running" \in QueueStatus /\ call.worker \in Workers \cup {NoWorker}
    BY <1>1, CallParts DEF QueueStatus, JobsTyped
  <2>3. job'[i].level = call.seen.level /\ job'[i] \in JobInfo
    BY <1>1, <1>2, <2>1, <2>2, UpdateKeeps, UpdateWrites DEF JobsTyped
  <2> QED
    BY <1>1, <2>3, AbsentJob DEF QueueInv, LevelsKept
<1>5. QueuesProper' /\ \A p \in Levels : ToSet(queue'[p]) = ToSet(queue[p]) \ {i}
  BY <1>2, UnqueueFacts DEF QueueInv, QueuesProper
<1>6. ~Queued(i)'
  BY <1>5 DEF Queued
<1>7. Place(i)'
  BY <1>3, <1>6 DEF Place, Waiting
<1>8. NobodysYet(job'[i])
  BY <1>3 DEF NobodysYet
<1>9. i \in unvalidated' => i \in broken'
  BY <1>1, <1>2 DEF QueueInv, AwaitsValidation
<1> QED
  BY <1>1, <1>2, <1>3, <1>4, <1>5, <1>6, <1>7, <1>8, <1>9, EndOfCallKeepsQueues

LEMMA BrokenAssignmentKeepsQueues ==
  ASSUME JobsTyped, FreshCall, QueueInv, NEW written \in BOOLEAN, AssignBreaks(written), call' = NoCall
  PROVE  QueueInv'
<1>1. PICK i \in QueueJobs : i = call.job /\ call # NoCall /\ job[i] \in JobInfo /\ job[i] # NoJob /\ call.seen \in JobInfo
  BY CallStarted, CallParts, AbsentJob DEF JobsTyped, AssignBreaks
<1>2. /\ call.op = "assign" /\ UNCHANGED <<queue, unvalidated, cancel>> /\ broken' = broken \cup {i}
      /\ job' = job \/ UpdateStatus(i, call.seen, "running", call.worker)
  BY <1>1 DEF AssignBreaks
<1>3. /\ \A j \in QueueJobs : j # i => job'[j] = job[j]
      /\ job'[i] # NoJob /\ job'[i].level = job[i].level /\ NobodysYet(job'[i])
  <2>1. CASE job' = job
    BY <1>1, <2>1 DEF QueueInv, NobodysJobs
  <2>2. CASE UpdateStatus(i, call.seen, "running", call.worker)
    <3>1. ValidTransition(call.seen.status, "running")
      BY <1>2 DEF FreshCall, ValidTransition
    <3>2. "running" \in QueueStatus /\ call.worker \in Workers \cup {NoWorker}
      BY <1>1, CallParts DEF QueueStatus, JobsTyped
    <3>3. job'[i].level = call.seen.level /\ job'[i] \in JobInfo /\ job'[i].status = "running"
      BY <1>1, <2>2, <3>1, <3>2, UpdateKeeps, UpdateWrites DEF JobsTyped
    <3>4. \A j \in QueueJobs : j # i => job'[j] = job[j]
      BY <1>1, <2>2, <3>2, UpdateWrites DEF JobsTyped
    <3> QED
      BY <1>1, <3>3, <3>4, AbsentJob DEF QueueInv, LevelsKept, NobodysYet
  <2> QED
    BY <1>2, <2>1, <2>2
<1>4. QueuesProper' /\ \A p \in Levels : i \in ToSet(queue'[p]) => p = job[i].level
  BY <1>2 DEF QueueInv, QueuesProper, OwnQueue
<1>5. Place(i)'
  BY <1>2 DEF Place
<1> QED
  BY <1>1, <1>2, <1>3, <1>4, <1>5, EndOfCallKeepsQueues

\* A method that comes to write finds the job it read, or finds it cancelled.
LEMMA WriterFinds ==
  ASSUME JobsTyped, ReadIsCurrent, QueueInv, call.op \notin {"none", "undo", "submit", "validate"},
         call.job \notin broken
  PROVE  /\ job[call.job] = call.seen \/ job[call.job].status = "cancelled"
         /\ Queued(call.job) => \/ job[call.job] = call.seen /\ call.seen.status = "waiting" /\ call.op # "release"
                                \/ job[call.job].status = "cancelled" /\ cancel[call.job].pc = "set"
<1>1. PICK i \in QueueJobs : i = call.job /\ job[i] \in JobInfo /\ job[i] # NoJob
  BY CallStarted, CallParts, AbsentJob DEF JobsTyped
<1>2. job[i] = call.seen \/ job[i].status = "cancelled"
  BY <1>1 DEF ReadIsCurrent
<1>3. Queued(i) => Waiting(i) \/ (job[i].status = "cancelled" /\ cancel[i].pc = "set")
  BY <1>1 DEF QueueInv, Place, InSubmission
<1>4. Queued(i) => \/ call.seen.status = "cancelled"
                   \/ call.seen.status = "waiting" /\ call.op # "release"
  BY <1>1 DEF QueueInv, ReadWhileQueued
<1>5. Waiting(i) => job[i].status = "waiting"
  BY DEF Waiting
<1> QED
  BY <1>1, <1>2, <1>3, <1>4, <1>5

LEMMA ReleaseKeepsQueues ==
  ASSUME JobsTyped, ReadIsCurrent, QueueInv, ReleaseJobFromWorker
  PROVE  QueueInv'
<1>1. PICK i \in QueueJobs : i = call.job /\ call # NoCall /\ job[i] \in JobInfo /\ job[i] # NoJob /\ call.seen \in JobInfo
  BY CallStarted, CallParts, AbsentJob DEF JobsTyped, ReleaseJobFromWorker
<1> DEFINE rec == Released(call.seen)
<1>2. /\ rec \in JobInfo /\ rec.status = call.seen.status /\ rec.level = call.seen.level /\ rec.worker = NoWorker
      /\ "failed" \in QueueStatus
  BY <1>1, ReleasedIsRecord DEF Released, JobInfo, QueueStatus
<1>3. /\ call.op = "release" /\ call' = NoCall /\ UNCHANGED <<queue, unvalidated, cancel, broken>>
      /\ IF ValidTransition(rec.status, "failed") THEN UpdateStatus(i, rec, "failed", NoWorker)
                                                  ELSE job' = [job EXCEPT ![i] = rec]
  BY <1>1 DEF ReleaseJobFromWorker, Return, Released
<1> HIDE DEF rec
<1>4. /\ \A j \in QueueJobs : j # i => job'[j] = job[j]
      /\ job'[i] \in JobInfo /\ job'[i].level = rec.level /\ job'[i].worker = NoWorker
      /\ job'[i].status = "failed" \/ (job'[i].status = rec.status /\ rec.status \in {"completed", "cancelled"})
  <2>1. CASE ValidTransition(rec.status, "failed")
    BY <1>2, <1>3, <2>1, UpdateWrites, UpdateKeeps DEF JobsTyped
  <2>2. CASE ~ValidTransition(rec.status, "failed")
    <3>1. rec.status \in {"completed", "cancelled"}
      BY <2>2 DEF ValidTransition
    <3> QED
      BY <1>2, <1>3, <2>2, <3>1 DEF JobsTyped, RecordsTyped
  <2> QED
    BY <2>1, <2>2
<1>5. job'[i] # NoJob /\ job'[i].level = job[i].level /\ NobodysYet(job'[i])
  BY <1>1, <1>2, <1>4, AbsentJob DEF QueueInv, LevelsKept, NobodysYet
<1>6. QueuesProper' /\ \A p \in Levels : i \in ToSet(queue'[p]) => p = job[i].level
  BY <1>3 DEF QueueInv, QueuesProper, OwnQueue
<1>7. i \in unvalidated' => i \in broken'
  BY <1>1, <1>3 DEF QueueInv, AwaitsValidation
<1>8. Place(i)'
  <2>1. ~Waiting(i)'
    BY <1>4 DEF Waiting
  <2>2. i \notin broken /\ Queued(i) => call.seen.status = "cancelled" /\ job[i].status = "cancelled" /\ cancel[i].pc = "set"
    BY <1>1, <1>3, WriterFinds DEF QueueInv, ReadWhileQueued
  <2>3. i \notin broken /\ Queued(i) => job'[i].status = "cancelled"
    <3>1. call.seen.status = "cancelled" => ~ValidTransition(rec.status, "failed")
      BY <1>2 DEF ValidTransition
    <3>2. call.seen.status = "cancelled" => job' = [job EXCEPT ![i] = rec]
      BY <1>3, <3>1
    <3> QED
      BY <1>2, <2>2, <3>2 DEF JobsTyped, RecordsTyped
  <2>4. i \notin broken /\ cancel[i].pc = "done" => ~Queued(i)
    BY DEF QueueInv, Place
  <2> QED
    BY <1>3, <2>1, <2>2, <2>3, <2>4 DEF Place, Queued
<1> QED
  BY <1>1, <1>3, <1>4, <1>5, <1>6, <1>7, <1>8, EndOfCallKeepsQueues

LEMMA ExpiryKeepsQueues ==
  ASSUME JobsTyped, ReadIsCurrent, QueueInv, Expires
  PROVE  QueueInv'
<1>1. PICK i \in QueueJobs : i = call.job /\ call # NoCall /\ job[i] \in JobInfo /\ job[i] # NoJob /\ call.seen \in JobInfo
  BY CallStarted, CallParts, AbsentJob DEF JobsTyped, Expires, CancelJob, ExpireValidation, ExpireExecution
<1>2. PICK new \in {"cancelled", "failed", "timeout"} :
        /\ UpdateStatus(i, call.seen, new, NoWorker)
        /\ \/ call.op = "cancel" /\ new = "cancelled" /\ queue' = Unqueue(i)
           \/ call.op = "expire" /\ queue' = queue
           \/ call.op = "timeout" /\ new = "timeout" /\ queue' = queue
  BY <1>1 DEF Expires, CancelJob, ExpireValidation, ExpireExecution
<1>3. call' = NoCall /\ UNCHANGED <<unvalidated, cancel, broken>>
  BY DEF Expires, CancelJob, ExpireValidation, ExpireExecution, Return
<1> DEFINE moves == ValidTransition(call.seen.status, new)
<1>4. /\ \A j \in QueueJobs : j # i => job'[j] = job[j]
      /\ moves => job'[i] \in JobInfo /\ job'[i].status = new /\ job'[i].level = call.seen.level
      /\ ~moves => job' = job
  BY <1>1, <1>2, UpdateWrites, UpdateKeeps DEF JobsTyped, QueueStatus
<1>5. job'[i] # NoJob /\ job'[i].level = job[i].level
  BY <1>1, <1>4, AbsentJob DEF QueueInv, LevelsKept
<1>6. NobodysYet(job'[i])
  BY <1>1, <1>4 DEF QueueInv, NobodysJobs, NobodysYet
<1>7. /\ QueuesProper'
      /\ \A p \in Levels : \A j : j # i => (j \in ToSet(queue'[p]) <=> j \in ToSet(queue[p]))
      /\ \A p \in Levels : i \in ToSet(queue'[p]) => i \in ToSet(queue[p]) /\ p = job[i].level
  <2>1. \A p \in Levels : i \in ToSet(queue[p]) => p = job[i].level
    BY DEF QueueInv, OwnQueue
  <2>2. CASE queue' = queue
    BY <2>1, <2>2 DEF QueueInv, QueuesProper
  <2>3. CASE queue' = Unqueue(i)
    <3>1. QueuesProper' /\ \A p \in Levels : ToSet(queue'[p]) = ToSet(queue[p]) \ {i}
      BY <2>3, UnqueueFacts DEF QueueInv, QueuesProper
    <3> QED
      BY <2>1, <3>1
  <2> QED
    BY <1>2, <2>2, <2>3
<1>8. i \in unvalidated' => i \in broken'
  BY <1>1, <1>2, <1>3 DEF QueueInv, AwaitsValidation
<1>9. Place(i)'
  <2>1. SUFFICES ASSUME i \notin broken PROVE Place(i)'
    BY <1>3 DEF Place
  <2>2. call.op \in {"cancel", "timeout"}
    BY <1>1, <1>2, <2>1 DEF QueueInv, AwaitsValidation
  <2>3. /\ job[i] = call.seen \/ job[i].status = "cancelled"
        /\ Queued(i) => \/ job[i] = call.seen /\ call.seen.status = "waiting"
                        \/ job[i].status = "cancelled" /\ cancel[i].pc = "set"
        /\ Queued(i) => call.seen.status \in {"waiting", "cancelled"}
    BY <1>1, <2>1, <2>2, WriterFinds DEF QueueInv, ReadWhileQueued
  <2>4. /\ cancel[i].pc = "done" => ~Queued(i)
        /\ Waiting(i) /\ cancel[i].pc = "idle" => i \in ToSet(queue[job[i].level])
    BY <1>1, <2>1, <2>2 DEF QueueInv, Place, InSubmission
  <2>5. CASE call.op = "cancel"
    <3>1. ~Queued(i)'
      <4>1. queue' = Unqueue(i)
        BY <1>2, <2>5
      <4> QED
        BY <4>1, UnqueueFacts DEF Queued, QueueInv
    <3>2. ~Waiting(i)'
      <4>1. call.seen.status = "waiting" => moves
        BY <1>2, <2>5 DEF ValidTransition
      <4> QED
        BY <1>1, <1>2, <1>4, <2>3, <4>1 DEF Waiting
    <3> QED
      BY <1>3, <3>1, <3>2 DEF Place
  <2>6. CASE call.op = "timeout"
    <3>1. new = "timeout" /\ queue' = queue
      BY <1>2, <2>6
    <3>2. call.seen.status \in {"waiting", "cancelled"} => ~moves
      BY <3>1 DEF ValidTransition
    <3>3. ~moves \/ ~Waiting(i)'
      BY <1>4, <3>1 DEF Waiting
    <3>4. Queued(i) => job' = job
      BY <1>4, <2>3, <3>2
    <3> HIDE DEF moves
    <3> QED
      BY <1>1, <1>3, <1>4, <2>3, <2>4, <3>1, <3>3, <3>4 DEF Place, Queued, Waiting
  <2> QED
    BY <2>2, <2>5, <2>6
<1> QED
  BY <1>1, <1>3, <1>4, <1>5, <1>6, <1>7, <1>8, <1>9, EndOfCallKeepsQueues

\* A step that writes no key of Redis and no cancellation.
LEMMA StillKeysKeepQueues ==
  ASSUME JobsTyped, QueueInv, UNCHANGED <<job, queue, unvalidated, cancel>>, broken \subseteq broken'
  PROVE  /\ QueuesProper' /\ OwnQueue'
         /\ \A j \in QueueJobs : (InSubmission(j) => InSubmission(j)' \/ j \in broken') => Place(j)'
         /\ \A j \in QueueJobs : Queued(j)' <=> Queued(j)
<1>1. QueuesProper' /\ OwnQueue' /\ \A j \in QueueJobs : Queued(j)' <=> Queued(j)
  BY DEF QueueInv, QueuesProper, OwnQueue, Queued
<1>2. ASSUME NEW j \in QueueJobs, InSubmission(j) => InSubmission(j)' \/ j \in broken' PROVE Place(j)'
  BY <1>2 DEF QueueInv, Place, Queued, Waiting
<1> QED
  BY <1>1, <1>2

LEMMA RestartKeepsQueues ==
  ASSUME JobsTyped, QueueInv, Restarts
  PROVE  QueueInv'
<1>1. /\ call' = NoCall /\ call'.op = "none" /\ UNCHANGED <<job, queue, unvalidated, cancel>> /\ broken \subseteq broken'
      /\ call # NoCall => call.job \in broken'
  BY CallStarted DEF Restarts, redisVars
<1>2. ASSUME NEW j \in QueueJobs PROVE Place(j)'
  <2>1. InSubmission(j) => j \in broken'
    BY <1>1, CallStarted DEF InSubmission
  <2> QED
    BY <1>1, <2>1, StillKeysKeepQueues
<1>3. LevelsKept' /\ NobodysJobs'
  BY <1>1 DEF QueueInv, LevelsKept, NobodysJobs, NobodysYet
<1>4. AwaitsValidation'
  BY <1>1, CallStarted DEF QueueInv, AwaitsValidation
<1>5. Submitting' /\ Validating' /\ ReadWhileQueued'
  BY <1>1 DEF Submitting, Validating, ReadWhileQueued
<1> QED
  BY <1>1, <1>2, <1>3, <1>4, <1>5, StillKeysKeepQueues DEF QueueInv

LEMMA NothingKeepsQueues ==
  ASSUME JobsTyped, QueueInv, UNCHANGED queueVars
  PROVE  QueueInv'
  BY DEF queueVars, redisVars, QueueInv, QueuesProper, OwnQueue, LevelsKept, NobodysJobs, NobodysYet, AwaitsValidation,
         Submitting, Validating, ReadWhileQueued, Place, Queued, Waiting, InSubmission

LEMMA RollbackKeepsQueues ==
  ASSUME JobsTyped, QueueInv, RollbackReads
  PROVE  QueueInv'
<1>1. PICK i \in QueueJobs : i = call.job /\ call # NoCall /\ job[i] \in JobInfo /\ job[i] # NoJob
  BY CallStarted, CallParts, AbsentJob DEF JobsTyped, RollbackReads
<1>2. /\ UNCHANGED <<job, queue, unvalidated, cancel, broken>> /\ call.op = "undo"
      /\ call'.op = "release" /\ call'.job = i /\ call'.seen = job[i]
  BY <1>1, CallParts DEF RollbackReads, redisVars, JobsTyped, Calls
<1>3. \A j \in QueueJobs : Place(j)'
  BY <1>2, StillKeysKeepQueues DEF InSubmission
<1>4. LevelsKept' /\ NobodysJobs'
  BY <1>1, <1>2 DEF QueueInv, LevelsKept, NobodysJobs, NobodysYet
<1>5. AwaitsValidation' /\ Submitting' /\ Validating'
  BY <1>2 DEF QueueInv, AwaitsValidation, Submitting, Validating
<1>6. ReadWhileQueued'
  <2>1. i \notin broken => ~Queued(i)
    BY <1>1, <1>2 DEF QueueInv, ReadWhileQueued
  <2> QED
    BY <1>2, <2>1 DEF ReadWhileQueued, Queued
<1> QED
  BY <1>2, <1>3, <1>4, <1>5, <1>6, StillKeysKeepQueues DEF QueueInv

LEMMA StartKeepsQueues ==
  ASSUME JobsTyped, QueueInv, NEW op \in Methods, NEW i \in QueueJobs, NEW w \in Workers \cup {NoWorker}, Starts(op, i, w)
  PROVE  QueueInv'
<1>1. /\ UNCHANGED <<job, queue, unvalidated, cancel, broken>> /\ call = NoCall /\ call.op = "none"
      /\ call'.op = op /\ call'.job = i /\ call'.seen = job[i] /\ job[i] # NoJob
      /\ op \in {"assign", "cancel", "expire", "timeout", "release"}
  BY CallStarted DEF Starts, Read, redisVars
<1>2. \A j \in QueueJobs : Place(j)'
  BY <1>1, StillKeysKeepQueues DEF InSubmission
<1>3. LevelsKept' /\ NobodysJobs'
  BY <1>1 DEF QueueInv, LevelsKept, NobodysJobs, NobodysYet
<1>4. AwaitsValidation' /\ Submitting' /\ Validating'
  BY <1>1 DEF Starts, Read, QueueInv, AwaitsValidation, Submitting, Validating
<1>5. ReadWhileQueued'
  <2>1. SUFFICES ASSUME i \notin broken, Queued(i)
                 PROVE  job[i].status = "cancelled" \/ (job[i].status = "waiting" /\ op # "release")
    BY <1>1 DEF ReadWhileQueued, Queued
  <2>2. Waiting(i) \/ job[i].status = "cancelled"
    BY <1>1, <2>1 DEF QueueInv, Place, InSubmission
  <2>3. CASE Waiting(i) /\ op = "release"
    <3>1. job[i].worker \in Workers
      BY <2>3 DEF Starts
    <3>2. job[i].worker = NoWorker
      BY <1>1, <2>3 DEF QueueInv, NobodysJobs, NobodysYet, Waiting
    <3> QED
      BY <3>1, <3>2, QueueParameters
  <2> QED
    BY <2>2, <2>3 DEF Waiting
<1> QED
  BY <1>1, <1>2, <1>3, <1>4, <1>5, StillKeysKeepQueues DEF QueueInv

LEMMA GatewayReadKeepsQueues ==
  ASSUME JobsTyped, QueueInv, NEW i \in QueueJobs, GatewayReads(i)
  PROVE  QueueInv'
<1>1. /\ UNCHANGED <<job, queue, unvalidated, call>> /\ job[i] # NoJob /\ cancel[i].pc = "idle"
      /\ broken \subseteq broken' /\ (call.op = "submit" /\ call.job = i => i \in broken')
      /\ \A j \in QueueJobs : j # i => cancel'[j] = cancel[j] /\ (j \in broken' => j \in broken)
      /\ IF Terminal(job[i]) THEN cancel'[i].pc = "done" ELSE cancel'[i].pc = "read" /\ cancel'[i].seen = job[i]
  BY DEF GatewayReads, redisVars, JobsTyped, RecordsTyped
<1>2. call # NoCall => call.job \in QueueJobs
  BY CallParts DEF JobsTyped
<1>3. QueuesProper' /\ OwnQueue' /\ NobodysJobs' /\ (\A j \in QueueJobs : Queued(j)' <=> Queued(j))
  BY <1>1 DEF QueueInv, QueuesProper, OwnQueue, NobodysJobs, NobodysYet, Queued
<1>4. LevelsKept'
  BY <1>1 DEF QueueInv, LevelsKept
<1>5. AwaitsValidation'
  BY <1>1 DEF QueueInv, AwaitsValidation
<1>6. Submitting' /\ ReadWhileQueued'
  BY <1>1, <1>2, <1>3, CallStarted DEF QueueInv, Submitting, ReadWhileQueued
<1>7. ~Terminal(job[i]) => cancel'[i].pc = "read"
  BY <1>1
<1>8. Validating'
  <2>1. SUFFICES ASSUME call.op = "validate", call.job \notin broken
                 PROVE  /\ call.seen.status = "pending"
                        /\ cancel'[call.job].pc \in {"idle", "read"} => job[call.job] = call.seen
                        /\ cancel'[call.job].pc # "done" => call.job \in ToSet(queue[job[call.job].level])
    BY <1>1, <1>2, CallStarted DEF Validating
  <2>2. /\ call.seen.status = "pending"
        /\ cancel[call.job].pc \in {"idle", "read"} => job[call.job] = call.seen
        /\ cancel[call.job].pc # "done" => call.job \in ToSet(queue[job[call.job].level])
    BY <2>1 DEF QueueInv, Validating
  <2> QED
    BY <1>1, <1>2, <2>1, <2>2, CallStarted
<1>9. ASSUME NEW j \in QueueJobs PROVE Place(j)'
  <2>1. CASE j # i
    BY <1>1, <2>1, OthersStay DEF InSubmission
  <2>2. CASE j = i /\ i \notin broken'
    <3>1. i \notin broken /\ ~(call.op = "submit" /\ call.job = i)
      BY <1>1, <2>2
    <3>2. InSubmission(i) => ~Terminal(job[i])
      BY <1>1, <3>1 DEF QueueInv, Validating, InSubmission, Terminal
    <3>3. ~InSubmission(i) /\ Queued(i) => Waiting(i)
      BY <1>1, <3>1 DEF QueueInv, Place
    <3>4. Waiting(i) => ~Terminal(job[i])
      BY DEF Waiting, Terminal
    <3> QED
      BY <1>1, <1>3, <2>2, <3>2, <3>3, <3>4 DEF Place, Waiting, InSubmission
  <2>3. CASE j = i /\ i \in broken'
    BY <2>3 DEF Place
  <2> QED
    BY <2>1, <2>2, <2>3
<1> QED
  BY <1>3, <1>4, <1>5, <1>6, <1>8, <1>9 DEF QueueInv

LEMMA GatewaySetKeepsQueues ==
  ASSUME JobsTyped, QueueInv, NEW i \in QueueJobs, GatewaySets(i)
  PROVE  QueueInv'
<1> DEFINE rec == [cancel[i].seen EXCEPT !.status = "cancelled"]
<1>1. cancel[i].pc = "read" /\ cancel[i].seen \in JobInfo /\ cancel[i] \in [pc : {"read", "set"}, seen : JobInfo]
  BY DEF GatewaySets, JobsTyped, RecordsTyped, Cancels, NoCancel
<1>2. rec \in JobInfo /\ rec.status = "cancelled" /\ rec.level = cancel[i].seen.level
  BY <1>1 DEF JobInfo, QueueStatus
<1>3. /\ job' = [job EXCEPT ![i] = rec]
      /\ UNCHANGED <<queue, unvalidated, call, broken>>
      /\ cancel'[i].pc = "set" /\ cancel'[i].seen = cancel[i].seen
      /\ \A j \in QueueJobs : j # i => cancel'[j] = cancel[j]
  BY <1>1 DEF GatewaySets, JobsTyped, RecordsTyped
<1> HIDE DEF rec
<1>4. /\ job'[i] = rec /\ rec # NoJob /\ rec.level = job[i].level /\ job[i] # NoJob
      /\ \A j \in QueueJobs : j # i => job'[j] = job[j]
  BY <1>1, <1>2, <1>3, AbsentJob DEF JobsTyped, RecordsTyped, QueueInv, LevelsKept
<1>5. call # NoCall => call.job \in QueueJobs
  BY CallParts DEF JobsTyped
<1>6. QueuesProper' /\ (\A j \in QueueJobs : Queued(j)' <=> Queued(j))
  BY <1>3 DEF QueueInv, QueuesProper, Queued
<1>7. OwnQueue'
  BY <1>3, <1>4, OwnQueueKept
<1>8. LevelsKept'
  <2>1. \A j \in QueueJobs : job'[j].level = job[j].level /\ (job'[j] = NoJob => job[j] = NoJob /\ j # i)
    BY <1>4
  <2>2. call' # NoCall => call'.seen.level = job'[call'.job].level
    BY <1>3, <1>5, <2>1 DEF QueueInv, LevelsKept
  <2>3. ASSUME NEW j \in QueueJobs
        PROVE  /\ cancel'[j].pc \in {"read", "set"} => job'[j] # NoJob /\ cancel'[j].seen.level = job'[j].level
               /\ job'[j] = NoJob => cancel'[j].pc = "idle"
    <3>1. CASE j = i
      BY <1>1, <1>3, <1>4, <3>1 DEF QueueInv, LevelsKept
    <3>2. CASE j # i
      BY <1>3, <1>4, <3>2 DEF QueueInv, LevelsKept
    <3> QED
      BY <3>1, <3>2
  <2> QED
    BY <2>2, <2>3 DEF LevelsKept
<1>9. NobodysJobs'
  BY <1>2, <1>3, <1>4 DEF QueueInv, NobodysJobs, NobodysYet
<1>10. AwaitsValidation'
  BY <1>3 DEF QueueInv, AwaitsValidation
<1>11. Submitting' /\ ReadWhileQueued'
  BY <1>1, <1>3, <1>4, <1>5, <1>6, CallStarted DEF QueueInv, Submitting, ReadWhileQueued
<1>12. Validating'
  <2>1. SUFFICES ASSUME call.op = "validate", call.job \notin broken
                 PROVE  /\ call.seen.status = "pending"
                        /\ cancel'[call.job].pc \in {"idle", "read"} => job'[call.job] = call.seen
                        /\ cancel'[call.job].pc # "done" => call.job \in ToSet(queue[job'[call.job].level])
    BY <1>3 DEF Validating
  <2>2. /\ call.seen.status = "pending"
        /\ cancel[call.job].pc \in {"idle", "read"} => job[call.job] = call.seen
        /\ cancel[call.job].pc # "done" => call.job \in ToSet(queue[job[call.job].level])
    BY <2>1 DEF QueueInv, Validating
  <2> QED
    BY <1>1, <1>3, <1>4, <1>5, <2>1, <2>2, CallStarted
<1>13. ASSUME NEW j \in QueueJobs PROVE Place(j)'
  <2>1. CASE j # i
    BY <1>3, <1>4, <2>1, OthersStay DEF InSubmission
  <2>2. CASE j = i
    BY <1>2, <1>3, <1>4, <2>2 DEF Place, Waiting
  <2> QED
    BY <2>1, <2>2
<1> QED
  BY <1>6, <1>7, <1>8, <1>9, <1>10, <1>11, <1>12, <1>13 DEF QueueInv

LEMMA GatewayUnindexKeepsQueues ==
  ASSUME JobsTyped, QueueInv, NEW i \in QueueJobs, GatewayUnindexes(i)
  PROVE  QueueInv'
<1>1. /\ UNCHANGED <<job, unvalidated, call, broken>> /\ cancel[i].pc = "set" /\ cancel'[i].pc = "done"
      /\ \A j \in QueueJobs : j # i => cancel'[j] = cancel[j]
  BY DEF GatewayUnindexes, JobsTyped, RecordsTyped
<1>2. QueuesProper' /\ \A p \in Levels : ToSet(queue'[p]) = ToSet(queue[p]) \ {i}
  BY UnindexFacts DEF QueueInv
<1>3. \A j \in QueueJobs : Queued(j)' <=> Queued(j) /\ j # i
  BY <1>2 DEF Queued
<1>4. call # NoCall => call.job \in QueueJobs /\ job[call.job].level \in Levels
  BY CallParts DEF JobsTyped, JobInfo
<1>5. OwnQueue'
  BY <1>1, <1>2, OwnQueueKept
<1>6. LevelsKept' /\ NobodysJobs' /\ AwaitsValidation'
  BY <1>1 DEF QueueInv, LevelsKept, NobodysJobs, NobodysYet, AwaitsValidation
<1>7. Submitting' /\ ReadWhileQueued'
  BY <1>1, <1>3, <1>4, CallStarted DEF QueueInv, Submitting, ReadWhileQueued
<1>8. Validating'
  <2>1. SUFFICES ASSUME call.op = "validate", call.job \notin broken
                 PROVE  /\ call.seen.status = "pending"
                        /\ cancel'[call.job].pc \in {"idle", "read"} => job[call.job] = call.seen
                        /\ cancel'[call.job].pc # "done" => call.job \in ToSet(queue'[job[call.job].level])
    BY <1>1 DEF Validating
  <2>2. /\ call.seen.status = "pending"
        /\ cancel[call.job].pc \in {"idle", "read"} => job[call.job] = call.seen
        /\ cancel[call.job].pc # "done" => call.job \in ToSet(queue[job[call.job].level])
    BY <2>1 DEF QueueInv, Validating
  <2> QED
    BY <1>1, <1>2, <1>4, <2>1, <2>2, CallStarted
<1>9. ASSUME NEW j \in QueueJobs PROVE Place(j)'
  <2>1. CASE j # i
    <3>1. \A p \in Levels : j \in ToSet(queue'[p]) <=> j \in ToSet(queue[p])
      BY <1>2, <2>1
    <3> QED
      BY <1>1, <2>1, <3>1, OthersStay DEF InSubmission
  <2>2. CASE j = i
    BY <1>1, <1>3, <2>2 DEF Place
  <2> QED
    BY <2>1, <2>2
<1> QED
  BY <1>2, <1>5, <1>6, <1>7, <1>8, <1>9 DEF QueueInv

LEMMA QueueInvInit == SchedulingInit => QueueInv
<1> SUFFICES ASSUME SchedulingInit PROVE QueueInv
  OBVIOUS
<1>1. /\ job = [j \in QueueJobs |-> NoJob] /\ queue = [p \in Levels |-> <<>>] /\ unvalidated = {} /\ call = NoCall
      /\ cancel = [j \in QueueJobs |-> NoCancel] /\ call.op = "none"
  BY CallStarted DEF SchedulingInit, QueueInit
<1>2. \A p \in Levels : queue[p] \in Seq(QueueJobs) /\ DOMAIN queue[p] = {} /\ ToSet(queue[p]) = {}
  BY <1>1 DEF ToSet
<1>3. QueuesProper /\ OwnQueue /\ \A j : ~Queued(j)
  BY <1>1, <1>2 DEF QueuesProper, OwnQueue, Distinct, Queued
<1>4. LevelsKept /\ NobodysJobs
  BY <1>1 DEF LevelsKept, NobodysJobs, NoCancel
<1>5. AwaitsValidation /\ Submitting /\ Validating /\ ReadWhileQueued
  BY <1>1 DEF AwaitsValidation, Submitting, Validating, ReadWhileQueued
<1>6. \A j \in QueueJobs : Place(j)
  BY <1>1, <1>3 DEF Place, NoCancel
<1> QED
  BY <1>3, <1>4, <1>5, <1>6 DEF QueueInv

LEMMA QueueInvKept ==
  ASSUME JobsTyped, FreshCall, ReadIsCurrent, QueueInv, [SchedulingNext]_schedVars
  PROVE  QueueInv'
  BY StepsOfQueue, SubmitKeepsQueues, IndexingKeepsQueues, BrokenSubmissionKeepsQueues, ValidationKeepsQueues,
     AssignmentKeepsQueues, BrokenAssignmentKeepsQueues, ReleaseKeepsQueues, ExpiryKeepsQueues,
     GatewayReadKeepsQueues, GatewaySetKeepsQueues, GatewayUnindexKeepsQueues, StartKeepsQueues,
     RollbackKeepsQueues, RestartKeepsQueues, NothingKeepsQueues DEF QueueStep

LEMMA QueueInvHolds == SchedulingSpec => []QueueInv
<1>1. JobsTyped /\ OwnerInv /\ QueueInv /\ [SchedulingNext]_schedVars => QueueInv'
  BY QueueInvKept DEF OwnerInv
<1> QED
  BY <1>1, QueueInvInit, OwnerInvHolds, PTL DEF SchedulingSpec

\* What the queues hold and what the records say agree: a waiting job is in the
\* queue of its priority, where get_next_job comes to it (job_queue.py:560), and
\* no other job stands in front of it, though the gateway writes in between.
THEOREM QueuesMatchRecords == SchedulingSpec => []QueueMatchesStatus
<1>1. JobsTyped /\ QueueInv => QueueMatchesStatus
  <2> SUFFICES ASSUME JobsTyped, QueueInv, NEW j \in QueueJobs, job[j] # NoJob, Settled(j), j \notin broken
               PROVE  /\ Waiting(j) /\ cancel[j].pc = "idle" => j \in ToSet(queue[job[j].level])
                      /\ Queued(j) => Waiting(j) \/ cancel[j].pc = "set"
    BY DEF QueueMatchesStatus
  <2>1. ~InSubmission(j)
    BY DEF Settled, InSubmission
  <2> QED
    BY <2>1 DEF QueueInv, Place
<1> QED
  BY <1>1, JobsTypedHolds, QueueInvHolds, PTL

-----------------------------------------------------------------------------
HistoriesTyped == deadLetter \subseteq QueueJobs /\ broken \subseteq QueueJobs

LEMMA HistoriesKeepTypes ==
  ASSUME JobsTyped, HistoriesTyped, [SchedulingNext]_schedVars
  PROVE  HistoriesTyped'
<1>1. call # NoCall => call.job \in QueueJobs
  BY CallParts DEF JobsTyped
<1>2. ASSUME NEW rec, NEW new, NEW w, call # NoCall, UpdateStatus(call.job, rec, new, w)
      PROVE  deadLetter' \subseteq QueueJobs
  BY <1>1, <1>2 DEF UpdateStatus, HistoriesTyped
<1>3. CASE \/ \E j \in QueueJobs, p \in Levels : SubmitJob(j, p)
           \/ \E op \in Methods, j \in QueueJobs, w \in Workers \cup {NoWorker} : Starts(op, j, w)
           \/ SubmitIndexes \/ RollbackReads \/ UNCHANGED queueVars
  BY <1>3 DEF SubmitJob, SubmitIndexes, Starts, Read, RollbackReads, redisVars, queueVars, HistoriesTyped
<1>4. CASE \E n \in 0..2 : SubmitBreaks(n)
  BY <1>1, <1>4, CallStarted DEF SubmitBreaks, HistoriesTyped
<1>5. CASE MarkValidationComplete \/ Assigns \/ Expires
  BY <1>2, <1>5, CallStarted DEF MarkValidationComplete, Assigns, AssignJobToWorker, Expires, CancelJob, ExpireValidation,
       ExpireExecution, Return, HistoriesTyped
<1>6. CASE \E written \in BOOLEAN : AssignBreaks(written) /\ call' = NoCall
  BY <1>1, <1>2, <1>6, CallStarted DEF AssignBreaks, HistoriesTyped
<1>7. CASE ReleaseJobFromWorker
  BY <1>2, <1>7, CallStarted DEF ReleaseJobFromWorker, Return, HistoriesTyped
<1>8. CASE \E j \in QueueJobs : GatewayReads(j) \/ GatewaySets(j) \/ GatewayUnindexes(j)
  BY <1>8 DEF GatewayReads, GatewaySets, GatewayUnindexes, redisVars, HistoriesTyped
<1>9. CASE Restarts
  BY <1>1, <1>9 DEF Restarts, redisVars, HistoriesTyped
<1> QED
  BY <1>3, <1>4, <1>5, <1>6, <1>7, <1>8, <1>9, StepsOfQueue DEF QueueStep

\* Every key of the queue, every pool, every call and request holds what its
\* type says after any sequence of steps, and no queue ever names an unknown job.
THEOREM SchedulingTypeCorrect == SchedulingSpec => []SchedulingTypeOK
<1>1. SchedulingInit => HistoriesTyped
  BY DEF SchedulingInit, QueueInit, HistoriesTyped
<1>2. JobsTyped /\ HistoriesTyped /\ [SchedulingNext]_schedVars => HistoriesTyped'
  BY HistoriesKeepTypes
<1>3. JobsTyped /\ PoolInv /\ QueueInv /\ TakenInv /\ HistoriesTyped => SchedulingTypeOK
  BY DEF JobsTyped, RecordsTyped, CallTyped, RequestsTyped, Cancels, NoCancel, Calls, PoolInv, PoolsTyped, QueueInv,
         QueuesProper, AwaitsValidation, TakenInv, HandedSubmitted, Submitted, HistoriesTyped, SchedulingTypeOK, QueueTypeOK
<1> QED
  BY <1>1, <1>2, <1>3, JobsTypedHolds, PoolInvHolds, QueueInvHolds, TakenInvHolds, PTL DEF SchedulingSpec
=============================================================================
