------------------------------ MODULE JobQueue ------------------------------
(***************************************************************************)
(* The orchestrator's job queue in Redis: one record per job, a sorted set *)
(* per priority, an index per status and per worker, the set of jobs that  *)
(* await validation and the dead letter list.                              *)
(*                                                                         *)
(* Two processes write these keys.  The orchestrator's Redis client is     *)
(* synchronous and its service has one thread, so none of its calls        *)
(* overlaps another; but each one GETs the record, computes, and SETs it,  *)
(* and the API gateway, which cancels jobs in the same keys, may come      *)
(* between.  A call is therefore two steps, Read and the write named after *)
(* the method, and the gateway's cancellation is three.                    *)
(***************************************************************************)
EXTENDS Naturals, Sequences, SequencesExt, FiniteSets

CONSTANTS
  Workers,
  QueueJobs,   \* job ids; the gateway makes a fresh one for every job
  Levels,      \* JobPriority: a larger number is more urgent
  Suits,       \* pairs <<w, j>>: w has the capabilities job j requires
  MaxRetries,  \* JobInfo.max_retries
  NoWorker, NoJob

ASSUME QueueParameters ==
  /\ Levels \subseteq Nat /\ IsFiniteSet(Levels)
  /\ Suits \subseteq Workers \X QueueJobs
  /\ MaxRetries \in Nat
  /\ NoWorker \notin Workers

QueueStatus == {"pending", "validating", "waiting", "running",
                "completed", "failed", "cancelled", "timeout"}
JobInfo == [status : QueueStatus, level : Levels, worker : Workers \cup {NoWorker}, retries : Nat]

ASSUME AbsentJob == NoJob \notin JobInfo

VARIABLES
  job,         \* jobs:{id}, NoJob before the submission
  queue,       \* queue:{priority}, in the order of the scores
  byStatus,    \* jobs:by_status:{status}
  byWorker,    \* jobs:by_worker:{worker}
  unvalidated, \* jobs:validation_pending
  deadLetter,  \* jobs:dead_letter, as a set
  call,        \* the orchestrator's call that has read a record and not yet written it
  cancel,      \* per job, the gateway's cancellation
  broken       \* history: jobs whose submission or assignment broke off, and jobs
               \* whose cancellation came into the middle of their submission

redisVars == <<job, queue, byStatus, byWorker, unvalidated, deadLetter>>
queueVars == <<redisVars, call, cancel, broken>>

Methods   == {"submit", "validate", "assign", "undo", "release", "cancel", "expire", "timeout"}
NoCall    == [op |-> "none"]
NoCancel  == [pc |-> "idle"]

QueueTypeOK ==
  /\ \A j \in QueueJobs : job[j] = NoJob \/ job[j] \in JobInfo
  /\ queue \in [Levels -> Seq(QueueJobs)]
  /\ byStatus \in [QueueStatus -> SUBSET QueueJobs]
  /\ byWorker \in [Workers -> SUBSET QueueJobs]
  /\ unvalidated \subseteq QueueJobs
  /\ deadLetter \subseteq QueueJobs
  /\ \/ call = NoCall
     \/ call \in [op : Methods, job : QueueJobs, worker : Workers \cup {NoWorker}, seen : JobInfo]
  /\ \A j \in QueueJobs : \/ cancel[j].pc \in {"idle", "done"}
                          \/ cancel[j].pc \in {"read", "set"} /\ cancel[j].seen \in JobInfo
  /\ broken \subseteq QueueJobs

QueueInit ==
  /\ job = [j \in QueueJobs |-> NoJob]
  /\ queue = [p \in Levels |-> <<>>]
  /\ byStatus = [s \in QueueStatus |-> {}]
  /\ byWorker = [w \in Workers |-> {}]
  /\ unvalidated = {}
  /\ deadLetter = {}
  /\ call = NoCall
  /\ cancel = [j \in QueueJobs |-> NoCancel]
  /\ broken = {}

Queued(j) == \E p \in Levels : j \in ToSet(queue[p])
\* A sorted set holds a member once: zrem takes it out, and zadd, with the
\* current time as the score, puts it last.
Unqueue(j) == [p \in Levels |-> RemoveFirst(queue[p], j)]
Enqueue(j, p) == [queue EXCEPT ![p] = Append(RemoveFirst(@, j), j)]

Waiting(j) == job[j] # NoJob /\ job[j].status = "waiting"
Terminal(rec) == rec.status \in {"completed", "failed", "cancelled", "timeout"}

\* Mutant: a cancelled job is no longer terminal.
ValidTransition_CancelledMoves(old, new) ==
  /\ old # "completed"
  /\ \/ new \in {"failed", "cancelled"}
     \/ <<old, new>> \in {<<"pending", "validating">>, <<"pending", "waiting">>,
                          <<"validating", "waiting">>, <<"waiting", "running">>,
                          <<"running", "completed">>, <<"running", "timeout">>,
                          <<"failed", "pending">>, <<"timeout", "pending">>}

ValidTransition(old, new) ==
  /\ old \notin {"completed", "cancelled"}
  /\ \/ new \in {"failed", "cancelled"}
     \/ <<old, new>> \in {<<"pending", "validating">>, <<"pending", "waiting">>,
                          <<"validating", "waiting">>, <<"waiting", "running">>,
                          <<"running", "completed">>, <<"running", "timeout">>,
                          <<"failed", "pending">>, <<"timeout", "pending">>}

\* update_job_status of job j whose record it read as rec.  Nothing sets a job
\* VALIDATING, so that branch of the method never removes it from unvalidated;
\* the worker is stored with the first RUNNING, which is the only one.
UpdateStatus(j, rec, new, w) ==
  IF ValidTransition(rec.status, new)
  THEN /\ job' = [job EXCEPT ![j] = [rec EXCEPT !.status = new,
                                     !.worker = IF new = "running" THEN w ELSE @]]
       /\ byStatus' = [byStatus EXCEPT ![rec.status] = @ \ {j}, ![new] = @ \cup {j}]
       /\ deadLetter' = IF new = "failed" /\ rec.retries >= MaxRetries
                        THEN deadLetter \cup {j} ELSE deadLetter
  ELSE UNCHANGED <<job, byStatus, deadLetter>>

\* get_job at the start of a method.
Read(op, j, w) ==
  /\ call = NoCall
  /\ job[j] # NoJob
  /\ call' = [op |-> op, job |-> j, worker |-> w, seen |-> job[j]]
  /\ UNCHANGED <<redisVars, cancel, broken>>

Return == call' = NoCall /\ UNCHANGED <<cancel, broken>>

\* submit_job: the record ...
SubmitJob(j, p) ==
  LET rec == [status |-> "pending", level |-> p, worker |-> NoWorker, retries |-> 0]
  IN /\ call = NoCall
     /\ job[j] = NoJob
     /\ job' = [job EXCEPT ![j] = rec]
     /\ call' = [op |-> "submit", job |-> j, worker |-> NoWorker, seen |-> rec]
     /\ UNCHANGED <<queue, byStatus, byWorker, unvalidated, deadLetter, cancel, broken>>

\* ... and then, whatever the gateway made of it meanwhile, unvalidated, the
\* queue and the status index; last the get_job of the
\* mark_validation_complete that follows in InitiateTraining.
SubmitIndexes ==
  LET j == call.job
  IN /\ call.op = "submit"
     /\ unvalidated' = unvalidated \cup {j}
     /\ queue' = Enqueue(j, call.seen.level)
     /\ byStatus' = [byStatus EXCEPT !["pending"] = @ \cup {j}]
     /\ call' = [call EXCEPT !.op = "validate", !.seen = job[j]]
     /\ UNCHANGED <<job, byWorker, deadLetter, cancel, broken>>

\* ... or Redis fails after n of these writes, which ends InitiateTraining.
SubmitBreaks(n) ==
  LET j == call.job
  IN /\ call.op = "submit"
     /\ unvalidated' = IF n >= 1 THEN unvalidated \cup {j} ELSE unvalidated
     /\ queue' = IF n >= 2 THEN Enqueue(j, call.seen.level) ELSE queue
     /\ call' = NoCall
     /\ broken' = broken \cup {j}
     /\ UNCHANGED <<job, byStatus, byWorker, deadLetter, cancel>>

\* mark_validation_complete: InitiateTraining always reports both as passed.
MarkValidationComplete ==
  /\ call.op = "validate"
  /\ UpdateStatus(call.job, call.seen, "waiting", NoWorker)
  /\ unvalidated' = unvalidated \ {call.job}
  /\ UNCHANGED <<queue, byWorker>>
  /\ Return

\* Mutant: the job stays in its priority queue.
AssignJobToWorker_KeepsQueue ==
  /\ call.op = "assign"
  /\ UpdateStatus(call.job, call.seen, "running", call.worker)
  /\ byWorker' = [byWorker EXCEPT ![call.worker] = @ \cup {call.job}]
  /\ UNCHANGED <<queue, unvalidated>>

\* assign_job_to_worker of a job it read as WAITING.
AssignJobToWorker ==
  /\ call.op = "assign"
  /\ UpdateStatus(call.job, call.seen, "running", call.worker)
  /\ byWorker' = [byWorker EXCEPT ![call.worker] = @ \cup {call.job}]
  /\ queue' = Unqueue(call.job)
  /\ UNCHANGED unvalidated

\* ... when Redis fails before the first write, or before the worker's index.
AssignBreaks(written) ==
  /\ call.op = "assign"
  /\ IF written THEN UpdateStatus(call.job, call.seen, "running", call.worker)
                ELSE UNCHANGED <<job, byStatus, deadLetter>>
  /\ broken' = broken \cup {call.job}
  /\ UNCHANGED <<queue, byWorker, unvalidated, cancel>>

\* Mutant: the job waits again, which is what the method's docstring says.
ReleaseJobFromWorker_Requeues ==
  /\ call.op = "release"
  /\ job' = [job EXCEPT ![call.job] =
       [call.seen EXCEPT !.retries = @ + 1, !.worker = NoWorker, !.status = "waiting"]]
  /\ byStatus' = [byStatus EXCEPT !["running"] = @ \ {call.job}, !["waiting"] = @ \cup {call.job}]
  /\ byWorker' = [byWorker EXCEPT ![call.worker] = @ \ {call.job}]
  /\ queue' = Enqueue(call.job, call.seen.level)
  /\ UNCHANGED <<unvalidated, deadLetter>>
  /\ Return

\* release_job_from_worker.  can_retry asks for a FAILED job, and the job is
\* RUNNING, so the branch that queues it again is never taken.
ReleaseJobFromWorker ==
  LET rec == [call.seen EXCEPT !.retries = @ + 1, !.worker = NoWorker]
  IN /\ call.op = "release"
     /\ IF ValidTransition(rec.status, "failed")
        THEN UpdateStatus(call.job, rec, "failed", NoWorker)
        ELSE job' = [job EXCEPT ![call.job] = rec] /\ UNCHANGED <<byStatus, deadLetter>>
     /\ byWorker' = [byWorker EXCEPT ![call.worker] = @ \ {call.job}]
     /\ UNCHANGED <<queue, unvalidated>>
     /\ Return

\* cancel_job
CancelJob ==
  /\ call.op = "cancel"
  /\ UpdateStatus(call.job, call.seen, "cancelled", NoWorker)
  /\ queue' = Unqueue(call.job)
  /\ byWorker' = [w \in Workers |-> IF w = call.seen.worker THEN byWorker[w] \ {call.job}
                                                            ELSE byWorker[w]]
  /\ UNCHANGED unvalidated
  /\ Return

\* cleanup_expired_jobs, one job of its loops: the validation timeout ...
ExpireValidation ==
  /\ call.op = "expire"
  /\ UpdateStatus(call.job, call.seen, "failed", NoWorker)
  /\ UNCHANGED <<queue, byWorker, unvalidated>>
  /\ Return

\* ... and the execution timeout.
ExpireExecution ==
  /\ call.op = "timeout"
  /\ UpdateStatus(call.job, call.seen, "timeout", NoWorker)
  /\ byWorker' = [w \in Workers |-> IF w = call.seen.worker THEN byWorker[w] \ {call.job}
                                                            ELSE byWorker[w]]
  /\ UNCHANGED <<queue, unvalidated>>
  /\ Return

\* get_next_job: only the first job of each priority is looked at.
Offered(p, w) ==
  /\ queue[p] # <<>>
  /\ Waiting(Head(queue[p]))
  /\ <<w, Head(queue[p])>> \in Suits
NextJobs(w) ==
  {Head(queue[p]) : p \in {q \in Levels : Offered(q, w) /\ \A r \in Levels : Offered(r, w) => r <= q}}

(***************************************************************************)
(* The gateway's cancel_job, after it has committed the job's row: GET,    *)
(* then SET of what it read with the status replaced, then the indexes.    *)
(***************************************************************************)
GatewayReads(j) ==
  /\ cancel[j].pc = "idle"
  /\ job[j] # NoJob
  /\ cancel' = [cancel EXCEPT ![j] = IF Terminal(job[j]) THEN [pc |-> "done"]
                                     ELSE [pc |-> "read", seen |-> job[j]]]
  /\ broken' = IF call.op = "submit" /\ call.job = j THEN broken \cup {j} ELSE broken
  /\ UNCHANGED <<redisVars, call>>

\* Mutant: a status that JobStatus does not have.
GatewaySets_Misspelt(j) ==
  /\ cancel[j].pc = "read"
  /\ job' = [job EXCEPT ![j] = [cancel[j].seen EXCEPT !.status = "canceled"]]
  /\ cancel' = [cancel EXCEPT ![j].pc = "set"]
  /\ UNCHANGED <<queue, byStatus, byWorker, unvalidated, deadLetter, call, broken>>

GatewaySets(j) ==
  /\ cancel[j].pc = "read"
  /\ job' = [job EXCEPT ![j] = [cancel[j].seen EXCEPT !.status = "cancelled"]]
  /\ cancel' = [cancel EXCEPT ![j].pc = "set"]
  /\ UNCHANGED <<queue, byStatus, byWorker, unvalidated, deadLetter, call, broken>>

\* Mutant: the job stays in its priority queue.
GatewayUnindexes_LeavesQueue(j) ==
  LET seen == cancel[j].seen
  IN /\ cancel[j].pc = "set"
     /\ byStatus' = [byStatus EXCEPT ![seen.status] = @ \ {j}, !["cancelled"] = @ \cup {j}]
     /\ byWorker' = [w \in Workers |-> IF w = seen.worker THEN byWorker[w] \ {j} ELSE byWorker[w]]
     /\ cancel' = [cancel EXCEPT ![j] = [pc |-> "done"]]
     /\ UNCHANGED <<job, queue, unvalidated, deadLetter, call, broken>>

GatewayUnindexes(j) ==
  LET seen == cancel[j].seen
  IN /\ cancel[j].pc = "set"
     /\ byStatus' = [byStatus EXCEPT ![seen.status] = @ \ {j}, !["cancelled"] = @ \cup {j}]
     /\ queue' = [queue EXCEPT ![seen.level] = RemoveFirst(@, j)]
     /\ byWorker' = [w \in Workers |-> IF w = seen.worker THEN byWorker[w] \ {j} ELSE byWorker[w]]
     /\ cancel' = [cancel EXCEPT ![j] = [pc |-> "done"]]
     /\ UNCHANGED <<job, unvalidated, deadLetter, call, broken>>
=============================================================================
