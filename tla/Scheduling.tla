----------------------------- MODULE Scheduling -----------------------------
(***************************************************************************)
(* The orchestrator's unary calls, which tie the job queue to the worker   *)
(* pools: InitiateTraining, RegisterWorker and RequestTask,               *)
(* next to the gateway's cancellations and the maintenance methods.        *)
(*                                                                         *)
(* RequestTask awaits the sharder between choosing a job and assigning it, *)
(* and does not look at whether the assignment succeeded.                  *)
(***************************************************************************)
EXTENDS WorkerPools

CONSTANTS
  MaxRestarts, \* bound: restarts of the orchestrator
  Maintenance, \* are the methods no RPC calls (unregister, cleanup, ...) exercised?
  RedisFails   \* may Redis fail inside submit_job and assign_job_to_worker?

ASSUME SchedulingParameters ==
  /\ MaxRestarts \in Nat
  /\ Maintenance \in BOOLEAN
  /\ RedisFails \in BOOLEAN

VARIABLES
  request,  \* per worker, the locals of its RequestTask
  handed,   \* history: the jobs that a RequestTask went on to hand out
  restarts

schedVars == <<queueVars, poolVars, request, handed, restarts>>

NoRequest == [pc |-> "idle", job |-> NoJob]
RequestPcs == {"idle", "sharding", "assigning", "rollback"}

SchedulingTypeOK ==
  /\ QueueTypeOK
  /\ registry \in [Workers -> Groups \cup {NoGroup}]
  /\ pools \in [Groups -> SUBSET Workers]
  /\ existing \subseteq Groups
  /\ poolOf \in [Workers -> Groups \cup {NoGroup}]
  /\ request \in [Workers -> [pc : RequestPcs, job : QueueJobs \cup {NoJob}]]
  /\ handed \subseteq QueueJobs

SchedulingInit ==
  /\ QueueInit
  /\ PoolInit
  /\ request = [w \in Workers |-> NoRequest]
  /\ handed = {}
  /\ restarts = 0

-----------------------------------------------------------------------------
\* InitiateTraining
InitiateTraining(j, p) == SubmitJob(j, p) /\ UNCHANGED <<poolVars, request, handed, restarts>>

FinishInitiate ==
  /\ SubmitIndexes \/ MarkValidationComplete
  /\ UNCHANGED <<poolVars, request, handed, restarts>>

InitiateFails ==
  /\ RedisFails
  /\ \E n \in 0..2 : SubmitBreaks(n)
  /\ UNCHANGED <<poolVars, request, handed, restarts>>

\* RequestTask of a registered worker takes a job it prefers, whatever it
\* requires, if that job is WAITING, or the one get_next_job offers.
RequestTask(w, j) ==
  /\ call = NoCall
  /\ request[w].pc = "idle"
  /\ Registered(w)
  /\ Waiting(j)
  /\ request' = [request EXCEPT ![w] = [pc |-> "sharding", job |-> j]]
  /\ UNCHANGED <<queueVars, poolVars, handed, restarts>>

\* ... namely that one.
RequestNextJob(w) == \E j \in NextJobs(w) : RequestTask(w, j)

\* The sharder did not answer and the call is aborted; or it was no RequestTask
\* but a task_request on a stream, which chooses a job and asks the sharder in
\* the same way, and leaves it at that.
ShardingFails(w) ==
  /\ request[w].pc = "sharding"
  /\ request' = [request EXCEPT ![w] = NoRequest]
  /\ UNCHANGED <<queueVars, poolVars, handed, restarts>>

\* The reply says has_task = True, whatever became of the assignment; the
\* registry is asked for the artifact first, which changes nothing here.
Reply(w) ==
  /\ request' = [request EXCEPT ![w] = NoRequest]
  /\ handed' = handed \cup {request[w].job}
  /\ UNCHANGED <<poolVars, restarts>>

\* Mutant: the job is not read again after the sharder's answer.
RequestAssign_SkipsCheck(w) ==
  /\ request[w].pc = "sharding"
  /\ call = NoCall
  /\ call' = [op |-> "assign", job |-> request[w].job, worker |-> w,
              seen |-> [job[request[w].job] EXCEPT !.status = "waiting"]]
  /\ request' = [request EXCEPT ![w].pc = "assigning"]
  /\ UNCHANGED <<redisVars, cancel, broken, poolVars, handed, restarts>>

\* The sharder answered.  WorkerDiscoveryService.assign_job_to_worker reads the
\* job, and gives up when it is WAITING no more.
RequestAssign(w) ==
  LET j == request[w].job
  IN /\ request[w].pc = "sharding"
     /\ call = NoCall
     /\ \/ /\ Waiting(j)
           /\ Read("assign", j, w)
           /\ request' = [request EXCEPT ![w].pc = "assigning"]
           /\ UNCHANGED <<poolVars, handed, restarts>>
        \/ ~Waiting(j) /\ Reply(w) /\ UNCHANGED queueVars

\* The rest of it: the queue's write; if the registry has lost the worker the
\* job is released.
FinishAssign(w) ==
  /\ request[w].pc = "assigning"
  /\ AssignJobToWorker
  /\ \/ Registered(w) /\ Return /\ Reply(w)
     \/ /\ ~Registered(w)
        /\ request' = [request EXCEPT ![w].pc = "rollback"]
        /\ call' = [call EXCEPT !.op = "undo"]
        /\ UNCHANGED <<cancel, broken, poolVars, handed, restarts>>

AssignFails(w) ==
  /\ RedisFails
  /\ request[w].pc = "assigning"
  /\ \E written \in BOOLEAN : AssignBreaks(written)
  /\ call' = NoCall
  /\ Reply(w)

\* release_job_from_worker reads the job again.
Rollback(w) ==
  /\ request[w].pc = "rollback" /\ call.op = "undo"
  /\ call' = [call EXCEPT !.op = "release", !.seen = job[call.job]]
  /\ UNCHANGED <<redisVars, cancel, broken, poolVars, request, handed, restarts>>

FinishRollback(w) == request[w].pc = "rollback" /\ ReleaseJobFromWorker /\ Reply(w)

\* RegisterWorker
Register(w, g) ==
  call = NoCall /\ RegisterWorker(w, g) /\ UNCHANGED <<queueVars, request, handed, restarts>>

Gateway(j) ==
  /\ GatewayReads(j) \/ GatewaySets(j) \/ GatewayUnindexes(j)
  /\ UNCHANGED <<poolVars, request, handed, restarts>>

\* The methods of the two services that no RPC calls.
MaintainQueue(j) ==
  /\ Maintenance
  /\ \/ job[j] # NoJob /\ ~Terminal(job[j]) /\ Read("cancel", j, NoWorker)
     \/ j \in unvalidated /\ Read("expire", j, NoWorker)
     \/ j \in byStatus["running"] /\ job[j].worker # NoWorker /\ Read("timeout", j, NoWorker)
     \/ \E w \in Workers : job[j] # NoJob /\ job[j].worker = w /\ Read("release", j, w)
  /\ UNCHANGED <<poolVars, request, handed, restarts>>

FinishMaintenance ==
  /\ \A w \in Workers : request[w].pc # "rollback"
  /\ CancelJob \/ ExpireValidation \/ ExpireExecution \/ ReleaseJobFromWorker
  /\ UNCHANGED <<poolVars, request, handed, restarts>>

MaintainPools ==
  /\ Maintenance
  /\ call = NoCall
  /\ \/ \E w \in Workers : UnregisterWorker(w)
     \/ \E g \in Groups : CreatePool(g) \/ \E force \in BOOLEAN : DeletePool(g, force)
  /\ UNCHANGED <<queueVars, request, handed, restarts>>

\* The orchestrator restarts: Redis keeps the queue, a call that has not
\* written is forgotten, and so is every request.
Restart ==
  /\ restarts < MaxRestarts
  /\ restarts' = restarts + 1
  /\ PoolRestart
  /\ call' = NoCall
  /\ broken' = IF call = NoCall THEN broken ELSE broken \cup {call.job}
  /\ request' = [w \in Workers |-> NoRequest]
  /\ UNCHANGED <<redisVars, cancel, handed>>

SchedulingNext ==
  \/ \E j \in QueueJobs, p \in Levels : InitiateTraining(j, p)
  \/ FinishInitiate \/ InitiateFails
  \/ \E w \in Workers, j \in QueueJobs : RequestTask(w, j)
  \/ \E w \in Workers : \/ ShardingFails(w) \/ RequestAssign(w) \/ FinishAssign(w)
                        \/ AssignFails(w) \/ Rollback(w) \/ FinishRollback(w)
                        \/ \E g \in Groups : Register(w, g)
  \/ \E j \in QueueJobs : Gateway(j) \/ MaintainQueue(j)
  \/ FinishMaintenance
  \/ MaintainPools
  \/ Restart

SchedulingSpec == SchedulingInit /\ [][SchedulingNext]_schedVars

\* A synchronous call ends and the gateway goes through with a cancellation; each
\* worker of W registers when it is not registered, keeps asking while it is, and
\* the sharder now and then answers it while the job is still to be had.
SchedulingFairness(W) ==
  /\ WF_schedVars(FinishInitiate)
  /\ \A j \in QueueJobs : WF_schedVars(cancel[j].pc # "idle" /\ Gateway(j))
  /\ WF_schedVars(FinishMaintenance)
  /\ \A w \in W :
       /\ WF_schedVars(~Registered(w) /\ \E g \in Groups : Register(w, g))
       /\ WF_schedVars(FinishAssign(w)) /\ WF_schedVars(Rollback(w) \/ FinishRollback(w))
       /\ SF_schedVars(RequestAssign(w))
       /\ SF_schedVars(RequestNextJob(w))

-----------------------------------------------------------------------------
\* A job that some call or the gateway is not in the middle of.
Settled(j) == call.op = "none" \/ call.job # j

\* What the queues hold and what the records say agree: a waiting job is in the
\* queue of its priority, so that get_next_job can come to it, and a job in a
\* queue is waiting, so that it does not keep others from being seen.  Excepted
\* are jobs whose submission or assignment Redis or a restart broke off, and,
\* while the gateway is at it (or, for the first half, after it), a cancelled job.
QueueMatchesStatus ==
  \A j \in QueueJobs : job[j] # NoJob /\ Settled(j) /\ j \notin broken =>
    /\ Waiting(j) /\ cancel[j].pc = "idle" => j \in ToSet(queue[job[j].level])
    /\ Queued(j) => Waiting(j) \/ cancel[j].pc = "set"

\* No job is in the index of two workers, and one that is running is in the
\* index of the worker its record names, whatever the order of racing requests,
\* cancellations, timeouts and rollbacks.
OneOwner ==
  \A j \in QueueJobs :
    /\ \A v, w \in Workers : j \in byWorker[v] /\ j \in byWorker[w] => v = w
    /\ job[j] # NoJob /\ job[j].status = "running" /\ Settled(j) /\ j \notin broken /\ cancel[j].pc # "done"
         => j \in byWorker[job[j].worker]

\* RequestTask hands out a job although its assignment may have failed.  Even
\* so, a job that any worker was told to train is not offered again.
HandedOutIsTaken ==
  \A j \in handed : j \notin broken => ~Waiting(j)

\* A cancellation is undone only by a call that had read the job before it: no
\* method revives a job that it sees cancelled, whatever the indexes still say.
CancelledStays ==
  [][\A j \in QueueJobs :
       /\ job[j] # NoJob /\ job[j].status = "cancelled"
       /\ Settled(j) \/ call.seen.status = "cancelled"
       => job'[j].status = "cancelled"]_schedVars

\* The worker's pool has it as a member.
PoolsAgree == \A w \in Workers : poolOf[w] # NoGroup => poolOf[w] \in existing /\ w \in pools[poolOf[w]]
\* No pool outgrows its capacity, however workers register again or move.
PoolCapacity == \A g \in Groups : Cardinality(pools[g]) <= MaxWorkers[g]

\* If no call breaks off, a waiting job stops waiting, however the workers race
\* and whatever the sharder's failures, as long as some worker suits every job.
\* Excepted is a job that a cancellation met: mark_validation_complete, having
\* read it before, may set it waiting again after it left its queue.
WaitingIsServed ==
  [](broken = {}) =>
    \A j \in QueueJobs : Waiting(j) ~> ~Waiting(j) \/ cancel[j].pc # "idle"
=============================================================================
