---------------------------- MODULE TrainingJob ----------------------------
(***************************************************************************)
(* What the platform promises of a training job, with no orchestrator, no  *)
(* worker and no stream in sight: the shards of the dataset are trained in *)
(* passes; a pass ends when every shard has been trained once in it, and   *)
(* only then does the next pass begin; when the last of the requested      *)
(* passes ends the job is completed.  A job may instead fail, or be        *)
(* cancelled by its owner.  TaskOrchestrator is shown to implement this.   *)
(***************************************************************************)
EXTENDS Naturals

CONSTANTS Jobs, Batches, JobOf, TargetEpochs

VARIABLES
  jobStatus,  \* the status a user sees
  done,       \* the shards trained in the current pass
  pass        \* pass[j]: how many passes have been closed by a next one

vars == <<jobStatus, done, pass>>

ShardsOf(j) == {b \in Batches : JobOf[b] = j}
Live(j)     == jobStatus[j] \in {"pending", "running"}
PassDone(j) == ShardsOf(j) \subseteq done

Init ==
  /\ jobStatus = [j \in Jobs |-> "pending"]
  /\ done = {}
  /\ pass = [j \in Jobs |-> 0]

Start(j) ==
  /\ jobStatus[j] = "pending"
  /\ jobStatus' = [jobStatus EXCEPT ![j] = "running"]
  /\ UNCHANGED <<done, pass>>

\* Work that was in flight when a job ended may still be delivered.
Train(b) ==
  /\ b \notin done
  /\ jobStatus[JobOf[b]] # "pending"
  /\ done' = done \cup {b}
  /\ UNCHANGED <<jobStatus, pass>>

NextPass(j) ==
  /\ PassDone(j)
  /\ pass[j] + 1 < TargetEpochs[j]
  /\ pass' = [pass EXCEPT ![j] = @ + 1]
  /\ done' = done \ ShardsOf(j)
  /\ UNCHANGED jobStatus

Complete(j) ==
  /\ Live(j)
  /\ PassDone(j)
  /\ pass[j] + 1 = TargetEpochs[j]
  /\ jobStatus' = [jobStatus EXCEPT ![j] = "completed"]
  /\ UNCHANGED <<done, pass>>

\* A job fails over a shard that could not be trained.
Fail(j) ==
  /\ Live(j)
  /\ ~ PassDone(j)
  /\ jobStatus' = [jobStatus EXCEPT ![j] = "failed"]
  /\ UNCHANGED <<done, pass>>

Cancel(j) ==
  /\ jobStatus' = [jobStatus EXCEPT ![j] = "cancelled"]
  /\ UNCHANGED <<done, pass>>

Next ==
  \/ \E j \in Jobs : Start(j) \/ NextPass(j) \/ Complete(j) \/ Fail(j) \/ Cancel(j)
  \/ \E b \in Batches : Train(b)

Spec == Init /\ [][Next]_vars
=============================================================================
