------------------------------ MODULE JobSetup ------------------------------
(***************************************************************************)
(* One dataset and the jobs created on it: the gateway's background tasks  *)
(* that upload the dataset, set each job up and delete the dataset, the    *)
(* sharder's RPC that a setup starts, and the orchestrator's writes to the *)
(* same rows while it trains.  They meet only in the database and in the   *)
(* object store; each looks at the status a while before it writes it.     *)
(*                                                                         *)
(* SQLAlchemy's sessions keep what they have loaded (expire_on_commit is   *)
(* False), so the error handler of a setup may write from an old value,    *)
(* and a commit that updates a deleted row raises, which leaves a session  *)
(* in which the handler cannot write either.                               *)
(***************************************************************************)
EXTENDS Naturals

CONSTANTS
  SetupJobs,   \* job ids
  Kinds,       \* how the dataset may arrive: {"file", "url"} or a part of it
  CrashBound   \* bound: restarts of the gateway

ASSUME SetupParameters == Kinds \subseteq {"file", "url"} /\ CrashBound \in Nat

VARIABLES
  kind,     \* Dataset.upload_type
  row,      \* Dataset.status, "none" before and "gone" after the row exists
  raw,      \* the dataset's objects in the store: none, some or all of them
  upload,   \* the background task of the upload
  delete,   \* the background task of the deletion
  doomed,   \* ... and the jobs whose batch paths it has collected
  jobRow,   \* Job.status in Postgres
  setup,    \* _initialize_job_background of each job
  seen,     \* ... and the dataset status it loaded
  rpc,      \* the sharder's ShardDataset for the job
  source,   \* ... and what of the raw objects it loaded
  objects,  \* the job's batch objects
  rows,     \* the job's rows in data_batches
  submitted,\* has InitiateTraining accepted the job?
  crashes

setupVars == <<kind, row, raw, upload, delete, doomed, jobRow, setup, seen, rpc, source,
               objects, rows, submitted, crashes>>
datasetVars == <<kind, raw, upload, delete, doomed>>
shardVars   == <<rpc, source, objects, rows>>

RowStatus == {"none", "pending", "processing", "uploaded", "sharding", "available",
              "deleting", "failed", "gone"}
Amounts   == {"none", "some", "all"}

SetupTypeOK ==
  /\ kind \in Kinds
  /\ row \in RowStatus
  /\ raw \in Amounts
  /\ upload \in {"idle", "process", "commitFirst", "send", "commit", "done", "lost"}
  /\ delete \in {"idle", "collect", "objects", "row", "rows", "done", "failed", "lost"}
  /\ doomed \subseteq SetupJobs
  /\ jobRow \in [SetupJobs -> {"none", "pending", "running", "completed", "failed", "cancelled"}]
  /\ setup \in [SetupJobs -> {"idle", "poll", "mark", "sharding", "initiate", "fail", "done", "dead", "lost"}]
  /\ seen \in [SetupJobs -> RowStatus]
  /\ rpc \in [SetupJobs -> {"none", "load", "create", "persist", "ok", "failed", "aborted"}]
  /\ source \in [SetupJobs -> Amounts]
  /\ objects \in [SetupJobs -> Amounts]
  /\ rows \in [SetupJobs -> {"none", "available", "taken", "completed", "failed"}]
  /\ submitted \in [SetupJobs -> BOOLEAN]

SetupInit ==
  /\ kind \in Kinds
  /\ row = "none" /\ raw = "none"
  /\ upload = "idle" /\ delete = "idle" /\ doomed = {}
  /\ jobRow = [j \in SetupJobs |-> "none"]
  /\ setup = [j \in SetupJobs |-> "idle"]
  /\ seen = [j \in SetupJobs |-> "none"]
  /\ rpc = [j \in SetupJobs |-> "none"]
  /\ source = [j \in SetupJobs |-> "none"]
  /\ objects = [j \in SetupJobs |-> "none"]
  /\ rows = [j \in SetupJobs |-> "none"]
  /\ submitted = [j \in SetupJobs |-> FALSE]
  /\ crashes = 0

RowExists == row \notin {"none", "gone"}
Dead(j) == jobRow[j] \in {"failed", "cancelled"}
Alive(j) == jobRow[j] \in {"pending", "running"}

-----------------------------------------------------------------------------
(***************************************************************************)
(* The dataset.  _ensure_dataset_not_deleting comes before each commit in  *)
(* a transaction of its own, so a deletion may come between.               *)
(***************************************************************************)
CreateDataset ==
  /\ row = "none"
  /\ row' = IF kind = "file" THEN "processing" ELSE "pending"
  /\ upload' = "process"
  /\ UNCHANGED <<kind, raw, delete, doomed, jobRow, setup, seen, shardVars, submitted, crashes>>

UploadMoves(from, to) ==
  /\ upload = from
  /\ upload' = IF row \in {"gone", "deleting"} THEN "done" ELSE to
  /\ UNCHANGED <<kind, delete, doomed, jobRow, setup, seen, shardVars, submitted, crashes>>

\* Mutant: a file upload, like a download, is called uploaded before it is sent.
ProcessUpload_EarlyCommit ==
  /\ UploadMoves("process", "commitFirst")
  /\ UNCHANGED <<row, raw>>

\* Extraction, validation and the checks between them.
ProcessUpload ==
  /\ UploadMoves("process", IF kind = "file" THEN "send" ELSE "commitFirst")
  /\ UNCHANGED <<row, raw>>

\* A download from a URL is called uploaded before it is sent to the store.
CommitDownload ==
  /\ upload = "commitFirst"
  /\ row' = IF RowExists THEN "uploaded" ELSE row
  /\ upload' = "send"
  /\ UNCHANGED <<kind, raw, delete, doomed, jobRow, setup, seen, shardVars, submitted, crashes>>

\* _upload_to_gcs_background: the objects, a check, and the commit.
SendSome == upload = "send" /\ raw = "none" /\ UploadMoves("send", "send") /\ raw' = "some" /\ UNCHANGED row
SendRest == upload = "send" /\ raw # "none" /\ UploadMoves("send", "commit") /\ raw' = "all" /\ UNCHANGED row

CommitUpload ==
  /\ upload = "commit"
  /\ row' = IF RowExists THEN "uploaded" ELSE row
  /\ upload' = "done"
  /\ UNCHANGED <<kind, raw, delete, doomed, jobRow, setup, seen, shardVars, submitted, crashes>>

\* _mark_dataset_failed, whatever the row has become.
MarkDatasetFailed ==
  /\ row' = IF RowExists THEN "failed" ELSE row
  /\ upload' = "done"
  /\ UNCHANGED <<kind, raw, delete, doomed, jobRow, setup, seen, shardVars, submitted, crashes>>

\* The archive cannot be read, or what is in it has none of the known formats.
ProcessingFails == upload = "process" /\ MarkDatasetFailed

UploadFails == upload = "send" /\ MarkDatasetFailed

\* delete_dataset: one transaction, which spares only terminal jobs.
DeleteDataset ==
  /\ RowExists
  /\ delete = "idle"
  /\ row' = "deleting"
  /\ jobRow' = [j \in SetupJobs |-> IF Alive(j) THEN "failed" ELSE jobRow[j]]
  /\ delete' = "collect"
  /\ UNCHANGED <<kind, raw, upload, doomed, setup, seen, shardVars, submitted, crashes>>

\* _delete_dataset_background
CollectPaths ==
  /\ delete = "collect"
  /\ doomed' = {j \in SetupJobs : rows[j] # "none"}
  /\ delete' = "objects"
  /\ UNCHANGED <<kind, row, raw, upload, jobRow, setup, seen, shardVars, submitted, crashes>>

\* A failure of the store is only logged; some of the objects are gone then.
DeleteObjects ==
  /\ delete = "objects"
  /\ \E lost \in SUBSET doomed : objects' = [j \in SetupJobs |-> IF j \in lost THEN "none" ELSE objects[j]]
  /\ raw' \in {"none", raw}
  /\ delete' = "row"
  /\ UNCHANGED <<kind, row, upload, doomed, jobRow, setup, seen, rpc, source, rows, submitted, crashes>>

DeleteRow ==
  /\ delete = "row"
  /\ row' = "gone"
  /\ delete' = "rows"
  /\ UNCHANGED <<kind, raw, upload, doomed, jobRow, setup, seen, shardVars, submitted, crashes>>

DeleteRows ==
  /\ delete = "rows"
  /\ rows' = [j \in SetupJobs |-> "none"]
  /\ delete' = "done"
  /\ UNCHANGED <<kind, row, raw, upload, doomed, jobRow, setup, seen, rpc, source, objects, submitted, crashes>>

DeleteFails ==
  /\ delete = "row"
  /\ row' = "failed"
  /\ delete' = "failed"
  /\ UNCHANGED <<kind, raw, upload, doomed, jobRow, setup, seen, shardVars, submitted, crashes>>

-----------------------------------------------------------------------------
(***************************************************************************)
(* The setup of a job.                                                     *)
(***************************************************************************)
Goto(j, pc) == setup' = [setup EXCEPT ![j] = pc]

\* create_job, which asks nothing of the dataset's status.
CreateJob(j) ==
  /\ jobRow[j] = "none"
  /\ RowExists
  /\ jobRow' = [jobRow EXCEPT ![j] = "pending"]
  /\ Goto(j, "poll")
  /\ UNCHANGED <<datasetVars, row, seen, shardVars, submitted, crashes>>

\* Mutant: the loop does not know that a dataset may fail.
Poll_IgnoresFailure(j) ==
  /\ setup[j] = "poll"
  /\ \/ Dead(j) /\ Goto(j, "done") /\ UNCHANGED seen
     \/ ~Dead(j) /\ row = "gone" /\ Goto(j, "fail") /\ UNCHANGED seen
     \/ /\ ~Dead(j) /\ row \in {"uploaded", "available", "sharding", "deleting"}
        /\ Goto(j, "mark")
        /\ seen' = [seen EXCEPT ![j] = row]
  /\ UNCHANGED <<datasetVars, row, jobRow, shardVars, submitted, crashes>>

\* The polling loop reads the job, then the dataset; while the dataset is on its
\* way it goes on.  Any status it does not know counts as ready.
Poll(j) ==
  /\ setup[j] = "poll"
  /\ \/ Dead(j) /\ Goto(j, "done") /\ UNCHANGED seen
     \/ ~Dead(j) /\ row \in {"gone", "failed"} /\ Goto(j, "fail") /\ UNCHANGED seen
     \/ /\ ~Dead(j) /\ row \in {"uploaded", "available", "sharding", "deleting"}
        /\ Goto(j, "mark")
        /\ seen' = [seen EXCEPT ![j] = row]
  /\ UNCHANGED <<datasetVars, row, jobRow, shardVars, submitted, crashes>>

\* dataset.status = "sharding", and the RPC; no update is sent if that was what
\* it had loaded.
MarkSharding(j) ==
  /\ setup[j] = "mark"
  /\ \/ row = "gone" /\ seen[j] # "sharding" /\ Goto(j, "dead") /\ UNCHANGED <<row, rpc>>
     \/ /\ row # "gone" \/ seen[j] = "sharding"
        /\ row' = IF seen[j] = "sharding" THEN row ELSE "sharding"
        /\ rpc' = [rpc EXCEPT ![j] = "load"]
        /\ Goto(j, "sharding")
  /\ UNCHANGED <<datasetVars, jobRow, seen, source, objects, rows, submitted, crashes>>

\* The loop around the RPC sees that the job has died and cancels the call.
AbortSharding(j) ==
  /\ setup[j] = "sharding"
  /\ Dead(j)
  /\ rpc' = [rpc EXCEPT ![j] = "aborted"]
  /\ Goto(j, "done")
  /\ UNCHANGED <<datasetVars, row, jobRow, seen, source, objects, rows, submitted, crashes>>

\* The RPC has ended: on success dataset.status = "available".
FinishSharding(j) ==
  /\ setup[j] = "sharding"
  /\ \/ rpc[j] = "failed" /\ Goto(j, "fail") /\ UNCHANGED <<row, seen>>
     \/ rpc[j] = "ok" /\ row = "gone" /\ Goto(j, "dead") /\ UNCHANGED <<row, seen>>
     \/ /\ rpc[j] = "ok" /\ row # "gone"
        /\ row' = "available"
        /\ seen' = [seen EXCEPT ![j] = "available"]
        /\ Goto(j, "initiate")
  /\ UNCHANGED <<datasetVars, jobRow, shardVars, submitted, crashes>>

\* InitiateTraining; an answer that is lost is an error like any other.
Initiate(j) ==
  /\ setup[j] = "initiate"
  /\ \/ submitted' = [submitted EXCEPT ![j] = TRUE] /\ Goto(j, "done")
     \/ submitted' \in {submitted, [submitted EXCEPT ![j] = TRUE]} /\ Goto(j, "fail")
  /\ UNCHANGED <<datasetVars, row, jobRow, seen, shardVars, crashes>>

\* The exception handler: the job fails, whatever it has become, and the dataset
\* is released.  After FinishSharding the dataset is the one the session holds.
HandleFailure(j) ==
  /\ setup[j] = "fail"
  /\ \/ seen[j] = "available" /\ row = "gone" /\ Goto(j, "dead") /\ UNCHANGED <<row, jobRow>>
     \/ /\ seen[j] # "available" \/ row # "gone"
        /\ jobRow' = [jobRow EXCEPT ![j] = "failed"]
        /\ row' = IF seen[j] = "available" \/ row \in {"sharding", "available"} THEN "uploaded" ELSE row
        /\ Goto(j, "done")
  /\ UNCHANGED <<datasetVars, seen, shardVars, submitted, crashes>>

\* cancel_job, which asks nothing of the job's status.
CancelSetup(j) ==
  /\ jobRow[j] \notin {"none", "cancelled"}
  /\ jobRow' = [jobRow EXCEPT ![j] = "cancelled"]
  /\ row' = IF row \in {"sharding", "available"} THEN "uploaded" ELSE row
  /\ UNCHANGED <<datasetVars, setup, seen, shardVars, submitted, crashes>>

-----------------------------------------------------------------------------
(***************************************************************************)
(* The sharder's ShardDataset.                                             *)
(***************************************************************************)
LoadDataset(j) ==
  /\ rpc[j] = "load"
  /\ source' = [source EXCEPT ![j] = raw]
  /\ rpc' = [rpc EXCEPT ![j] = IF raw = "none" THEN "failed" ELSE "create"]
  /\ UNCHANGED <<datasetVars, row, jobRow, setup, seen, objects, rows, submitted, crashes>>

\* Mutant: the rows are written with the first shard.
CreateBatches_PersistsFirst(j) ==
  /\ rpc[j] = "create"
  /\ objects' = [objects EXCEPT ![j] = IF @ = "none" THEN "some" ELSE "all"]
  /\ rpc' = [rpc EXCEPT ![j] = IF objects[j] = "none" THEN "create" ELSE "ok"]
  /\ rows' = [rows EXCEPT ![j] = "available"]
  /\ UNCHANGED <<datasetVars, row, jobRow, setup, seen, source, submitted, crashes>>

\* One shard after the other: first some of the objects, then all.
CreateBatches(j) ==
  /\ rpc[j] = "create"
  /\ objects' = [objects EXCEPT ![j] = IF @ = "none" THEN "some" ELSE "all"]
  /\ rpc' = [rpc EXCEPT ![j] = IF objects[j] = "none" THEN "create" ELSE "persist"]
  /\ UNCHANGED <<datasetVars, row, jobRow, setup, seen, source, rows, submitted, crashes>>

\* persist_batches: all rows in one transaction.
PersistBatches(j) ==
  /\ rpc[j] = "persist"
  /\ rows' = [rows EXCEPT ![j] = "available"]
  /\ rpc' = [rpc EXCEPT ![j] = "ok"]
  /\ UNCHANGED <<datasetVars, row, jobRow, setup, seen, source, objects, submitted, crashes>>

ShardingBreaks(j) ==
  /\ rpc[j] \in {"load", "create", "persist"}
  /\ rpc' = [rpc EXCEPT ![j] = "failed"]
  /\ UNCHANGED <<datasetVars, row, jobRow, setup, seen, source, objects, rows, submitted, crashes>>

-----------------------------------------------------------------------------
(***************************************************************************)
(* The orchestrator: its engine hands out the available rows of a job that *)
(* is pending or running; results then end an epoch or the job, and an     *)
(* exhausted batch fails it.                                               *)
(***************************************************************************)
Dispatch(j) ==
  /\ rows[j] = "available" /\ Alive(j)
  /\ rows' = [rows EXCEPT ![j] = "taken"]
  /\ UNCHANGED <<datasetVars, row, jobRow, setup, seen, rpc, source, objects, submitted, crashes>>

\* Mutant: the update of the job forgets which statuses it must not touch.
StartNextEpoch_Resurrects(j) ==
  /\ rows[j] = "taken"
  /\ rows' = [rows EXCEPT ![j] = "available"]
  /\ jobRow' = [jobRow EXCEPT ![j] = "running"]
  /\ UNCHANGED <<datasetVars, row, setup, seen, rpc, source, objects, submitted, crashes>>

StartNextEpoch(j) ==
  /\ rows[j] = "taken"
  /\ rows' = [rows EXCEPT ![j] = "available"]
  /\ jobRow' = [jobRow EXCEPT ![j] = IF Dead(j) \/ @ = "completed" THEN @ ELSE "running"]
  /\ UNCHANGED <<datasetVars, row, setup, seen, rpc, source, objects, submitted, crashes>>

ReleaseDataset == row' = IF row = "available" THEN "uploaded" ELSE row

FinalizeJob(j) ==
  /\ rows[j] = "taken"
  /\ rows' = [rows EXCEPT ![j] = "completed"]
  /\ jobRow' = [jobRow EXCEPT ![j] = IF Dead(j) THEN @ ELSE "completed"]
  /\ ReleaseDataset
  /\ UNCHANGED <<datasetVars, setup, seen, rpc, source, objects, submitted, crashes>>

MarkJobFailed(j) ==
  /\ rows[j] = "taken"
  /\ rows' = [rows EXCEPT ![j] = "failed"]
  /\ jobRow' = [jobRow EXCEPT ![j] = IF @ \in {"cancelled", "completed"} THEN @ ELSE "failed"]
  /\ ReleaseDataset
  /\ UNCHANGED <<datasetVars, setup, seen, rpc, source, objects, submitted, crashes>>

\* The gateway restarts.  Nothing records its background tasks; the calls they
\* were waiting for are cancelled.
GatewayRestart ==
  /\ crashes < CrashBound
  /\ crashes' = crashes + 1
  /\ upload' = IF upload \in {"idle", "done"} THEN upload ELSE "lost"
  /\ delete' = IF delete \in {"idle", "done", "failed"} THEN delete ELSE "lost"
  /\ setup' = [j \in SetupJobs |-> IF setup[j] \in {"idle", "done", "dead"} THEN setup[j] ELSE "lost"]
  /\ rpc' = [j \in SetupJobs |-> IF rpc[j] \in {"load", "create", "persist"} THEN "aborted" ELSE rpc[j]]
  /\ UNCHANGED <<kind, row, raw, doomed, jobRow, seen, source, objects, rows, submitted>>

Upload   == ProcessUpload \/ CommitDownload \/ SendSome \/ SendRest \/ CommitUpload
Deletion == CollectPaths \/ DeleteObjects \/ DeleteRow \/ DeleteRows
SetupStep(j) == \/ Poll(j) \/ MarkSharding(j) \/ AbortSharding(j) \/ FinishSharding(j)
                \/ Initiate(j) \/ HandleFailure(j)
ShardStep(j) == LoadDataset(j) \/ CreateBatches(j) \/ PersistBatches(j)

SetupNext ==
  \/ CreateDataset \/ Upload \/ ProcessingFails \/ UploadFails
  \/ DeleteDataset \/ Deletion \/ DeleteFails
  \/ \E j \in SetupJobs :
       \/ CreateJob(j) \/ CancelSetup(j)
       \/ SetupStep(j)
       \/ ShardStep(j) \/ ShardingBreaks(j)
       \/ Dispatch(j) \/ StartNextEpoch(j) \/ FinalizeJob(j) \/ MarkJobFailed(j)
  \/ GatewayRestart

SetupSpec == SetupInit /\ [][SetupNext]_setupVars

\* Background tasks and the sharder's call run on until they end.
SetupFairness ==
  /\ WF_setupVars(Upload) /\ WF_setupVars(Deletion)
  /\ \A j \in SetupJobs : WF_setupVars(SetupStep(j)) /\ WF_setupVars(ShardStep(j))

-----------------------------------------------------------------------------
\* The engine hands out whatever rows it finds: the rows of a job have all their
\* objects, though the sharding may be cancelled or fail at any point and the
\* dataset be deleted meanwhile; excepted is a deletion between its objects and
\* its rows, or one that ended there.
RowsHaveObjects ==
  delete \in {"idle", "collect", "objects", "done"} =>
    \A j \in SetupJobs : rows[j] # "none" => objects[j] = "all"

\* A dataset that was uploaded as files and is not being deleted is sharded as a
\* whole: no setup finds it ready before the last object is in the store.
WholeDataset ==
  kind = "file" /\ delete = "idle" => \A j \in SetupJobs : source[j] # "some"

\* No interleaving of the gateway's tasks with the orchestrator's updates brings
\* a job that failed or was cancelled back to life.
DeadJobsStayDead ==
  [][\A j \in SetupJobs : Dead(j) => Dead(j)']_setupVars

\* While the gateway does not restart, no job waits for ever: its setup submits
\* it or it ends, unless a deleted row broke the session of its error handler.
SetupEnds ==
  [](crashes = 0) =>
    \A j \in SetupJobs : jobRow[j] = "pending" ~> (jobRow[j] # "pending" \/ submitted[j] \/ setup[j] = "dead")
=============================================================================
