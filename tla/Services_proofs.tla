--------------------------- MODULE Services_proofs --------------------------
(***************************************************************************)
(* Theorems about the services around the training loop, each for any      *)
(* values of its constants: the setup and deletion of data sets and jobs,  *)
(* the groups, the model registry and the parameter store.                 *)
(***************************************************************************)
EXTENDS JobSetup, Groups, ModelRegistry, ParameterStorage, DataLemmas, FiniteSetTheorems

-----------------------------------------------------------------------------
(* JobSetup: any set of jobs and any number of restarts. *)
\* A leaf knows one group of actions; this is the set of them.
Actions ==
  \/ CreateDataset \/ Upload \/ ProcessingFails \/ UploadFails
  \/ DeleteDataset \/ Deletion \/ DeleteFails \/ GatewayRestart
  \/ \E j \in SetupJobs :
       \/ CreateJob(j) \/ CancelSetup(j)
       \/ Poll(j) \/ MarkSharding(j) \/ AbortSharding(j) \/ FinishSharding(j)
       \/ Initiate(j) \/ HandleFailure(j)
       \/ LoadDataset(j) \/ CreateBatches(j) \/ PersistBatches(j) \/ ShardingBreaks(j)
       \/ Dispatch(j) \/ StartNextEpoch(j) \/ FinalizeJob(j) \/ MarkJobFailed(j)

LEMMA NextIsActions == SetupNext <=> Actions
  BY DEF SetupNext, SetupStep, ShardStep, Actions

LEMMA TypesKept ==
  ASSUME SetupTypeOK, [SetupNext]_setupVars
  PROVE  SetupTypeOK'
<1> USE DEF SetupTypeOK, Amounts, RowStatus
<1>1. CASE CreateDataset \/ ProcessingFails \/ UploadFails
  BY <1>1 DEF CreateDataset, ProcessingFails, UploadFails, MarkDatasetFailed, shardVars
<1>2. CASE Upload
  BY <1>2 DEF Upload, ProcessUpload, CommitDownload, SendSome, SendRest, CommitUpload, UploadMoves, shardVars
<1>3. CASE DeleteDataset \/ DeleteFails
  BY <1>3 DEF DeleteDataset, DeleteFails, Alive, shardVars
<1>4. CASE Deletion
  BY <1>4 DEF Deletion, CollectPaths, DeleteObjects, DeleteRow, DeleteRows, shardVars
<1>5. CASE GatewayRestart
  BY <1>5 DEF GatewayRestart
<1>6. ASSUME NEW j \in SetupJobs, CreateJob(j) \/ CancelSetup(j) \/ Poll(j) PROVE SetupTypeOK'
  BY <1>6 DEF CreateJob, CancelSetup, Poll, Goto, datasetVars, shardVars
<1>7. ASSUME NEW j \in SetupJobs, MarkSharding(j) \/ AbortSharding(j) \/ FinishSharding(j) PROVE SetupTypeOK'
  <2>1. CASE MarkSharding(j)
    BY <2>1 DEF MarkSharding, Goto, datasetVars
  <2>2. CASE AbortSharding(j)
    BY <2>2 DEF AbortSharding, Goto, datasetVars
  <2>3. CASE FinishSharding(j)
    BY <2>3 DEF FinishSharding, Goto, datasetVars, shardVars
  <2> QED
    BY <1>7, <2>1, <2>2, <2>3
<1>8. ASSUME NEW j \in SetupJobs, Initiate(j) \/ HandleFailure(j) PROVE SetupTypeOK'
  <2>1. CASE Initiate(j)
    <3>1. /\ submitted' \in {submitted, [submitted EXCEPT ![j] = TRUE]}
          /\ setup' \in {[setup EXCEPT ![j] = "done"], [setup EXCEPT ![j] = "fail"]}
          /\ UNCHANGED <<datasetVars, row, jobRow, seen, shardVars>>
      BY <2>1 DEF Initiate, Goto
    <3>2. submitted' \in [SetupJobs -> BOOLEAN]
      BY <3>1
    <3> QED
      BY <3>1, <3>2 DEF datasetVars, shardVars
  <2>2. CASE HandleFailure(j)
    <3>1. /\ row' \in {row, "uploaded"} /\ jobRow' \in {jobRow, [jobRow EXCEPT ![j] = "failed"]}
          /\ setup' \in {[setup EXCEPT ![j] = "dead"], [setup EXCEPT ![j] = "done"]}
          /\ UNCHANGED <<datasetVars, seen, shardVars, submitted>>
      BY <2>2 DEF HandleFailure, Goto
    <3> QED
      BY <3>1 DEF datasetVars, shardVars
  <2> QED
    BY <1>8, <2>1, <2>2
<1>9. ASSUME NEW j \in SetupJobs, LoadDataset(j) \/ CreateBatches(j) \/ PersistBatches(j) \/ ShardingBreaks(j)
      PROVE  SetupTypeOK'
  BY <1>9 DEF LoadDataset, CreateBatches, PersistBatches, ShardingBreaks, datasetVars
<1>10. ASSUME NEW j \in SetupJobs, Dispatch(j) \/ StartNextEpoch(j) \/ FinalizeJob(j) \/ MarkJobFailed(j)
       PROVE  SetupTypeOK'
  BY <1>10 DEF Dispatch, StartNextEpoch, FinalizeJob, MarkJobFailed, ReleaseDataset, datasetVars
<1>11. CASE UNCHANGED setupVars
  BY <1>11 DEF setupVars, shardVars
<1> QED
  BY <1>1, <1>2, <1>3, <1>4, <1>5, <1>6, <1>7, <1>8, <1>9, <1>10, <1>11, NextIsActions DEF Actions

LEMMA SetupStarts == SetupInit => SetupTypeOK
  BY DEF SetupInit, SetupTypeOK, Amounts, RowStatus

\* Every variable keeps to its type.
THEOREM SetupTypeCorrect == SetupSpec => []SetupTypeOK
  BY SetupStarts, TypesKept, PTL DEF SetupSpec

-----------------------------------------------------------------------------
LEMMA DeadStayDead ==
  ASSUME SetupTypeOK, [SetupNext]_setupVars, NEW i \in SetupJobs, Dead(i)
  PROVE  Dead(i)'
<1> USE DEF SetupTypeOK, Dead
<1>1. CASE UNCHANGED jobRow
  BY <1>1
<1>2. CASE DeleteDataset
  BY <1>2 DEF DeleteDataset, Alive
<1>3. ASSUME NEW j \in SetupJobs, CreateJob(j) \/ CancelSetup(j) \/ HandleFailure(j) PROVE Dead(i)'
  BY <1>3 DEF CreateJob, CancelSetup, HandleFailure
<1>4. ASSUME NEW j \in SetupJobs, StartNextEpoch(j) \/ FinalizeJob(j) \/ MarkJobFailed(j) PROVE Dead(i)'
  BY <1>4 DEF StartNextEpoch, FinalizeJob, MarkJobFailed
<1>5. ASSUME CreateDataset \/ Upload \/ ProcessingFails \/ UploadFails \/ Deletion \/ DeleteFails \/ GatewayRestart
      PROVE  UNCHANGED jobRow
  BY <1>5 DEF CreateDataset, Upload, ProcessUpload, CommitDownload, SendSome, SendRest, CommitUpload, UploadMoves,
       ProcessingFails, UploadFails, MarkDatasetFailed, Deletion, CollectPaths, DeleteObjects, DeleteRow, DeleteRows,
       DeleteFails, GatewayRestart
<1>6. ASSUME NEW j \in SetupJobs,
             \/ Poll(j) \/ MarkSharding(j) \/ AbortSharding(j) \/ FinishSharding(j) \/ Initiate(j)
             \/ LoadDataset(j) \/ CreateBatches(j) \/ PersistBatches(j) \/ ShardingBreaks(j) \/ Dispatch(j)
      PROVE  UNCHANGED jobRow
  BY <1>6 DEF Poll, MarkSharding, AbortSharding, FinishSharding, Initiate,
       LoadDataset, CreateBatches, PersistBatches, ShardingBreaks, Dispatch
<1>7. CASE UNCHANGED setupVars
  BY <1>7 DEF setupVars
<1> QED
  BY <1>1, <1>2, <1>3, <1>4, <1>5, <1>6, <1>7, NextIsActions DEF Actions

\* No update by the gateway's background tasks or the orchestrator revives a job
\* that failed or was cancelled (jobs.py:322, grpc_server.py:783).
THEOREM DeadJobsNeverRevive == SetupSpec => DeadJobsStayDead
<1>1. SetupTypeOK /\ [SetupNext]_setupVars => [\A j \in SetupJobs : Dead(j) => Dead(j)']_setupVars
  BY DeadStayDead
<1> QED
  BY <1>1, SetupTypeCorrect, PTL DEF SetupSpec, DeadJobsStayDead

-----------------------------------------------------------------------------
(***************************************************************************)
(* Rows and objects.  A job is set up once, so its call of the sharder has *)
(* written nothing before it persists; by then it has all objects, and a   *)
(* deletion that collected the job's rows comes after the call's end.      *)
(***************************************************************************)
SetUpOnce ==
  \A j \in SetupJobs :
    /\ jobRow[j] = "none" => setup[j] = "idle"
    /\ setup[j] \in {"idle", "poll", "mark"} => rpc[j] = "none"

NothingYet ==
  \A j \in SetupJobs :
    /\ rpc[j] \in {"none", "load", "create", "persist"} => rows[j] = "none" /\ j \notin doomed
    /\ rpc[j] = "persist" => objects[j] = "all"

RowsInv == SetUpOnce /\ NothingYet /\ RowsHaveObjects

LEMMA RowsInvKept ==
  ASSUME SetupTypeOK, RowsInv, [SetupNext]_setupVars
  PROVE  RowsInv'
<1> USE DEF SetupTypeOK, Amounts, RowsInv, SetUpOnce, NothingYet, RowsHaveObjects
<1>1. ASSUME UNCHANGED <<jobRow, setup, rpc, rows, objects, doomed>>,
             delete' = delete \/ delete' \notin {"idle", "collect", "objects", "done"}
      PROVE  RowsInv'
  BY <1>1
<1>2. CASE CreateDataset \/ ProcessingFails \/ UploadFails \/ Upload
  BY <1>1, <1>2 DEF CreateDataset, ProcessingFails, UploadFails, MarkDatasetFailed, shardVars,
       Upload, ProcessUpload, CommitDownload, SendSome, SendRest, CommitUpload, UploadMoves
<1>3. CASE DeleteDataset
  BY <1>3 DEF DeleteDataset, Alive, shardVars
<1>4. CASE DeleteFails
  BY <1>1, <1>4 DEF DeleteFails, shardVars
<1>5. CASE Deletion
  <2>1. CASE CollectPaths
    BY <2>1 DEF CollectPaths, shardVars
  <2>2. CASE DeleteObjects
    BY <2>2 DEF DeleteObjects
  <2>3. CASE DeleteRow
    BY <1>1, <2>3 DEF DeleteRow, shardVars
  <2>4. CASE DeleteRows
    BY <2>4 DEF DeleteRows
  <2> QED
    BY <1>5, <2>1, <2>2, <2>3, <2>4 DEF Deletion
<1>6. CASE GatewayRestart
  BY <1>6 DEF GatewayRestart
<1>7. ASSUME NEW j \in SetupJobs, CreateJob(j) \/ CancelSetup(j) \/ Poll(j) PROVE RowsInv'
  BY <1>7 DEF CreateJob, CancelSetup, Poll, Goto, datasetVars, shardVars
<1>8. ASSUME NEW j \in SetupJobs, MarkSharding(j) PROVE RowsInv'
  BY <1>8 DEF MarkSharding, Goto, datasetVars
<1>9. ASSUME NEW j \in SetupJobs, AbortSharding(j) PROVE RowsInv'
  BY <1>9 DEF AbortSharding, Goto, datasetVars, Dead
<1>10. ASSUME NEW j \in SetupJobs, FinishSharding(j) \/ Initiate(j) PROVE RowsInv'
  BY <1>10 DEF FinishSharding, Initiate, Goto, datasetVars, shardVars
<1>11. ASSUME NEW j \in SetupJobs, HandleFailure(j) PROVE RowsInv'
  BY <1>11 DEF HandleFailure, Goto, datasetVars, shardVars
<1>12. ASSUME NEW j \in SetupJobs, LoadDataset(j) \/ ShardingBreaks(j) PROVE RowsInv'
  BY <1>12 DEF LoadDataset, ShardingBreaks, datasetVars
<1>13. ASSUME NEW j \in SetupJobs, CreateBatches(j) PROVE RowsInv'
  BY <1>13 DEF CreateBatches, datasetVars
<1>14. ASSUME NEW j \in SetupJobs, PersistBatches(j) PROVE RowsInv'
  BY <1>14 DEF PersistBatches, datasetVars
<1>15. ASSUME NEW j \in SetupJobs, Dispatch(j) \/ StartNextEpoch(j) \/ FinalizeJob(j) \/ MarkJobFailed(j)
       PROVE  RowsInv'
  BY <1>15 DEF Dispatch, StartNextEpoch, FinalizeJob, MarkJobFailed, datasetVars
<1>16. CASE UNCHANGED setupVars
  BY <1>1, <1>16 DEF setupVars, shardVars
<1> QED
  BY <1>2, <1>3, <1>4, <1>5, <1>6, <1>7, <1>8, <1>9, <1>10, <1>11, <1>12, <1>13, <1>14, <1>15, <1>16, NextIsActions
     DEF Actions

\* Rows that the engine may hand out have all their objects, wherever the setup,
\* the sharder's call or the gateway broke off (batch_persistence.py:9).
THEOREM RowsAlwaysHaveObjects == SetupSpec => []RowsHaveObjects
<1>1. SetupInit => RowsInv
  BY DEF SetupInit, RowsInv, SetUpOnce, NothingYet, RowsHaveObjects
<1>2. SetupTypeOK /\ RowsInv /\ [SetupNext]_setupVars => RowsInv'
  BY RowsInvKept
<1> QED
  BY <1>1, <1>2, SetupTypeCorrect, PTL DEF SetupSpec, RowsInv

-----------------------------------------------------------------------------
(***************************************************************************)
(* Whole datasets.  While the last object of a file upload is on its way,  *)
(* no status says ready, so that no setup has got past its polling.        *)
(***************************************************************************)
NoOneReady ==
  /\ row \in {"none", "processing", "failed"}
  /\ upload \notin {"commitFirst", "commit"}
  /\ \A j \in SetupJobs : /\ seen[j] = "none" /\ rpc[j] = "none"
                          /\ setup[j] \notin {"mark", "sharding", "initiate"}

WholeInv ==
  kind = "file" /\ delete = "idle" =>
    /\ raw # "all" => NoOneReady
    /\ \A j \in SetupJobs : source[j] # "some"

LEMMA WholeInvKept ==
  ASSUME SetupTypeOK, WholeInv, [SetupNext]_setupVars
  PROVE  WholeInv'
<1> SUFFICES ASSUME kind' = "file", delete' = "idle"
             PROVE  /\ raw' # "all" => NoOneReady'
                    /\ \A j \in SetupJobs : source'[j] # "some"
  BY DEF WholeInv
<1> DEFINE Goal == /\ raw' # "all" => NoOneReady'
                   /\ \A j \in SetupJobs : source'[j] # "some"
<1> USE DEF SetupTypeOK, Amounts, WholeInv, NoOneReady
<1>1. ASSUME CreateDataset \/ ProcessingFails \/ UploadFails PROVE Goal
  BY <1>1 DEF CreateDataset, ProcessingFails, UploadFails, MarkDatasetFailed, RowExists, shardVars
<1>2. ASSUME Upload PROVE Goal
  <2>1. CASE ProcessUpload
    BY <2>1 DEF ProcessUpload, UploadMoves, shardVars
  <2>2. CASE CommitDownload \/ CommitUpload
    BY <2>2 DEF CommitDownload, CommitUpload, shardVars
  <2>3. CASE SendSome \/ SendRest
    BY <2>3 DEF SendSome, SendRest, UploadMoves, shardVars
  <2> QED
    BY <1>2, <2>1, <2>2, <2>3 DEF Upload
<1>3. ASSUME DeleteDataset \/ Deletion \/ DeleteFails PROVE Goal
  BY <1>3 DEF DeleteDataset, Deletion, CollectPaths, DeleteObjects, DeleteRow, DeleteRows, DeleteFails
<1>4. ASSUME GatewayRestart PROVE Goal
  BY <1>4 DEF GatewayRestart
<1>5. ASSUME NEW j \in SetupJobs, CreateJob(j) \/ CancelSetup(j) PROVE Goal
  BY <1>5 DEF CreateJob, CancelSetup, Goto, datasetVars, shardVars
<1>6. ASSUME NEW j \in SetupJobs, Poll(j) PROVE Goal
  BY <1>6 DEF Poll, Goto, datasetVars, shardVars
<1>7. ASSUME NEW j \in SetupJobs, MarkSharding(j) \/ AbortSharding(j) PROVE Goal
  BY <1>7 DEF MarkSharding, AbortSharding, Goto, datasetVars
<1>8. ASSUME NEW j \in SetupJobs, FinishSharding(j) \/ Initiate(j) PROVE Goal
  BY <1>8 DEF FinishSharding, Initiate, Goto, datasetVars, shardVars
<1>9. ASSUME NEW j \in SetupJobs, HandleFailure(j) PROVE Goal
  BY <1>9 DEF HandleFailure, Goto, datasetVars, shardVars
<1>10. ASSUME NEW j \in SetupJobs, LoadDataset(j) PROVE Goal
  BY <1>10 DEF LoadDataset, datasetVars
<1>11. ASSUME NEW j \in SetupJobs, CreateBatches(j) \/ PersistBatches(j) \/ ShardingBreaks(j) PROVE Goal
  BY <1>11 DEF CreateBatches, PersistBatches, ShardingBreaks, datasetVars
<1>12. ASSUME NEW j \in SetupJobs, Dispatch(j) \/ StartNextEpoch(j) \/ FinalizeJob(j) \/ MarkJobFailed(j) PROVE Goal
  BY <1>12 DEF Dispatch, StartNextEpoch, FinalizeJob, MarkJobFailed, ReleaseDataset, datasetVars
<1>13. ASSUME UNCHANGED setupVars PROVE Goal
  BY <1>13 DEF setupVars, shardVars, datasetVars
<1> HIDE DEF Goal
<1>14. Goal
  BY <1>1, <1>2, <1>3, <1>4, <1>5, <1>6, <1>7, <1>8, <1>9, <1>10, <1>11, <1>12, <1>13, NextIsActions DEF Actions
<1> QED
  BY <1>14 DEF Goal

\* No setup shards a file upload before its last object is stored
\* (datasets.py:861, jobs.py:208).
THEOREM DatasetsShardedWhole == SetupSpec => []WholeDataset
<1>1. SetupInit => WholeInv
  BY DEF SetupInit, WholeInv, NoOneReady
<1>2. SetupTypeOK /\ WholeInv /\ [SetupNext]_setupVars => WholeInv'
  BY WholeInvKept
<1>3. WholeInv => WholeDataset
  BY DEF WholeInv, WholeDataset
<1> QED
  BY <1>1, <1>2, <1>3, SetupTypeCorrect, PTL DEF SetupSpec

-----------------------------------------------------------------------------
(* Groups: any accounts, workers, sessions and limits. *)
(***************************************************************************)
(* The count is bounded although it is written from a stale reading: every *)
(* acceptance under way has read a count that leaves room for its use.     *)
(* Membership rows keep their shape, since roles and workers are changed   *)
(* in place.                                                               *)
(***************************************************************************)
Memberships == [key : Nat, user : Users \cup {Null}, worker : Devices \cup {Null}, role : Roles]

RowsTyped == members \subseteq Memberships /\ made \in Nat

SessionsTyped ==
  /\ DOMAIN session = Sessions
  /\ \A s \in Sessions :
       /\ session[s].op = "accept" => session[s].user \in Users /\ session[s].worker \in Devices
       /\ session[s].op = "join" => session[s].worker \in Devices
       /\ session[s].op = "role" => session[s].role \in Roles

RoomForUses ==
  /\ maxUses \in Nat /\ uses \in Nat
  /\ maxUses > 0 => uses <= maxUses
  /\ \A s \in Sessions : session[s].op = "accept" =>
       session[s].uses \in Nat /\ (maxUses > 0 => session[s].uses < maxUses)

GroupsInv == RowsTyped /\ SessionsTyped /\ RoomForUses

\* A request that begins has read what is there.
LEMMA AcceptBeginKeeps ==
  ASSUME GroupsInv, NEW s \in Sessions, NEW request, Start(s, request),
         request.op = "accept" => /\ request.user \in Users /\ request.worker \in Devices
                                  /\ request.uses \in Nat /\ (maxUses > 0 => request.uses < maxUses),
         request.op = "join" => request.worker \in Devices,
         request.op = "role" => request.role \in Roles
  PROVE  GroupsInv'
<1>1. \A t \in Sessions : session'[t] = IF t = s THEN request ELSE session[t]
  BY DEF Start, GroupsInv, SessionsTyped
<1>2. DOMAIN session' = Sessions
  BY DEF Start, GroupsInv, SessionsTyped
<1>3. RowsTyped'
  BY DEF Start, GroupsInv, RowsTyped
<1>4. SessionsTyped'
  BY <1>1, <1>2 DEF GroupsInv, SessionsTyped
<1>5. RoomForUses'
  BY <1>1 DEF Start, GroupsInv, RoomForUses
<1> QED
  BY <1>3, <1>4, <1>5 DEF GroupsInv

\* The session that commits is idle afterwards; the others are as they were.
LEMMA CommitFrees ==
  ASSUME SessionsTyped, NEW s \in Sessions, NEW op, Commit(s, op)
  PROVE  /\ SessionsTyped'
         /\ \A t \in Sessions : session'[t].op = "accept" => session'[t] = session[t]
<1>1. \A t \in Sessions : session'[t] = IF t = s THEN NoSession ELSE session[t]
  BY DEF Commit, SessionsTyped
<1>2. DOMAIN session' = Sessions
  BY DEF Commit, SessionsTyped
<1>3. NoSession.op = "idle"
  BY DEF NoSession
<1> QED
  BY <1>1, <1>2, <1>3 DEF SessionsTyped

\* What a commit must see to besides its session.
LEMMA CommitKeeps ==
  ASSUME GroupsInv, NEW s \in Sessions, NEW op, Commit(s, op), RowsTyped',
         UNCHANGED maxUses, uses' \in Nat, maxUses > 0 => uses' <= maxUses
  PROVE  GroupsInv'
BY CommitFrees DEF GroupsInv, RoomForUses

\* The row an acceptance writes is a membership.
LEMMA AcceptKeeps ==
  ASSUME GroupsInv, NEW s \in Sessions, CommitAccept(s)
  PROVE  GroupsInv'
<1> DEFINE a == session[s]
           mine == {r \in members : \E x \in a.row : x.key = r.key}
<1>1. Commit(s, "accept") /\ a.op = "accept"
  BY DEF CommitAccept, Commit
<1>2. a.user \in Users /\ a.worker \in Devices /\ a.uses \in Nat /\ (maxUses > 0 => a.uses < maxUses)
  BY <1>1 DEF GroupsInv, SessionsTyped, RoomForUses
<1>3. CASE Rollback
  <2>1. RowsTyped' /\ UNCHANGED <<maxUses, uses>>
    BY <1>3 DEF Rollback, GroupsInv, RowsTyped
  <2> QED
    BY <1>1, <2>1, CommitKeeps DEF GroupsInv, RoomForUses
<1>4. CASE /\ uses' = a.uses + 1 /\ UNCHANGED maxUses
           /\ \/ made' = made /\ members' = (members \ mine) \cup {[r EXCEPT !.worker = a.worker] : r \in mine}
              \/ made' = made + 1 /\ members' = members \cup {Row(made + 1, a.user, a.worker, "worker")}
  <2>1. \A r \in mine : [r EXCEPT !.worker = a.worker] \in Memberships
    BY <1>2 DEF GroupsInv, RowsTyped, Memberships
  <2>2. Row(made + 1, a.user, a.worker, "worker") \in Memberships
    BY <1>2 DEF GroupsInv, RowsTyped, Memberships, Row, Roles
  <2>3. RowsTyped'
    BY <1>4, <2>1, <2>2 DEF GroupsInv, RowsTyped
  <2>4. uses' \in Nat /\ (maxUses > 0 => uses' <= maxUses)
    BY <1>2, <1>4 DEF GroupsInv, RoomForUses
  <2> QED
    BY <1>1, <1>4, <2>3, <2>4, CommitKeeps
<1> QED
  BY <1>3, <1>4 DEF CommitAccept

\* Commits of the other requests change rows, never the count.
LEMMA OthersKeep ==
  ASSUME GroupsInv, NEW s \in Sessions,
         CommitJoin(s) \/ CommitRole(s) \/ CommitRemove(s) \/ CommitDeleteGroup(s)
  PROVE  GroupsInv'
<1>1. UNCHANGED <<maxUses, uses>>
  BY DEF CommitJoin, CommitRole, CommitRemove, CommitDeleteGroup, Rollback
<1>2. uses' \in Nat /\ (maxUses > 0 => uses' <= maxUses)
  BY <1>1 DEF GroupsInv, RoomForUses
<1>3. CASE CommitJoin(s)
  <2>1. Commit(s, "join") /\ session[s].worker \in Devices
    BY <1>3 DEF CommitJoin, Commit, GroupsInv, SessionsTyped
  <2>2. Row(made + 1, Null, session[s].worker, "worker") \in Memberships
    BY <2>1 DEF GroupsInv, RowsTyped, Memberships, Row, Roles
  <2>3. RowsTyped'
    BY <1>3, <2>2 DEF CommitJoin, Rollback, GroupsInv, RowsTyped
  <2> QED
    BY <1>1, <1>2, <2>1, <2>3, CommitKeeps
<1>4. CASE CommitRole(s)
  <2>1. Commit(s, "role") /\ session[s].role \in Roles
    BY <1>4 DEF CommitRole, Commit, GroupsInv, SessionsTyped
  <2>2. \A r \in members : [r EXCEPT !.role = session[s].role] \in Memberships
    BY <2>1 DEF GroupsInv, RowsTyped, Memberships
  <2>3. RowsTyped'
    BY <1>4, <2>2 DEF CommitRole, GroupsInv, RowsTyped
  <2> QED
    BY <1>1, <1>2, <2>1, <2>3, CommitKeeps
<1>5. CASE CommitRemove(s)
  <2>1. Commit(s, "remove") /\ RowsTyped'
    BY <1>5 DEF CommitRemove, GroupsInv, RowsTyped
  <2> QED
    BY <1>1, <1>2, <2>1, CommitKeeps
<1>6. CASE CommitDeleteGroup(s)
  <2>1. Commit(s, "delete") /\ RowsTyped'
    BY <1>6 DEF CommitDeleteGroup, Rollback, GroupsInv, RowsTyped
  <2> QED
    BY <1>1, <1>2, <2>1, CommitKeeps
<1> QED
  BY <1>3, <1>4, <1>5, <1>6

\* No step loses the bound on the count.
LEMMA GroupsInvKept ==
  ASSUME GroupsInv, [GroupsNext]_groupVars
  PROVE  GroupsInv'
<1> DEFINE Kept == UNCHANGED <<members, made, maxUses, uses, session>>
<1>1. CASE Kept
  BY <1>1 DEF GroupsInv, RowsTyped, SessionsTyped, RoomForUses
<1>2. ASSUME NEW u \in Users, CreateInvitation(u) \/ RevokeInvitation(u) \/ UpdateGroup(u) PROVE GroupsInv'
  BY <1>1, <1>2 DEF CreateInvitation, RevokeInvitation, UpdateGroup, Alone
<1>3. ASSUME NEW w \in Devices, RegisterDevice(w) \/ DeregisterDevice(w) PROVE GroupsInv'
  BY <1>1, <1>3 DEF RegisterDevice, DeregisterDevice, Alone
<1>4. ASSUME NEW s \in Sessions, NEW u \in Users, NEW w \in Devices, BeginAccept(s, u, w) PROVE GroupsInv'
  <2>1. uses \in Nat /\ maxUses \in Nat /\ (maxUses > 0 => uses < maxUses)
    BY <1>4 DEF BeginAccept, GroupsInv, RoomForUses
  <2>2. Start(s, [op |-> "accept", user |-> u, worker |-> w, uses |-> uses, row |-> RowsOf(u), known |-> w \in workers])
    BY <1>4 DEF BeginAccept
  <2> QED
    BY <2>1, <2>2, AcceptBeginKeeps
<1>5. ASSUME NEW s \in Sessions, NEW w \in Devices, BeginJoin(s, w) PROVE GroupsInv'
  BY <1>5, AcceptBeginKeeps DEF BeginJoin
<1>6. ASSUME NEW s \in Sessions, NEW u \in Users, NEW r \in members, BeginRemove(s, u, r) PROVE GroupsInv'
  BY <1>6, AcceptBeginKeeps DEF BeginRemove
<1>7. ASSUME NEW s \in Sessions, NEW u \in Users, NEW r \in members, NEW to \in Roles, BeginRole(s, u, r, to) PROVE GroupsInv'
  BY <1>7, AcceptBeginKeeps DEF BeginRole
<1>8. ASSUME NEW s \in Sessions, NEW u \in Users, BeginDeleteGroup(s, u) PROVE GroupsInv'
  BY <1>8, AcceptBeginKeeps DEF BeginDeleteGroup
<1> QED
  BY <1>1, <1>2, <1>3, <1>4, <1>5, <1>6, <1>7, <1>8, AcceptKeeps, OthersKeep DEF GroupsNext, groupVars

LEMMA GroupsInitially ==
  ASSUME GroupsInit
  PROVE  GroupsInv
<1>1. RowsTyped
  BY GroupParameters DEF GroupsInit, RowsTyped, Memberships, Row, Roles
<1>2. SessionsTyped
  BY DEF GroupsInit, SessionsTyped, NoSession
<1>3. RoomForUses
  BY GroupParameters DEF GroupsInit, RoomForUses, NoSession
<1> QED
  BY <1>1, <1>2, <1>3 DEF GroupsInv

LEMMA GroupsInvariant == GroupsSpec => []GroupsInv
  BY GroupsInitially, GroupsInvKept, PTL DEF GroupsSpec

-----------------------------------------------------------------------------
\* A key is that of one row: keys are given out in order.
KeysInOrder ==
  /\ made \in 1..RowBound
  /\ \A r \in members : r.key \in 1..made
  /\ \A a, b \in members : a.key = b.key => a = b

RestTyped ==
  /\ open \in BOOLEAN /\ public \in BOOLEAN
  /\ invitation \in {"none", "live", "gone"}
  /\ maxUses \in Limits
  /\ workers \subseteq Devices

\* What may happen to the rows: some go, some are changed in place, or one comes.
LEMMA KeysStay ==
  ASSUME KeysInOrder,
         \/ made' = made /\ members' \subseteq members
         \/ made' = made /\ \E f : members' = {f[r] : r \in members} /\ \A r \in members : f[r].key = r.key
         \/ made < RowBound /\ made' = made + 1 /\ \E x : x.key = made + 1 /\ members' = members \cup {x}
  PROVE  KeysInOrder'
<1>1. made \in 1..RowBound /\ RowBound \in Nat
  BY GroupParameters DEF KeysInOrder
<1>2. CASE made' = made /\ members' \subseteq members
  BY <1>2 DEF KeysInOrder
<1>3. ASSUME made' = made, NEW f, members' = {f[r] : r \in members}, \A r \in members : f[r].key = r.key
      PROVE  KeysInOrder'
  <2>1. ASSUME NEW a \in members', NEW b \in members', a.key = b.key PROVE a = b
    <3>1. PICK r \in members : a = f[r]
      BY <1>3
    <3>2. PICK q \in members : b = f[q]
      BY <1>3
    <3>3. r.key = q.key
      BY <1>3, <2>1, <3>1, <3>2
    <3>4. r = q
      BY <3>3 DEF KeysInOrder
    <3> QED
      BY <3>1, <3>2, <3>4
  <2>2. \A a \in members' : a.key \in 1..made'
    BY <1>3 DEF KeysInOrder
  <2> QED
    BY <1>3, <2>1, <2>2 DEF KeysInOrder
<1>4. ASSUME made < RowBound, made' = made + 1, NEW x, x.key = made + 1, members' = members \cup {x}
      PROVE  KeysInOrder'
  <2>1. \A r \in members : r.key \in 1..made /\ r.key # made + 1
    BY <1>1 DEF KeysInOrder
  <2>2. made' \in 1..RowBound /\ 1..made \subseteq 1..made' /\ made + 1 \in 1..made'
    BY <1>1, <1>4
  <2>3. \A r \in members' : r.key \in 1..made'
    BY <1>4, <2>1, <2>2
  <2>4. \A a, b \in members' : a.key = b.key => a = b
    BY <1>4, <2>1 DEF KeysInOrder
  <2> QED
    BY <2>2, <2>3, <2>4 DEF KeysInOrder
<1> QED
  BY <1>2, <1>3, <1>4

LEMMA KeysKept ==
  ASSUME KeysInOrder, [GroupsNext]_groupVars
  PROVE  KeysInOrder'
<1>1. CASE UNCHANGED <<members, made>>
  BY <1>1, KeysStay
<1>2. ASSUME NEW s \in Sessions, CommitAccept(s) PROVE KeysInOrder'
  <2> DEFINE a == session[s]
             mine == {r \in members : \E x \in a.row : x.key = r.key}
             f == [r \in members |-> IF r \in mine THEN [r EXCEPT !.worker = a.worker] ELSE r]
  <2>1. CASE Rollback
    BY <1>1, <2>1 DEF Rollback
  <2>2. CASE members' = (members \ mine) \cup {[r EXCEPT !.worker = a.worker] : r \in mine} /\ UNCHANGED made
    <3>1. members' = {f[r] : r \in members}
      BY <2>2
    <3>2. \A r \in members : f[r].key = r.key
      OBVIOUS
    <3> HIDE DEF f
    <3> QED
      BY <2>2, <3>1, <3>2, KeysStay
  <2>3. CASE made < RowBound /\ made' = made + 1 /\ members' = members \cup {Row(made + 1, a.user, a.worker, "worker")}
    <3>1. Row(made + 1, a.user, a.worker, "worker").key = made + 1
      BY DEF Row
    <3> QED
      BY <2>3, <3>1, KeysStay
  <2> QED
    BY <1>2, <2>1, <2>2, <2>3 DEF CommitAccept
<1>3. ASSUME NEW s \in Sessions, CommitJoin(s) PROVE KeysInOrder'
  <2>1. Row(made + 1, Null, session[s].worker, "worker").key = made + 1
    BY DEF Row
  <2> QED
    BY <1>1, <1>3, <2>1, KeysStay DEF CommitJoin, Rollback
<1>4. ASSUME NEW s \in Sessions, CommitRole(s) PROVE KeysInOrder'
  <2> DEFINE f == [r \in members |-> IF r.key = session[s].row.key THEN [r EXCEPT !.role = session[s].role] ELSE r]
  <2>1. members' = {f[r] : r \in members} /\ made' = made
    BY <1>4 DEF CommitRole
  <2>2. \A r \in members : f[r].key = r.key
    OBVIOUS
  <2> HIDE DEF f
  <2> QED
    BY <2>1, <2>2, KeysStay
<1>5. ASSUME NEW s \in Sessions, CommitRemove(s) \/ CommitDeleteGroup(s) PROVE KeysInOrder'
  <2>1. made' = made /\ members' \subseteq members
    BY <1>5 DEF CommitRemove, CommitDeleteGroup, Rollback
  <2> QED
    BY <2>1, KeysStay
<1>6. ASSUME NEW u \in Users, CreateInvitation(u) \/ RevokeInvitation(u) \/ UpdateGroup(u) PROVE KeysInOrder'
  BY <1>1, <1>6 DEF CreateInvitation, RevokeInvitation, UpdateGroup
<1>7. ASSUME NEW w \in Devices, RegisterDevice(w) \/ DeregisterDevice(w) PROVE KeysInOrder'
  BY <1>1, <1>7 DEF RegisterDevice, DeregisterDevice
<1>8. ASSUME NEW s, NEW request, Start(s, request) PROVE KeysInOrder'
  BY <1>1, <1>8 DEF Start
<1>9. ASSUME NEW s \in Sessions, NEW u \in Users, NEW w \in Devices, BeginAccept(s, u, w) PROVE KeysInOrder'
  BY <1>8, <1>9 DEF BeginAccept
<1>10. ASSUME NEW s \in Sessions, NEW w \in Devices, BeginJoin(s, w) PROVE KeysInOrder'
  BY <1>8, <1>10 DEF BeginJoin
<1>11. ASSUME NEW s \in Sessions, NEW u \in Users, NEW r \in members, BeginRemove(s, u, r) PROVE KeysInOrder'
  BY <1>8, <1>11 DEF BeginRemove
<1>12. ASSUME NEW s \in Sessions, NEW u \in Users, NEW r \in members, NEW to \in Roles, BeginRole(s, u, r, to) PROVE KeysInOrder'
  BY <1>8, <1>12 DEF BeginRole
<1>13. ASSUME NEW s \in Sessions, NEW u \in Users, BeginDeleteGroup(s, u) PROVE KeysInOrder'
  BY <1>8, <1>13 DEF BeginDeleteGroup
<1>14. CASE UNCHANGED groupVars
  BY <1>1, <1>14 DEF groupVars
<1> QED
  BY <1>2, <1>3, <1>4, <1>5, <1>6, <1>7, <1>9, <1>10, <1>11, <1>12, <1>13, <1>14 DEF GroupsNext

LEMMA RestKept ==
  ASSUME GroupsInv, RestTyped, [GroupsNext]_groupVars
  PROVE  RestTyped'
<1> USE DEF RestTyped
<1>1. CASE UNCHANGED <<open, public, invitation, maxUses, workers>>
  BY <1>1
<1>2. ASSUME NEW s \in Sessions, CommitAccept(s) PROVE RestTyped'
  <2>1. session[s].op = "accept"
    BY <1>2 DEF CommitAccept, Commit
  <2>2. session[s].worker \in Devices
    BY <2>1 DEF GroupsInv, SessionsTyped
  <2>3. workers' \subseteq workers \cup {session[s].worker} /\ UNCHANGED <<open, public, invitation, maxUses>>
    BY <1>2 DEF CommitAccept, Rollback
  <2> QED
    BY <2>2, <2>3
<1>3. ASSUME NEW s \in Sessions, CommitJoin(s) \/ CommitRole(s) \/ CommitRemove(s) PROVE RestTyped'
  BY <1>1, <1>3 DEF CommitJoin, CommitRole, CommitRemove, Rollback
<1>4. ASSUME NEW s \in Sessions, CommitDeleteGroup(s) PROVE RestTyped'
  BY <1>4 DEF CommitDeleteGroup, Rollback
<1>5. ASSUME NEW u \in Users, CreateInvitation(u) \/ RevokeInvitation(u) \/ UpdateGroup(u) PROVE RestTyped'
  BY <1>5 DEF CreateInvitation, RevokeInvitation, UpdateGroup
<1>6. ASSUME NEW w \in Devices, RegisterDevice(w) \/ DeregisterDevice(w) PROVE RestTyped'
  BY <1>6 DEF RegisterDevice, DeregisterDevice
<1>7. ASSUME NEW s, NEW request, Start(s, request) PROVE RestTyped'
  BY <1>1, <1>7 DEF Start
<1>8. ASSUME NEW s \in Sessions, NEW u \in Users, NEW w \in Devices, BeginAccept(s, u, w) PROVE RestTyped'
  BY <1>7, <1>8 DEF BeginAccept
<1>9. ASSUME NEW s \in Sessions, NEW w \in Devices, BeginJoin(s, w) PROVE RestTyped'
  BY <1>7, <1>9 DEF BeginJoin
<1>10. ASSUME NEW s \in Sessions, NEW u \in Users, NEW r \in members, BeginRemove(s, u, r) PROVE RestTyped'
  BY <1>7, <1>10 DEF BeginRemove
<1>11. ASSUME NEW s \in Sessions, NEW u \in Users, NEW r \in members, NEW to \in Roles, BeginRole(s, u, r, to) PROVE RestTyped'
  BY <1>7, <1>11 DEF BeginRole
<1>12. ASSUME NEW s \in Sessions, NEW u \in Users, BeginDeleteGroup(s, u) PROVE RestTyped'
  BY <1>7, <1>12 DEF BeginDeleteGroup
<1>13. CASE UNCHANGED groupVars
  BY <1>1, <1>13 DEF groupVars
<1> QED
  BY <1>2, <1>3, <1>4, <1>5, <1>6, <1>8, <1>9, <1>10, <1>11, <1>12, <1>13 DEF GroupsNext

GroupsTyped == GroupsInv /\ KeysInOrder /\ RestTyped

LEMMA GroupsStart ==
  ASSUME GroupsInit
  PROVE  GroupsTyped
<1>1. GroupsInv
  BY GroupsInitially
<1>2. KeysInOrder
  BY GroupParameters DEF GroupsInit, KeysInOrder, Row
<1>3. RestTyped
  BY DEF GroupsInit, RestTyped
<1> QED
  BY <1>1, <1>2, <1>3 DEF GroupsTyped

LEMMA GroupsStep ==
  ASSUME GroupsTyped, [GroupsNext]_groupVars
  PROVE  GroupsTyped'
BY GroupsInvKept, KeysKept, RestKept DEF GroupsTyped

LEMMA GroupsTypes == GroupsTyped => GroupsTypeOK
<1> SUFFICES ASSUME GroupsTyped PROVE GroupsTypeOK
  OBVIOUS
<1>1. members \subseteq Memberships /\ uses \in Nat
  BY DEF GroupsTyped, GroupsInv, RowsTyped, RoomForUses
<1>2. \A r \in members : r.key \in 1..RowBound
  BY GroupParameters DEF GroupsTyped, KeysInOrder
<1>3. members \subseteq Rows
  BY <1>1, <1>2 DEF Memberships, Rows
<1> QED
  BY <1>1, <1>3 DEF GroupsTyped, KeysInOrder, RestTyped, GroupsTypeOK

\* Every variable of a group keeps to its type, and no two rows of group_members
\* have the same key, whatever requests run at the same time.
THEOREM GroupsTypeCorrect == GroupsSpec => []GroupsTypeOK
  BY GroupsStart, GroupsStep, GroupsTypes, PTL DEF GroupsSpec

\* An account's memberships, each with the worker it brought.
LinkedRows == {<<r.key, r.worker>> : r \in {x \in members : x.user # Null}}

\* Once the invitation is gone, memberships are only removed or get a new role.
LEMMA NothingLinked ==
  ASSUME GroupsInv, [GroupsNext]_groupVars, invitation = "gone"
  PROVE  LinkedRows' \subseteq LinkedRows
<1> DEFINE Goal == LinkedRows' \subseteq LinkedRows
<1>1. ASSUME members' \subseteq members PROVE LinkedRows' \subseteq LinkedRows
  BY <1>1 DEF LinkedRows
<1>2. ASSUME NEW s \in Sessions, CommitAccept(s) PROVE LinkedRows' \subseteq LinkedRows
  BY <1>1, <1>2 DEF CommitAccept, Rollback
<1>3. ASSUME NEW s \in Sessions, CommitJoin(s) PROVE LinkedRows' \subseteq LinkedRows
  <2>1. \A x \in members' : x \in members \/ x.user = Null
    BY <1>3 DEF CommitJoin, Rollback, Row
  <2> QED
    BY <2>1 DEF LinkedRows
<1>4. ASSUME NEW s \in Sessions, CommitRole(s) PROVE LinkedRows' \subseteq LinkedRows
  <2>1. \A r \in members :
          LET changed == [r EXCEPT !.role = session[s].role]
          IN changed.key = r.key /\ changed.worker = r.worker /\ changed.user = r.user
    BY DEF GroupsInv, RowsTyped, Memberships
  <2>2. \A x \in members' : \E r \in members : x.key = r.key /\ x.worker = r.worker /\ x.user = r.user
    BY <1>4, <2>1 DEF CommitRole
  <2> QED
    BY <2>2 DEF LinkedRows
<1>5. ASSUME NEW s \in Sessions, CommitRemove(s) \/ CommitDeleteGroup(s) PROVE LinkedRows' \subseteq LinkedRows
  BY <1>1, <1>5 DEF CommitRemove, CommitDeleteGroup, Rollback
<1>6. CASE UNCHANGED members
  BY <1>1, <1>6
<1> QED
  BY <1>2, <1>3, <1>4, <1>5, <1>6
     DEF GroupsNext, groupVars, CreateInvitation, RevokeInvitation, UpdateGroup, RegisterDevice,
         DeregisterDevice, BeginAccept, BeginJoin, BeginRole, BeginRemove, BeginDeleteGroup, Start

\* However acceptances race with each other and with a revocation or the group's
\* deletion, the count of uses keeps to its limit, and an invitation that is gone
\* links no account or worker any more.
THEOREM InvitationsHold == GroupsSpec => InvitationHolds
<1>1. GroupsInv /\ [GroupsNext]_groupVars /\ GroupsInv' =>
        [/\ maxUses > 0 => uses' <= maxUses
         /\ invitation = "gone" => LinkedRows' \subseteq LinkedRows]_groupVars
  <2> SUFFICES ASSUME GroupsInv, [GroupsNext]_groupVars, GroupsInv'
      PROVE (maxUses > 0 => uses' <= maxUses) /\ (invitation = "gone" => LinkedRows' \subseteq LinkedRows)
    OBVIOUS
  <2>1. maxUses' = maxUses
    BY DEF GroupsNext, groupVars, CreateInvitation, RevokeInvitation, UpdateGroup, RegisterDevice,
           DeregisterDevice, BeginAccept, BeginJoin, BeginRole, BeginRemove, BeginDeleteGroup, Start,
           CommitAccept, CommitJoin, CommitRole, CommitRemove, CommitDeleteGroup, Rollback
  <2> QED
    BY <2>1, NothingLinked DEF GroupsInv, RoomForUses
<1> QED
  BY <1>1, GroupsInvariant, PTL DEF GroupsSpec, InvitationHolds, LinkedRows

-----------------------------------------------------------------------------
(* ModelRegistry: any number of models and of requests. *)
\* The actions, by what they are applied to.
OfModel(m) == (\E p \in Models \cup {NoModel} : CreateModel(m, p)) \/ PutFile(m)
OfRequest(c, m) ==
  \/ \E to \in Targets : BeginTransition(c, m, to)
  \/ Begin(c, "upload", m, "none") \/ Begin(c, "delete", m, "none") \/ Begin(c, "finalize", m, "none")
  \/ StoreFinal(c, m)
  \/ BeginVersion(c, m) \/ CommitVersion(c, m)
OfClient(c) ==
  \/ CommitTransition(c) \/ StoreFile(c) \/ CommitUploadedFile(c)
  \/ CommitDelete(c) \/ EraseFile(c)
  \/ CommitFinalize(c) \/ CommitFinal(c)

LEMMA StepsOfRegistry ==
  RegistryNext <=> \/ \E m \in Models : OfModel(m)
                   \/ \E c \in Clients, m \in Models : OfRequest(c, m)
                   \/ \E c \in Clients : OfClient(c)
  BY DEF RegistryNext, OfModel, OfRequest, OfClient

Requests == [op : Ops, model : Models \cup {NoModel},
             seen : ModelStates \cup {"none", "COMPLETED"}, target : Targets \cup {"none"}]

\* A request under way is about a model that exists; a version's parent exists;
\* a transition that was begun is legal from the state that was read.
RegistryInv ==
  /\ RegistryTypeOK
  /\ \A c \in Clients : handler[c] # Idle => Exists(handler[c].model)
  /\ \A m \in Models : parent[m] # NoModel => Exists(parent[m])
  /\ \A c \in Clients : handler[c].op = "transition" => Legal(handler[c].seen, handler[c].target)
  /\ \A m \in Models : path[m] = "final" => <<m, "final">> \in files
  /\ \A c \in Clients : handler[c].op = "complete" => <<handler[c].model, "final">> \in files

LEMMA IdleIsRequest == Idle \in Requests /\ Idle.op = "idle" /\ Idle.model = NoModel
  BY DEF Idle, Requests, Ops

LEMMA BeginKeeps ==
  ASSUME RegistryInv, NEW c \in Clients, NEW m \in Models, NEW op \in Ops, NEW target \in Targets \cup {"none"},
         Begin(c, op, m, target), op # "complete", op = "transition" => Legal(state[m], target)
  PROVE  RegistryInv'
<1> DEFINE h == [op |-> op, model |-> m, seen |-> state[m], target |-> target]
<1>1. h \in Requests
  BY DEF RegistryInv, RegistryTypeOK, Requests
<1>2. handler' = [handler EXCEPT ![c] = h] /\ UNCHANGED <<state, path, files, parent>> /\ Exists(m)
  BY DEF Begin
<1>3. h.op = op /\ h.model = m /\ h.seen = state[m] /\ h.target = target
  OBVIOUS
<1> HIDE DEF h
<1> QED
  BY <1>1, <1>2, <1>3 DEF RegistryInv, RegistryTypeOK, Requests, Exists

\* The end of a request that leaves no model without a row.
LEMMA EndKeeps ==
  ASSUME RegistryInv, NEW c \in Clients, End(c), UNCHANGED parent,
         state' \in [Models -> ModelStates \cup {"none", "COMPLETED"}],
         \A m \in Models : state[m] # "none" => state'[m] # "none",
         path' \in [Models -> {"none", "source", "final"}],
         files' \subseteq Models \X {"source", "final"},
         \A m \in Models : <<m, "final">> \in files => <<m, "final">> \in files',
         \A m \in Models : path'[m] = "final" => <<m, "final">> \in files'
  PROVE  RegistryInv'
<1>1. handler' = [handler EXCEPT ![c] = Idle]
  BY DEF End
<1>2. RegistryTypeOK'
  BY <1>1, IdleIsRequest DEF RegistryInv, RegistryTypeOK, Requests
<1>3. \A m \in Models \cup {NoModel} : Exists(m) => Exists(m)'
  BY RegistryParameters DEF Exists
<1>4. \A d \in Clients : handler'[d] = Idle \/ handler'[d] = handler[d]
  BY <1>1 DEF RegistryInv, RegistryTypeOK
<1>5. \A d \in Clients : handler[d].model \in Models \cup {NoModel}
  BY DEF RegistryInv, RegistryTypeOK
<1>6. \A m \in Models : parent[m] # NoModel => parent[m] \in Models
  BY DEF RegistryInv, RegistryTypeOK
<1>7. ASSUME NEW d \in Clients, handler'[d] # Idle
      PROVE  handler'[d].model # NoModel /\ state'[handler'[d].model] # "none"
  <2>1. handler'[d] = handler[d] /\ Exists(handler[d].model)
    BY <1>4, <1>7 DEF RegistryInv
  <2> QED
    BY <1>3, <1>5, <2>1 DEF Exists
<1>8. \A m \in Models : parent'[m] # NoModel => state'[parent'[m]] # "none"
  BY <1>6 DEF RegistryInv, Exists
<1> QED
  BY <1>2, <1>4, <1>5, <1>7, <1>8, IdleIsRequest DEF RegistryInv, Exists

LEMMA RegistryInvKept ==
  ASSUME RegistryInv, [RegistryNext]_registryVars
  PROVE  RegistryInv'
<1>a. RegistryTypeOK /\ NoModel \notin Models
  BY RegistryParameters DEF RegistryInv
<1>b. \A m \in Models : path[m] = "final" => <<m, "final">> \in files
  BY DEF RegistryInv
<1>c. \A c \in Clients : handler[c].op # "idle" => Exists(handler[c].model) /\ handler[c].model \in Models
  BY <1>a, IdleIsRequest DEF RegistryInv, RegistryTypeOK, Exists
\* A new row, with or without a parent.
<1>1. ASSUME NEW m \in Models, NEW p \in Models \cup {NoModel}, p = NoModel \/ Exists(p), Insert(m, p),
             handler' = handler \/ \E c \in Clients : End(c)
      PROVE  RegistryInv'
  <2>1. /\ state' = [state EXCEPT ![m] = "UPLOADING"] /\ parent' = [parent EXCEPT ![m] = p]
        /\ UNCHANGED <<path, files>> /\ state[m] = "none"
    BY <1>1 DEF Insert
  <2>2. \A n \in Models \cup {NoModel} : Exists(n) => n # NoModel /\ state'[n] # "none"
    BY <1>a, <2>1 DEF RegistryTypeOK, Exists
  <2>3. \A d \in Clients : handler'[d] = Idle \/ handler'[d] = handler[d]
    BY <1>1, <1>a DEF End, RegistryTypeOK
  <2>4. handler' \in [Clients -> Requests]
    BY <1>1, <1>a, IdleIsRequest DEF End, RegistryTypeOK, Requests
  <2>5. RegistryTypeOK'
    BY <1>a, <2>1, <2>4 DEF RegistryTypeOK, Requests, ModelStates
  <2>6. \A d \in Clients : handler'[d] # Idle => handler'[d].model # NoModel /\ state'[handler'[d].model] # "none"
    BY <1>a, <2>2, <2>3 DEF RegistryInv, RegistryTypeOK
  <2>7. \A n \in Models : parent'[n] # NoModel => state'[parent'[n]] # "none"
    BY <1>1, <1>a, <2>1, <2>2 DEF RegistryInv, RegistryTypeOK
  <2> QED
    BY <2>1, <2>3, <2>5, <2>6, <2>7, IdleIsRequest DEF RegistryInv, Exists
<1>2. ASSUME NEW m \in Models, OfModel(m) PROVE RegistryInv'
  <2>1. CASE PutFile(m)
    BY <1>a, <2>1 DEF PutFile, RegistryInv, RegistryTypeOK, Exists
  <2> QED
    BY <1>1, <1>2, <2>1 DEF OfModel, CreateModel
<1>3. ASSUME NEW c \in Clients, NEW m \in Models, OfRequest(c, m) PROVE RegistryInv'
  <2>1. ASSUME NEW to \in Targets, BeginTransition(c, m, to) PROVE RegistryInv'
    BY <2>1, BeginKeeps DEF BeginTransition, Ops
  <2>2. CASE Begin(c, "upload", m, "none") \/ Begin(c, "delete", m, "none") \/ Begin(c, "finalize", m, "none")
    BY <2>2, BeginKeeps DEF Ops
  <2>3. CASE BeginVersion(c, m)
    BY <2>3, BeginKeeps DEF BeginVersion, Ops
  <2>4. CASE CommitVersion(c, m)
    BY <1>1, <1>c, <2>4 DEF CommitVersion
  <2>5. CASE StoreFinal(c, m)
    <3> DEFINE h == [op |-> "complete", model |-> m, seen |-> state[m], target |-> "none"]
    <3>1. h \in Requests /\ h.op = "complete" /\ h.model = m
      BY <1>a DEF RegistryTypeOK, Requests, Ops
    <3>2. /\ files' = files \cup {<<m, "final">>} /\ handler' = [handler EXCEPT ![c] = h]
          /\ UNCHANGED <<state, path, parent>> /\ Exists(m)
      BY <2>5 DEF StoreFinal
    <3> HIDE DEF h
    <3> QED
      BY <3>1, <3>2 DEF RegistryInv, RegistryTypeOK, Requests, Exists
  <2> QED
    BY <1>3, <2>1, <2>2, <2>3, <2>4, <2>5 DEF OfRequest
<1>4. ASSUME NEW c \in Clients, OfClient(c) PROVE RegistryInv'
  <2> DEFINE m == handler[c].model
  <2>1. CASE CommitTransition(c)
    BY <1>a, <1>b, <1>c, <2>1, EndKeeps DEF CommitTransition, RegistryTypeOK, Targets, ModelStates, Legal, RegistryInv
  <2>2. CASE StoreFile(c)
    <3>1. /\ handler' = [handler EXCEPT ![c].target = "VALIDATING"] /\ m \in Models /\ handler[c].op = "upload"
          /\ files' = files \cup {<<m, "source">>} /\ UNCHANGED <<state, path, parent>>
      BY <1>c, <2>2 DEF StoreFile
    <3>2. [handler[c] EXCEPT !.target = "VALIDATING"] \in Requests
      BY <1>a DEF RegistryTypeOK, Requests, Targets
    <3>3. \A d \in Clients : handler'[d].op = handler[d].op /\ handler'[d].model = handler[d].model
      BY <1>a, <3>1 DEF RegistryTypeOK
    <3>4. RegistryTypeOK'
      BY <1>a, <3>1, <3>2 DEF RegistryTypeOK, Requests
    <3>5. \A d \in Clients : handler'[d].op = "transition" => handler'[d] = handler[d]
      BY <1>a, <3>1 DEF RegistryTypeOK
    <3>6. \A d \in Clients : handler'[d] # Idle => handler[d] # Idle
      BY <1>a, <3>1, IdleIsRequest DEF RegistryTypeOK
    <3> QED
      BY <3>1, <3>3, <3>4, <3>5, <3>6 DEF RegistryInv, Exists
  <2>3. CASE CommitUploadedFile(c)
    BY <1>a, <1>b, <1>c, <2>3, EndKeeps DEF CommitUploadedFile, RegistryTypeOK, ModelStates
  <2>4. CASE CommitDelete(c)
    <3>1. /\ handler' = [handler EXCEPT ![c].op = "erase"] /\ m \in Models /\ handler[c].op = "delete"
          /\ UNCHANGED <<path, files, parent>>
          /\ state' = state \/ state' = [state EXCEPT ![m] = "DEPRECATED"]
      BY <1>c, <2>4 DEF CommitDelete
    <3>2. [handler[c] EXCEPT !.op = "erase"] \in Requests
      BY <1>a DEF RegistryTypeOK, Requests, Ops
    <3>3. \A d \in Clients : handler'[d].model = handler[d].model /\ (handler'[d].op # "erase" => handler'[d] = handler[d])
      BY <1>a, <3>1 DEF RegistryTypeOK
    <3>4. RegistryTypeOK'
      BY <1>a, <3>1, <3>2 DEF RegistryTypeOK, Requests, ModelStates
    <3>5. \A n \in Models : state[n] # "none" => state'[n] # "none"
      BY <1>a, <3>1 DEF RegistryTypeOK
    <3>6. \A d \in Clients : handler'[d] # Idle => handler[d] # Idle
      BY <1>a, <3>1, IdleIsRequest DEF RegistryTypeOK
    <3>7. \A d \in Clients : handler'[d] # Idle => handler'[d].model # NoModel /\ state'[handler'[d].model] # "none"
      BY <1>a, <3>3, <3>5, <3>6 DEF RegistryInv, RegistryTypeOK, Exists
    <3>8. \A n \in Models : parent'[n] # NoModel => state'[parent'[n]] # "none"
      BY <1>a, <3>1, <3>5 DEF RegistryInv, RegistryTypeOK, Exists
    <3> QED
      BY <3>1, <3>3, <3>4, <3>7, <3>8 DEF RegistryInv, Exists
  <2>5. CASE EraseFile(c)
    BY <1>a, <1>b, <2>5, EndKeeps DEF EraseFile, RegistryTypeOK
  <2>6. CASE CommitFinalize(c)
    BY <1>a, <1>b, <1>c, <2>6, EndKeeps DEF CommitFinalize, Write, RegistryTypeOK, ModelStates
  <2>7. CASE CommitFinal(c)
    BY <1>a, <1>b, <1>c, <2>7, EndKeeps DEF CommitFinal, Write, RegistryTypeOK, ModelStates, RegistryInv
  <2> QED
    BY <1>4, <2>1, <2>2, <2>3, <2>4, <2>5, <2>6, <2>7 DEF OfClient
<1>5. CASE UNCHANGED registryVars
  BY <1>5 DEF registryVars, RegistryInv, RegistryTypeOK, Exists
<1> QED
  BY <1>2, <1>3, <1>4, <1>5, StepsOfRegistry

LEMMA RegistryStarts == RegistryInit => RegistryInv
  BY RegistryParameters, IdleIsRequest
     DEF RegistryInit, RegistryInv, RegistryTypeOK, Requests, ModelStates, Ops, Idle

LEMMA RegistryInvHolds == RegistrySpec => []RegistryInv
  BY RegistryStarts, RegistryInvKept, PTL DEF RegistrySpec

\* Every variable keeps to its type.
THEOREM RegistryTypeCorrect == RegistrySpec => []RegistryTypeOK
  BY RegistryInvHolds, PTL DEF RegistryInv

-----------------------------------------------------------------------------
LEMMA DeprecatedKept ==
  ASSUME RegistryInv, [RegistryNext]_registryVars, NEW m \in Models, state[m] = "DEPRECATED",
         \A c \in Clients : ~MayOverwrite(c, m)
  PROVE  state'[m] = "DEPRECATED" /\ path'[m] = path[m]
<1>a. RegistryTypeOK /\ \A c \in Clients : handler[c].op = "transition" => Legal(handler[c].seen, handler[c].target)
  BY DEF RegistryInv
<1>1. ASSUME NEW c \in Clients, handler[c].model = m
      PROVE  handler[c].seen = "DEPRECATED" /\ handler[c].op \notin {"finalize", "complete", "transition"}
  BY <1>1, <1>a DEF MayOverwrite, Legal
<1>2. ASSUME NEW n \in Models, OfModel(n) PROVE state'[m] = "DEPRECATED" /\ path'[m] = path[m]
  BY <1>2, <1>a DEF OfModel, CreateModel, PutFile, Insert, RegistryTypeOK
<1>3. ASSUME NEW c \in Clients, NEW n \in Models, OfRequest(c, n)
      PROVE  state'[m] = "DEPRECATED" /\ path'[m] = path[m]
  BY <1>3, <1>a DEF OfRequest, BeginTransition, Begin, BeginVersion, CommitVersion, StoreFinal, Insert, RegistryTypeOK
<1>4. ASSUME NEW c \in Clients, OfClient(c) PROVE state'[m] = "DEPRECATED" /\ path'[m] = path[m]
  <2>1. CASE CommitTransition(c)
    BY <1>1, <1>a, <2>1 DEF CommitTransition, RegistryTypeOK
  <2>2. CASE StoreFile(c) \/ EraseFile(c)
    BY <2>2 DEF StoreFile, EraseFile
  <2>3. CASE CommitUploadedFile(c)
    BY <1>1, <1>a, <2>3 DEF CommitUploadedFile, Legal, RegistryTypeOK
  <2>4. CASE CommitDelete(c)
    BY <1>a, <2>4 DEF CommitDelete, RegistryTypeOK
  <2>5. CASE CommitFinalize(c) \/ CommitFinal(c)
    BY <1>1, <1>a, <2>5 DEF CommitFinalize, CommitFinal, Write, RegistryTypeOK
  <2> QED
    BY <1>4, <2>1, <2>2, <2>3, <2>4, <2>5 DEF OfClient
<1>5. CASE UNCHANGED registryVars
  BY <1>5 DEF registryVars
<1> QED
  BY <1>2, <1>3, <1>4, <1>5, StepsOfRegistry

\* DEPRECATED is terminal but for the requests that MayOverwrite names, and a
\* finished model names weights that are there (lifecycle/manager.py:22).
THEOREM DeprecatedModelsStay == RegistrySpec => DeprecatedStays
<1>1. RegistryInv /\ RegistryInv' /\ [RegistryNext]_registryVars =>
        [\A m \in Models :
           /\ state[m] = "DEPRECATED" /\ (\A c \in Clients : ~MayOverwrite(c, m))
                => state'[m] = "DEPRECATED" /\ path'[m] = path[m]
           /\ path'[m] = "final" => Artifact(m)' \in files']_registryVars
  BY DeprecatedKept DEF RegistryInv, Artifact
<1> QED
  BY <1>1, RegistryInvHolds, PTL DEF RegistrySpec, DeprecatedStays

\* What get_version_history returns of a model has the model itself and the one
\* it derives from: no model is ever registered under a parent without a row.
HistoryHasOrigin ==
  \A m \in Models : state[m] # "none" =>
    m \in VersionHistory(m) /\ (parent[m] # NoModel => parent[m] \in VersionHistory(m))

\* HistoryHasOrigin holds whatever requests run (versioning/manager.py:132).
THEOREM HistoriesHaveOrigins == RegistrySpec => []HistoryHasOrigin
<1>1. RegistryInv => HistoryHasOrigin
  BY RegistryParameters DEF RegistryInv, RegistryTypeOK, Exists, HistoryHasOrigin, VersionHistory
<1> QED
  BY <1>1, RegistryInvHolds, PTL

-----------------------------------------------------------------------------
(* ParameterStorage: any window, retention and content. *)
(***************************************************************************)
(* While the process holds a model, the number in Redis is its own, and    *)
(* each version of the window is there as it was stored, the current one   *)
(* included, although the parameters may have been updated in place since. *)
(* Nothing is said of what Redis holds of an earlier run: the versions     *)
(* start over and overwrite it one by one.  Nor does it matter what the    *)
(* versions are, so the packages of the checkpoints, which a load stores,  *)
(* need no invariant here.                                                 *)
(***************************************************************************)
VersionsTyped ==
  /\ current \in 0..VersionBound /\ latest \in 0..VersionBound
  /\ \E S : history \in Seq(S)

WindowStored ==
  parameters # Nothing =>
    /\ current = Len(history) /\ latest = current /\ current > 0
    /\ \A v \in 1..current : v + History > current => snapshots[v] = history[v]

WindowInv == VersionsTyped /\ WindowStored

\* Appending to a sequence, whatever it holds.
LEMMA AppendWhatever ==
  ASSUME NEW S, NEW s \in Seq(S), NEW p
  PROVE  /\ Append(s, p) \in Seq(S \cup {p})
         /\ Len(Append(s, p)) = Len(s) + 1 /\ Append(s, p)[Len(s) + 1] = p
         /\ \A i \in 1..Len(s) : Append(s, p)[i] = s[i]
<1>1. s \in Seq(S \cup {p})
  OBVIOUS
<1> QED
  BY <1>1

\* Whatever is stored, it becomes the newest version, and what it removes from
\* Redis has just left the window.
LEMMA StoreKeeps ==
  ASSUME WindowInv, NEW p, p # Nothing, StoreParameters(p)
  PROVE  WindowInv'
<1> USE StorageParameters
<1> DEFINE n == NextVersion
           old == IF parameters = Nothing THEN <<>> ELSE history
<1>1. n \in 1..VersionBound /\ Len(old) = n - 1
  BY DEF NextVersion, StoreParameters, WindowStored, WindowInv, VersionsTyped
<1>2. /\ parameters' = p /\ current' = n /\ latest' = n /\ history' = Append(old, p)
      /\ snapshots' = [x \in Versions |-> IF x = n THEN p ELSE IF x + History = n THEN Nothing ELSE snapshots[x]]
  BY DEF StoreParameters, PersistToRedis
<1>3. ASSUME NEW v \in 1..(n - 1), v + History > n PROVE snapshots[v] = old[v]
  BY <1>1, <1>3 DEF NextVersion, WindowStored, WindowInv, VersionsTyped
<1>4. PICK S : old \in Seq(S)
  <2>1. <<>> \in Seq({})
    OBVIOUS
  <2> QED
    BY <2>1 DEF WindowInv, VersionsTyped
<1> HIDE DEF n, old
<1>5. /\ history' \in Seq(S \cup {p}) /\ Len(history') = n /\ history'[n] = p
      /\ \A v \in 1..(n - 1) : history'[v] = old[v]
  BY <1>1, <1>2, <1>4, AppendWhatever
<1>6. VersionsTyped'
  BY <1>1, <1>2, <1>5 DEF VersionsTyped
<1>7. ASSUME NEW v \in 1..n, v + History > n PROVE snapshots'[v] = history'[v]
  BY <1>1, <1>2, <1>3, <1>5, <1>7 DEF Versions
<1>8. WindowStored'
  <2>1. current' = Len(history') /\ latest' = current' /\ current' > 0
    BY <1>1, <1>2, <1>5
  <2>2. \A v \in 1..current' : v + History > current' => snapshots'[v] = history'[v]
    BY <1>2, <1>7
  <2> QED
    BY <2>1, <2>2 DEF WindowStored
<1> QED
  BY <1>6, <1>8 DEF WindowInv

\* Every request and every stop keeps the window.
LEMMA WindowInvKept ==
  ASSUME WindowInv, [StorageNext]_storageVars
  PROVE  WindowInv'
<1> USE StorageParameters
<1>1. CASE UNCHANGED versionVars
  BY <1>1 DEF versionVars, WindowInv, VersionsTyped, WindowStored
<1>2. ASSUME NEW p \in Contents, NEW createVersion \in BOOLEAN, UpdateParameter(p, createVersion) PROVE WindowInv'
  <2>1. CASE createVersion
    BY <1>2, <2>1, StoreKeeps DEF UpdateParameter
  <2>2. CASE ~createVersion
    BY <1>2, <2>2 DEF UpdateParameter, WindowInv, VersionsTyped, WindowStored
  <2> QED
    BY <2>1, <2>2
<1>3. CASE GetLatestParameters
  BY <1>3 DEF GetLatestParameters, WindowInv, VersionsTyped, WindowStored
<1>4. ASSUME NEW id \in CheckpointIds, LoadCheckpoint(id) PROVE WindowInv'
  BY <1>4, StoreKeeps DEF LoadCheckpoint
<1>5. CASE Stop
  <2>1. parameters' = Nothing /\ current' = 0 /\ history' = <<>>
    BY <1>5 DEF Stop
  <2>2. latest' \in 0..VersionBound
    <3>1. NextVersion \in Nat
      BY DEF NextVersion, WindowInv, VersionsTyped
    <3> QED
      BY <1>5, <3>1 DEF Stop, WindowInv, VersionsTyped
  <2>3. <<>> \in Seq({})
    OBVIOUS
  <2> QED
    BY <2>1, <2>2, <2>3 DEF WindowInv, VersionsTyped, WindowStored
<1>6. CASE ParameterRequests
  BY <1>1, <1>2, <1>3, <1>4, <1>6, StoreKeeps DEF ParameterRequests, CreateCheckpoint, DeleteCheckpoint
<1> QED
  BY <1>1, <1>5, <1>6 DEF StorageNext, storageVars

LEMMA WindowInvariant == StorageSpec => []WindowInv
<1>1. StorageInit => WindowInv
  <2>1. <<>> \in Seq({})
    OBVIOUS
  <2> QED
    BY <2>1, StorageParameters DEF StorageInit, WindowInv, VersionsTyped, WindowStored
<1>2. WindowInv /\ [StorageNext]_storageVars => WindowInv'
  BY WindowInvKept
<1> QED
  BY <1>1, <1>2, PTL DEF StorageSpec

\* A superseded version that is still in the window of Redis reads back as it was
\* stored, through updates in place, loads of checkpoints, restarts in the middle
\* of a store and a number restored from Redis without its parameters.
THEOREM VersionsReadable == StorageSpec => []WindowIsReadable
<1>1. WindowInv => WindowIsReadable
  <2> SUFFICES ASSUME WindowInv, parameters # Nothing
      PROVE /\ current = Len(history)
            /\ \A v \in 1..(current - 1) : v + History > current => GetParameters(v) = history[v]
    BY DEF WindowIsReadable
  <2>1. current = Len(history) /\ current \in Nat
    BY DEF WindowInv, VersionsTyped, WindowStored
  <2>2. ASSUME NEW v \in 1..(current - 1), v + History > current PROVE GetParameters(v) = history[v]
    <3>1. v # current /\ v \in 1..current
      BY <2>1
    <3> QED
      BY <2>2, <3>1 DEF WindowInv, WindowStored, GetParameters
  <2> QED
    BY <2>1, <2>2
<1> QED
  BY <1>1, WindowInvariant, PTL

-----------------------------------------------------------------------------
(***************************************************************************)
(* Checkpoints.  st is a list with what Redis holds, as Without and        *)
(* EnforceRetention change them together; ids are the repeated ones.       *)
(***************************************************************************)
Entries == [id : CheckpointIds, type : CheckpointTypes, saved : Contents]
Lists == [list : Seq(Entries), packages : [CheckpointIds -> Contents \cup {Nothing}]]

\* But for the repeated ids, an id is one entry's, whose package is there.
Matched(st, ids) ==
  /\ \A i, k \in DOMAIN st.list : i # k /\ st.list[i].id = st.list[k].id => st.list[i].id \in ids
  /\ \A i \in DOMAIN st.list : st.list[i].id \notin ids => st.packages[st.list[i].id] = st.list[i].saved

\* But for the repeated ids, no entry of a protected type is missing.
KeepsBest(st, next, ids) ==
  \A i \in DOMAIN st.list : st.list[i].id \notin ids /\ st.list[i].type = "best" => st.list[i] \in Range(next.list)

\* delete_checkpoint takes one entry and its package, if there is one.
LEMMA WithoutFacts ==
  ASSUME NEW st \in Lists, NEW id
  PROVE  \/ Without(st, id) = st
         \/ \E n \in DOMAIN st.list :
              /\ st.list[n].id = id
              /\ Without(st, id) = [list |-> RemoveAt(st.list, n), packages |-> [st.packages EXCEPT ![id] = Nothing]]
<1> DEFINE I == {i \in 1..Len(st.list) : st.list[i].id = id}
           first == SelectInSeq(st.list, LAMBDA c : c.id = id)
<1>1. first = IF I # {} THEN Min(I) ELSE 0
  BY DEF SelectInSeq
<1>2. st.list \in Seq(Entries)
  BY DEF Lists
<1>3. DOMAIN st.list = 1..Len(st.list) /\ I \in SUBSET Nat
  BY <1>2
<1>4. CASE I = {}
  BY <1>1, <1>4 DEF Without
<1>5. CASE I # {}
  <2>1. Min(I) \in I
    BY <1>3, <1>5, MinIsIn
  <2>2. first = Min(I)
    BY <1>1, <1>5
  <2> HIDE DEF first
  <2>3. first \in DOMAIN st.list /\ st.list[first].id = id /\ first # 0
    BY <1>3, <2>1, <2>2
  <2>4. Without(st, id) = IF first = 0 THEN st
          ELSE [list |-> RemoveAt(st.list, first), packages |-> [st.packages EXCEPT ![id] = Nothing]]
    BY DEF Without, first
  <2> QED
    BY <2>3, <2>4
<1> QED
  BY <1>4, <1>5

\* What delete_checkpoint leaves: its entries are old ones, and every entry with
\* another id is still there.
LEMMA WithoutKeeps ==
  ASSUME NEW st \in Lists, NEW id, NEW ids, Matched(st, ids)
  PROVE  /\ Without(st, id) \in Lists /\ Matched(Without(st, id), ids)
         /\ \A e \in Range(st.list) : e.id # id => e \in Range(Without(st, id).list)
<1> DEFINE next == Without(st, id)
           q == st.list
<1>1. q \in Seq(Entries) /\ st.packages \in [CheckpointIds -> Contents \cup {Nothing}]
  BY DEF Lists
<1>2. CASE next = st
  BY <1>2
<1>3. ASSUME NEW n \in DOMAIN q, q[n].id = id,
             next = [list |-> RemoveAt(q, n), packages |-> [st.packages EXCEPT ![id] = Nothing]]
      PROVE  /\ next \in Lists /\ Matched(next, ids)
             /\ \A e \in Range(st.list) : e.id # id => e \in Range(next.list)
  <2> HIDE DEF next
  <2> DEFINE r == next.list
             Old(i) == IF i < n THEN i ELSE i + 1
  <2>1. DOMAIN q = 1..Len(q) /\ Len(q) \in Nat /\ \A i \in DOMAIN q : q[i] \in Entries
    BY <1>1
  <2>2. r \in Seq(Entries) /\ Len(r) = Len(q) - 1 /\ \A i \in 1..(Len(q) - 1) : r[i] = q[Old(i)]
    BY <1>1, <1>3, <2>1, RemoveAtFacts
  <2>3. DOMAIN r = 1..(Len(q) - 1)
    BY <2>2
  <2>4. \A i \in DOMAIN r : Old(i) \in DOMAIN q /\ Old(i) # n /\ r[i] = q[Old(i)]
    BY <2>1, <2>2, <2>3
  <2>5. \A i, k \in DOMAIN r : i # k => Old(i) # Old(k)
    BY <2>1, <2>3
  <2>6. next \in Lists /\ next.packages = [st.packages EXCEPT ![id] = Nothing]
    BY <1>1, <1>3, <2>2 DEF Lists
  <2>7. ASSUME NEW i \in DOMAIN q, q[i].id # id PROVE q[i] \in Range(r)
    <3> DEFINE j == IF i < n THEN i ELSE i - 1
    <3>1. i # n
      BY <1>3, <2>7
    <3>2. j \in DOMAIN r /\ Old(j) = i
      BY <2>1, <2>3, <3>1
    <3> HIDE DEF j
    <3>3. r[j] = q[i]
      BY <2>4, <3>2
    <3> QED
      BY <3>2, <3>3 DEF Range
  <2> HIDE DEF r, Old
  <2>8. ASSUME NEW i \in DOMAIN r, NEW k \in DOMAIN r, i # k, r[i].id = r[k].id PROVE r[i].id \in ids
    BY <2>4, <2>5, <2>8 DEF Matched
  <2>9. ASSUME NEW i \in DOMAIN r, r[i].id \notin ids PROVE next.packages[r[i].id] = r[i].saved
    <3>1. q[Old(i)] \in Entries /\ r[i] = q[Old(i)] /\ Old(i) # n /\ Old(i) \in DOMAIN q
      BY <2>1, <2>4
    <3>2. r[i].id # id
      BY <1>3, <2>9, <3>1 DEF Matched
    <3>3. next.packages[r[i].id] = st.packages[r[i].id]
      BY <1>1, <2>6, <3>1, <3>2 DEF Entries
    <3> QED
      BY <2>9, <3>1, <3>3 DEF Matched
  <2>10. Matched(next, ids)
    BY <2>8, <2>9 DEF Matched, r
  <2>11. \A e \in Range(q) : e.id # id => e \in Range(r)
    BY <2>7 DEF Range
  <2> QED
    BY <2>6, <2>10, <2>11 DEF r
<1> QED
  BY <1>2, <1>3, WithoutFacts

\* The limit takes only entries of a type that is not protected.
LEMMA RetentionKeeps ==
  ASSUME NEW st \in Lists, NEW ids, Matched(st, ids)
  PROVE  LET next == EnforceRetention(st)
         IN next \in Lists /\ Matched(next, ids) /\ KeepsBest(st, next, ids)
<1> DEFINE q == st.list
           n == Len(q)
           Others(from) == {i \in from..Len(st.list) : st.list[i].type # "best"}
           Falls(i) == i \in Others(1) /\ Cardinality(Others(i)) > Retention
           Drop(s, i) == IF Falls(i) THEN Without(s, st.list[i].id) ELSE s
           Kept == {s \in Lists : Matched(s, ids) /\ KeepsBest(st, s, ids)}
           step == [p \in Kept \X (1..n) |-> Drop(p[1], p[2])]
<1>1. q \in Seq(Entries) /\ n \in Nat /\ DOMAIN q = 1..n /\ \A i \in 1..n : q[i] \in Entries
  BY DEF Lists
<1>2. EnforceRetention(st) = FoldLeftDomain(Drop, st, q)
  BY DEF EnforceRetention
<1>3. ASSUME NEW i \in 1..n, Falls(i) PROVE q[i].type # "best"
  BY <1>3
<1> HIDE DEF Falls
<1>4. ASSUME NEW s \in Kept, NEW i \in 1..n PROVE Drop(s, i) \in Kept
  <2>1. CASE ~Falls(i)
    BY <2>1
  <2>2. CASE Falls(i)
    <3> DEFINE next == Without(s, q[i].id)
    <3>1. /\ next \in Lists /\ Matched(next, ids)
          /\ \A e \in Range(s.list) : e.id # q[i].id => e \in Range(next.list)
      BY WithoutKeeps
    <3> HIDE DEF next
    <3>2. ASSUME NEW k \in DOMAIN q, q[k].id \notin ids, q[k].type = "best" PROVE q[k] \in Range(next.list)
      <4>1. k # i /\ i \in DOMAIN q
        BY <1>1, <1>3, <2>2, <3>2
      <4>2. q[k].id # q[i].id
        BY <3>2, <4>1 DEF Matched
      <4>3. q[k] \in Range(s.list)
        BY <3>2 DEF KeepsBest
      <4> QED
        BY <3>1, <4>2, <4>3
    <3>3. next \in Kept
      BY <3>1, <3>2 DEF KeepsBest
    <3> QED
      BY <2>2, <3>3 DEF next
  <2> QED
    BY <2>1, <2>2
<1>5. st \in Kept
  BY <1>1 DEF KeepsBest, Range
<1> HIDE DEF Drop, Kept
<1>6. step \in [Kept \X (1..n) -> Kept]
  BY <1>4
<1>7. PICK g \in [SUBSET (1..n) -> Kept] : Tabulates(g, n, st, step)
  BY <1>1, <1>5, <1>6, FoldTable
<1>8. g = [s \in SUBSET (1..n) |-> IF s = {} THEN st ELSE Drop(g[s \ {Max(s)}], Max(s))]
  <2>1. ASSUME NEW s \in SUBSET (1..n), s # {} PROVE step[<<g[s \ {Max(s)}], Max(s)>>] = Drop(g[s \ {Max(s)}], Max(s))
    <3>1. Max(s) \in 1..n /\ s \ {Max(s)} \in SUBSET (1..n)
      BY <1>1, <2>1, MaxIsIn
    <3>2. g[s \ {Max(s)}] \in Kept
      BY <1>7, <3>1
    <3> QED
      BY <3>1, <3>2
  <2> HIDE DEF step
  <2> QED
    BY <1>7, <2>1 DEF Tabulates
<1>9. PICK h : /\ FoldLeftDomain(Drop, st, q) = h[1..n]
               /\ h = [s \in SUBSET (1..n) |-> IF s = {} THEN st ELSE Drop(h[s \ {Max(s)}], Max(s))]
  <2> DEFINE d == [i \in DOMAIN q |-> i]
  <2>1. DOMAIN d = 1..n /\ \A i \in 1..n : d[i] = i
    BY <1>1
  <2>2. FoldLeftDomain(Drop, st, q) = FoldLeft(Drop, st, d)
    BY DEF FoldLeftDomain
  <2> HIDE DEF d
  <2>3. \A s \in SUBSET (1..n) : s # {} => d[Max(s)] = Max(s)
    BY <1>1, <2>1, MaxIsIn
  <2>4. g = [s \in SUBSET DOMAIN d |-> IF s = {} THEN st ELSE Drop(g[s \ {Max(s)}], d[Max(s)])]
    BY <1>8, <2>1, <2>3
  <2>5. PICK h : /\ FoldLeft(Drop, st, d) = h[DOMAIN d]
                 /\ h = [s \in SUBSET DOMAIN d |-> IF s = {} THEN st ELSE Drop(h[s \ {Max(s)}], d[Max(s)])]
    BY <2>4 DEF FoldLeft, MapThenFoldSet
  <2>6. h = [s \in SUBSET (1..n) |-> IF s = {} THEN st ELSE Drop(h[s \ {Max(s)}], Max(s))]
    BY <2>1, <2>3, <2>5
  <2>7. FoldLeftDomain(Drop, st, q) = h[1..n]
    BY <2>1, <2>2, <2>5
  <2> QED
    BY <2>6, <2>7
<1>10. h[{}] \in Kept
  BY <1>5, <1>9
<1>11. ASSUME NEW s \in SUBSET (1..n), s # {}, h[s \ {Max(s)}] \in Kept PROVE h[s] \in Kept
  <2>1. Max(s) \in 1..n
    BY <1>1, <1>11, MaxIsIn
  <2>2. h[s] = Drop(h[s \ {Max(s)}], Max(s))
    BY <1>9, <1>11
  <2> QED
    BY <1>4, <1>11, <2>1, <2>2
<1>12. h[1..n] \in Kept
  BY <1>1, <1>10, <1>11, TableValues
<1>13. EnforceRetention(st) \in Kept
  BY <1>2, <1>9, <1>12
<1> QED
  BY <1>13 DEF Kept

-----------------------------------------------------------------------------
Held == [list |-> checkpoints, packages |-> packages]

StorageInv == StorageTypeOK /\ Matched(Held, repeated)

\* What CheckpointsKept says of one step.
KeptStep ==
  \A i \in DOMAIN checkpoints :
    LET c == checkpoints[i]
    IN c.id \notin repeated' =>
         /\ packages[c.id] = c.saved
         /\ c.type = "best" /\ created' # created => c \in Range(checkpoints')

LEMMA HeldIsTyped ==
  ASSUME StorageTypeOK
  PROVE  Held \in Lists
  BY DEF StorageTypeOK, Held, Lists, Entries

LEMMA StoreTyped ==
  ASSUME StorageTypeOK, NEW p \in Contents, StoreParameters(p)
  PROVE  /\ parameters' \in Contents \cup {Nothing} /\ current' \in 0..VersionBound
         /\ history' \in Seq(Contents)
         /\ snapshots' \in [Versions -> Contents \cup {Nothing}] /\ latest' \in 0..VersionBound
<1> USE StorageParameters
<1> DEFINE n == NextVersion
           old == IF parameters = Nothing THEN <<>> ELSE history
<1>1. n \in 1..VersionBound
  BY DEF NextVersion, StoreParameters, StorageTypeOK
<1>2. old \in Seq(Contents)
  BY DEF StorageTypeOK
<1>3. /\ parameters' = p /\ current' = n /\ latest' = n /\ history' = Append(old, p)
      /\ snapshots' = [x \in Versions |-> IF x = n THEN p ELSE IF x + History = n THEN Nothing ELSE snapshots[x]]
  BY DEF StoreParameters, PersistToRedis
<1> HIDE DEF n, old
<1>4. snapshots' \in [Versions -> Contents \cup {Nothing}]
  BY <1>3 DEF StorageTypeOK
<1> QED
  BY <1>1, <1>2, <1>3, <1>4

\* The versions change and the checkpoints do not.
LEMMA VersionsOnly ==
  ASSUME StorageInv, UNCHANGED checkpointVars,
         /\ parameters' \in Contents \cup {Nothing} /\ current' \in 0..VersionBound
         /\ history' \in Seq(Contents)
         /\ snapshots' \in [Versions -> Contents \cup {Nothing}] /\ latest' \in 0..VersionBound
  PROVE  StorageInv' /\ KeptStep
<1>1. StorageTypeOK'
  BY DEF StorageInv, StorageTypeOK, checkpointVars, Versions
<1>2. Matched(Held, repeated)'
  BY DEF StorageInv, Matched, Held, checkpointVars
<1>3. KeptStep
  BY DEF StorageInv, Matched, Held, KeptStep, checkpointVars
<1> QED
  BY <1>1, <1>2, <1>3 DEF StorageInv

\* A new checkpoint: either no other has its id, or the id is repeated now.
LEMMA AddKeeps ==
  ASSUME StorageInv, NEW id \in CheckpointIds, NEW type \in CheckpointTypes, NEW p \in Contents,
         AddCheckpoint(id, type, p)
  PROVE  /\ Held' \in Lists /\ repeated' \subseteq CheckpointIds
         /\ Matched(Held, repeated)' /\ KeptStep
<1> DEFINE e == [id |-> id, type |-> type, saved |-> p]
           added == Append(checkpoints, e)
           st == [list |-> added, packages |-> [packages EXCEPT ![id] = p]]
           next == EnforceRetention(st)
           ids == IF Listed(id) THEN repeated \cup {id} ELSE repeated
           n == Len(checkpoints)
<1>1. repeated' = ids /\ checkpoints' = next.list /\ packages' = next.packages
  BY DEF AddCheckpoint, SetCheckpoints
<1>2. /\ checkpoints \in Seq(Entries) /\ packages \in [CheckpointIds -> Contents \cup {Nothing}]
      /\ repeated \subseteq CheckpointIds
  BY DEF StorageInv, StorageTypeOK, Entries
<1>3. e \in Entries /\ e.id = id /\ e.saved = p
  BY DEF Entries
<1> HIDE DEF e
<1>4. /\ n \in Nat /\ DOMAIN checkpoints = 1..n /\ added \in Seq(Entries) /\ DOMAIN added = 1..(n + 1)
      /\ added[n + 1] = e /\ \A i \in 1..n : added[i] = checkpoints[i] /\ checkpoints[i] \in Entries
  BY <1>2, <1>3
<1> HIDE DEF added, n
<1>5. st \in Lists /\ st.list = added /\ st.packages = [packages EXCEPT ![id] = p]
  BY <1>2, <1>4 DEF Lists
<1> HIDE DEF st
<1>6. \A i \in 1..n : checkpoints[i].id = id => id \in ids
  BY <1>4 DEF Listed
<1>7. repeated \subseteq ids /\ ids \subseteq CheckpointIds
  BY <1>2
<1> HIDE DEF ids
<1>8. \A i, k \in 1..n : i # k /\ checkpoints[i].id = checkpoints[k].id => checkpoints[i].id \in ids
  BY <1>4, <1>7 DEF StorageInv, Matched, Held
<1>9. \A i \in 1..n : checkpoints[i].id \notin ids => packages[checkpoints[i].id] = checkpoints[i].saved
  BY <1>4, <1>7 DEF StorageInv, Matched, Held
<1>10. Matched(st, ids)
  <2>1. ASSUME NEW i \in 1..(n + 1), NEW k \in 1..(n + 1), i # k, added[i].id = added[k].id PROVE added[i].id \in ids
    <3>1. CASE i \in 1..n /\ k \in 1..n
      BY <1>4, <1>8, <2>1, <3>1
    <3>2. CASE i = n + 1
      <4>1. k \in 1..n
        BY <1>4, <2>1, <3>2
      <4> QED
        BY <1>3, <1>4, <1>6, <2>1, <3>2, <4>1
    <3>3. CASE k = n + 1
      <4>1. i \in 1..n
        BY <1>4, <2>1, <3>3
      <4> QED
        BY <1>3, <1>4, <1>6, <2>1, <3>3, <4>1
    <3> QED
      BY <1>4, <3>1, <3>2, <3>3
  <2>2. ASSUME NEW i \in 1..(n + 1), added[i].id \notin ids PROVE st.packages[added[i].id] = added[i].saved
    <3>1. CASE i \in 1..n
      <4>1. added[i] = checkpoints[i] /\ checkpoints[i].id \in CheckpointIds /\ checkpoints[i].id # id
        BY <1>4, <1>6, <2>2, <3>1 DEF Entries
      <4> QED
        BY <1>2, <1>5, <1>9, <2>2, <3>1, <4>1
    <3>2. CASE i = n + 1
      BY <1>2, <1>3, <1>4, <1>5, <3>2
    <3> QED
      BY <1>4, <3>1, <3>2
  <2> QED
    BY <1>4, <1>5, <2>1, <2>2 DEF Matched
<1>11. next \in Lists /\ Matched(next, ids) /\ KeepsBest(st, next, ids)
  BY <1>5, <1>10, RetentionKeeps
<1> HIDE DEF next
<1>12. Held' = next
  BY <1>1, <1>11 DEF Held, Lists
<1>13. ASSUME NEW i \in DOMAIN checkpoints, checkpoints[i].id \notin ids
       PROVE  /\ packages[checkpoints[i].id] = checkpoints[i].saved
              /\ checkpoints[i].type = "best" => checkpoints[i] \in Range(next.list)
  <2>1. i \in 1..n /\ i \in 1..(n + 1) /\ added[i] = checkpoints[i]
    BY <1>4
  <2> QED
    BY <1>4, <1>5, <1>9, <1>11, <1>13, <2>1 DEF KeepsBest
<1>14. KeptStep
  BY <1>1, <1>13 DEF KeptStep
<1>15. Matched(Held, repeated)'
  BY <1>1, <1>11, <1>12 DEF Matched
<1> QED
  BY <1>1, <1>7, <1>11, <1>12, <1>14, <1>15

LEMMA StorageStep ==
  ASSUME StorageInv, [StorageNext]_storageVars
  PROVE  StorageInv' /\ KeptStep
<1> USE StorageParameters
<1>0. /\ parameters \in Contents \cup {Nothing} /\ current \in 0..VersionBound
      /\ history \in Seq(Contents)
      /\ snapshots \in [Versions -> Contents \cup {Nothing}] /\ latest \in 0..VersionBound
      /\ packages \in [CheckpointIds -> Contents \cup {Nothing}] /\ repeated \subseteq CheckpointIds
  BY DEF StorageInv, StorageTypeOK
<1>1. ASSUME NEW p \in Contents, StoreParameters(p), UNCHANGED checkpointVars PROVE StorageInv' /\ KeptStep
  BY <1>1, StoreTyped, VersionsOnly DEF StorageInv
<1>2. ASSUME NEW p \in Contents, NEW id \in CheckpointIds, NEW type \in CheckpointTypes, AddCheckpoint(id, type, p),
             \/ StoreParameters(p)
             \/ UNCHANGED versionVars
      PROVE  StorageInv' /\ KeptStep
  <2>1. /\ Held' \in Lists /\ repeated' \subseteq CheckpointIds /\ Matched(Held, repeated)' /\ KeptStep
    BY <1>2, AddKeeps
  <2>2. /\ checkpoints' \in Seq([id : CheckpointIds, type : CheckpointTypes, saved : Contents])
        /\ packages' \in [CheckpointIds -> Contents \cup {Nothing}]
    BY <2>1 DEF Held, Lists, Entries
  <2>3. /\ parameters' \in Contents \cup {Nothing} /\ current' \in 0..VersionBound
        /\ history' \in Seq(Contents)
        /\ snapshots' \in [Versions -> Contents \cup {Nothing}] /\ latest' \in 0..VersionBound
    BY <1>0, <1>2, StoreTyped DEF StorageInv, versionVars
  <2>4. StorageTypeOK'
    BY <2>1, <2>2, <2>3 DEF StorageTypeOK, Versions
  <2> QED
    BY <2>1, <2>4 DEF StorageInv
<1>3. ASSUME NEW p \in Contents, NEW createVersion \in BOOLEAN, UpdateParameter(p, createVersion), UNCHANGED checkpointVars
      PROVE  StorageInv' /\ KeptStep
  <2>1. CASE createVersion
    BY <1>1, <1>3, <2>1 DEF UpdateParameter
  <2>2. CASE ~createVersion
    BY <1>0, <1>3, <2>2, VersionsOnly DEF UpdateParameter
  <2> QED
    BY <2>1, <2>2
<1>4. ASSUME GetLatestParameters, UNCHANGED checkpointVars PROVE StorageInv' /\ KeptStep
  BY <1>0, <1>4, VersionsOnly DEF GetLatestParameters
<1>5. ASSUME NEW id \in CheckpointIds, NEW type \in CheckpointTypes, CreateCheckpoint(id, type) PROVE StorageInv' /\ KeptStep
  BY <1>0, <1>2, <1>5 DEF CreateCheckpoint
<1>6. ASSUME NEW id \in CheckpointIds, LoadCheckpoint(id) PROVE StorageInv' /\ KeptStep
  BY <1>0, <1>1, <1>6 DEF LoadCheckpoint
<1>7. ASSUME NEW id \in CheckpointIds, DeleteCheckpoint(id) PROVE StorageInv' /\ KeptStep
  <2> DEFINE next == Without([list |-> checkpoints, packages |-> packages], id)
  <2>1. checkpoints' = next.list /\ packages' = next.packages /\ UNCHANGED <<versionVars, repeated, created>>
    BY <1>7 DEF DeleteCheckpoint, SetCheckpoints
  <2>2. next \in Lists /\ Matched(next, repeated)
    BY HeldIsTyped, WithoutKeeps DEF StorageInv, Held
  <2> HIDE DEF next
  <2>3. Held' = next
    BY <2>1, <2>2 DEF Held, Lists
  <2>4. Matched(Held, repeated)'
    BY <2>1, <2>2, <2>3 DEF Matched
  <2>5. StorageTypeOK'
    BY <1>0, <2>1, <2>2 DEF StorageTypeOK, Lists, Entries, versionVars, Versions
  <2>6. KeptStep
    BY <2>1 DEF KeptStep, StorageInv, Matched, Held
  <2> QED
    BY <2>4, <2>5, <2>6 DEF StorageInv
<1>8. ASSUME Stop PROVE StorageInv' /\ KeptStep
  <2>1. parameters' = Nothing /\ current' = 0 /\ history' = <<>> /\ checkpoints' = <<>> /\ UNCHANGED <<packages, repeated, created>>
    BY <1>8 DEF Stop
  <2>2. snapshots' \in [Versions -> Contents \cup {Nothing}] /\ latest' \in 0..VersionBound
    <3>1. NextVersion \in Nat \ {0}
      BY <1>0 DEF NextVersion
    <3> QED
      BY <1>0, <1>8, <3>1 DEF Stop, Versions
  <2>3. StorageTypeOK'
    BY <1>0, <2>1, <2>2 DEF StorageTypeOK, Versions
  <2>4. Matched(Held, repeated)'
    BY <2>1 DEF Matched, Held
  <2>5. KeptStep
    BY <2>1 DEF KeptStep, StorageInv, Matched, Held
  <2> QED
    BY <2>3, <2>4, <2>5 DEF StorageInv
<1>9. ASSUME UNCHANGED storageVars PROVE StorageInv' /\ KeptStep
  BY <1>0, <1>9, VersionsOnly DEF storageVars, versionVars
<1> QED
  BY <1>1, <1>2, <1>3, <1>4, <1>5, <1>6, <1>7, <1>8, <1>9 DEF StorageNext, ParameterRequests

LEMMA StorageStarts ==
  ASSUME StorageInit
  PROVE  StorageInv
<1>1. StorageTypeOK
  BY StorageParameters DEF StorageInit, StorageTypeOK
<1>2. Matched(Held, repeated)
  BY DEF StorageInit, Matched, Held
<1> QED
  BY <1>1, <1>2 DEF StorageInv

LEMMA StorageInvHolds == StorageSpec => []StorageInv
  BY StorageStarts, StorageStep, PTL DEF StorageSpec

\* What the service and Redis hold keeps its shape.
THEOREM StorageTypeCorrect == StorageSpec => []StorageTypeOK
<1>1. StorageInv => StorageTypeOK
  BY DEF StorageInv
<1> QED
  BY <1>1, StorageInvHolds, PTL

\* A checkpoint whose id was not given out twice is in Redis with what it was made
\* of as long as the list has it, and a BEST or FINAL one is never what the
\* retention limit takes, however many checkpoints there are and whatever the limit.
THEOREM CheckpointsAreKept == StorageSpec => CheckpointsKept
<1>1. StorageInv /\ [StorageNext]_storageVars => [KeptStep]_storageVars
  BY StorageStep
<1> QED
  BY <1>1, StorageInvHolds, PTL DEF StorageSpec, CheckpointsKept, KeptStep
=============================================================================
