----------------------------- MODULE MCServices -----------------------------
(***************************************************************************)
(* The services around the training loop on small instances: the sharder's *)
(* distribution and sharding, the setup and deletion of a dataset and its  *)
(* jobs, the model registry, the parameter store and the groups.  They     *)
(* share no state, so a behaviour keeps to one of them, its focus:         *)
(*   batches   two batches, two workers, every report and reassignment     *)
(*   shares    five batches of different sizes, only stored and deleted    *)
(*   job       a dataset and one job, both ways of upload, one restart     *)
(*   jobs      a dataset and two jobs, no restart, no deletion             *)
(*   shards    every small dataset, number of shards and batch size        *)
(*   registry  two requests on one model, and one version derived from it  *)
(*   storage   versions and checkpoints of one model, one restart          *)
(*   groups    two requests on one group of two users and two workers      *)
(***************************************************************************)
EXTENDS BatchDistribution, JobSetup, Sharding, ModelRegistry, ParameterStorage, Groups, TLC

CONSTANTS d1, d2, s1, s2, m1, m2, c1, c2, p1, p2, i1, i2, u1, u2, k1, k2, r1, r2

VARIABLE focus

BatchShards == <<0, 1, 2, 2, 3>>
BatchSamples == <<3, 1, 2, 1, 2>>
SmallDatasets == {<<4>>, <<3, 1>>, <<2, 2>>}

Foci == {"batches", "shares", "job", "jobs", "shards", "registry", "storage", "groups"}

serviceVars == <<distVars, setupVars, shardingVars, registryVars, storageVars, groupVars>>

\* A service out of focus has one initial state.
ServicesInit ==
  /\ DistributionInit /\ SetupInit /\ ShardingInit /\ RegistryInit /\ StorageInit /\ GroupsInit
  /\ focus \in Foci
  /\ focus # "job" => kind = "file"
  /\ focus # "shards" => classSizes = <<4>> /\ numShards = 1 /\ batchSize = 1
  /\ focus # "groups" => public = TRUE /\ maxUses = 1

Quiet == \A s \in Sessions : session[s] = NoSession

ServicesNext ==
  /\ UNCHANGED focus
  /\ \/ /\ focus = "batches"
        /\ DistributionNext /\ stored' \subseteq {1, 2}
        /\ UNCHANGED <<setupVars, shardingVars, registryVars, storageVars, groupVars>>
     \/ /\ focus = "shares"
        /\ DistributionNext /\ rounds' = 0 /\ assignments' = assignments
        /\ UNCHANGED <<setupVars, shardingVars, registryVars, storageVars, groupVars>>
     \/ focus = "job" /\ SetupNext /\ jobRow'[s2] = "none" /\ UNCHANGED <<distVars, shardingVars, registryVars, storageVars, groupVars>>
     \/ focus = "jobs" /\ SetupNext /\ delete' = "idle" /\ crashes' = 0 /\ UNCHANGED <<distVars, shardingVars, registryVars, storageVars, groupVars>>
     \/ focus = "shards" /\ ShardingNext /\ UNCHANGED <<distVars, setupVars, registryVars, storageVars, groupVars>>
     \/ /\ focus = "registry"
        /\ RegistryNext /\ parent'[m1] = NoModel
        /\ <<m2, "source">> \notin files' /\ (\A c \in Clients : handler'[c].model # m2)
        /\ UNCHANGED <<distVars, setupVars, shardingVars, storageVars, groupVars>>
     \/ focus = "storage" /\ StorageNext /\ UNCHANGED <<distVars, setupVars, shardingVars, registryVars, groupVars>>
     \/ /\ focus = "groups"
        /\ GroupsNext /\ uses' <= maxUses + 1
        /\ \A r \in members' : r.role \in {"owner", "worker"} /\ (r.user = Null => r.worker = k2)
        /\ workers' \subseteq {k1}
        /\ public' # public => made = 1 /\ Quiet
        /\ workers' # workers /\ uses' = uses => Quiet
        /\ UNCHANGED <<distVars, setupVars, shardingVars, registryVars, storageVars>>

ServicesSpec == ServicesInit /\ [][ServicesNext]_<<serviceVars, focus>> /\ SetupFairness

\* Every variable of these services keeps to its type; among the sharder's, no
\* batch gets its metadata before its data.
ServicesTypeOK ==
  /\ DistributionTypeOK /\ SetupTypeOK /\ ShardingTypeOK
  /\ RegistryTypeOK /\ StorageTypeOK /\ GroupsTypeOK
=============================================================================
