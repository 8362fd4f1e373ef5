-------------------------- MODULE ParameterStorage --------------------------
(***************************************************************************)
(* The parameter server's ParameterStorageService for one model: numbered  *)
(* versions, a rolling window of them in Redis, and named checkpoints with *)
(* a retention limit.  No method awaits, so each is one step; the process  *)
(* may stop between two of its writes to Redis, and forgets everything     *)
(* else then, the list of its checkpoints included.                        *)
(*                                                                         *)
(* What the parameters are is abstracted to a value of Contents.           *)
(***************************************************************************)
EXTENDS Naturals, Sequences, SequencesExt, FiniteSets, Functions

CONSTANTS
  Contents,       \* what a state dict may hold
  CheckpointIds,  \* custom ids; a generated one names version and second, and may repeat too
  History,        \* REDIS_PARAM_VERSION_HISTORY
  Retention,      \* checkpoint_retention
  VersionBound, CheckpointBound, RestartBound,   \* bounds
  Nothing

ASSUME StorageParameters ==
  /\ History \in Nat \ {0} /\ Retention \in Nat
  /\ VersionBound \in Nat /\ CheckpointBound \in Nat /\ RestartBound \in Nat
  /\ Nothing \notin Contents

CheckpointTypes == {"manual", "best"}  \* AUTO is treated as MANUAL is, FINAL as BEST
Versions == 1..VersionBound

VARIABLES
  parameters,   \* parameters[model], Nothing when the process does not hold it
  current,      \* current_versions[model]
  history,      \* version_history[model]: what each version was stored with
  snapshots,    \* Redis: params:{model}:v{version}
  latest,       \* Redis: params:{model}:current_version, 0 when unset
  checkpoints,  \* checkpoints[model], oldest first
  packages,     \* Redis: checkpoint:{model}:{id}
  repeated,     \* history: ids that were given to a checkpoint while another had them
  created,         \* checkpoints made, for the bound
  stops         \* restarts

versionVars    == <<parameters, current, history, snapshots, latest>>
checkpointVars == <<checkpoints, packages, repeated, created>>
storageVars    == <<versionVars, checkpointVars, stops>>

StorageTypeOK ==
  /\ parameters \in Contents \cup {Nothing}
  /\ current \in 0..VersionBound
  /\ history \in Seq(Contents)
  /\ snapshots \in [Versions -> Contents \cup {Nothing}]
  /\ latest \in 0..VersionBound
  /\ checkpoints \in Seq([id : CheckpointIds, type : CheckpointTypes, saved : Contents])
  /\ packages \in [CheckpointIds -> Contents \cup {Nothing}]
  /\ repeated \subseteq CheckpointIds

StorageInit ==
  /\ parameters = Nothing /\ current = 0 /\ history = <<>>
  /\ snapshots = [v \in Versions |-> Nothing] /\ latest = 0
  /\ checkpoints = <<>> /\ packages = [i \in CheckpointIds |-> Nothing]
  /\ repeated = {} /\ created = 0 /\ stops = 0

-----------------------------------------------------------------------------
\* The number of the next version: a model that is not in memory starts over,
\* even if get_latest_parameters has just set current.
NextVersion == (IF parameters = Nothing THEN 0 ELSE current) + 1

\* Mutant: the window is one version short.
PersistToRedis_OffByOne(v, p) ==
  /\ snapshots' = [x \in Versions |-> IF x = v THEN p
                                      ELSE IF x + History = v + 1 THEN Nothing ELSE snapshots[x]]
  /\ latest' = v

\* _persist_to_redis: the snapshot, its number, and one that falls out of the
\* window.
PersistToRedis(v, p) ==
  /\ snapshots' = [x \in Versions |-> IF x = v THEN p
                                      ELSE IF x + History = v THEN Nothing ELSE snapshots[x]]
  /\ latest' = v

\* store_parameters
StoreParameters(p) ==
  /\ NextVersion <= VersionBound
  /\ parameters' = p
  /\ current' = NextVersion
  /\ history' = Append(IF parameters = Nothing THEN <<>> ELSE history, p)
  /\ PersistToRedis(NextVersion, p)

\* update_parameter: in place, with or without a new version.
UpdateParameter(p, createVersion) ==
  /\ parameters # Nothing
  /\ IF createVersion THEN StoreParameters(p)
     ELSE parameters' = p /\ UNCHANGED <<current, history, snapshots, latest>>

\* get_latest_parameters restores the number, not the parameters.
GetLatestParameters ==
  /\ latest > 0 /\ snapshots[latest] # Nothing
  /\ current' = latest
  /\ UNCHANGED <<parameters, history, snapshots, latest>>

\* get_parameters
GetParameters(v) ==
  IF parameters = Nothing THEN Nothing
  ELSE IF v = current THEN parameters ELSE snapshots[v]

-----------------------------------------------------------------------------
(***************************************************************************)
(* Checkpoints.  A list and what Redis holds change together in st.        *)
(***************************************************************************)
\* delete_checkpoint: the first one with that id, and the package of the id.
Without(st, id) ==
  LET first == SelectInSeq(st.list, LAMBDA c : c.id = id)
  IN IF first = 0 THEN st
     ELSE [list |-> RemoveAt(st.list, first), packages |-> [st.packages EXCEPT ![id] = Nothing]]

\* Mutant: the limit counts, and drops, checkpoints of every type.
EnforceRetention_AllTypes(st) ==
  LET Drop(s, i) == IF i + Retention <= Len(st.list) THEN Without(s, st.list[i].id) ELSE s
  IN FoldLeftDomain(Drop, st, st.list)

\* _enforce_checkpoint_retention: of the others, the newest ones stay.
EnforceRetention(st) ==
  LET Others(from) == {i \in from..Len(st.list) : st.list[i].type # "best"}
      Drop(s, i) == IF i \in Others(1) /\ Cardinality(Others(i)) > Retention THEN Without(s, st.list[i].id) ELSE s
  IN FoldLeftDomain(Drop, st, st.list)

Listed(id) == \E i \in DOMAIN checkpoints : checkpoints[i].id = id
SetCheckpoints(st) == checkpoints' = st.list /\ packages' = st.packages

\* What create_checkpoint does when the memory holds p.
AddCheckpoint(id, type, p) ==
  /\ created < CheckpointBound /\ created' = created + 1
  /\ SetCheckpoints(EnforceRetention([list |-> Append(checkpoints, [id |-> id, type |-> type, saved |-> p]),
                             packages |-> [packages EXCEPT ![id] = p]]))
  /\ repeated' = IF Listed(id) THEN repeated \cup {id} ELSE repeated

CreateCheckpoint(id, type) ==
  /\ parameters # Nothing
  /\ AddCheckpoint(id, type, parameters)
  /\ UNCHANGED versionVars

\* load_checkpoint, which may make it the newest version.
LoadCheckpoint(id) ==
  /\ Listed(id) /\ packages[id] # Nothing
  /\ StoreParameters(packages[id])
  /\ UNCHANGED checkpointVars

DeleteCheckpoint(id) ==
  /\ Listed(id)
  /\ SetCheckpoints(Without([list |-> checkpoints, packages |-> packages], id))
  /\ UNCHANGED <<versionVars, repeated, created>>

-----------------------------------------------------------------------------
\* The router: one method per endpoint.  Storing may ask for a checkpoint too.
ParameterRequests ==
  /\ \/ \E p \in Contents :
          \/ StoreParameters(p) /\ UNCHANGED checkpointVars
          \/ \E id \in CheckpointIds, type \in CheckpointTypes :
               StoreParameters(p) /\ AddCheckpoint(id, type, p)
          \/ \E createVersion \in BOOLEAN : UpdateParameter(p, createVersion) /\ UNCHANGED checkpointVars
     \/ GetLatestParameters /\ UNCHANGED checkpointVars
     \/ \E id \in CheckpointIds :
          \/ \E type \in CheckpointTypes : CreateCheckpoint(id, type)
          \/ LoadCheckpoint(id)
          \/ DeleteCheckpoint(id)
  /\ UNCHANGED stops

\* The process stops, between two requests or in _persist_to_redis after the
\* snapshot, or after its number.
Stop ==
  /\ stops < RestartBound /\ stops' = stops + 1
  /\ \/ UNCHANGED <<snapshots, latest>>
     \/ \E p \in Contents :
          /\ NextVersion <= VersionBound
          /\ snapshots' = [snapshots EXCEPT ![NextVersion] = p]
          /\ latest' \in {latest, NextVersion}
  /\ parameters' = Nothing /\ current' = 0 /\ history' = <<>>
  /\ checkpoints' = <<>>
  /\ UNCHANGED <<packages, repeated, created>>

StorageNext == ParameterRequests \/ Stop
StorageSpec == StorageInit /\ [][StorageNext]_storageVars

-----------------------------------------------------------------------------
\* Whatever was stored, updated in place, restored or left behind by earlier
\* runs of the process, a version that is superseded and still in the window can
\* be read back as it was stored, and one that fell out of the window cannot be
\* mistaken for it: the snapshot removed is never one of the window's.
WindowIsReadable ==
  parameters # Nothing =>
    /\ current = Len(history)
    /\ \A v \in 1..(current - 1) : v + History > current => GetParameters(v) = history[v]

\* As long as no id is given out twice, retention takes no BEST or FINAL checkpoint
\* and every checkpoint in the list can be loaded with what it was made of.
CheckpointsKept ==
  [][\A i \in DOMAIN checkpoints :
       LET c == checkpoints[i]
       IN c.id \notin repeated' =>
            /\ packages[c.id] = c.saved
            /\ c.type = "best" /\ created' # created => c \in Range(checkpoints')]_storageVars
=============================================================================
