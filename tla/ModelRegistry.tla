--------------------------- MODULE ModelRegistry ---------------------------
(***************************************************************************)
(* The model registry: a row per model, whose state LifecycleManager moves *)
(* along STATE_TRANSITIONS, the objects of the source and of the final     *)
(* weights, and the versions derived from a model.  REST handlers and gRPC *)
(* methods run next to each other, each in a session of its own: one reads *)
(* the row, awaits the store perhaps, and commits what it changed in the   *)
(* row it has read.  A request is therefore two steps, sometimes three.    *)
(***************************************************************************)
EXTENDS Naturals, FiniteSets

CONSTANTS
  Models,     \* model ids
  Clients,    \* requests that may be under way at the same time
  NoModel

ASSUME RegistryParameters == NoModel \notin Models

VARIABLES
  state,     \* Model.state, "none" before the row exists
  path,      \* Model.gcs_path: none, the source or the final weights
  files,    \* the objects that exist, as pairs <<model, "source" | "final">>
  parent,    \* Model.parent_model_id
  handler    \* per client, the request under way and the row it has read

registryVars == <<state, path, files, parent, handler>>

ModelStates == {"UPLOADING", "VALIDATING", "READY", "FAILED", "DEPRECATED"}
Targets == {"VALIDATING", "READY", "FAILED", "DEPRECATED", "UPLOADING"}
Idle == [op |-> "idle", model |-> NoModel, seen |-> "none", target |-> "none"]
Ops == {"idle", "transition", "upload", "delete", "erase", "finalize", "complete", "derive"}

RegistryTypeOK ==
  /\ state \in [Models -> ModelStates \cup {"none", "COMPLETED"}]
  /\ path \in [Models -> {"none", "source", "final"}]
  /\ files \subseteq Models \X {"source", "final"}
  /\ parent \in [Models -> Models \cup {NoModel}]
  /\ handler \in [Clients -> [op : Ops, model : Models \cup {NoModel},
                              seen : ModelStates \cup {"none", "COMPLETED"}, target : Targets \cup {"none"}]]

RegistryInit ==
  /\ state = [m \in Models |-> "none"]
  /\ path = [m \in Models |-> "none"]
  /\ files = {}
  /\ parent = [m \in Models |-> NoModel]
  /\ handler = [c \in Clients |-> Idle]

Exists(m) == m # NoModel /\ state[m] # "none"

\* Mutant: a deprecated model may be uploaded again, as a failed one may.
Legal_Revive(from, to) ==
  <<from, to>> \in {<<"UPLOADING", "VALIDATING">>, <<"UPLOADING", "FAILED">>, <<"VALIDATING", "READY">>,
                    <<"VALIDATING", "FAILED">>, <<"READY", "DEPRECATED">>, <<"FAILED", "UPLOADING">>,
                    <<"DEPRECATED", "UPLOADING">>}

\* STATE_TRANSITIONS.  COMPLETED is no ModelState: any transition from it raises.
Legal(from, to) ==
  <<from, to>> \in {<<"UPLOADING", "VALIDATING">>, <<"UPLOADING", "FAILED">>, <<"VALIDATING", "READY">>,
                    <<"VALIDATING", "FAILED">>, <<"READY", "DEPRECATED">>, <<"FAILED", "UPLOADING">>}

Insert(m, p) ==
  /\ state[m] = "none"
  /\ state' = [state EXCEPT ![m] = "UPLOADING"]
  /\ parent' = [parent EXCEPT ![m] = p]
  /\ UNCHANGED <<path, files>>

\* create_model and RegisterNewModel: any parent that exists, or none.
CreateModel(m, p) ==
  /\ p = NoModel \/ Exists(p)
  /\ Insert(m, p)
  /\ UNCHANGED handler

\* What a handler does first: it reads the row of m.
Begin(c, op, m, target) ==
  /\ handler[c] = Idle
  /\ Exists(m)
  /\ handler' = [handler EXCEPT ![c] = [op |-> op, model |-> m, seen |-> state[m], target |-> target]]
  /\ UNCHANGED <<state, path, files, parent>>

End(c) == handler' = [handler EXCEPT ![c] = Idle]

\* transition_state, which update_model_state and the lifecycle endpoints call; an
\* illegal transition is answered 400.
BeginTransition(c, m, to) == Legal(state[m], to) /\ Begin(c, "transition", m, to)

CommitTransition(c) ==
  /\ handler[c].op = "transition"
  /\ state' = [state EXCEPT ![handler[c].model] = handler[c].target]
  /\ End(c)
  /\ UNCHANGED <<path, files, parent>>

\* upload_model_file: the object is replaced whatever the state; then the row, if
\* start_validation lets it, and else nothing of it.
StoreFile(c) ==
  /\ handler[c].op = "upload" /\ handler[c].target = "none"
  /\ files' = files \cup {<<handler[c].model, "source">>}
  /\ handler' = [handler EXCEPT ![c].target = "VALIDATING"]
  /\ UNCHANGED <<state, path, parent>>

CommitUploadedFile(c) ==
  LET m == handler[c].model
  IN /\ handler[c].op = "upload" /\ handler[c].target = "VALIDATING"
     /\ IF Legal(handler[c].seen, "VALIDATING")
        THEN state' = [state EXCEPT ![m] = "VALIDATING"] /\ path' = [path EXCEPT ![m] = "source"]
        ELSE UNCHANGED <<state, path>>
     /\ End(c)
     /\ UNCHANGED <<files, parent>>

\* The client PUTs to the signed URL of RegisterNewModel or get_upload_url.
PutFile(m) ==
  /\ Exists(m)
  /\ files' = files \cup {<<m, "source">>}
  /\ UNCHANGED <<state, path, parent, handler>>

\* delete_model: a refused deprecation is passed over ...
CommitDelete(c) ==
  LET h == handler[c]
  IN /\ h.op = "delete"
     /\ state' = IF Legal(h.seen, "DEPRECATED") THEN [state EXCEPT ![h.model] = "DEPRECATED"] ELSE state
     /\ handler' = [handler EXCEPT ![c].op = "erase"]
     /\ UNCHANGED <<path, files, parent>>

\* ... and the source is erased all the same, if the row names any object.
EraseFile(c) ==
  LET m == handler[c].model
  IN /\ handler[c].op = "erase"
     /\ files' = IF path[m] # "none" THEN files \ {<<m, "source">>} ELSE files
     /\ End(c)
     /\ UNCHANGED <<state, path, parent>>

\* A commit writes the columns that differ from the row as it was read.
Write(m, seen, to) == state' = IF seen = to THEN state ELSE [state EXCEPT ![m] = to]

\* FinalizeModelUpload: READY, whatever it was; the caller names the source.
CommitFinalize(c) ==
  LET h == handler[c]
  IN /\ h.op = "finalize"
     /\ Write(h.model, h.seen, "READY")
     /\ path' = [path EXCEPT ![h.model] = "source"]
     /\ End(c)
     /\ UNCHANGED <<files, parent>>

\* UploadFinalModel stores the weights before it reads the row.
StoreFinal(c, m) ==
  /\ handler[c] = Idle /\ Exists(m)
  /\ files' = files \cup {<<m, "final">>}
  /\ handler' = [handler EXCEPT ![c] = [op |-> "complete", model |-> m, seen |-> state[m], target |-> "none"]]
  /\ UNCHANGED <<state, path, parent>>

CommitFinal(c) ==
  LET h == handler[c]
  IN /\ h.op = "complete"
     /\ Write(h.model, h.seen, "COMPLETED")
     /\ path' = [path EXCEPT ![h.model] = "final"]
     /\ End(c)
     /\ UNCHANGED <<files, parent>>

\* create_version: the parent was READY when it was read.
BeginVersion(c, m) == state[m] = "READY" /\ Begin(c, "derive", m, "none")

CommitVersion(c, m) ==
  /\ handler[c].op = "derive"
  /\ Insert(m, handler[c].model)
  /\ End(c)

\* get_version_history: the parent, or the model if it has none, and its children.
VersionHistory(m) ==
  LET root == IF parent[m] = NoModel THEN m ELSE parent[m]
  IN {x \in Models : state[x] # "none" /\ (x = root \/ parent[x] = root)}

\* GetModelArtifact: which object a worker that asks for the source is sent to.
Artifact(m) == <<m, IF path[m] = "final" THEN "final" ELSE "source">>

RegistryNext ==
  \/ \E m \in Models :
       \/ \E p \in Models \cup {NoModel} : CreateModel(m, p)
       \/ PutFile(m)
  \/ \E c \in Clients, m \in Models :
       \/ \E to \in Targets : BeginTransition(c, m, to)
       \/ Begin(c, "upload", m, "none") \/ Begin(c, "delete", m, "none") \/ Begin(c, "finalize", m, "none")
       \/ StoreFinal(c, m)
       \/ BeginVersion(c, m) \/ CommitVersion(c, m)
  \/ \E c \in Clients :
       \/ CommitTransition(c) \/ StoreFile(c) \/ CommitUploadedFile(c)
       \/ CommitDelete(c) \/ EraseFile(c)
       \/ CommitFinalize(c) \/ CommitFinal(c)

RegistrySpec == RegistryInit /\ [][RegistryNext]_registryVars

-----------------------------------------------------------------------------
\* A request that may write a state it has not seen: one that read the row when
\* it was not yet deprecated, and the two gRPC methods that set a state outright.
MayOverwrite(c, m) ==
  /\ handler[c].model = m
  /\ handler[c].seen # "DEPRECATED" \/ handler[c].op \in {"finalize", "complete"}

\* DEPRECATED is terminal, as STATE_TRANSITIONS says, but for those requests, and
\* while it lasts no other makes the row name the source again; and the row of a
\* finished model names weights that are there, whatever deletions ran meanwhile.
DeprecatedStays ==
  [][\A m \in Models :
       /\ state[m] = "DEPRECATED" /\ (\A c \in Clients : ~MayOverwrite(c, m))
            => state'[m] = "DEPRECATED" /\ path'[m] = path[m]
       /\ path'[m] = "final" => Artifact(m)' \in files']_registryVars
=============================================================================
