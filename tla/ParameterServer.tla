--------------------------- MODULE ParameterServer ---------------------------
(***************************************************************************)
(* The parameter server of one job: what it keeps in Redis and in memory,  *)
(* and its three RPCs.  The servicer is a coroutine on one event loop, but *)
(* it talks to Redis synchronously, so a handler is atomic for the others; *)
(* only a Redis error or a crash can stop it between two of its writes.    *)
(* That is why PushGradients takes the number of writes it gets to make.   *)
(* (The Redis lock outlives a crash by its 10 s timeout, which is also how *)
(* long the next push waits for it: it is always acquired in the end.)     *)
(*                                                                         *)
(* Weights are abstracted to the pushes they are made of: the seed first,  *)
(* then one push for every optimizer step, in order.  The momentum buffer  *)
(* is the sequence of pushes folded into it.                               *)
(***************************************************************************)
EXTENDS Naturals, Sequences

CONSTANTS
  Workers,     \* the workers that train the job
  History,     \* REDIS_PARAM_VERSION_HISTORY
  MaxVersion   \* bound: no push is served at this version

ASSUME HistoryAssumption == History \in Nat \ {0}
ASSUME BoundAssumption   == MaxVersion \in Nat \ {0}

Versions == 1..MaxVersion
None     == <<>>      \* no weights

\* A GradientsUpdate: the worker's n-th push.  learning_rate = 0.0 says that it
\* carries initial weights and not gradients.
Pushes    == [worker : Workers, n : Nat, kind : {"seed", "gradient"}]
IsSeed(p) == p.kind = "seed"

VARIABLES
  current,     \* Redis: params:{job}:current_version, 0 when absent
  snapshots,   \* Redis: params:{job}:v{n}, None when absent
  momentum,    \* Redis: momentum:{job}
  memVersion   \* memory: current_versions[job]

redis == <<current, snapshots, momentum>>

ServerTypeOK ==
  /\ current \in 0..MaxVersion
  /\ snapshots \in [Versions -> Seq(Pushes)]
  /\ momentum \in Seq(Pushes)
  /\ memVersion \in 0..MaxVersion

ServerInit ==
  /\ current = 0
  /\ snapshots = [v \in Versions |-> None]
  /\ momentum = <<>>
  /\ memVersion = 0

\* _load_current_weights.  The in-memory copy it falls back to is left out: it is
\* used only if the current snapshot is missing, which CurrentIsStored excludes.
Stored(v) == IF v = 0 THEN None ELSE snapshots[v]
Latest    == Stored(current)

-----------------------------------------------------------------------------
\* GetModelVersion answers from memory.
GetModelVersion == memVersion

\* Mutant: the version is taken from memory, which a restart empties.
BaseVersion_Memory == memVersion

\* _get_current_version.
BaseVersion == current

Seeding(p)  == Latest = None /\ IsSeed(p)
Accepted(p) == Latest # None \/ IsSeed(p)

NewVersion(p) == IF Seeding(p) THEN 1 ELSE BaseVersion + 1
NewWeights(p) == IF Seeding(p) THEN <<p>> ELSE Append(Stored(BaseVersion), p)

\* The writes of an accepted push: the snapshot, the version, the removal of the
\* snapshot that leaves the window, and the momentum buffer, which a seed has not.
AllWrites(p) == IF Seeding(p) THEN 3 ELSE 4

\* After how many of them an error of Redis can end the push.
ErrorCuts(p) == {k \in 0..AllWrites(p) - 1 : k = 2 => NewVersion(p) > History}

\* Mutant: the version is announced before its snapshot is there.
Persist_VersionFirst(v, weights, k) ==
  /\ current' = IF k >= 1 THEN v ELSE current
  /\ snapshots' = [u \in Versions |->
       IF k >= 2 /\ u = v THEN weights
       ELSE IF k >= 3 /\ u + History = v THEN None
       ELSE snapshots[u]]

\* The first k writes of _persist_to_redis.
Persist(v, weights, k) ==
  /\ snapshots' = [u \in Versions |->
       IF k >= 1 /\ u = v THEN weights
       ELSE IF k >= 3 /\ u + History = v THEN None
       ELSE snapshots[u]]
  /\ current' = IF k >= 2 THEN v ELSE current

\* Mutant: the buffer is saved before the weights.
FoldMomentum_First(p, k) ==
  momentum' = IF k >= 1 /\ ~ Seeding(p) THEN Append(momentum, p) ELSE momentum

FoldMomentum(p, k) == momentum' = IF k >= 4 THEN Append(momentum, p) ELSE momentum

\* PushGradients of an accepted push, up to its k-th write.
PushGradients(p, k) ==
  /\ Persist(NewVersion(p), NewWeights(p), k)
  /\ FoldMomentum(p, k)

\* The in-memory version follows the snapshot and precedes the momentum.
RememberVersion(p, k) == memVersion' = IF k >= 3 THEN NewVersion(p) ELSE memVersion

\* PullWeights sets the in-memory version to the one it serves.
PullWeights == memVersion' = IF Latest # None THEN current ELSE memVersion
=============================================================================
