---------------------------- MODULE WorkerPools ----------------------------
(***************************************************************************)
(* The orchestrator's WorkerRegistry and WorkerDiscoveryService: who is    *)
(* registered, with which status and job, and the pools that group them.   *)
(* All of it is memory of one process, changed by methods without an await *)
(* in them, so every method is one step.  The status and the current job   *)
(* in the registry, which heartbeats and assignments overwrite, are left   *)
(* out: no RPC reads them to decide anything.                              *)
(***************************************************************************)
EXTENDS JobQueue

CONSTANTS
  Groups,      \* group ids; a user id or "default" where no group is found
  MaxWorkers,  \* WorkerPool.max_workers per group
  NoGroup

ASSUME PoolParameters ==
  /\ IsFiniteSet(Workers)
  /\ MaxWorkers \in [Groups -> Nat \ {0}]
  /\ NoGroup \notin Groups

VARIABLES
  registry,   \* WorkerRegistry._workers: group_id, NoGroup for a worker it does not hold
  pools,      \* WorkerDiscoveryService.pools: worker_ids of each pool
  existing,   \* ... and which groups have a pool
  poolOf      \* worker_to_pool

poolVars == <<registry, pools, existing, poolOf>>

Registered(w) == registry[w] # NoGroup

PoolInit ==
  /\ registry = [w \in Workers |-> NoGroup]
  /\ pools = [g \in Groups |-> {}]
  /\ existing = {}
  /\ poolOf = [w \in Workers |-> NoGroup]

\* WorkerRegistry.register_worker, which replaces what it had of the worker.
Enter(w, g) == registry' = [registry EXCEPT ![w] = g]

AtCapacity(g) == Cardinality(pools[g]) >= MaxWorkers[g]

\* Mutant: a worker that registers again leaves no trace in the new group's pool.
RegisterWorker_SkipsKnown(w, g) ==
  /\ ~AtCapacity(g)
  /\ Enter(w, g)
  /\ existing' = existing \cup {g}
  /\ pools' = IF poolOf[w] = NoGroup THEN [pools EXCEPT ![g] = @ \cup {w}] ELSE pools
  /\ poolOf' = [poolOf EXCEPT ![w] = g]

\* Mutant: off by one in the capacity check.
RegisterWorker_OneTooMany(w, g) ==
  /\ Cardinality(pools[g]) <= MaxWorkers[g]
  /\ Enter(w, g)
  /\ existing' = existing \cup {g}
  /\ pools' = [pools EXCEPT ![g] = @ \cup {w}]
  /\ poolOf' = [poolOf EXCEPT ![w] = g]

\* register_worker.  A full pool refuses its own members too, and the pool of
\* the group the worker was in before keeps it.
RegisterWorker(w, g) ==
  /\ ~AtCapacity(g)
  /\ Enter(w, g)
  /\ existing' = existing \cup {g}
  /\ pools' = [pools EXCEPT ![g] = @ \cup {w}]
  /\ poolOf' = [poolOf EXCEPT ![w] = g]

\* unregister_worker
UnregisterWorker(w) ==
  /\ Registered(w)
  /\ registry' = [registry EXCEPT ![w] = NoGroup]
  /\ pools' = [g \in Groups |-> IF g = poolOf[w] /\ g \in existing THEN pools[g] \ {w} ELSE pools[g]]
  /\ poolOf' = [poolOf EXCEPT ![w] = NoGroup]
  /\ UNCHANGED existing

\* create_pool
CreatePool(g) ==
  /\ g \notin existing
  /\ existing' = existing \cup {g}
  /\ UNCHANGED <<registry, pools, poolOf>>

\* delete_pool: its members lose their mapping, even those that have moved on.
DeletePool(g, force) ==
  /\ g \in existing
  /\ pools[g] = {} \/ force
  /\ poolOf' = [w \in Workers |-> IF w \in pools[g] THEN NoGroup ELSE poolOf[w]]
  /\ pools' = [pools EXCEPT ![g] = {}]
  /\ existing' = existing \ {g}
  /\ UNCHANGED registry

\* A restart of the process.
PoolRestart ==
  /\ registry' = [w \in Workers |-> NoGroup]
  /\ pools' = [g \in Groups |-> {}]
  /\ existing' = {}
  /\ poolOf' = [w \in Workers |-> NoGroup]
=============================================================================
