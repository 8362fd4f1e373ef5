------------------------- MODULE BatchDistribution -------------------------
(***************************************************************************)
(* The sharder's DataDistributor: which worker is to download which batch, *)
(* one record per worker and batch ever assigned (keyed by both ids) and   *)
(* the current owner of each batch.  Every method holds the lock or has no *)
(* await in it, so it is one step.  A record outlives the ownership: the   *)
(* workers that lost a batch may still report on it.                       *)
(*                                                                         *)
(* The lists per worker, read only to report progress, are left out.       *)
(***************************************************************************)
EXTENDS Naturals, Sequences, SequencesExt, FiniteSets, Functions

CONSTANTS
  Downloaders,  \* worker ids
  ShardOf,      \* shard_id of the batches, which are numbered by (shard_id, batch_index)
  SizeOf,       \* num_samples of the batches
  RetryLimit,   \* BatchAssignment.max_retries
  FailureBound, \* bound: failures recorded in one record
  RoundBound,   \* bound: calls of assign_batches_to_workers
  Nobody

ASSUME DistributionParameters ==
  /\ ShardOf \in Seq(Nat) /\ SizeOf \in [DOMAIN ShardOf -> Nat]
  /\ IsFiniteSet(Downloaders)
  /\ RetryLimit \in Nat /\ FailureBound \in Nat /\ RoundBound \in Nat
  /\ Nobody \notin Downloaders

Batches == DOMAIN ShardOf
Strategies == {"shard_per_worker", "round_robin", "load_balanced"}
Assignments == [status : {"pending", "downloading", "completed", "failed", "reassigned"}, retries : Nat]
Unassigned == [status |-> "none", retries |-> 0]

VARIABLES
  stored,      \* the batches whose metadata list_batches finds
  assignments, \* assignments["{worker}_{batch}"]
  owner,       \* batch_to_worker
  rounds

distVars == <<stored, assignments, owner, rounds>>

DistributionTypeOK ==
  /\ stored \subseteq Batches
  /\ assignments \in [Downloaders \X Batches -> Assignments \cup {Unassigned}]
  /\ owner \in [Batches -> Downloaders \cup {Nobody}]

DistributionInit ==
  /\ stored = {}
  /\ assignments = [k \in Downloaders \X Batches |-> Unassigned]
  /\ owner = [b \in Batches |-> Nobody]
  /\ rounds = 0

\* The sharder finishes a shard, or a batch is deleted.
StoreShard(s) ==
  /\ s \in Range(ShardOf)
  /\ stored' = stored \cup {b \in Batches : ShardOf[b] = s}
  /\ UNCHANGED <<assignments, owner, rounds>>
DeleteBatch(b) ==
  /\ b \in stored
  /\ stored' = stored \ {b}
  /\ UNCHANGED <<assignments, owner, rounds>>

-----------------------------------------------------------------------------
(***************************************************************************)
(* The strategies: what each of the workers ws is given of the batches bs. *)
(***************************************************************************)
\* How many of bs come before b: as list_batches sorts them, and by size.
ByNumber(bs, b) == Cardinality({a \in bs : a < b})
BySize(bs, b) == Cardinality({a \in bs : SizeOf[a] > SizeOf[b] \/ (SizeOf[a] = SizeOf[b] /\ a < b)})

\* The first worker gets the lowest shard, and so on; more workers than shards
\* leaves the last ones out.
ShardPerWorker(ws, bs) ==
  LET shards == SetToSortSeq({ShardOf[b] : b \in bs}, <)
  IN [i \in 1..(IF Len(ws) < Len(shards) THEN Len(ws) ELSE Len(shards)) |->
        {b \in bs : ShardOf[b] = shards[i]}]

\* Mutant: the rotation leaves out the first batch.
RoundRobin_SkipsFirst(ws, bs) ==
  [i \in DOMAIN ws |-> {b \in bs : ByNumber(bs, b) > 0 /\ ByNumber(bs, b) % Len(ws) = i - 1}]

RoundRobin(ws, bs) == [i \in DOMAIN ws |-> {b \in bs : ByNumber(bs, b) % Len(ws) = i - 1}]

\* Largest batch first, each to the worker with the fewest samples so far.
LoadBalanced(ws, bs) ==
  LET sorted == [n \in 1..Cardinality(bs) |-> CHOOSE b \in bs : BySize(bs, b) = n - 1]
      Load(share) == SumFunctionOnSet(SizeOf, share)
      Give(shares, b) ==
        LET least == SelectInSeq(shares, LAMBDA s : \A i \in DOMAIN shares : Load(s) <= Load(shares[i]))
        IN [shares EXCEPT ![least] = @ \cup {b}]
  IN FoldLeft(Give, [i \in DOMAIN ws |-> {}], sorted)

Shares(strategy, ws, bs) ==
  CASE strategy = "shard_per_worker" -> ShardPerWorker(ws, bs)
    [] strategy = "round_robin"      -> RoundRobin(ws, bs)
    [] strategy = "load_balanced"    -> LoadBalanced(ws, bs)

\* assign_batches_to_workers, of one shard or of all: the records of the pairs
\* it assigns are made afresh, all the others stay.
Assign(strategy, ws, bs) ==
  LET shares == Shares(strategy, ws, bs)
      Given(w, b) == \E i \in DOMAIN shares : ws[i] = w /\ b \in shares[i]
  IN /\ bs # {}
     /\ rounds < RoundBound /\ rounds' = rounds + 1
     /\ assignments' = [k \in Downloaders \X Batches |->
          IF Given(k[1], k[2]) THEN [status |-> "pending", retries |-> 0] ELSE assignments[k]]
     /\ owner' = [b \in Batches |->
          IF \E w \in Downloaders : Given(w, b) THEN CHOOSE w \in Downloaders : Given(w, b) ELSE owner[b]]
     /\ UNCHANGED stored

Report(w, b, from, to) ==
  /\ assignments[<<w, b>>].status \in from
  /\ assignments' = [assignments EXCEPT ![<<w, b>>] =
       [status |-> to, retries |-> IF to = "failed" THEN @.retries + 1 ELSE @.retries]]
  /\ UNCHANGED <<stored, owner, rounds>>

Known == {"pending", "downloading", "completed", "failed", "reassigned"}

\* mark_download_started, _completed and _failed, as the worker reports them.
MarkDownloadStarted(w, b)   == Report(w, b, {"pending"}, "downloading")
MarkDownloadCompleted(w, b) == Report(w, b, Known, "completed")
MarkDownloadFailed(w, b)    == assignments[<<w, b>>].retries < FailureBound /\ Report(w, b, Known, "failed")

\* download_batch: only for the owner, and a batch that is gone has failed.
DownloadBatch(w, b) ==
  /\ owner[b] = w
  /\ \/ b \in stored /\ MarkDownloadStarted(w, b)
     \/ b \notin stored /\ MarkDownloadFailed(w, b)

\* Mutant: batch_to_worker keeps the old worker.
Reassigned_KeepsOwner(st, b, new) ==
  LET old == st.owner[b]
  IN IF old = Nobody \/ st.assignments[<<old, b>>].retries >= RetryLimit THEN st
     ELSE [st EXCEPT !.assignments = [@ EXCEPT ![<<old, b>>].status = "reassigned",
             ![<<new, b>>] = [status |-> "pending", retries |-> st.assignments[<<old, b>>].retries]]]

\* Mutant: a batch may be moved whatever the owner's record says.
Reassigned_NoLimit(st, b, new) ==
  LET old == st.owner[b]
  IN IF old = Nobody THEN st
     ELSE [assignments |-> [st.assignments EXCEPT ![<<old, b>>].status = "reassigned",
             ![<<new, b>>] = [status |-> "pending", retries |-> st.assignments[<<old, b>>].retries]],
           owner |-> [st.owner EXCEPT ![b] = new]]

\* reassign_failed_batch: it asks the record of the batch's owner, whatever its
\* status, for a retry, even when another worker's record brought it here.
Reassigned(st, b, new) ==
  LET old == st.owner[b]
  IN IF old = Nobody \/ st.assignments[<<old, b>>].retries >= RetryLimit THEN st
     ELSE [assignments |-> [st.assignments EXCEPT ![<<old, b>>].status = "reassigned",
             ![<<new, b>>] = [status |-> "pending", retries |-> st.assignments[<<old, b>>].retries]],
           owner |-> [st.owner EXCEPT ![b] = new]]

Become(st) == assignments' = st.assignments /\ owner' = st.owner /\ UNCHANGED <<stored, rounds>>
Now == [assignments |-> assignments, owner |-> owner]

ReassignFailedBatch(b, new) == Become(Reassigned(Now, b, new))

\* auto_reassign_failed_batches: the failed records in some order, in turn to
\* the workers ws; a record whose turn falls to its own worker is skipped.
FailedRecords ==
  {k \in Downloaders \X Batches : assignments[k].status = "failed" /\ assignments[k].retries < RetryLimit}
AutoReassign(ws) ==
  /\ FailedRecords # {} /\ ws # <<>>
  /\ \E failed \in SetToSeqs(FailedRecords) :
       LET Turn(i) == ws[((i - 1) % Len(ws)) + 1]
           Move(st, i) == IF Turn(i) = failed[i][1] THEN st ELSE Reassigned(st, failed[i][2], Turn(i))
       IN Become(FoldLeftDomain(Move, Now, failed))

WorkerLists == UNION {SetToSeqs(W) : W \in (SUBSET Downloaders) \ {{}}}

DistributionNext ==
  \/ \E s \in Range(ShardOf) : StoreShard(s)
  \/ \E b \in Batches : DeleteBatch(b)
  \/ \E strategy \in Strategies, ws \in WorkerLists :
       \/ Assign(strategy, ws, stored)
       \/ \E s \in Range(ShardOf) : Assign(strategy, ws, {b \in stored : ShardOf[b] = s})
  \/ \E w \in Downloaders, b \in Batches :
       \/ MarkDownloadStarted(w, b) \/ MarkDownloadCompleted(w, b) \/ MarkDownloadFailed(w, b)
       \/ DownloadBatch(w, b)
       \/ ReassignFailedBatch(b, w)
  \/ \E ws \in WorkerLists : AutoReassign(ws)

DistributionSpec == DistributionInit /\ [][DistributionNext]_distVars

-----------------------------------------------------------------------------
\* get_batch_assignment, which every download goes through, looks up the owner's
\* record: it is there, and it is the current one.  Conversely, a record marked
\* as reassigned is not the owner's.
CurrentAssignment ==
  \A b \in Batches : owner[b] # Nobody => assignments[<<owner[b], b>>].status \notin {"none", "reassigned"}

\* A batch whose owner has used up its retries stays there until the batches are
\* distributed again, although the failed records that auto_reassign collects
\* may be those of former owners, with retries left.
ExhaustedStays ==
  [][\A b \in Batches :
       /\ owner[b] # Nobody /\ assignments[<<owner[b], b>>].retries >= RetryLimit
       /\ rounds' = rounds
       => owner'[b] = owner[b]]_distVars

\* Whatever is stored, round robin and load balancing give every batch to exactly
\* one of the workers; round robin gives no worker more than one batch more than
\* another, load balancing no worker more samples than another and one batch.
FairShares ==
  \A ws \in WorkerLists :
    LET rr == RoundRobin(ws, stored)
        lb == LoadBalanced(ws, stored)
        Load(share) == SumFunctionOnSet(SizeOf, share)
        Partition(shares) ==
          /\ UNION Range(shares) = stored
          /\ \A i, k \in DOMAIN shares : i # k => shares[i] \cap shares[k] = {}
    IN /\ Partition(rr) /\ Partition(lb)
       /\ \A i, k \in DOMAIN ws : Cardinality(rr[i]) <= Cardinality(rr[k]) + 1
       /\ \A i, k \in DOMAIN ws : lb[i] # {} => \E b \in lb[i] : Load(lb[i]) <= Load(lb[k]) + SizeOf[b]
=============================================================================
