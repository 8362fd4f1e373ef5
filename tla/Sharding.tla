------------------------------ MODULE Sharding ------------------------------
(***************************************************************************)
(* The sharder's ShardDataset from the loaded dataset to the rows in       *)
(* data_batches: the four strategies that cut the samples into shards, the *)
(* cutting of a shard into batches, and the threads that save the batches. *)
(*                                                                         *)
(* Samples are numbered with those of a class together.  The shuffles are  *)
(* left out, since they only rename the samples of a class or reorder a    *)
(* shard; that the classes are contiguous matters to no property.  The     *)
(* Dirichlet proportions are any multiples of 1/Grain.                     *)
(***************************************************************************)
EXTENDS Naturals, Integers, Sequences, SequencesExt, FiniteSets, FiniteSetsExt, Functions

CONSTANTS
  Datasets,    \* what load_metadata may find: the sizes of the classes
  ShardCounts, \* ShardingConfig.num_shards, sensible or not
  BatchSizes,  \* ShardingConfig.batch_size
  Grain

ASSUME ShardingParameters ==
  /\ Datasets \subseteq Seq(Nat)
  /\ ShardCounts \subseteq Nat /\ BatchSizes \subseteq Nat \ {0}
  /\ Grain \in Nat \ {0}

VARIABLES
  classSizes, numShards, batchSize,  \* the request and its dataset
  phase,    \* where the handler is
  shards,   \* the samples of each shard, in order
  working,  \* the shard whose batches are being made
  tried,    \* batches of any shard a thread has begun with
  data,     \* ... that have their data object
  listed,   \* ... and their metadata object
  persisted \* rows in data_batches

shardingVars == <<classSizes, numShards, batchSize, phase, shards, working, tried, data, listed, persisted>>
request == <<classSizes, numShards, batchSize>>

-----------------------------------------------------------------------------
(***************************************************************************)
(* The strategies                                                          *)
(***************************************************************************)
SumTo(f, n) == FoldLeft(LAMBDA a, i : a + f[i], 0, [i \in 1..n |-> i])
Total(sizes) == SumTo(sizes, Len(sizes))

\* The samples of class c.
ClassSamples(sizes, c) == [i \in 1..sizes[c] |-> SumTo(sizes, c - 1) + i]

\* Mutant: the samples that are left over are dropped.
EqualCut_NoRemainder(samples, n) ==
  LET each == Len(samples) \div n
  IN [s \in 1..n |-> SubSeq(samples, (s - 1) * each + 1, s * each)]

\* Equal parts, of which the last gets what is left over.
EqualCut(samples, n) ==
  LET each == Len(samples) \div n
  IN [s \in 1..n |-> SubSeq(samples, (s - 1) * each + 1, IF s = n THEN Len(samples) ELSE s * each)]

\* Random and sequential shards differ in the order only.
SequentialShards(sizes, n) == EqualCut([i \in 1..Total(sizes) |-> i], n)

\* Every class is cut on its own.
StratifiedShards(sizes, n) ==
  [s \in 1..n |-> FlattenSeq([c \in DOMAIN sizes |-> EqualCut(ClassSamples(sizes, c), n)[s]])]

\* How many samples of a class of this size go to each shard: its share of the
\* class's column of proportions, rounded down, and the rest one by one to the
\* shards with the largest shares.
ClassCounts(size, column) ==
  LET whole == SumTo(column, Len(column))
      floor == [s \in DOMAIN column |-> (column[s] * size) \div whole]
      rest  == size - SumTo(floor, Len(column))
  IN {[s \in DOMAIN column |-> IF s \in top THEN floor[s] + 1 ELSE floor[s]] :
        top \in {t \in kSubset(rest, DOMAIN column) :
                   \A a \in t, b \in DOMAIN column \ t : column[a] >= column[b]}}

\* What the shards may be: a choice of counts for each class.
NonIidShards(sizes, n) ==
  LET Row == {r \in [DOMAIN sizes -> 0..Grain] : SumTo(r, Len(sizes)) = Grain}
      Columns == {p \in [1..n -> Row] : \A c \in DOMAIN sizes : \E s \in 1..n : p[s][c] > 0}
      Cut(samples, count) ==
        [s \in 1..n |-> SubSeq(samples, SumTo(count, s - 1) + 1, SumTo(count, s))]
      CountsOf(p, c) == ClassCounts(sizes[c], [s \in 1..n |-> p[s][c]])
      Counts(p) == {k \in [DOMAIN sizes -> UNION {CountsOf(p, c) : c \in DOMAIN sizes}] :
                      \A c \in DOMAIN sizes : k[c] \in CountsOf(p, c)}
  IN {[s \in 1..n |-> FlattenSeq([c \in DOMAIN sizes |-> Cut(ClassSamples(sizes, c), k[c])[s]])] :
        k \in UNION {Counts(p) : p \in Columns}}

-----------------------------------------------------------------------------
\* Batch <<s, i>> is named {job}__shard_{s}_batch_{i}.
BatchCount(s) == (Len(shards[s]) + batchSize - 1) \div batchSize
BatchIds(s) == {<<s, i>> : i \in 1..BatchCount(s)}
AllBatches == UNION {BatchIds(s) : s \in DOMAIN shards}
SamplesOf(b) == LET last == b[2] * batchSize
                IN SubSeq(shards[b[1]], last - batchSize + 1,
                          IF last < Len(shards[b[1]]) THEN last ELSE Len(shards[b[1]]))

ShardingTypeOK ==
  /\ phase \in {"start", "save", "persist", "done", "failed", "aborted"}
  /\ \A s \in DOMAIN shards : shards[s] \in Seq(1..Total(classSizes))
  /\ working \in 0..numShards
  /\ listed \subseteq data /\ data \subseteq tried /\ tried \subseteq AllBatches
  /\ persisted \subseteq AllBatches

ShardingInit ==
  /\ classSizes \in Datasets /\ numShards \in ShardCounts /\ batchSize \in BatchSizes
  /\ phase = "start" /\ shards = <<>> /\ working = 0
  /\ tried = {} /\ data = {} /\ listed = {} /\ persisted = {}

\* create_shards, which refuses a number of shards that cannot be filled.
CreateShards ==
  /\ phase = "start"
  /\ \/ /\ numShards = 0 \/ numShards > Total(classSizes)
        /\ phase' = "failed" /\ UNCHANGED <<shards, working>>
     \/ /\ numShards \in 1..Total(classSizes)
        /\ shards' \in {SequentialShards(classSizes, numShards), StratifiedShards(classSizes, numShards)}
                       \cup NonIidShards(classSizes, numShards)
        /\ phase' = "save" /\ working' = 1
  /\ UNCHANGED <<request, tried, data, listed, persisted>>

\* create_batches_from_shard: eight threads, so any order.  They outlive the call
\* when it is cancelled.  save_batch writes the data, then the metadata.
SaveData(b) ==
  /\ working > 0 /\ b \in BatchIds(working) \ tried
  /\ tried' = tried \cup {b} /\ data' = data \cup {b}
  /\ UNCHANGED <<request, phase, shards, working, listed, persisted>>

\* Mutant: the metadata is written first.
SaveMetadata_First(b) ==
  /\ phase # "failed"
  /\ working > 0 /\ b \in BatchIds(working) \ listed
  /\ listed' = listed \cup {b}
  /\ UNCHANGED <<request, phase, shards, working, tried, data, persisted>>

SaveMetadata(b) ==
  /\ phase # "failed"
  /\ b \in data \ listed
  /\ listed' = listed \cup {b}
  /\ UNCHANGED <<request, phase, shards, working, tried, data, persisted>>

\* One thread fails, before or after the data; the others go on, and the call
\* fails when they are through.
Busy == BatchIds(working) \ tried # {} \/ data \ listed # {}
SaveFails(b) ==
  /\ phase = "save"
  /\ b \in BatchIds(working) \ listed
  /\ tried' = tried \cup BatchIds(working)
  /\ \E more \in SUBSET (BatchIds(working) \ listed) :
       /\ data' = data \cup more
       /\ listed' = listed \cup (more \ {b})
  /\ phase' = "failed"
  /\ UNCHANGED <<request, shards, working, persisted>>

NextShard ==
  /\ phase = "save" /\ ~Busy
  /\ IF working < numShards THEN working' = working + 1 /\ UNCHANGED phase
                            ELSE phase' = "persist" /\ UNCHANGED working
  /\ UNCHANGED <<request, shards, tried, data, listed, persisted>>

\* persist_batches, one transaction.
PersistRows ==
  /\ phase = "persist"
  /\ persisted' = AllBatches
  /\ phase' \in {"done", "aborted"}
  /\ UNCHANGED <<request, shards, working, tried, data, listed>>

\* The client cancels the call, or the transaction fails.
Abort ==
  /\ phase \in {"start", "save", "persist"}
  /\ phase' = "aborted"
  /\ UNCHANGED <<request, shards, working, tried, data, listed, persisted>>

ShardingNext ==
  \/ CreateShards \/ NextShard \/ PersistRows \/ Abort
  \/ \E b \in AllBatches : SaveData(b) \/ SaveMetadata(b) \/ SaveFails(b)

ShardingSpec == ShardingInit /\ [][ShardingNext]_shardingVars

-----------------------------------------------------------------------------
\* Once there are rows, an epoch over them is a pass over the whole dataset: every
\* sample is in exactly one batch, no batch is empty or too large, and every row
\* has both its objects.  No failed thread, cancellation, rounding or class that
\* is too small to be shared out leaves a sample behind.
WholeEpoch ==
  persisted # {} =>
    /\ \A x \in 1..Total(classSizes) :
         \E b \in persisted : /\ x \in Range(SamplesOf(b))
                              /\ \A c \in persisted \ {b} : x \notin Range(SamplesOf(c))
    /\ \A b \in persisted : Len(SamplesOf(b)) \in 1..batchSize /\ IsInjective(SamplesOf(b))
    /\ persisted \subseteq data \cap listed
=============================================================================
