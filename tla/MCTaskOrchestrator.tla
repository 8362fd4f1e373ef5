------------------------ MODULE MCTaskOrchestrator ------------------------
(* Small instances of TaskOrchestrator for TLC.                            *)
EXTENDS TaskOrchestrator, TLC

CONSTANTS w1, w2, b1, b2, b3, j1, j2

\* All shards belong to one job, trained for one or two passes.
OneJob    == [b \in Batches |-> j1]
OnePass   == [j \in {j1} |-> 1]
TwoPasses == [j \in {j1} |-> 2]

\* A job of one shard trained once, beside a job of two shards trained twice.
TwoJobs     == [b \in Batches |-> IF b = b1 THEN j1 ELSE j2]
MixedPasses == [j \in {j1, j2} |-> IF j = j1 THEN 1 ELSE 2]

\* How often each worker may connect.
ConnectOnce   == [w \in Workers |-> 1]
ReconnectOnce == [w \in Workers |-> 2]
OneReconnects == [w \in Workers |-> IF w = w1 THEN 2 ELSE 1]

\* Workers are interchangeable, and so are the shards of one job.
OneJobSymmetry  == Permutations(Workers) \cup Permutations(Batches)
TwoJobsSymmetry == Permutations(Workers) \cup Permutations({b2, b3})
ShardSymmetry   == Permutations(Batches)
=============================================================================
