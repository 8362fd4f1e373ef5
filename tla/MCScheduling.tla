---------------------------- MODULE MCScheduling ----------------------------
(***************************************************************************)
(* The scheduling services on small instances.  A behaviour keeps to one   *)
(* focus, chosen at the start, so that the sizes of the instances add up   *)
(* instead of multiplying:                                                 *)
(*   faults  one job, two workers, every fault and every method            *)
(*   order   two jobs of any priority, one to be cancelled, two workers     *)
(*   pools   no jobs: three workers come, go and move between two pools    *)
(***************************************************************************)
EXTENDS Scheduling, TLC

CONSTANTS w1, w2, w3, j1, j2, g1, g2

VARIABLE focus

Abilities == {<<w1, j1>>, <<w1, j2>>, <<w2, j1>>}
Capacity  == (g1 :> 1) @@ (g2 :> 2)

Within(aim) ==
  CASE aim = "faults" -> job'[j2] = NoJob /\ registry'[w3] = NoGroup /\ existing' \subseteq {g2}
    [] aim = "order"  -> /\ registry'[w3] = NoGroup /\ existing' \subseteq {g2}
                         /\ cancel'[j2] = NoCancel
                         /\ broken' = {} /\ restarts' = 0
                         /\ call'.op \in {"none", "submit", "validate", "assign"}
                         /\ \A w \in Workers : Registered(w) => Registered(w)'
    [] aim = "pools"  -> \A j \in QueueJobs : job'[j] = NoJob

MCInit == SchedulingInit /\ focus \in {"faults", "order", "pools"}
MCNext == SchedulingNext /\ Within(focus) /\ UNCHANGED focus
MCSpec == MCInit /\ [][MCNext]_<<schedVars, focus>> /\ SchedulingFairness({w1, w2})
=============================================================================
