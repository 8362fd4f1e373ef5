-------------------------- MODULE MCServices_proofs --------------------------
(***************************************************************************)
(* The services together, for any constants: a step of one leaves the      *)
(* variables of the others alone, so each keeps its own invariant.         *)
(***************************************************************************)
EXTENDS MCServices, Services_proofs, Sharder_proofs

ServicesInv ==
  /\ DistributionInv /\ SetupTypeOK /\ ShardingInv
  /\ RegistryInv /\ StorageInv /\ GroupsTyped

LEMMA ServicesStart ==
  ASSUME ServicesInit
  PROVE  ServicesInv
BY DistributionStarts, SetupStarts, ShardingStarts, RegistryStarts, StorageStarts, GroupsStart
   DEF ServicesInit, ServicesInv

\* A step of the services together is one of each service, or none of it.
LEMMA ServicesSteps ==
  ASSUME [ServicesNext]_<<serviceVars, focus>>
  PROVE  /\ [DistributionNext]_distVars /\ [SetupNext]_setupVars /\ [ShardingNext]_shardingVars
         /\ [RegistryNext]_registryVars /\ [StorageNext]_storageVars /\ [GroupsNext]_groupVars
BY DEF ServicesNext, serviceVars

LEMMA ServicesStep ==
  ASSUME ServicesInv, [ServicesNext]_<<serviceVars, focus>>
  PROVE  ServicesInv'
<1>1. DistributionInv'
  BY ServicesSteps, DistributionStep DEF ServicesInv
<1>2. SetupTypeOK'
  BY ServicesSteps, TypesKept DEF ServicesInv
<1>3. ShardingInv'
  BY ServicesSteps, ShardingStep DEF ServicesInv
<1>4. RegistryInv'
  BY ServicesSteps, RegistryInvKept DEF ServicesInv
<1>5. StorageInv'
  BY ServicesSteps, StorageStep DEF ServicesInv
<1>6. GroupsTyped'
  BY ServicesSteps, GroupsStep DEF ServicesInv
<1> QED
  BY <1>1, <1>2, <1>3, <1>4, <1>5, <1>6 DEF ServicesInv

\* Every variable of the services around the training loop keeps to its type;
\* among the sharder's, no batch gets its metadata before its data; among the
\* gateway's, no two membership rows have the same key.
THEOREM ServicesTypeCorrect == ServicesSpec => []ServicesTypeOK
<1>1. ServicesInv => ServicesTypeOK
  BY GroupsTypes DEF ServicesInv, DistributionInv, ShardingInv, RegistryInv, StorageInv, ServicesTypeOK
<1> QED
  BY <1>1, ServicesStart, ServicesStep, PTL DEF ServicesSpec
=============================================================================
