--------------------------- MODULE MCTrainingPlane ---------------------------
(* Small instances of TrainingPlane for TLC. *)
EXTENDS TrainingPlane

\* Everything that may go wrong; without the registry; nothing.
EveryFault == FaultKinds
PushFaults == FaultKinds \ {"registry"}
NoFault    == {}

WorkerSymmetry == Permutations(Workers)
=============================================================================
