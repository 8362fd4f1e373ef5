SPECIFICATION Spec
CONSTANTS
  w1 = w1  w2 = w2
  b1 = b1  b2 = b2  b3 = b3
  j1 = j1  j2 = j2
  Workers = {w1, w2}
  Batches = {b1, b2, b3}
  Jobs = {j1, j2}
  JobOf <- TwoJobs
  TargetEpochs <- MixedPasses
  FailureLimit = 2
  StrictFailure = TRUE
  MaxConn <- ConnectOnce
  Faults = {}
  NoWorker = NoWorker  NoBatch = NoBatch  NoStream = NoStream
SYMMETRY TwoJobsSymmetry
INVARIANTS CompletedMeansAllPasses OneTrainer NoLostAssignment IdleMeansFree FullPassIsNoticed
PROPERTY ImplementsTrainingJob
