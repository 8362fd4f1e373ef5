SPECIFICATION Spec
CONSTANTS
  w1 = w1  w2 = w2
  b1 = b1  b2 = b2  b3 = b3
  j1 = j1  j2 = j2
  Workers = {w1, w2}
  Batches = {b1, b2}
  Jobs = {j1}
  JobOf <- OneJob
  TargetEpochs <- TwoPasses
  FailureLimit = 3
  StrictFailure = FALSE
  MaxConn <- OneReconnects
  Faults = {"disconnect", "cut"}
  NoWorker = NoWorker  NoBatch = NoBatch  NoStream = NoStream
INVARIANT CompletedMeansAllPasses
