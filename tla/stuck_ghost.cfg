SPECIFICATION FairSpec
CONSTANTS
  w1 = w1  w2 = w2
  b1 = b1  b2 = b2  b3 = b3
  j1 = j1  j2 = j2
  Workers = {w1}
  Batches = {b1}
  Jobs = {j1}
  JobOf <- OneJob
  TargetEpochs <- OnePass
  FailureLimit = 3
  StrictFailure = FALSE
  MaxConn <- ReconnectOnce
  Faults = {"disconnect"}
  NoWorker = NoWorker  NoBatch = NoBatch  NoStream = NoStream
PROPERTY EveryJobEnds
