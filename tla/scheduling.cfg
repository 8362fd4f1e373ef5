SPECIFICATION MCSpec
CONSTANTS
  w1 = w1
  w2 = w2
  w3 = w3
  j1 = j1
  j2 = j2
  g1 = g1
  g2 = g2
  Workers = {w1, w2, w3}
  QueueJobs = {j1, j2}
  Groups = {g1, g2}
  Levels = {1,2}
  Suits <- Abilities
  MaxRetries = 3
  MaxWorkers <- Capacity
  MaxRestarts = 1
  Maintenance = TRUE
  RedisFails = TRUE
  NoWorker = NoWorker
  NoJob = NoJob
  NoGroup = NoGroup
CHECK_DEADLOCK FALSE
INVARIANTS
  SchedulingTypeOK
  
  OneOwner
  HandedOutIsTaken
  PoolsAgree
  PoolCapacity
PROPERTIES
  CancelledStays
  
