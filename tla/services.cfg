SPECIFICATION ServicesSpec
CONSTANTS
  d1 = d1
  d2 = d2
  s1 = s1
  s2 = s2
  m1 = m1
  m2 = m2
  c1 = c1
  c2 = c2
  p1 = p1
  p2 = p2
  i1 = i1
  i2 = i2
  u1 = u1
  u2 = u2
  k1 = k1
  k2 = k2
  r1 = r1
  r2 = r2
  Downloaders = {d1, d2}
  ShardOf <- BatchShards
  SizeOf <- BatchSamples
  RetryLimit = 2
  FailureBound = 2
  RoundBound = 1
  SetupJobs = {s1, s2}
  Kinds = {"file", "url"}
  CrashBound = 1
  Datasets <- SmallDatasets
  ShardCounts = {0, 1, 2, 3, 5}
  BatchSizes = {1, 2}
  Grain = 3
  Models = {m1, m2}
  Clients = {c1, c2}
  NoModel = NoModel
  Contents = {p1, p2}
  CheckpointIds = {i1, i2}
  History = 2
  Retention = 1
  VersionBound = 3
  CheckpointBound = 3
  RestartBound = 1
  Nothing = Nothing
  Users = {u1, u2}
  Devices = {k1, k2}
  Sessions = {r1, r2}
  Founder = u1
  Limits = {0, 1}
  RowBound = 3
  Nobody = Nobody
  Null = Null
CHECK_DEADLOCK FALSE
INVARIANTS
  ServicesTypeOK
  CurrentAssignment
  FairShares
  RowsHaveObjects
  WholeDataset
  WholeEpoch
  
PROPERTIES
  ExhaustedStays
  DeadJobsStayDead
  DeprecatedStays
  CheckpointsKept
  InvitationHolds
  SetupEnds
