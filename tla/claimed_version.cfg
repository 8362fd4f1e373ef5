SPECIFICATION Spec
CONSTANTS
  w1 = w1
  w2 = w2
  Workers = {w1, w2}
  History = 2
  MaxVersion = 4
  MaxAttempts = 2
  MaxPushes = 2
  MaxRestarts = 0
  Interval = 9
  FinalVersion = 9
  Faults <- NoFault
INVARIANT ClaimedVersionIsBase
