SPECIFICATION Spec
CONSTANTS
  w1 = w1
  w2 = w2
  Workers = {w1, w2}
  History = 1
  MaxVersion = 3
  MaxAttempts = 2
  MaxPushes = 2
  MaxRestarts = 1
  Interval = 9
  FinalVersion = 9
  Faults <- PushFaults
SYMMETRY WorkerSymmetry
INVARIANTS
  CurrentIsStored
  
  
  
  
