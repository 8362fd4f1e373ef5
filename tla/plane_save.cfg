SPECIFICATION FairSpec
CONSTANTS
  w1 = w1
  Workers = {w1}
  History = 1
  MaxVersion = 3
  MaxAttempts = 2
  MaxPushes = 2
  MaxRestarts = 1
  Interval = 1
  FinalVersion = 2
  Faults <- EveryFault
INVARIANTS
  TypeOK
  
  

  
