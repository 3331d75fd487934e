CONSTANTS
  r1 = r1
  r2 = r2
  r3 = r3
  Runs = {r1, r2, r3}
  KindOf <- AllKinds
  Chunks = 2
  Nothing = nothing
  MaxRunning = 2
  MaxFaults = 2
SPECIFICATION FairSpec
INVARIANT RenamedFileIsWhole
PROPERTIES
  SuccessIsPublished
  CompleteFileIsKept
  RetryPublishes
