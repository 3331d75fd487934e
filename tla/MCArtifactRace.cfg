CONSTANTS
  r1 = r1
  r2 = r2
  r3 = r3
  Runs = {r1, r2, r3}
  KindOf <- DryRuns
  Chunks = 2
  Nothing = nothing
  MaxRunning = 2
  MaxFaults = 0
SPECIFICATION Spec
PROPERTY ImplementsWriteOnce
