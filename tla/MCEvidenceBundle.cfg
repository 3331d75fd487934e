CONSTANTS
  r1 = r1
  r2 = r2
  r3 = r3
  dataset = dataset
  metrics = metrics
  Runs = {r1, r2, r3}
  KindOf <- BothKinds
  Artifacts <- TwoFiles
  Nothing = nothing
  Crowds <- StagedTogether
  MaxFaults = 2
SPECIFICATION Spec
INVARIANTS
  PublishedIsWhole
  FailureLeavesNoStaging
PROPERTIES
  ImplementsWriteOnce
  ForeignStagingIsKept
