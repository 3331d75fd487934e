CONSTANTS
  MaxFrames = 2
  CapturedLengths <- MCCapturedLengths
  HeaderLengths = {0, 20, 24}
  TotalLengths = {0, 20, 23, 24, 28}
  PayloadLengths = {0, 3, 4, 8, 12, 72}
  LengthBytes = {0, 1, 255}
SPECIFICATION Spec
INVARIANTS
  ReadsInsidePacket
  CountsAddUp
  LaterFragmentsHaveNoPorts
PROPERTY
  EveryFrameEnds
