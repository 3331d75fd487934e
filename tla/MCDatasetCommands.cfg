CONSTANTS
  c1 = c1
  c2 = c2
  p1 = p1
  p1dot = p1dot
  p2 = p2
  s1 = s1
  s2 = s2
  s3 = s3
  Captures = {c1, c2}
  Paths = {p1, p1dot, p2}
  Normal <- MCNormal
  Manifests <- MCManifests
  Rows <- MCRows
  MaxVersion = 1
  Kinds = {"validate", "features", "analysis"}
  Durations <- MCDurations
  Capture <- MCCapture
  Unreadable = unreadable
  DeviceIp <- MCDeviceIp
  NoIp <- None
SPECIFICATION Spec
INVARIANTS
  AcceptedIsDisjoint
  OverlapIsReal
  NoPacketTwice
  LedgerIsComplete
  OccupancyMatchesLedger
  SharedCaptureIsVerified
  FeaturesAddUp
  ProfileMatchesLedger
