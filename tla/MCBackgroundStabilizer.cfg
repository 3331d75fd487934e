CONSTANTS
  TargetPackage = target
  LauncherPackage = launcher
  NormalLauncherComponents = {homeActivity}
  Unusable = unusable
  NotFinite = notFinite
  NoResult = noResult
  ActivityState = {"foreground", "background"}
  MaxRows = 1
  Required = 3
  MaxGap = 2
  Texts <- MCTexts
  Timestamps <- MCTimestamps
SPECIFICATION BuilderSpec
INVARIANTS
  PassIsEarned
  FailureIsJustified
  BackgroundRowsAreEarned
PROPERTIES
  ImplementsQuietPeriod
