CONSTANTS
  TargetPackage = target
  LauncherPackage = launcher
  homeActivity = homeActivity
  NormalLauncherComponents = {homeActivity}
  Unusable = unusable
  NotFinite = notFinite
  NoResult = noResult
  app = app
  desktop = desktop
  panel = panel
  GuardSeconds = 2
  TicksPerSecond = 2
  Required = 4
  MaxGap = 2
  MaxTime = 5
  MaxChanges = 2
  Activities <- MCActivities
  TextOf <- MCTextOf
  Texts <- MCTexts
  Timestamps <- MCTimestamps
  TargetActivities = {app}
  HomeActivities = {desktop, panel}
SPECIFICATION FairSpec
INVARIANTS
  ExitMatchesEvidence
  PassMatchesPhone
  LongVisitIsCaught
  ShortGuardBeganLate
PROPERTY Terminates
