CONSTANTS
  TargetPackage = target
  LauncherPackage = launcher
  NormalLauncherComponents = {}
  Unusable = unusable
  app = app
  beta = beta
  desktop = desktop
  settings = settings
  Activities = {app, beta, desktop, settings}
  TextOf <- MCTextOf
  Texts <- MCTexts
  TargetActivities = {app}
  HomeActivities = {desktop}
  Limit = 2
  MaxChanges = 3
SPECIFICATION SessionSpec
INVARIANTS
  ReportMatchesPhone
  LockedPhoneIsNotDriven
