------------------------------ MODULE MCDryRun ------------------------------
(* DryRun with half-second ticks and a gap of two of them.                 *)
EXTENDS DryRun

CONSTANTS app, desktop, panel, homeActivity

MCActivities == {app, desktop, panel}

MCTextOf == [a \in MCActivities |->
  CASE a = app     -> {TargetPackage}
    [] a = desktop -> {LauncherPackage, homeActivity}
    [] a = panel   -> {LauncherPackage}]

MCTexts == {{}, {Unusable}} \cup {MCTextOf[a] : a \in MCActivities}

MCTimestamps == 0 .. MaxTime
=============================================================================
