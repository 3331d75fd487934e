-------------------------- MODULE MCPhoneCommands --------------------------
(* PhoneCommands with an application whose package name extends the target's. *)
EXTENDS PhoneCommands

CONSTANTS app, beta, desktop, settings

MCTextOf == [a \in {app, beta, desktop, settings} |->
  CASE a \in {app, beta} -> {TargetPackage}
    [] a = desktop       -> {LauncherPackage}
    [] a = settings      -> {}]

MCTexts == {{}, {TargetPackage}, {LauncherPackage}}
=============================================================================
