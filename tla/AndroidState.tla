---------------------------- MODULE AndroidState ----------------------------
(***************************************************************************)
(* The conservative UI-state policy of src/src/device/android_state.cpp.   *)
(*                                                                         *)
(* The code decides everything about a `dumpsys` line by substring search. *)
(* A text is therefore represented by the set of needles it contains: the  *)
(* package and component names of the policy, and the marks that make a    *)
(* line unusable.  Two applications may share a needle (a package whose    *)
(* name extends another's), which is what a substring test cannot see.     *)
(***************************************************************************)
CONSTANTS
  TargetPackage,             \* policy.target_package
  LauncherPackage,           \* policy.launcher_package
  NormalLauncherComponents,  \* policy.normal_launcher_components
  Unusable,                  \* "", "unknown" or a text with "null" in it
  Texts                      \* what dumpsys may print, as sets of needles

\* What AdbClient::observe_package_state returns, less the fields no decision reads.
PackageStateObservation ==
  [ top_activity              : Texts,
    notification_shade_active : BOOLEAN,
    screen_interactive        : BOOLEAN,
    device_locked             : BOOLEAN ]

AndroidUiState ==
  { "target_app_resumed", "launcher_environment", "launcher_owned_transient",
    "unrelated_overlay", "locked", "unknown" }

Contains(text, needle) == needle \in text

\* The order of the tests is the policy: a lock or an overlay hides the activity below.
ClassifyAndroidState(observation) ==
  LET top    == observation.top_activity
      normal == \E component \in NormalLauncherComponents : Contains(top, component)
  IN  IF ~observation.screen_interactive \/ observation.device_locked THEN "locked"
      ELSE IF observation.notification_shade_active THEN "unrelated_overlay"
      ELSE IF Contains(top, Unusable) THEN "unknown"
      ELSE IF Contains(top, TargetPackage) THEN "target_app_resumed"
      ELSE IF ~Contains(top, LauncherPackage) THEN "unrelated_overlay"
      ELSE IF normal THEN "launcher_environment"
      ELSE "launcher_owned_transient"
=============================================================================
