----------------------- MODULE MCBackgroundStabilizer -----------------------
(* The guard and the builder on ticks, with a guard of three of them.      *)
EXTENDS ManifestBuilder

\* Every kind of text the policy tells apart, a foreign one, and one that
\* names the launcher and the target at once.
MCTexts ==
  LET home == CHOOSE component \in NormalLauncherComponents : TRUE
  IN  { {}, {Unusable}, {TargetPackage}, {LauncherPackage},
        {LauncherPackage, home}, {LauncherPackage, home, TargetPackage} }

\* One timestamp before the origin, the guard and a second beyond it, and NaN.
MCTimestamps == (-1 .. 5) \cup {NotFinite}
=============================================================================
