--------------------------- MODULE MCSixConditions ---------------------------
(* Two applications and three run IDs they may share; per application and run *)
(* nothing, one state, both, or unequal numbers of windows; and the samples   *)
(* of the experiment command.                                                 *)
EXTENDS SixConditions

a1 == 1
a2 == 2
a3 == 3

Windows ==
  { <<>>, <<"foreground">>, <<"background">>, <<"foreground", "background">>,
    <<"background", "foreground", "foreground">>, <<"transition">> }

Given(app, run, states) ==
  [ w \in DOMAIN states |->
      [app |-> app, run |-> run, state |-> states[w],
       source |-> "routed_primary", synthetic_test_only |-> FALSE,
       predictor |-> 2 * app + run + (IF states[w] = "foreground" THEN 3 ELSE 0) - w] ]

\* Application a1 has runs 1 and 2, a2 has runs 2 and 3 and may have 1.
Shared ==
  {Given(a1, 1, v) \o Given(a1, 2, w) \o Given(a2, 1, x) \o Given(a2, 2, y) \o Given(a2, 3, z) :
     v, w, y, z \in Windows, x \in {<<>>, <<"foreground", "background">>}}

\* Own runs: a1 has 1 and 2, a2 has 3 and 4.
Own(app, run, state) ==
  [app |-> app, run |-> run, state |-> state, source |-> "synthetic_fixture",
   synthetic_test_only |-> TRUE,
   predictor |-> 3 * app + (IF state = "foreground" THEN 4 ELSE 0)]

Both(app, run) == <<Own(app, run, "foreground"), Own(app, run, "background")>>

MCDatasets ==
  Shared \cup
  { make_synthetic_samples(<<a1, a2, a3>>, 4, 2),
    Both(a1, 1) \o Both(a1, 2) \o Both(a2, 3) \o Both(a2, 4),
    Both(a2, 3) \o Both(a1, 1) \o Both(a2, 4) \o Both(a1, 2) \o Both(a1, 5),
    Both(a1, 1) \o Both(a1, 2) \o Both(a2, 3),
    Both(a1, 1) \o Both(a2, 3),
    Both(a1, 1) \o << [Own(a1, 2, "foreground") EXCEPT !.source = "pcapdroid_auxiliary"] >> }
=============================================================================
