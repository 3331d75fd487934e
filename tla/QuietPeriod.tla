---------------------------- MODULE QuietPeriod ----------------------------
(***************************************************************************)
(* What the background guard promises, without evidence lists or exits: a  *)
(* period is extended by timely samples, is passed only by a home sample   *)
(* at least Required after its start, and may be abandoned at any time.    *)
(* BackgroundStabilizer implements it.                                     *)
(***************************************************************************)
EXTENDS Integers

CONSTANTS
  Required,  \* how long the period must last
  MaxGap,    \* the longest silence between two samples
  Kinds,     \* what a sample can show
  QuietKinds,\* ... in a quiet period
  Home,      \* ... at its end
  Instants   \* when a sample may be taken

VARIABLES
  first, last,  \* the instants of the first and the latest sample, -1 if none
  seen,         \* the kinds seen so far
  verdict       \* "open", "passed" or "failed"

quietVars == <<first, last, seen, verdict>>

Timely(t) == t >= 0 /\ (last >= 0 => last < t /\ t <= last + MaxGap)

Take(t, kind) ==
  /\ verdict = "open"
  /\ Timely(t)
  /\ first' = IF first < 0 THEN t ELSE first
  /\ last' = t
  /\ seen' = seen \cup {kind}

\* A quiet sample before the end keeps the period open.
Continue(t, kind) ==
  /\ Take(t, kind)
  /\ kind \in QuietKinds
  /\ t < first' + Required
  /\ UNCHANGED verdict

\* A home sample at the end passes it.
Pass(t) ==
  /\ Take(t, Home)
  /\ t >= first' + Required
  /\ verdict' = "passed"

\* The period may be given up at any time, with or without a last sample.
Fail ==
  /\ verdict = "open"
  /\ verdict' = "failed"
  /\ UNCHANGED <<first, last, seen>>

FailOn(t, kind) ==
  /\ Take(t, kind)
  /\ verdict' = "failed"

QuietInit ==
  /\ first = -1
  /\ last = -1
  /\ seen = {}
  /\ verdict = "open"

QuietNext ==
  \/ Fail
  \/ \E t \in Instants :
       \/ Pass(t)
       \/ \E kind \in Kinds : Continue(t, kind) \/ FailOn(t, kind)

QuietSpec == QuietInit /\ [][QuietNext]_quietVars
=============================================================================
