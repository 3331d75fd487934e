------------------------ MODULE BackgroundStabilizer ------------------------
(***************************************************************************)
(* class BackgroundStabilizer (src/src/device/android_state.cpp): the      *)
(* guard that decides whether the phone stayed in the background long      *)
(* enough for its traffic to be labelled "background".                     *)
(*                                                                         *)
(* Times are doubles in the code and integer ticks here; the arithmetic    *)
(* only subtracts and compares.  `terminal' is the std::optional terminal_.*)
(***************************************************************************)
EXTENDS AndroidState, Integers, Sequences

CONSTANTS
  Required,    \* required_seconds_, 15.0 by default
  MaxGap,      \* maximum_gap_seconds_, 1.75 by default
  NotFinite,   \* an infinite or NaN timestamp
  NoResult,    \* an empty std::optional
  Timestamps   \* the values a caller may pass as elapsed_seconds

\* States that end the guard at once, and why.
Forbidden == {"target_app_resumed", "locked", "unrelated_overlay", "unknown"}

Quiet == {"launcher_environment", "launcher_owned_transient"}

ClassifiedStateObservation == [elapsed_seconds : Int, state : AndroidUiState]

Reasons == Forbidden \cup {"", "timestamp", "gap", "no normal launcher", "too short"}

BackgroundStabilizerResult ==
  [ passed         : BOOLEAN,
    failure_reason : Reasons,
    observations   : Seq(ClassifiedStateObservation),
    start_seconds  : Int,
    end_seconds    : Int,
    final_state    : AndroidUiState ]

\* The constructor throws unless both durations are finite and positive.
ASSUME StabilizerAssumption ==
  /\ Required \in Nat \ {0}
  /\ MaxGap \in Nat \ {0}
  /\ NotFinite \notin Int
  /\ NoResult \notin BackgroundStabilizerResult
  /\ Timestamps \subseteq Int \cup {NotFinite}

VARIABLES
  observations,
  terminal,
  rejected  \* history: the timestamp the guard refused, NoResult if it refused none

stabilizerVars == <<observations, terminal, rejected>>

First(seq) == seq[1]
Back(seq)  == seq[Len(seq)]

\* BackgroundStabilizer::result, applied to the observations stored so far.
Result(stored, passed, failure_reason) ==
  [ passed         |-> passed,
    failure_reason |-> failure_reason,
    observations   |-> stored,
    start_seconds  |-> IF stored = <<>> THEN 0 ELSE First(stored).elapsed_seconds,
    end_seconds    |-> IF stored = <<>> THEN 0 ELSE Back(stored).elapsed_seconds,
    final_state    |-> IF stored = <<>> THEN "unknown" ELSE Back(stored).state ]

\* How long the stored observations span.
Span(stored) == Back(stored).elapsed_seconds - First(stored).elapsed_seconds

Decided == terminal # NoResult

\* Mutant: a repeated timestamp is accepted.
ValidTimestampRepeated(elapsed) ==
  /\ elapsed # NotFinite
  /\ elapsed >= 0
  /\ observations # <<>> => elapsed >= Back(observations).elapsed_seconds

ValidTimestamp(elapsed) ==
  /\ elapsed # NotFinite
  /\ elapsed >= 0
  /\ observations # <<>> => elapsed > Back(observations).elapsed_seconds

\* Mutants: the gap test is off by one, one way or the other, or dropped.
GapExceededEarly(elapsed) ==
  observations # <<>> /\ elapsed - Back(observations).elapsed_seconds >= MaxGap

GapExceededLate(elapsed) ==
  observations # <<>> /\ elapsed - Back(observations).elapsed_seconds > MaxGap + 1

GapExceededNever(elapsed) == FALSE

GapExceeded(elapsed) ==
  observations # <<>> /\ elapsed - Back(observations).elapsed_seconds > MaxGap

\* Mutant: any quiet state may end the guard.
VerdictAnyQuiet(stored) ==
  LET state == Back(stored).state
  IN  IF state \in Forbidden THEN Result(stored, FALSE, state)
      ELSE IF Span(stored) < Required THEN NoResult
      ELSE Result(stored, TRUE, "")

\* What observe() concludes after storing an observation.
Verdict(stored) ==
  LET state == Back(stored).state
  IN  IF state \in Forbidden THEN Result(stored, FALSE, state)
      ELSE IF Span(stored) < Required THEN NoResult
      ELSE IF state = "launcher_environment" THEN Result(stored, TRUE, "")
      ELSE Result(stored, FALSE, "no normal launcher")

Reject(elapsed, failure_reason) ==
  /\ terminal' = Result(observations, FALSE, failure_reason)
  /\ rejected' = elapsed
  /\ UNCHANGED observations

Accept(elapsed, evidence) ==
  LET entry == [ elapsed_seconds |-> elapsed,
                 state           |-> ClassifyAndroidState(evidence) ]
  IN  /\ observations' = Append(observations, entry)
      /\ terminal' = Verdict(observations')
      /\ UNCHANGED rejected

\* Mutant: no early return once a verdict is reached.
ObserveOn(elapsed, evidence) ==
  \/ ~ValidTimestamp(elapsed) /\ Reject(elapsed, "timestamp")
  \/ ValidTimestamp(elapsed) /\ GapExceeded(elapsed) /\ Reject(elapsed, "gap")
  \/ ValidTimestamp(elapsed) /\ ~GapExceeded(elapsed) /\ Accept(elapsed, evidence)

\* BackgroundStabilizer::observe: one disjunct per exit of the function.
Observe(elapsed, evidence) ==
  \/ /\ Decided
     /\ UNCHANGED stabilizerVars
  \/ /\ ~Decided
     /\ ~ValidTimestamp(elapsed)
     /\ Reject(elapsed, "timestamp")
  \/ /\ ~Decided
     /\ ValidTimestamp(elapsed)
     /\ GapExceeded(elapsed)
     /\ Reject(elapsed, "gap")
  \/ /\ ~Decided
     /\ ValidTimestamp(elapsed)
     /\ ~GapExceeded(elapsed)
     /\ Accept(elapsed, evidence)

\* BackgroundStabilizer::finish, a const function: what it returns.
Finish == IF Decided THEN terminal ELSE Result(observations, FALSE, "too short")

StabilizerInit ==
  /\ observations = <<>>
  /\ terminal = NoResult
  /\ rejected = NoResult

StabilizerNext ==
  \E elapsed \in Timestamps, evidence \in PackageStateObservation :
    Observe(elapsed, evidence)

StabilizerSpec == StabilizerInit /\ [][StabilizerNext]_stabilizerVars
-----------------------------------------------------------------------------
StabilizerTypeOK ==
  /\ observations \in Seq(ClassifiedStateObservation)
  /\ terminal \in BackgroundStabilizerResult \cup {NoResult}
  /\ rejected \in Int \cup {NotFinite, NoResult}

-----------------------------------------------------------------------------
(* What a caller may conclude from a terminal result.                      *)

\* Stored observations are dense and ordered: strictly later each time, by at most MaxGap.
Dense(stored) ==
  \A i \in 1 .. Len(stored) - 1 :
    /\ stored[i].elapsed_seconds < stored[i + 1].elapsed_seconds
    /\ stored[i + 1].elapsed_seconds - stored[i].elapsed_seconds <= MaxGap

QuietThroughout(stored) == \A i \in 1 .. Len(stored) : stored[i].state \in Quiet

\* A guard passes only on a dense run of quiet observations that spans the
\* required duration and ends on the normal launcher (observe, lines 73-105).
PassIsEarned ==
  Decided /\ terminal.passed =>
    LET stored == terminal.observations
    IN  /\ Len(stored) >= 2
        /\ Dense(stored)
        /\ QuietThroughout(stored)
        /\ Span(stored) >= Required
        /\ terminal.end_seconds - terminal.start_seconds = Span(stored)
        /\ terminal.final_state = "launcher_environment"

\* The two ways a timestamp t can be untimely after the observations stored.
OutOfOrder(t, stored) ==
  \/ t = NotFinite
  \/ t < 0
  \/ stored # <<>> /\ t <= Back(stored).elapsed_seconds

TooLate(t, stored) == stored # <<>> /\ t - Back(stored).elapsed_seconds > MaxGap

\* The guard is not stricter than documented either.  It fails only if the
\* timestamp it refused really is out of order, or really more than MaxGap after
\* the last stored one; or on a forbidden state, its last; or after a long
\* enough guard that ended outside the normal launcher.  An undecided guard is
\* still quiet and too short (observe, lines 77-104).
FailureIsJustified ==
  /\ Decided /\ ~terminal.passed =>
       LET stored == terminal.observations
       IN  \/ terminal.failure_reason = "timestamp" /\ OutOfOrder(rejected, stored)
           \/ terminal.failure_reason = "gap" /\ TooLate(rejected, stored)
           \/ /\ terminal.failure_reason = terminal.final_state
              /\ terminal.final_state \in Forbidden
           \/ /\ terminal.failure_reason = "no normal launcher"
              /\ Span(stored) >= Required
              /\ terminal.final_state = "launcher_owned_transient"
  /\ ~Decided /\ observations # <<>> =>
       QuietThroughout(observations) /\ Span(observations) < Required

\* A verdict is permanent: later calls of observe change neither the result
\* nor the evidence it was reached on (line 76).
VerdictIsFinal == [][Decided => UNCHANGED stabilizerVars]_stabilizerVars

-----------------------------------------------------------------------------
(* The abstract guard this one implements.                                 *)

Period == INSTANCE QuietPeriod WITH
  Kinds      <- AndroidUiState,
  QuietKinds <- Quiet,
  Home       <- "launcher_environment",
  Instants   <- Timestamps \ {NotFinite},
  first      <- IF observations = <<>> THEN -1 ELSE First(observations).elapsed_seconds,
  last       <- IF observations = <<>> THEN -1 ELSE Back(observations).elapsed_seconds,
  seen       <- {observations[i].state : i \in 1 .. Len(observations)},
  verdict    <- IF ~Decided THEN "open" ELSE IF terminal.passed THEN "passed" ELSE "failed"

\* Every call of observe is a step of the abstract guard or changes nothing
\* it speaks of, so a caller may reason with QuietPeriod alone.
ImplementsQuietPeriod == Period!QuietSpec
=============================================================================
