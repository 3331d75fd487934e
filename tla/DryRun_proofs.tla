---------------------------- MODULE DryRun_proofs ----------------------------
(***************************************************************************)
(* Proofs about the background guard and about the commands that run it,   *)
(* for every policy, every duration, every gap and every sequence of       *)
(* timestamps and observations, and then for every phone, every text its   *)
(* activities print and every clock.  The first part is about the class    *)
(* alone and about the capture manifest built from its results, the        *)
(* second about `session dry-run': what the command publishes, what its    *)
(* exit status says, and what a passing guard has missed.                  *)
(***************************************************************************)
EXTENDS DryRun, ManifestBuilder, SequenceTheorems, TLAPS

LEMMA ClassifyType ==
  ASSUME NEW observation
  PROVE  ClassifyAndroidState(observation) \in AndroidUiState
BY DEF ClassifyAndroidState, AndroidUiState

LEMMA UiStatesSplit == AndroidUiState = Forbidden \cup Quiet
BY DEF AndroidUiState, Forbidden, Quiet

\* The evidence a guard may hold: ordered and dense instants, none negative.
Evidence(stored) ==
  /\ stored \in Seq(ClassifiedStateObservation)
  /\ \A i \in 1 .. Len(stored) : stored[i].elapsed_seconds >= 0
  /\ Dense(stored)

\* An open guard has seen nothing but quiet states, for less than Required.
Open(stored) ==
  stored # <<>> => QuietThroughout(stored) /\ Span(stored) < Required

\* A terminal result describes the evidence the guard still holds.
Describes(claim, stored) ==
  /\ claim.observations = stored
  /\ stored # <<>> =>
       /\ claim.start_seconds = First(stored).elapsed_seconds
       /\ claim.end_seconds = Back(stored).elapsed_seconds
       /\ claim.final_state = Back(stored).state

IInv ==
  /\ StabilizerTypeOK
  /\ Evidence(observations)
  /\ ~Decided => Open(observations)
  /\ Decided => Describes(terminal, observations)
  /\ PassIsEarned
  /\ FailureIsJustified

\* Result builds a value of its type, never the empty optional.
LEMMA ResultType ==
  ASSUME NEW stored \in Seq(ClassifiedStateObservation),
         NEW passed \in BOOLEAN,
         NEW failure_reason \in Reasons
  PROVE  /\ Result(stored, passed, failure_reason) \in BackgroundStabilizerResult
         /\ Result(stored, passed, failure_reason) # NoResult
         /\ Describes(Result(stored, passed, failure_reason), stored)
         /\ Result(stored, passed, failure_reason).passed = passed
         /\ Result(stored, passed, failure_reason).failure_reason = failure_reason
<1> DEFINE r == Result(stored, passed, failure_reason)
<1>1. CASE stored = <<>>
  <2>1. r \in BackgroundStabilizerResult
    BY <1>1 DEF Result, BackgroundStabilizerResult, AndroidUiState
  <2>2. QED
    BY <1>1, <2>1, StabilizerAssumption DEF Result, Describes
<1>2. CASE stored # <<>>
  <2>1. Len(stored) >= 1 /\ Len(stored) \in Nat
    BY <1>2
  <2>2. First(stored) \in ClassifiedStateObservation /\ Back(stored) \in ClassifiedStateObservation
    BY <2>1 DEF First, Back
  <2>3. r \in BackgroundStabilizerResult
    BY <1>2, <2>2 DEF Result, BackgroundStabilizerResult, ClassifiedStateObservation
  <2>4. QED
    BY <1>2, <2>3, StabilizerAssumption DEF Result, Describes
<1>3. QED
  BY <1>1, <1>2

LEMMA InitInv == StabilizerInit => IInv
<1> SUFFICES ASSUME StabilizerInit PROVE IInv
  OBVIOUS
<1>1. observations = <<>> /\ ~Decided /\ rejected = NoResult
  BY DEF StabilizerInit, Decided
<1>2. Evidence(observations)
  BY <1>1 DEF Evidence, Dense
<1>3. StabilizerTypeOK
  BY <1>1 DEF StabilizerTypeOK, Decided
<1>4. QED
  BY <1>1, <1>2, <1>3 DEF IInv, Open, PassIsEarned, FailureIsJustified

\* Adding a timely observation keeps the evidence ordered and dense.
LEMMA AppendKeepsEvidence ==
  ASSUME NEW stored, Evidence(stored),
         NEW t \in Int, t >= 0,
         NEW s \in AndroidUiState,
         stored # <<>> => /\ t > Back(stored).elapsed_seconds
                          /\ t - Back(stored).elapsed_seconds <= MaxGap
  PROVE  Evidence(Append(stored, [elapsed_seconds |-> t, state |-> s]))
<1> DEFINE entry == [elapsed_seconds |-> t, state |-> s]
           longer == Append(stored, entry)
<1>1. entry \in ClassifiedStateObservation
  BY DEF ClassifiedStateObservation
<1>2. /\ longer \in Seq(ClassifiedStateObservation)
      /\ Len(longer) = Len(stored) + 1
      /\ Len(stored) \in Nat
      /\ \A i \in 1 .. Len(stored) : longer[i] = stored[i]
      /\ longer[Len(longer)] = entry
  BY <1>1 DEF Evidence
<1>3. \A i \in 1 .. Len(longer) : longer[i].elapsed_seconds >= 0
  BY <1>2 DEF Evidence
<1>4. Dense(longer)
  <2> SUFFICES ASSUME NEW i \in 1 .. Len(longer) - 1
               PROVE  /\ longer[i].elapsed_seconds < longer[i + 1].elapsed_seconds
                      /\ longer[i + 1].elapsed_seconds - longer[i].elapsed_seconds <= MaxGap
    BY DEF Dense
  <2>1. CASE i < Len(stored)
    BY <1>2, <2>1 DEF Evidence, Dense
  <2>2. CASE i = Len(stored)
    <3>1. stored # <<>> /\ longer[i] = Back(stored) /\ longer[i + 1] = entry
      BY <1>2, <2>2 DEF Back
    <3>2. QED
      BY <3>1
  <2>3. QED
    BY <1>2, <2>1, <2>2
<1>5. QED
  BY <1>2, <1>3, <1>4 DEF Evidence

\* The last stored instant is a number.
LEMMA BackType ==
  ASSUME NEW stored \in Seq(ClassifiedStateObservation), stored # <<>>
  PROVE  Back(stored) \in ClassifiedStateObservation /\ Back(stored).elapsed_seconds \in Int
<1>1. Len(stored) \in 1 .. Len(stored)
  OBVIOUS
<1>2. Back(stored) \in ClassifiedStateObservation
  BY <1>1, ElementOfSeq, Zenon DEF Back
<1>3. QED
  BY <1>2 DEF ClassifiedStateObservation

\* Rejecting an untimely call leaves the evidence alone and decides the guard.
LEMMA RejectInv ==
  ASSUME IInv, ~Decided, NEW instant \in Timestamps, NEW reason,
         \/ reason = "timestamp" /\ ~ValidTimestamp(instant)
         \/ reason = "gap" /\ GapExceeded(instant),
         Reject(instant, reason)
  PROVE  IInv'
<1>1. /\ observations \in Seq(ClassifiedStateObservation)
      /\ observations' = observations
      /\ terminal' = Result(observations, FALSE, reason)
      /\ rejected' = instant
      /\ reason \in Reasons
  BY DEF IInv, StabilizerTypeOK, Reject, Reasons
<1>2. /\ terminal' \in BackgroundStabilizerResult
      /\ Decided'
      /\ Describes(terminal', observations')
      /\ ~terminal'.passed
      /\ terminal'.failure_reason = reason
  BY <1>1, ResultType, FALSE \in BOOLEAN DEF Decided
<1>3. rejected' \in Int \cup {NotFinite, NoResult}
  BY <1>1, StabilizerAssumption
<1>4. Evidence(observations)' /\ StabilizerTypeOK'
  BY <1>1, <1>2, <1>3 DEF IInv, StabilizerTypeOK, Evidence, Dense
<1>5. CASE reason = "timestamp" /\ ~ValidTimestamp(instant)
  <2>1. instant = NotFinite \/ instant \in Int
    BY StabilizerAssumption
  <2>2. observations # <<>> => Back(observations).elapsed_seconds \in Int
    BY <1>1, BackType
  <2>3. OutOfOrder(instant, observations)
    BY <1>5, <2>1, <2>2 DEF ValidTimestamp, OutOfOrder
  <2>4. /\ terminal'.observations = observations
        /\ terminal'.failure_reason = "timestamp" /\ OutOfOrder(rejected', terminal'.observations)
    BY <1>1, <1>2, <1>5, <2>3 DEF Describes
  <2>5. FailureIsJustified'
    BY <1>2, <2>4 DEF FailureIsJustified, OutOfOrder, Back
  <2>6. QED
    BY <1>2, <1>4, <2>5 DEF IInv, PassIsEarned
<1>6. CASE reason = "gap" /\ GapExceeded(instant)
  <2>1. TooLate(instant, observations)
    BY <1>6 DEF GapExceeded, TooLate
  <2>2. /\ terminal'.observations = observations
        /\ terminal'.failure_reason = "gap" /\ TooLate(rejected', terminal'.observations)
    BY <1>1, <1>2, <1>6, <2>1 DEF Describes
  <2>3. FailureIsJustified'
    BY <1>2, <2>2 DEF FailureIsJustified, TooLate, Back
  <2>4. QED
    BY <1>2, <1>4, <2>3 DEF IInv, PassIsEarned
<1>7. QED
  BY <1>5, <1>6

\* Accepting a timely observation decides the guard exactly when it should.
LEMMA AcceptInv ==
  ASSUME IInv, ~Decided,
         NEW instant \in Timestamps, NEW grounds,
         ValidTimestamp(instant), ~GapExceeded(instant),
         Accept(instant, grounds)
  PROVE  IInv'
<1> DEFINE kind  == ClassifyAndroidState(grounds)
           entry == [elapsed_seconds |-> instant, state |-> kind]
<1> USE DEF ClassifiedStateObservation
<1>1. /\ instant \in Int /\ instant >= 0
      /\ kind \in AndroidUiState
      /\ entry \in ClassifiedStateObservation
  BY StabilizerAssumption, ClassifyType DEF ValidTimestamp
<1>2. /\ observations \in Seq(ClassifiedStateObservation)
      /\ observations # <<>> => Back(observations) \in ClassifiedStateObservation
      /\ Required \in Int /\ MaxGap \in Int /\ Required > 0
  <2>1. observations \in Seq(ClassifiedStateObservation)
    BY DEF IInv, StabilizerTypeOK
  <2>2. observations # <<>> => Back(observations) \in ClassifiedStateObservation
    <3> HIDE DEF ClassifiedStateObservation
    <3>1. QED
      BY <2>1, BackType
  <2>3. QED
    BY <2>1, <2>2, StabilizerAssumption
<1>3. observations # <<>> => /\ instant > Back(observations).elapsed_seconds
                            /\ instant - Back(observations).elapsed_seconds <= MaxGap
  BY <1>1, <1>2 DEF ValidTimestamp, GapExceeded
<1>4. /\ observations' = Append(observations, entry)
      /\ terminal' = Verdict(observations')
      /\ rejected' = rejected
  BY DEF Accept
<1>5. Evidence(observations')
  <2> HIDE DEF kind
  <2>1. Evidence(observations)
    BY DEF IInv
  <2>2. QED
    BY <1>1, <1>3, <1>4, <2>1, AppendKeepsEvidence
<1> HIDE DEF kind
<1>6. /\ observations' \in Seq(ClassifiedStateObservation)
      /\ observations' # <<>>
      /\ Len(observations') = Len(observations) + 1
      /\ Len(observations) \in Nat
      /\ Back(observations') = entry
      /\ \A i \in 1 .. Len(observations) : observations'[i] = observations[i]
  BY <1>1, <1>2, <1>4 DEF Back
<1>7. First(observations') \in ClassifiedStateObservation
  <2>1. 1 \in 1 .. Len(observations')
    BY <1>6
  <2>2. QED
    BY <1>6, <2>1, ElementOfSeq DEF First
<1>8. Span(observations') = instant - First(observations').elapsed_seconds
  BY <1>6 DEF Span
<1>81. /\ kind \in Forbidden => terminal' = Result(observations', FALSE, kind)
       /\ kind \notin Forbidden /\ Span(observations') < Required => terminal' = NoResult
       /\ kind \notin Forbidden /\ ~(Span(observations') < Required) =>
            terminal' = IF kind = "launcher_environment"
                          THEN Result(observations', TRUE, "")
                          ELSE Result(observations', FALSE, "no normal launcher")
  <2>1. Back(observations').state = kind
    BY <1>6
  <2>2. QED
    BY <1>4, <2>1, Zenon DEF Verdict
<1>9. Open(observations)
  BY DEF IInv
<1>10. kind \in Quiet => QuietThroughout(observations')
  <2> SUFFICES ASSUME kind \in Quiet, NEW i \in 1 .. Len(observations')
               PROVE  observations'[i].state \in Quiet
    BY DEF QuietThroughout
  <2>1. CASE i = Len(observations')
    BY <1>6, <2>1 DEF Back
  <2>2. CASE i # Len(observations')
    <3>1. i \in 1 .. Len(observations) /\ observations # <<>>
      BY <1>2, <1>6, <2>2
    <3>2. QED
      BY <1>6, <1>9, <3>1 DEF Open, QuietThroughout
  <2>3. QED
    BY <2>1, <2>2
<1>11. CASE kind \in Forbidden
  <2>1. terminal' = Result(observations', FALSE, kind) /\ kind \in Reasons
    BY <1>81, <1>11 DEF Reasons
  <2>2. /\ terminal' \in BackgroundStabilizerResult
        /\ Decided'
        /\ Describes(terminal', observations')
        /\ ~terminal'.passed
        /\ terminal'.failure_reason = kind
    BY <1>6, <2>1, ResultType DEF Decided
  <2>3. terminal'.final_state = kind
    BY <1>6, <2>2 DEF Describes
  <2>4. QED
    BY <1>4, <1>5, <1>6, <1>11, <2>2, <2>3
    DEF IInv, StabilizerTypeOK, PassIsEarned, FailureIsJustified
<1>12. CASE kind \in Quiet /\ Span(observations') < Required
  <2>1. kind \notin Forbidden
    BY <1>12 DEF Quiet, Forbidden
  <2>2. terminal' = NoResult
    BY <1>81, <1>12, <2>1
  <2>3. QED
    BY <1>4, <1>5, <1>6, <1>10, <1>12, <2>2
    DEF IInv, StabilizerTypeOK, PassIsEarned, FailureIsJustified, Decided, Open
<1>13. CASE kind = "launcher_environment" /\ ~(Span(observations') < Required)
  <2>1. kind \notin Forbidden /\ kind \in Quiet
    BY <1>13 DEF Quiet, Forbidden
  <2>2. terminal' = Result(observations', TRUE, "") /\ "" \in Reasons
    BY <1>81, <1>13, <2>1, Zenon DEF Reasons
  <2>3. /\ terminal' \in BackgroundStabilizerResult
        /\ Decided'
        /\ Describes(terminal', observations')
        /\ terminal'.passed
    BY <1>6, <2>2, ResultType DEF Decided
  <2>4. Len(observations') >= 2
    <3>1. Len(observations') = 1 => Span(observations') = 0
      <4>1. Len(observations') = 1 => First(observations') = entry
        BY <1>6 DEF First, Back
      <4>2. entry.elapsed_seconds = instant
        OBVIOUS
      <4>3. QED
        BY <1>1, <1>8, <4>1, <4>2
    <3>2. QED
      BY <1>2, <1>6, <1>13, <3>1
  <2>5. Span(observations') >= Required
    BY <1>1, <1>2, <1>7, <1>8, <1>13
  <2>6. /\ terminal'.observations = observations'
        /\ terminal'.end_seconds - terminal'.start_seconds = Span(observations')
        /\ terminal'.final_state = "launcher_environment"
    BY <1>6, <1>13, <2>3 DEF Describes, Span
  <2>7. Dense(observations') /\ QuietThroughout(observations')
    BY <1>5, <1>10, <2>1 DEF Evidence
  <2>8. PassIsEarned'
    BY <2>4, <2>5, <2>6, <2>7 DEF PassIsEarned, Dense, QuietThroughout, Span
  <2>9. QED
    BY <1>4, <1>5, <1>6, <2>3, <2>8 DEF IInv, StabilizerTypeOK, FailureIsJustified
<1>14. CASE kind = "launcher_owned_transient" /\ ~(Span(observations') < Required)
  <2>1. kind \notin Forbidden
    BY <1>14 DEF Forbidden
  <2>2. /\ terminal' = Result(observations', FALSE, "no normal launcher")
        /\ "no normal launcher" \in Reasons
    BY <1>81, <1>14, <2>1, Zenon DEF Reasons
  <2>3. /\ terminal' \in BackgroundStabilizerResult
        /\ Decided'
        /\ Describes(terminal', observations')
        /\ ~terminal'.passed
    BY <1>6, <2>2, ResultType DEF Decided
  <2>4. /\ terminal'.observations = observations'
        /\ terminal'.final_state = "launcher_owned_transient"
    BY <1>6, <1>14, <2>3 DEF Describes
  <2>5. Span(observations') >= Required
    BY <1>1, <1>2, <1>7, <1>8, <1>14
  <2>6. FailureIsJustified'
    <3>1. terminal'.failure_reason = "no normal launcher"
      BY <2>2 DEF Result
    <3>2. QED
      BY <2>3, <2>4, <2>5, <3>1 DEF FailureIsJustified, Span
  <2>7. QED
    BY <1>4, <1>5, <1>6, <2>3, <2>6 DEF IInv, StabilizerTypeOK, PassIsEarned
<1>15. QED
  BY <1>1, <1>11, <1>12, <1>13, <1>14, UiStatesSplit DEF Quiet

LEMMA NextInv == IInv /\ [StabilizerNext]_stabilizerVars => IInv'
<1> SUFFICES ASSUME IInv, [StabilizerNext]_stabilizerVars
             PROVE  IInv'
  OBVIOUS
<1>1. CASE UNCHANGED stabilizerVars
  BY <1>1 DEF stabilizerVars, IInv, StabilizerTypeOK, Evidence, Dense, Decided, Open,
              Describes, PassIsEarned, FailureIsJustified, OutOfOrder, TooLate, QuietThroughout,
              Span, First, Back
<1>2. ASSUME NEW instant \in Timestamps, NEW grounds \in PackageStateObservation,
             Observe(instant, grounds)
      PROVE  IInv'
  <2>1. CASE Decided /\ UNCHANGED stabilizerVars
    BY <1>1, <2>1
  <2>2. CASE ~Decided /\ ~ValidTimestamp(instant) /\ Reject(instant, "timestamp")
    BY <2>2, RejectInv
  <2>3. CASE ~Decided /\ ValidTimestamp(instant) /\ GapExceeded(instant) /\ Reject(instant, "gap")
    BY <2>3, RejectInv
  <2>4. CASE /\ ~Decided /\ ValidTimestamp(instant)
             /\ ~GapExceeded(instant) /\ Accept(instant, grounds)
    BY <2>4, AcceptInv
  <2>5. QED
    BY <1>2, <2>1, <2>2, <2>3, <2>4 DEF Observe
<1>3. QED
  BY <1>1, <1>2 DEF StabilizerNext

\* The guard's evidence and its verdict agree throughout (BackgroundStabilizer).
THEOREM StabilizerInvariance == StabilizerSpec => []IInv
<1>1. QED
  BY InitInv, NextInv, PTL DEF StabilizerSpec

(***************************************************************************)
(* The values kept by the guard have the types of the C++ members.         *)
(***************************************************************************)
THEOREM TypeCorrect == StabilizerSpec => []StabilizerTypeOK
<1>1. IInv => StabilizerTypeOK
  BY DEF IInv
<1>2. QED
  BY <1>1, StabilizerInvariance, PTL

(***************************************************************************)
(* Whatever the caller passes, a guard that passed holds dense, quiet      *)
(* evidence of the required length, ending on the normal launcher.         *)
(***************************************************************************)
THEOREM PassEarned == StabilizerSpec => []PassIsEarned
<1>1. IInv => PassIsEarned
  BY DEF IInv
<1>2. QED
  BY <1>1, StabilizerInvariance, PTL

(***************************************************************************)
(* A guard fails only for a reason that is there: the timestamp it refused *)
(* was not after the last stored one, or was more than the gap after it,   *)
(* or its last state forbids a pass; until then it is quiet and too short. *)
(***************************************************************************)
THEOREM FailureJustified == StabilizerSpec => []FailureIsJustified
<1>1. IInv => FailureIsJustified
  BY DEF IInv
<1>2. QED
  BY <1>1, StabilizerInvariance, PTL

(***************************************************************************)
(* Once decided, neither the verdict nor its evidence ever changes.        *)
(***************************************************************************)
THEOREM VerdictFinal == StabilizerSpec => VerdictIsFinal
<1>1. IInv /\ [StabilizerNext]_stabilizerVars
        => [Decided => UNCHANGED stabilizerVars]_stabilizerVars
  BY DEF StabilizerNext, Observe, Decided
<1>2. QED
  BY <1>1, StabilizerInvariance, PTL DEF StabilizerSpec, VerdictIsFinal

\* The refinement mapping, by the names QuietPeriod gives its variables.
First_ == IF observations = <<>> THEN -1 ELSE First(observations).elapsed_seconds
Last_  == IF observations = <<>> THEN -1 ELSE Back(observations).elapsed_seconds
Seen_  == {observations[i].state : i \in 1 .. Len(observations)}

\* An accepted observation takes one sample of the abstract period.
LEMMA AcceptTakes ==
  ASSUME IInv, ~Decided,
         NEW instant \in Timestamps, NEW grounds,
         ValidTimestamp(instant), ~GapExceeded(instant),
         Accept(instant, grounds)
  PROVE  /\ Period!Take(instant, ClassifyAndroidState(grounds))
         /\ Span(observations') = instant - First_'
         /\ First_' \in Int /\ instant \in Int
<1> DEFINE kind  == ClassifyAndroidState(grounds)
           entry == [elapsed_seconds |-> instant, state |-> kind]
<1>1. instant \in Int /\ instant >= 0 /\ kind \in AndroidUiState /\ MaxGap \in Int
  <2>1. instant \in Int /\ instant >= 0 /\ MaxGap \in Int
    BY StabilizerAssumption DEF ValidTimestamp
  <2>2. kind \in AndroidUiState
    BY ClassifyType
  <2>3. QED
    BY <2>1, <2>2
<1>2. /\ observations \in Seq(ClassifiedStateObservation)
      /\ \A i \in 1 .. Len(observations) :
           /\ observations[i].elapsed_seconds \in Int
           /\ observations[i].elapsed_seconds >= 0
  <2>1. Evidence(observations)
    BY DEF IInv
  <2>2. \A i \in 1 .. Len(observations) : observations[i] \in ClassifiedStateObservation
    BY <2>1, ElementOfSeq DEF Evidence
  <2>3. QED
    BY <2>1, <2>2 DEF Evidence, ClassifiedStateObservation
<1> HIDE DEF kind
<1>3. entry \in ClassifiedStateObservation
  BY <1>1 DEF ClassifiedStateObservation
<1>4. /\ observations' = Append(observations, entry)
      /\ observations' \in Seq(ClassifiedStateObservation)
      /\ observations' # <<>>
      /\ Len(observations) \in Nat
      /\ Len(observations') = Len(observations) + 1
      /\ observations'[Len(observations')] = entry
      /\ \A i \in 1 .. Len(observations) : observations'[i] = observations[i]
  BY <1>2, <1>3 DEF Accept, kind
<1>5. Last_' = instant
  BY <1>4 DEF Last_, Back
<1>6. Seen_' = Seen_ \cup {kind}
  <2>1. entry.state = kind
    OBVIOUS
  <2>2. \A i \in 1 .. Len(observations') :
           i \in 1 .. Len(observations) \/ i = Len(observations')
    BY <1>4
  <2>3. \A i \in 1 .. Len(observations) : i \in 1 .. Len(observations')
    BY <1>4
  <2>4. Len(observations') \in 1 .. Len(observations')
    BY <1>4
  <2>5. QED
    BY <1>4, <2>1, <2>2, <2>3, <2>4 DEF Seen_
<1>7. observations # <<>> => Len(observations) \in 1 .. Len(observations) /\ 1 \in 1 .. Len(observations)
  BY <1>2
<1>8. First_' = IF First_ < 0 THEN instant ELSE First_
  <2>1. CASE observations = <<>>
    BY <1>4, <2>1 DEF First_, First
  <2>2. CASE observations # <<>>
    BY <1>2, <1>4, <1>7, <2>2 DEF First_, First
  <2>3. QED
    BY <2>1, <2>2
<1>9. First_ \in Int /\ Last_ \in Int
  BY <1>2, <1>7 DEF First_, Last_, First, Back
<1>10. Last_ >= 0 => Last_ < instant /\ instant <= Last_ + MaxGap
  <2>1. CASE observations = <<>>
    BY <2>1 DEF Last_
  <2>2. CASE observations # <<>>
    BY <1>1, <1>2, <1>7, <2>2 DEF Last_, Back, ValidTimestamp, GapExceeded
  <2>3. QED
    BY <2>1, <2>2
<1>11. Period!Timely(instant)
  BY <1>1, <1>10 DEF Period!Timely, Last_
<1>12. Period!Take(instant, kind)
  BY <1>5, <1>6, <1>8, <1>11 DEF Period!Take, First_, Last_, Seen_
<1>13. Span(observations') = instant - First_' /\ First_' \in Int
  BY <1>1, <1>4, <1>8, <1>9 DEF Span, First_, Back
<1>14. QED
  BY <1>1, <1>12, <1>13 DEF kind

\* Accepting is a Continue, a Pass or a FailOn of the abstract period.
LEMMA AcceptSimulates ==
  ASSUME IInv, ~Decided,
         NEW instant \in Timestamps, NEW grounds,
         ValidTimestamp(instant), ~GapExceeded(instant),
         Accept(instant, grounds)
  PROVE  Period!QuietNext
<1> DEFINE kind == ClassifyAndroidState(grounds)
<1>1. /\ Period!Take(instant, kind)
      /\ Span(observations') = instant - First_'
      /\ First_' \in Int /\ instant \in Int
      /\ Required \in Int
      /\ kind \in AndroidUiState
  <2>1. kind \in AndroidUiState
    BY ClassifyType
  <2>2. Required \in Int
    BY StabilizerAssumption
  <2>3. QED
    BY <2>1, <2>2, AcceptTakes
<1>2. instant \in Timestamps \ {NotFinite}
  BY DEF ValidTimestamp
<1>3. /\ observations' \in Seq(ClassifiedStateObservation)
      /\ Back(observations').state = kind
      /\ terminal' = Verdict(observations')
  <2>1. [elapsed_seconds |-> instant, state |-> kind] \in ClassifiedStateObservation
    BY <1>1 DEF ClassifiedStateObservation
  <2>2. observations \in Seq(ClassifiedStateObservation)
    BY DEF IInv, Evidence
  <2>3. QED
    BY <2>1, <2>2 DEF Accept, Back
<1> HIDE DEF kind
<1>4. CASE terminal' = NoResult /\ kind \in Quiet /\ Span(observations') < Required
  <2>1. Period!Continue(instant, kind)
    BY <1>1, <1>4 DEF Period!Continue, Decided, First_
  <2>2. QED
    BY <1>1, <1>2, <2>1 DEF Period!QuietNext
<1>5. CASE /\ terminal' = Result(observations', TRUE, "")
           /\ kind = "launcher_environment" /\ ~(Span(observations') < Required)
  <2>1. Decided' /\ terminal'.passed
    <3>1. "" \in Reasons /\ TRUE \in BOOLEAN
      BY DEF Reasons
    <3>2. /\ Result(observations', TRUE, "") # NoResult
          /\ Result(observations', TRUE, "").passed = TRUE
      BY ONLY <1>3, <3>1, ResultType
    <3>3. QED
      BY ONLY <1>5, <3>2, Zenon DEF Decided
  <2>2. Period!Pass(instant)
    <3>1. ~(instant - First_' < Required)
      BY <1>1, <1>5, Zenon
    <3>2. First_' \in Int /\ instant \in Int /\ Required \in Int
      BY <1>1
    <3>3. instant >= First_' + Required
      <4>1. \A a, b, c \in Int : ~(a - b < c) => a >= b + c
        OBVIOUS
      <4>2. QED
        BY <3>1, <3>2, <4>1, Zenon
    <3>4. QED
      BY <1>1, <1>5, <2>1, <3>3 DEF Period!Pass, Decided, First_
  <2>3. QED
    BY <1>2, <2>2 DEF Period!QuietNext
<1>6. CASE \E reason \in Reasons : terminal' = Result(observations', FALSE, reason)
  <2>1. PICK reason \in Reasons : terminal' = Result(observations', FALSE, reason)
    BY <1>6
  <2>2. /\ Result(observations', FALSE, reason) # NoResult
        /\ Result(observations', FALSE, reason).passed = FALSE
    BY ONLY <1>3, <2>1, ResultType
  <2>3. Decided' /\ ~terminal'.passed
    BY ONLY <2>1, <2>2, Zenon DEF Decided
  <2>4. Period!FailOn(instant, kind)
    BY <1>1, <2>3 DEF Period!FailOn, Decided
  <2>5. QED
    BY <1>1, <1>2, <2>4 DEF Period!QuietNext
<1>7. QED
  <2>1. kind \in Forbidden => terminal' = Result(observations', FALSE, kind)
    BY <1>3, Zenon DEF Verdict
  <2>2. kind \notin Forbidden /\ Span(observations') < Required => terminal' = NoResult
    BY <1>3, Zenon DEF Verdict
  <2>3. kind \notin Forbidden /\ ~(Span(observations') < Required) =>
            terminal' = IF kind = "launcher_environment"
                          THEN Result(observations', TRUE, "")
                          ELSE Result(observations', FALSE, "no normal launcher")
    BY <1>3, Zenon DEF Verdict
  <2>4. Forbidden \subseteq Reasons /\ "no normal launcher" \in Reasons
    BY DEF Reasons
  <2>5. QED
    BY <1>1, <1>4, <1>5, <1>6, <2>1, <2>2, <2>3, <2>4, UiStatesSplit, Zenon

(***************************************************************************)
(* The guard implements the quiet period: a caller may rely on QuietPeriod *)
(* and forget lists, reasons and the order of the tests.                   *)
(***************************************************************************)
THEOREM Refinement == StabilizerSpec => ImplementsQuietPeriod
<1>1. StabilizerInit => Period!QuietInit
  BY DEF StabilizerInit, Period!QuietInit, Decided
<1>2. IInv /\ [StabilizerNext]_stabilizerVars => [Period!QuietNext]_Period!quietVars
  <2> SUFFICES ASSUME IInv, [StabilizerNext]_stabilizerVars
               PROVE  [Period!QuietNext]_Period!quietVars
    OBVIOUS
  <2>1. CASE UNCHANGED stabilizerVars
    BY <2>1 DEF stabilizerVars, Period!quietVars, Decided, First, Back
  <2>2. ASSUME NEW instant, NEW reason \in {"timestamp", "gap"}, ~Decided, Reject(instant, reason)
        PROVE  Period!QuietNext
    <3>1. observations \in Seq(ClassifiedStateObservation) /\ reason \in Reasons
      BY DEF IInv, Evidence, Reasons
    <3>2. /\ UNCHANGED observations
          /\ Decided' /\ ~terminal'.passed
      BY <2>2, <3>1, ResultType DEF Reject, Decided
    <3>3. Period!Fail
      BY <2>2, <3>2 DEF Period!Fail, Decided, First, Back
    <3>4. QED
      BY <3>3 DEF Period!QuietNext
  <2>3. ASSUME NEW instant \in Timestamps, NEW grounds \in PackageStateObservation,
               Observe(instant, grounds)
        PROVE  [Period!QuietNext]_Period!quietVars
    BY <2>1, <2>2, <2>3, AcceptSimulates DEF Observe
  <2>4. QED
    BY <2>1, <2>3 DEF StabilizerNext
<1>3. QED
  BY <1>1, <1>2, StabilizerInvariance, PTL
  DEF StabilizerSpec, ImplementsQuietPeriod, Period!QuietSpec
-----------------------------------------------------------------------------
(* The builder that trusts the guard: the result held and the result of a  *)
(* background row can only be the one verdict the guard will ever give.    *)

Trusted(claim) == claim # NoResult /\ claim.passed => claim = terminal

BuilderInv ==
  /\ IInv
  /\ BuilderTypeOK
  /\ Trusted(gate)
  /\ \A i \in 1 .. Len(rows) :
       rows[i].state = "background" =>
         rows[i].gate # NoResult /\ rows[i].gate.passed /\ Trusted(rows[i].gate)

\* What finish() returns is a verdict or no pass.
LEMMA FinishTrusted == IInv => Finish \in Optional /\ Trusted(Finish)
<1> SUFFICES ASSUME IInv PROVE Finish \in Optional /\ Trusted(Finish)
  OBVIOUS
<1>1. CASE Decided
  BY <1>1 DEF Finish, IInv, StabilizerTypeOK, Optional, Trusted
<1>2. CASE ~Decided
  <2>1. observations \in Seq(ClassifiedStateObservation) /\ "too short" \in Reasons
    BY DEF IInv, StabilizerTypeOK, Reasons
  <2>2. /\ Finish \in BackgroundStabilizerResult
        /\ ~Finish.passed
    BY <1>2, <2>1, ResultType, FALSE \in BOOLEAN DEF Finish
  <2>3. QED
    BY <2>2 DEF Optional, Trusted
<1>3. QED
  BY <1>1, <1>2

\* Observing changes no verdict, so what may be trusted stays so.
LEMMA WatchKeepsTrust ==
  ASSUME [StabilizerNext]_stabilizerVars, NEW claim, Trusted(claim)
  PROVE  Trusted(claim)'
<1>1. Decided => UNCHANGED terminal
  BY DEF StabilizerNext, Observe, stabilizerVars
<1>2. QED
  BY <1>1 DEF Trusted, Decided

LEMMA BuilderStep == BuilderInv /\ [BuilderNext]_builderVars => BuilderInv'
<1> SUFFICES ASSUME BuilderInv, [BuilderNext]_builderVars PROVE BuilderInv'
  OBVIOUS
<1>1. [StabilizerNext]_stabilizerVars
  BY DEF BuilderNext, Watch, Collect, Label, AddInterval, builderVars
<1>2. IInv' /\ StabilizerTypeOK'
  BY <1>1, NextInv DEF BuilderInv, IInv
<1>3. /\ Trusted(gate) /\ \A i \in 1 .. Len(rows) : rows[i].state = "background" => Trusted(rows[i].gate)
      /\ gate \in Optional
      /\ rows \in Seq([state : ActivityState, gate : Optional])
  BY DEF BuilderInv, BuilderTypeOK
<1>4. CASE UNCHANGED <<gate, rows>>
  <2>1. Trusted(gate)'
    BY <1>1, <1>3, <1>4, WatchKeepsTrust DEF Trusted
  <2>2. ASSUME NEW i \in 1 .. Len(rows), rows[i].state = "background"
        PROVE  rows[i].gate # NoResult /\ rows[i].gate.passed /\ Trusted(rows[i].gate)'
    <3>1. Trusted(rows[i].gate)
      BY <1>3, <2>2
    <3> DEFINE kept == rows[i].gate
    <3>2. kept' = kept
      BY <1>4
    <3>3. kept # NoResult /\ kept.passed
      BY <2>2 DEF BuilderInv
    <3> HIDE DEF kept
    <3>4. kept = terminal
      BY <3>1, <3>3 DEF Trusted, kept
    <3>5. UNCHANGED terminal
      BY <1>1, <3>3, <3>4 DEF StabilizerNext, Observe, stabilizerVars, Decided
    <3>6. QED
      BY <3>2, <3>3, <3>4, <3>5 DEF Trusted, kept
  <2>3. QED
    BY <1>2, <1>3, <1>4, <2>1, <2>2 DEF BuilderInv, BuilderTypeOK
<1>5. CASE Collect
  <2>1. UNCHANGED <<observations, terminal, rows>> /\ gate' = Finish
    BY <1>5 DEF Collect, stabilizerVars
  <2>2. gate' \in Optional /\ Trusted(gate)'
    BY <2>1, FinishTrusted DEF BuilderInv, Trusted
  <2>3. QED
    BY <1>2, <1>3, <2>1, <2>2 DEF BuilderInv, BuilderTypeOK, Trusted
<1>6. ASSUME NEW state \in ActivityState, NEW background_gate \in {gate, NoResult},
             AddInterval(state, background_gate)
      PROVE  BuilderInv'
  <2> DEFINE row == [state |-> state, gate |-> background_gate]
  <2>1. /\ UNCHANGED <<observations, terminal, gate>>
        /\ rows' = Append(rows, row)
        /\ row \in [state : ActivityState, gate : Optional]
    BY <1>3, <1>6 DEF AddInterval, stabilizerVars, Optional
  <2>2. /\ rows' \in Seq([state : ActivityState, gate : Optional])
        /\ \A i \in 1 .. Len(rows') : rows'[i] = row \/ (i \in 1 .. Len(rows) /\ rows'[i] = rows[i])
    BY <1>3, <2>1
  <2>3. row.state = "background" => row.gate # NoResult /\ row.gate.passed /\ Trusted(row.gate)
    BY <1>3, <1>6 DEF AddInterval, Authorized, Trusted
  <2>4. QED
    BY <1>2, <1>3, <2>1, <2>2, <2>3 DEF BuilderInv, BuilderTypeOK, Trusted
<1>7. QED
  BY <1>4, <1>5, <1>6 DEF BuilderNext, Watch, Label, builderVars

LEMMA BuilderStart == BuilderInit => BuilderInv
<1> SUFFICES ASSUME BuilderInit PROVE BuilderInv
  OBVIOUS
<1>1. IInv /\ gate = NoResult /\ rows = <<>>
  BY InitInv DEF BuilderInit
<1>2. QED
  BY <1>1 DEF BuilderInv, BuilderTypeOK, IInv, Optional, Trusted

LEMMA BuilderInvariance == BuilderSpec => []BuilderInv
BY BuilderStart, BuilderStep, PTL DEF BuilderSpec

(***************************************************************************)
(* Whenever the coordinator asks, however long it waits and whatever it    *)
(* observes in between, a row is labelled background only on the verdict   *)
(* the guard still holds, and the evidence of that verdict supports it.    *)
(***************************************************************************)
THEOREM RowsEarned == BuilderSpec => []BackgroundRowsAreEarned
<1>1. BuilderInv => BackgroundRowsAreEarned
  BY DEF BuilderInv, Trusted, IInv, PassIsEarned, Decided, BackgroundRowsAreEarned
<1>2. QED
  BY <1>1, BuilderInvariance, PTL

-----------------------------------------------------------------------------
(* `session dry-run'.                                                      *)

\* A poll whose first query is made and whose answer is not judged yet.
Asking == pc \in {"windows", "power", "trust"}

CommandTypeOK ==
  /\ TypeOK
  /\ sample \in PackageStateObservation
  /\ pc \in {"events", "write"} => result.passed \in BOOLEAN

\* How far the command has come.
Progress ==
  /\ pc = "done" <=> exit >= 0
  /\ path = "evidence" => pc = "done" /\ evidence = result
  /\ path # "evidence" => evidence = NoResult
  /\ exit = 0 => path = "evidence" /\ evidence.passed
  /\ exit = 2 /\ path = "evidence" => ~evidence.passed
  /\ pc \in {"start", "inspect", "unlocked", "launch", "home"} => second = -1
  /\ pc = "poll" => second >= 0
  /\ second < 0 => observations = <<>> /\ terminal = NoResult
  /\ second < 0 /\ pc # "done" => ~asked.target /\ asked.polls = 0
  /\ pc \in {"top", "windows", "power", "trust"} /\ second >= 0 => ~Decided /\ second <= GuardSeconds

\* The guard is shown the texts of the activities the phone showed when it was asked.
Asked ==
  /\ Asking =>
       sample.top_activity \in
         {TextOf[IF second < 0 THEN asked.verified ELSE asked.latest], {Unusable}}
  /\ pc = "home" \/ second >= 0 => TargetPackage \in TextOf[asked.verified]
  /\ second >= 0 /\ ~Decided =>
       /\ asked.polls = Len(observations) + (IF Asking THEN 1 ELSE 0)
       /\ asked.target => Asking /\ TargetPackage \in TextOf[asked.latest]

\* A pass is the verdict of the guard; what it says about the phone.
Seen(verdict) ==
  verdict.passed =>
    /\ Decided /\ verdict = terminal
    /\ asked.polls = Len(verdict.observations)
    /\ TargetPackage \in TextOf[asked.verified]
    /\ ~asked.target
    /\ \E component \in NormalLauncherComponents : component \in TextOf[asked.latest]

Judged ==
  /\ Decided => Seen(terminal)
  /\ pc \in {"events", "write"} => Seen(result)
  /\ path = "evidence" => Seen(evidence)

CommandInv == IInv /\ CommandTypeOK /\ Progress /\ Asked /\ Judged

LEMMA Limits ==
  /\ GuardSeconds \in Nat /\ TicksPerSecond \in Nat /\ MaxTime \in Nat /\ MaxGap \in Nat
  /\ MaxChanges \in Nat /\ Required = GuardSeconds * TicksPerSecond
BY DryRunAssumption, StabilizerAssumption

LEMMA Samples ==
  /\ NoSample \in PackageStateObservation
  /\ \A a \in Activities : \A text \in {TextOf[a], {Unusable}} :
       [NoSample EXCEPT !.top_activity = text] \in PackageStateObservation
BY DryRunAssumption DEF NoSample, PackageStateObservation

LEMMA InitCommand == Init => CommandInv
<1> SUFFICES ASSUME Init PROVE CommandInv
  OBVIOUS
<1>1. IInv
  BY InitInv DEF Init
<1>2. observations = <<>> /\ terminal = NoResult /\ second = -1 /\ pc = "start" /\ ~Decided
  BY DEF Init, StabilizerInit, Decided
<1>3. CommandTypeOK
  <2>1. phone \in [resumed : Activities, interactive : BOOLEAN, locked : BOOLEAN, shade : BOOLEAN]
    BY DEF Init
  <2>2. now \in 0 .. MaxTime /\ elapsed \in 0 .. MaxTime /\ second \in -1 .. GuardSeconds + 1
    BY Limits DEF Init
  <2>3. QED
    BY <1>1, <1>2, <2>1, <2>2, Samples DEF Init, CommandTypeOK, TypeOK, IInv
<1>4. Progress /\ Asked /\ Judged
  BY <1>2 DEF Init, Progress, Asked, Asking, Judged, NeverAsked
<1>5. QED
  BY <1>1, <1>3, <1>4 DEF CommandInv

\* An exception forgets the guard and publishes nothing.
LEMMA ThrowInv ==
  ASSUME CommandInv, pc # "done", Throw PROVE CommandInv'
<1>1. StabilizerInit' /\ second' = -1 /\ pc' = "done" /\ exit' = 2
      /\ UNCHANGED <<fileVars, worldVars, asked>> /\ elapsed' = 0 /\ sample' = NoSample
  BY DEF Throw, Leave, Goto, StabilizerInit
<1>2. IInv'
  BY <1>1, InitInv, PTL
<1>3. observations' = <<>> /\ terminal' = NoResult /\ ~Decided'
  BY <1>1 DEF StabilizerInit, Decided
<1>4. path # "evidence" /\ UNCHANGED <<path, evidence, phone, now>>
  BY <1>1 DEF CommandInv, Progress, fileVars, worldVars
<1>5. CommandTypeOK'
  <2>1. elapsed' \in 0 .. MaxTime /\ second' \in -1 .. GuardSeconds + 1
    BY <1>1, Limits
  <2>2. QED
    BY <1>1, <1>2, <1>4, <2>1, Samples DEF CommandInv, CommandTypeOK, TypeOK, IInv
<1>6. Progress'
  BY <1>1, <1>3, <1>4 DEF CommandInv, Progress
<1>7. Asked' /\ Judged'
  BY <1>1, <1>3, <1>4 DEF Asked, Asking, Judged
<1>8. QED
  BY <1>2, <1>5, <1>6, <1>7 DEF CommandInv

\* The guard is not asked: its own invariant stays.
LEMMA GuardRests == ASSUME IInv, UNCHANGED stabilizerVars PROVE IInv' /\ (Decided' <=> Decided)
<1>1. [StabilizerNext]_stabilizerVars
  OBVIOUS
<1>2. QED
  BY <1>1, NextInv DEF stabilizerVars, Decided

\* The steps before the guard that decide nothing but what comes next, and the
\* second test of the path.
LEMMA JumpInv ==
  ASSUME CommandInv, CheckOutput \/ Inspect \/ InspectTrust \/ ReadEvents PROVE CommandInv'
<1>1. CASE Throw
  BY <1>1, ThrowInv DEF CheckOutput, Inspect, InspectTrust, ReadEvents
<1>2. CASE \/ pc = "start" /\ Jump("inspect")
           \/ pc = "inspect" /\ Jump("unlocked")
           \/ pc = "unlocked" /\ Jump("launch")
           \/ pc = "events" /\ Jump("write")
  <2>1. /\ UNCHANGED <<stabilizerVars, observations, terminal, second, elapsed, sample, result>>
        /\ UNCHANGED <<path, evidence, exit, now, phone, asked>>
        /\ pc' \in {"inspect", "unlocked", "launch", "write"} /\ (pc' = "write" <=> pc = "events")
        /\ pc \in {"start", "inspect", "unlocked", "events"}
    BY <1>2 DEF Jump, Goto, stabilizerVars, localVars, fileVars, worldVars
  <2>2. IInv' /\ (Decided' <=> Decided)
    BY <2>1, GuardRests DEF CommandInv
  <2>3. CommandTypeOK'
    BY <2>1, <2>2 DEF CommandInv, CommandTypeOK, TypeOK, IInv
  <2>4. Progress'
    BY <2>1, <2>2 DEF CommandInv, Progress
  <2>5. Asked' /\ Judged'
    BY <2>1, <2>2 DEF CommandInv, Asked, Asking, Judged, Seen
  <2>6. QED
    BY <2>2, <2>3, <2>4, <2>5 DEF CommandInv
<1>3. QED
  BY <1>1, <1>2 DEF CheckOutput, Inspect, InspectTrust, ReadEvents

\* The phone, the clock and another command change nothing the command keeps.
LEMMA WorldInv ==
  ASSUME CommandInv, PhoneChanges \/ OtherWriter \/ Tick PROVE CommandInv'
<1>1. /\ UNCHANGED <<stabilizerVars, observations, terminal, second, elapsed, sample, result>>
      /\ UNCHANGED <<pc, evidence, exit, asked>>
      /\ path' = path \/ (path = "absent" /\ path' = "foreign")
  BY DEF PhoneChanges, OtherWriter, Tick, stabilizerVars, localVars, fileVars, worldVars
<1>2. IInv' /\ (Decided' <=> Decided)
  BY <1>1, GuardRests DEF CommandInv
<1>3. phone' \in [resumed : Activities, interactive : BOOLEAN, locked : BOOLEAN, shade : BOOLEAN]
  BY DEF CommandInv, CommandTypeOK, TypeOK, PhoneChanges, Resume, OtherWriter, Tick, worldVars
<1>4. now' \in 0 .. MaxTime
  BY Limits DEF CommandInv, CommandTypeOK, TypeOK, PhoneChanges, OtherWriter, Tick, worldVars
<1>5. CommandTypeOK'
  BY <1>1, <1>2, <1>3, <1>4 DEF CommandInv, CommandTypeOK, TypeOK, IInv
<1>6. Progress'
  BY <1>1, <1>2 DEF CommandInv, Progress
<1>7. Asked' /\ Judged'
  BY <1>1, <1>2 DEF CommandInv, Asked, Asking, Judged, Seen
<1>8. QED
  BY <1>2, <1>5, <1>6, <1>7 DEF CommandInv

\* Launching the target, and sending it home, which starts the guard.
LEMMA StartAppInv ==
  ASSUME CommandInv, Launch \/ SendHome PROVE CommandInv'
<1>1. /\ UNCHANGED <<stabilizerVars, observations, terminal, elapsed, sample, result>>
      /\ UNCHANGED <<path, evidence, exit, now, asked>>
      /\ \/ pc = "launch" /\ pc' = "top" /\ second' = second
         \/ pc = "home" /\ pc' = "poll" /\ second' = 0
  BY DEF Launch, SendHome, Goto, stabilizerVars, localVars, fileVars
<1>2. IInv' /\ (Decided' <=> Decided)
  BY <1>1, GuardRests DEF CommandInv
<1>3. second = -1 /\ observations = <<>> /\ ~asked.target /\ ~Decided
  BY <1>1 DEF CommandInv, Progress, Decided
<1>4. phone' \in [resumed : Activities, interactive : BOOLEAN, locked : BOOLEAN, shade : BOOLEAN]
  <2>1. \E a \in Activities : phone' = [phone EXCEPT !.resumed = a]
    BY DryRunAssumption DEF CommandInv, CommandTypeOK, TypeOK, Launch, SendHome, Resume
  <2>2. QED
    BY <2>1 DEF CommandInv, CommandTypeOK, TypeOK
<1>5. second' \in -1 .. GuardSeconds + 1
  BY <1>1, <1>3, Limits
<1>6. CommandTypeOK'
  BY <1>1, <1>2, <1>4, <1>5 DEF CommandInv, CommandTypeOK, TypeOK, IInv
<1>7. Progress'
  BY <1>1, <1>2, <1>3 DEF CommandInv, Progress
<1>8. Asked'
  BY <1>1, <1>2, <1>3 DEF CommandInv, Asked, Asking, Progress
<1>9. Judged'
  BY <1>1, <1>2 DEF CommandInv, Judged, Seen
<1>10. QED
  BY <1>2, <1>6, <1>7, <1>8, <1>9 DEF CommandInv

\* The first query of an observation.
LEMMA ReadTopInv == ASSUME CommandInv, ReadTop PROVE CommandInv'
<1>1. /\ pc = "top" /\ pc' = "windows"
      /\ UNCHANGED <<stabilizerVars, observations, terminal, second, elapsed, result>>
      /\ UNCHANGED <<path, evidence, exit, now, phone>>
  BY DEF ReadTop, Goto, stabilizerVars, fileVars, worldVars
<1>2. IInv' /\ (Decided' <=> Decided)
  BY <1>1, GuardRests DEF CommandInv
<1>3. PICK text \in {TextOf[phone.resumed], {Unusable}} :
        sample' = [NoSample EXCEPT !.top_activity = text]
  BY DEF ReadTop
<1>4. phone.resumed \in Activities
  BY DEF CommandInv, CommandTypeOK, TypeOK
<1>5. sample' \in PackageStateObservation /\ sample'.top_activity = text
  BY <1>3, <1>4, Samples DEF NoSample
<1>6. /\ asked'.verified = IF second < 0 THEN phone.resumed ELSE asked.verified
      /\ asked'.polls = IF second < 0 THEN 0 ELSE asked.polls + 1
      /\ asked'.target <=> asked.target \/ (second >= 0 /\ OnTarget)
      /\ asked'.latest = phone.resumed
  BY DEF ReadTop
<1>7. CommandTypeOK'
  BY <1>1, <1>2, <1>5 DEF CommandInv, CommandTypeOK, TypeOK, IInv
<1>8. second \in Int /\ (second >= 0 => ~Decided)
  BY <1>1, Limits DEF CommandInv, CommandTypeOK, TypeOK, Progress
<1>9. Progress'
  <2>1. second < 0 => ~asked.target
    BY <1>1, <1>8 DEF CommandInv, Progress
  <2>2. second < 0 => ~asked'.target /\ asked'.polls = 0
    BY <1>6, <1>8, <2>1
  <2>3. QED
    BY <1>1, <1>2, <1>8, <2>2 DEF CommandInv, Progress
<1>10. Len(observations) \in Nat
  BY DEF CommandInv, IInv, StabilizerTypeOK
<1>11. OnTarget => TargetPackage \in TextOf[phone.resumed]
  BY DryRunAssumption DEF OnTarget
<1>12. Asked'
  <2>1. Asking' /\ ~Asking
    BY <1>1 DEF Asking
  <2>2. sample'.top_activity \in
          {TextOf[IF second' < 0 THEN asked'.verified ELSE asked'.latest], {Unusable}}
    BY <1>1, <1>5, <1>6
  <2>3. second >= 0 => TargetPackage \in TextOf[asked'.verified]
    BY <1>6, <1>8 DEF CommandInv, Asked
  <2>4. second >= 0 => asked'.polls = Len(observations) + 1
    BY <1>6, <1>8, <1>10, <2>1 DEF CommandInv, Asked
  <2>5. second >= 0 /\ asked'.target => TargetPackage \in TextOf[asked'.latest]
    BY <1>6, <1>8, <1>11, <2>1 DEF CommandInv, Asked
  <2>6. QED
    BY <1>1, <1>2, <2>1, <2>2, <2>3, <2>4, <2>5 DEF Asked
<1>13. Judged'
  BY <1>1, <1>2, <1>8 DEF CommandInv, Judged, Progress, Decided
<1>14. QED
  BY <1>2, <1>7, <1>9, <1>12, <1>13 DEF CommandInv

\* The other queries.
LEMMA ReadFieldInv == ASSUME CommandInv, ReadWindows \/ ReadPower PROVE CommandInv'
<1>1. PICK field \in {"notification_shade_active", "screen_interactive"}, reply \in BOOLEAN :
        sample' = [sample EXCEPT ![field] = reply]
  BY DEF ReadWindows, ReadPower, ReadField, CommandInv, CommandTypeOK, TypeOK
<1>2. /\ UNCHANGED <<stabilizerVars, observations, terminal, second, elapsed, result>>
      /\ UNCHANGED <<path, evidence, exit, now, phone, asked>>
      /\ pc \in {"windows", "power"} /\ pc' \in {"power", "trust"}
  BY DEF ReadWindows, ReadPower, ReadField, Goto, stabilizerVars, fileVars, worldVars
<1>3. IInv' /\ (Decided' <=> Decided)
  BY <1>2, GuardRests DEF CommandInv
<1>4. sample' \in PackageStateObservation /\ sample'.top_activity = sample.top_activity
  BY <1>1 DEF CommandInv, CommandTypeOK, PackageStateObservation
<1>5. CommandTypeOK'
  BY <1>2, <1>3, <1>4 DEF CommandInv, CommandTypeOK, TypeOK, IInv
<1>6. Progress'
  BY <1>2, <1>3 DEF CommandInv, Progress
<1>7. Asked' /\ Judged'
  BY <1>2, <1>3, <1>4 DEF CommandInv, Asked, Asking, Judged, Seen
<1>8. QED
  BY <1>3, <1>5, <1>6, <1>7 DEF CommandInv

\* What the classifier may conclude from the text of an activity.
LEMMA ClassifyText ==
  ASSUME NEW observation, NEW activity,
         observation.top_activity \in {TextOf[activity], {Unusable}}
  PROVE  LET state == ClassifyAndroidState(observation)
         IN  /\ state = "target_app_resumed" => TargetPackage \in TextOf[activity]
             /\ state \notin Forbidden => TargetPackage \notin TextOf[activity]
             /\ state = "launcher_environment" =>
                  \E component \in NormalLauncherComponents : component \in TextOf[activity]
BY DEF ClassifyAndroidState, Contains, Forbidden

\* A poll that leaves a pass possible is stored, and is timely and quiet.
LEMMA PollIsStored ==
  ASSUME IInv, ~Decided, NEW time \in Timestamps, NEW observation, Observe(time, observation),
         Decided' => terminal'.passed
  PROVE  LET state == ClassifyAndroidState(observation)
         IN  /\ observations' = Append(observations, [elapsed_seconds |-> time, state |-> state])
             /\ time \in Int
             /\ observations # <<>> => /\ time > Back(observations).elapsed_seconds
                                       /\ ~GapExceeded(time)
             /\ state \notin Forbidden
             /\ Decided' => state = "launcher_environment"
<1> DEFINE state == ClassifyAndroidState(observation)
           entry == [elapsed_seconds |-> time, state |-> state]
<1>1. observations \in Seq(ClassifiedStateObservation)
  BY DEF IInv, StabilizerTypeOK
<1>2. ASSUME NEW reason \in {"timestamp", "gap"}, Reject(time, reason) PROVE FALSE
  <2>1. terminal' # NoResult /\ ~terminal'.passed
    BY <1>1, <1>2, ResultType, FALSE \in BOOLEAN DEF Reject, Reasons
  <2>2. QED
    BY <2>1 DEF Decided
<1>3. ValidTimestamp(time) /\ ~GapExceeded(time) /\ Accept(time, observation)
  BY <1>2 DEF Observe
<1>4. observations' = Append(observations, entry) /\ terminal' = Verdict(observations')
  BY <1>3 DEF Accept
<1>5. time \in Int /\ state \in AndroidUiState
  BY <1>3, ClassifyType, StabilizerAssumption DEF ValidTimestamp
<1> HIDE DEF state
<1>6. entry \in ClassifiedStateObservation
  BY <1>5 DEF ClassifiedStateObservation
<1>7. observations' \in Seq(ClassifiedStateObservation) /\ Back(observations').state = state
  BY <1>1, <1>4, <1>6 DEF Back
<1>8. ASSUME NEW reason \in Reasons, terminal' = Result(observations', FALSE, reason) PROVE FALSE
  <2>1. terminal' # NoResult /\ ~terminal'.passed
    BY <1>7, <1>8, ResultType, FALSE \in BOOLEAN
  <2>2. QED
    BY <2>1 DEF Decided
<1>9. state \notin Forbidden
  BY <1>4, <1>7, <1>8, Zenon DEF Verdict, Reasons
<1>10. Decided' => state = "launcher_environment"
  <2>1. "no normal launcher" \in Reasons
    BY DEF Reasons
  <2>2. QED
    BY <1>4, <1>7, <1>8, <1>9, <2>1, Zenon DEF Verdict, Decided
<1>11. QED
  BY <1>3, <1>4, <1>5, <1>9, <1>10 DEF ValidTimestamp, state

\* The end of the observation that verifies the launch.
LEMMA VerifiedInv ==
  ASSUME CommandInv, second < 0, ReadTrust PROVE CommandInv'
<1>1. second \in Int /\ phone.locked \in BOOLEAN
  BY Limits DEF CommandInv, CommandTypeOK, TypeOK
<1>0. ~(second >= 0)
  BY <1>1
<1>2. PICK reply \in {phone.locked, FALSE} :
        LET observation == [sample EXCEPT !.device_locked = reply]
        IN  /\ IF ClassifyAndroidState(observation) = "target_app_resumed"
                 THEN Goto("home") /\ UNCHANGED result
                 ELSE /\ Goto("events")
                      /\ result' = [ Result(<<>>, FALSE, "not resumed") EXCEPT
                                       !.final_state = ClassifyAndroidState(observation) ]
            /\ UNCHANGED <<stabilizerVars, second>>
  BY <1>0, Zenon DEF ReadTrust
<1> DEFINE observation == [sample EXCEPT !.device_locked = reply]
           state == ClassifyAndroidState(observation)
<1>3. /\ pc = "trust" /\ sample' = NoSample
      /\ UNCHANGED <<stabilizerVars, observations, terminal, second, elapsed>>
      /\ UNCHANGED <<path, evidence, exit, now, phone, asked>>
  BY <1>2 DEF ReadTrust, fileVars, worldVars, stabilizerVars
<1>4. IInv' /\ (Decided' <=> Decided) /\ ~Decided
  BY <1>3, GuardRests DEF CommandInv, Progress, Decided
<1>41. observation.top_activity \in {TextOf[asked.verified], {Unusable}}
  <2>1. sample \in PackageStateObservation
    BY DEF CommandInv, CommandTypeOK
  <2>2. observation.top_activity = sample.top_activity
    BY <2>1 DEF PackageStateObservation
  <2>3. QED
    BY <1>3, <2>2 DEF CommandInv, Asked, Asking
<1> HIDE DEF observation
<1>5. state = "target_app_resumed" => TargetPackage \in TextOf[asked.verified]
  BY <1>41, ClassifyText
<1> HIDE DEF state
<1>6. \/ pc' = "home" /\ TargetPackage \in TextOf[asked.verified]
      \/ pc' = "events" /\ result'.passed = FALSE
  BY <1>2, <1>5 DEF state, observation, Goto, Result
<1>7. CommandTypeOK'
  BY <1>3, <1>4, <1>6, Samples DEF CommandInv, CommandTypeOK, TypeOK, IInv
<1>8. second = -1
  BY <1>1, Limits DEF CommandInv, CommandTypeOK, TypeOK
<1>9. Progress'
  BY <1>3, <1>4, <1>6, <1>8 DEF CommandInv, Progress
<1>10. Asked'
  BY <1>3, <1>4, <1>6, <1>8 DEF CommandInv, Asked, Asking
<1>11. Judged'
  BY <1>3, <1>4, <1>6 DEF CommandInv, Judged, Progress, Seen
<1>12. QED
  BY <1>4, <1>7, <1>9, <1>10, <1>11 DEF CommandInv

\* A poll is stamped before its queries.
LEMMA PollInv == ASSUME CommandInv, Poll PROVE CommandInv'
<1>1. /\ pc = "poll" /\ pc' = "top" /\ second <= GuardSeconds /\ ~Decided /\ elapsed' = now
      /\ UNCHANGED <<stabilizerVars, observations, terminal, second, sample, result>>
      /\ UNCHANGED <<path, evidence, exit, now, phone, asked>>
  BY DEF Poll, Goto, stabilizerVars, fileVars, worldVars
<1>2. IInv' /\ (Decided' <=> Decided)
  BY <1>1, GuardRests DEF CommandInv
<1>3. CommandTypeOK'
  BY <1>1, <1>2 DEF CommandInv, CommandTypeOK, TypeOK, IInv
<1>4. Progress'
  BY <1>1, <1>2 DEF CommandInv, Progress
<1>5. Asked' /\ Judged'
  BY <1>1, <1>2 DEF CommandInv, Asked, Asking, Judged, Seen
<1>6. QED
  BY <1>2, <1>3, <1>4, <1>5 DEF CommandInv

\* The loop ends with what the guard says.
LEMMA LoopEndsInv == ASSUME CommandInv, LoopEnds PROVE CommandInv'
<1>1. /\ pc = "poll" /\ pc' = "events" /\ result' = Finish
      /\ UNCHANGED <<stabilizerVars, observations, terminal, second, elapsed, sample>>
      /\ UNCHANGED <<path, evidence, exit, now, phone, asked>>
  BY DEF LoopEnds, Goto, stabilizerVars, fileVars, worldVars
<1>2. IInv' /\ (Decided' <=> Decided)
  BY <1>1, GuardRests DEF CommandInv
<1>3. Finish.passed \in BOOLEAN /\ Seen(Finish)
  <2>1. CASE Decided
    BY <2>1 DEF Finish, CommandInv, Judged, IInv, StabilizerTypeOK, BackgroundStabilizerResult, Decided
  <2>2. CASE ~Decided
    <3>1. Finish.passed = FALSE
      BY <2>2 DEF Finish, Result
    <3>2. QED
      BY <3>1 DEF Seen
  <2>3. QED
    BY <2>1, <2>2
<1>4. result'.passed \in BOOLEAN /\ Seen(result)'
  BY <1>1, <1>2, <1>3 DEF Seen
<1>5. CommandTypeOK'
  BY <1>1, <1>2, <1>4 DEF CommandInv, CommandTypeOK, TypeOK, IInv
<1>6. Progress'
  BY <1>1, <1>2 DEF CommandInv, Progress
<1>7. Asked'
  BY <1>1, <1>2 DEF CommandInv, Asked, Asking
<1>8. Judged'
  BY <1>1, <1>2, <1>4 DEF CommandInv, Judged, Progress, Seen
<1>9. QED
  BY <1>2, <1>5, <1>6, <1>7, <1>8 DEF CommandInv

\* Publication: the status is the verdict.
LEMMA WriteResultInv == ASSUME CommandInv, WriteResult PROVE CommandInv'
<1>1. /\ pc = "write" /\ pc' = "done" /\ path' = "evidence" /\ evidence' = result
      /\ exit' = IF result.passed THEN 0 ELSE 2
      /\ UNCHANGED <<stabilizerVars, observations, terminal, second, elapsed, sample, result>>
      /\ UNCHANGED <<now, phone, asked>>
  BY DEF WriteResult, Leave, Goto, stabilizerVars, localVars, worldVars
<1>2. IInv' /\ (Decided' <=> Decided)
  BY <1>1, GuardRests DEF CommandInv
<1>3. result.passed \in BOOLEAN /\ Seen(result)
  BY <1>1 DEF CommandInv, CommandTypeOK, Judged
<1>4. CommandTypeOK'
  BY <1>1, <1>2 DEF CommandInv, CommandTypeOK, TypeOK, IInv
<1>5. Progress'
  BY <1>1, <1>2, <1>3 DEF CommandInv, Progress
<1>6. Asked'
  BY <1>1, <1>2 DEF CommandInv, Asked, Asking
<1>7. Judged'
  BY <1>1, <1>2, <1>3 DEF CommandInv, Judged, Seen
<1>8. QED
  BY <1>2, <1>4, <1>5, <1>6, <1>7 DEF CommandInv

\* A poll of the guard that leaves a pass possible saw a quiet phone.
LEMMA GuardPoll ==
  ASSUME CommandInv, second >= 0, ReadTrust
  PROVE  /\ pc = "trust" /\ pc' = "poll" /\ second' = second + 1 /\ sample' = NoSample
         /\ UNCHANGED <<elapsed, result, path, evidence, exit, now, phone, visits, visitFrom, asked>>
         /\ ~Decided /\ IInv'
         /\ (Decided' => terminal'.passed) =>
              /\ ~asked.target
              /\ \E state \in AndroidUiState :
                   /\ observations' = Append(observations, [elapsed_seconds |-> elapsed, state |-> state])
                   /\ Decided' => \E component \in NormalLauncherComponents :
                                    component \in TextOf[asked.latest]
              /\ observations # <<>> => /\ elapsed > Back(observations).elapsed_seconds
                                        /\ ~GapExceeded(elapsed)
<1>1. second \in Int /\ phone.locked \in BOOLEAN /\ elapsed \in Timestamps
  BY Limits, DryRunAssumption DEF CommandInv, CommandTypeOK, TypeOK
<1>2. ~(second < 0)
  BY <1>1
<1>3. PICK reply \in {phone.locked, FALSE} :
        Observe(elapsed, [sample EXCEPT !.device_locked = reply])
  BY <1>2, Zenon DEF ReadTrust
<1> DEFINE observation == [sample EXCEPT !.device_locked = reply]
           state == ClassifyAndroidState(observation)
<1>4. sample \in PackageStateObservation
  BY DEF CommandInv, CommandTypeOK
<1>5. observation \in PackageStateObservation /\ observation.top_activity = sample.top_activity
  BY <1>1, <1>4 DEF PackageStateObservation
<1>6. /\ pc = "trust" /\ pc' = "poll" /\ second' = second + 1 /\ sample' = NoSample
      /\ UNCHANGED <<elapsed, result, path, evidence, exit, now, phone, visits, visitFrom, asked>>
  BY <1>2 DEF ReadTrust, Goto, fileVars, worldVars
<1>7. ~Decided
  BY <1>6, <1>2 DEF CommandInv, Progress
<1> HIDE DEF observation
<1>8. observation.top_activity \in {TextOf[asked.latest], {Unusable}}
  BY <1>2, <1>5, <1>6 DEF CommandInv, Asked, Asking
<1>9. IInv'
  <2>1. Observe(elapsed, observation)
    BY <1>3 DEF observation
  <2>2. StabilizerNext
    BY <1>1, <1>5, <2>1 DEF StabilizerNext
  <2>3. QED
    BY <2>2, NextInv DEF CommandInv
<1>10. ASSUME Decided' => terminal'.passed
       PROVE  /\ observations' = Append(observations, [elapsed_seconds |-> elapsed, state |-> state])
              /\ observations # <<>> => /\ elapsed > Back(observations).elapsed_seconds
                                        /\ ~GapExceeded(elapsed)
              /\ state \notin Forbidden
              /\ Decided' => state = "launcher_environment"
  <2>1. Observe(elapsed, observation)
    BY <1>3 DEF observation
  <2>2. IInv
    BY DEF CommandInv
  <2>3. QED
    BY <1>1, <1>7, <1>10, <2>1, <2>2, PollIsStored
<1>11. ASSUME Decided' => terminal'.passed PROVE ~asked.target
  <2>1. state \notin Forbidden => TargetPackage \notin TextOf[asked.latest]
    BY <1>8, ClassifyText
  <2>2. state \notin Forbidden
    BY <1>10, <1>11
  <2>3. TargetPackage \notin TextOf[asked.latest]
    BY <2>1, <2>2
  <2>4. QED
    BY <1>2, <1>7, <2>3 DEF CommandInv, Asked
<1>12. ASSUME Decided' => terminal'.passed, Decided'
       PROVE  \E component \in NormalLauncherComponents : component \in TextOf[asked.latest]
  <2>1. state = "launcher_environment"
    BY <1>10, <1>12
  <2>2. state = "launcher_environment" =>
          \E component \in NormalLauncherComponents : component \in TextOf[asked.latest]
    BY <1>8, ClassifyText
  <2>3. QED
    BY <2>1, <2>2
<1>13. state \in AndroidUiState
  BY ClassifyType
<1> HIDE DEF state
<1>14. QED
  BY <1>6, <1>7, <1>9, <1>10, <1>11, <1>12, <1>13

LEMMA GuardPollInv == ASSUME CommandInv, second >= 0, ReadTrust PROVE CommandInv'
<1>1. /\ pc = "trust" /\ pc' = "poll" /\ second' = second + 1 /\ sample' = NoSample
      /\ UNCHANGED <<elapsed, result, path, evidence, exit, now, phone, asked>>
      /\ ~Decided /\ IInv'
  BY GuardPoll
<1>2. /\ second \in Int /\ second <= GuardSeconds
      /\ Len(observations) \in Nat /\ observations \in Seq(ClassifiedStateObservation)
  BY <1>1, Limits DEF CommandInv, CommandTypeOK, TypeOK, Progress, IInv, StabilizerTypeOK
<1>3. ASSUME Decided' => terminal'.passed
      PROVE  /\ ~asked.target /\ asked.polls = Len(observations')
             /\ Decided' => \E component \in NormalLauncherComponents :
                              component \in TextOf[asked.latest]
  <2>1. PICK state \in AndroidUiState :
          observations' = Append(observations, [elapsed_seconds |-> elapsed, state |-> state])
    BY <1>3, GuardPoll
  <2>2. elapsed \in Int
    BY Limits DEF CommandInv, CommandTypeOK, TypeOK
  <2>3. Len(observations') = Len(observations) + 1
    BY <1>2, <2>1, <2>2 DEF ClassifiedStateObservation
  <2>4. asked.polls = Len(observations) + 1
    BY <1>1 DEF CommandInv, Asked, Asking
  <2>5. QED
    BY <1>3, <2>3, <2>4, GuardPoll
<1>4. TargetPackage \in TextOf[asked.verified]
  BY DEF CommandInv, Asked
<1>5. CommandTypeOK'
  <2>1. second' \in -1 .. GuardSeconds + 1
    BY <1>1, <1>2, Limits
  <2>2. QED
    BY <1>1, <2>1, Samples DEF CommandInv, CommandTypeOK, TypeOK, IInv
<1>6. Progress'
  BY <1>1, <1>2 DEF CommandInv, Progress
<1>7. Asked'
  BY <1>1, <1>2, <1>3, <1>4 DEF Asked, Asking
<1>8. Judged'
  <2>1. path # "evidence"
    BY <1>1 DEF CommandInv, Progress
  <2>2. ASSUME Decided', terminal'.passed PROVE asked.polls = Len(terminal'.observations)
    <3>1. terminal'.observations = observations'
      BY <1>1, <2>2 DEF IInv, Describes
    <3>2. QED
      BY <1>3, <2>2, <3>1
  <2>3. Decided' => Seen(terminal)'
    BY <1>1, <1>3, <1>4, <2>2 DEF Seen
  <2>4. QED
    BY <1>1, <2>1, <2>3 DEF Judged
<1>9. QED
  BY <1>1, <1>5, <1>6, <1>7, <1>8 DEF CommandInv

LEMMA CommandStepInv == CommandInv /\ [Next]_vars => CommandInv'
<1> SUFFICES ASSUME CommandInv, [Next]_vars PROVE CommandInv'
  OBVIOUS
<1>1. CASE CommandStep
  <2>1. second \in Int
    BY Limits DEF CommandInv, CommandTypeOK, TypeOK
  <2>2. second < 0 \/ second >= 0
    BY <2>1
  <2>3. QED
    BY <1>1, <2>2, JumpInv, StartAppInv, ReadTopInv, ReadFieldInv, VerifiedInv, GuardPollInv,
       PollInv, LoopEndsInv, WriteResultInv DEF CommandStep
<1>2. CASE CommandFails
  BY <1>2, ThrowInv DEF CommandFails
<1>3. CASE PhoneChanges \/ OtherWriter \/ Tick
  BY <1>3, WorldInv
<1>4. CASE UNCHANGED vars
  <2>1. /\ UNCHANGED <<stabilizerVars, observations, terminal, second, elapsed, sample, result>>
        /\ UNCHANGED <<pc, path, evidence, exit, now, phone, asked>>
    BY <1>4 DEF vars, stabilizerVars, localVars, fileVars, worldVars
  <2>2. IInv' /\ (Decided' <=> Decided)
    BY <2>1, GuardRests DEF CommandInv
  <2>3. CommandTypeOK'
    BY <2>1, <2>2 DEF CommandInv, CommandTypeOK, TypeOK, IInv
  <2>4. Progress'
    BY <2>1, <2>2 DEF CommandInv, Progress
  <2>5. Asked' /\ Judged'
    BY <2>1, <2>2 DEF CommandInv, Asked, Asking, Judged, Seen
  <2>6. QED
    BY <2>2, <2>3, <2>4, <2>5 DEF CommandInv
<1>5. QED
  BY <1>1, <1>2, <1>3, <1>4 DEF Next, Done

LEMMA CommandInvariance == Spec => []CommandInv
BY InitCommand, CommandStepInv, PTL DEF Spec

(***************************************************************************)
(* The locals of the command and the guard it owns keep their types.       *)
(***************************************************************************)
THEOREM CommandTypeCorrect == Spec => []TypeOK
<1>1. CommandInv => TypeOK
  BY DEF CommandInv, CommandTypeOK
<1>2. QED
  BY <1>1, CommandInvariance, PTL

(***************************************************************************)
(* Whatever fails, whatever the phone does and whoever else writes, exit   *)
(* status 0 means that passing evidence was published, and an exception    *)
(* publishes nothing.                                                      *)
(***************************************************************************)
THEOREM ExitMatches == Spec => []ExitMatchesEvidence
<1>1. CommandInv => ExitMatchesEvidence
  BY DEF CommandInv, CommandTypeOK, TypeOK, Progress, ExitMatchesEvidence
<1>2. QED
  BY <1>1, CommandInvariance, PTL

(***************************************************************************)
(* Passing evidence agrees with the phone at every instant the tool asked, *)
(* although each text comes from a phone that changes between the queries  *)
(* and each query may return nothing usable.                               *)
(***************************************************************************)
THEOREM PassMatches == Spec => []PassMatchesPhone
<1>1. CommandInv => PassMatchesPhone
  BY DEF CommandInv, Judged, Seen, PassMatchesPhone, Passed, Contains
<1>2. QED
  BY <1>1, CommandInvariance, PTL
-----------------------------------------------------------------------------
(* Visits the polls have not seen.                                         *)

\* The guard may still pass, or has.
Promising == ~asked.target /\ (Decided => terminal.passed)

\* A poll is stamped and not judged.
UnderWay == second >= 0 /\ pc \in {"top", "windows", "power", "trust"}

\* A visit, cut at the first stored instant.
From(visit) ==
  IF visit[1] < First(observations).elapsed_seconds
    THEN First(observations).elapsed_seconds ELSE visit[1]

\* The instant stored before the last one.
Earlier ==
  observations[IF Len(observations) = 1 THEN 1 ELSE Len(observations) - 1].elapsed_seconds

\* A finished visit is short, or begins after the last stored instant, or
\* begins after the instant before it and was over when the next poll began.
Missed(visit) ==
  \/ visit[2] - From(visit) <= 2 * MaxGap
  \/ visit[1] >= Back(observations).elapsed_seconds
  \/ From(visit) >= Earlier /\ (UnderWay => visit[2] <= elapsed)

VisitInv ==
  /\ visitFrom \in Int
  /\ visitFrom >= 0 => OnTarget
  /\ \A visit \in visits : visit[1] \in Int /\ visit[2] \in Int /\ visit[2] <= now
  /\ elapsed <= now
  /\ Asking /\ second >= 0 /\ Promising /\ visitFrom >= 0 => visitFrom >= elapsed
  /\ observations # <<>> /\ Promising =>
       /\ Back(observations).elapsed_seconds <= now
       /\ visitFrom >= 0 => visitFrom >= Back(observations).elapsed_seconds
       /\ \A visit \in visits : Missed(visit)

LEMMA Clocks ==
  ASSUME CommandInv
  PROVE  /\ now \in Int /\ elapsed \in Int /\ second \in Int /\ MaxGap \in Nat
         /\ observations \in Seq(ClassifiedStateObservation)
         /\ observations # <<>> =>
              /\ Len(observations) \in Nat /\ Len(observations) >= 1
              /\ First(observations).elapsed_seconds \in Int
              /\ Back(observations).elapsed_seconds \in Int
              /\ Earlier \in Int
<1>1. now \in Int /\ elapsed \in Int /\ second \in Int /\ MaxGap \in Nat
  BY Limits DEF CommandInv, CommandTypeOK, TypeOK
<1>2. observations \in Seq(ClassifiedStateObservation)
  BY DEF CommandInv, IInv, StabilizerTypeOK
<1>3. ASSUME observations # <<>>
      PROVE  /\ Len(observations) \in Nat /\ Len(observations) >= 1
             /\ First(observations).elapsed_seconds \in Int
             /\ Back(observations).elapsed_seconds \in Int
             /\ Earlier \in Int
  <2>1. Len(observations) \in Nat /\ Len(observations) >= 1
    BY <1>2, <1>3
  <2>2. \A i \in 1 .. Len(observations) : observations[i] \in ClassifiedStateObservation
    BY <1>2, ElementOfSeq
  <2>3. \A i \in 1 .. Len(observations) : observations[i].elapsed_seconds \in Int
    BY <2>2 DEF ClassifiedStateObservation
  <2>4. 1 \in 1 .. Len(observations) /\ Len(observations) \in 1 .. Len(observations)
    BY <2>1
  <2>5. Len(observations) # 1 => Len(observations) - 1 \in 1 .. Len(observations)
    <3>1. \A n \in Nat : n >= 1 /\ n # 1 => n - 1 \in 1 .. n
      OBVIOUS
    <3>2. QED
      BY <2>1, <3>1
  <2>6. Earlier \in Int
    BY <2>3, <2>4, <2>5 DEF Earlier
  <2>7. QED
    BY <2>1, <2>3, <2>4, <2>6 DEF First, Back
<1>4. QED
  BY <1>1, <1>2, <1>3

\* The last two stored instants are at most one gap apart.
LEMMA LastGap ==
  ASSUME CommandInv, observations # <<>>
  PROVE  Back(observations).elapsed_seconds - Earlier <= MaxGap
<1> DEFINE n == Len(observations)
<1>1. CASE n = 1
  <2>1. Back(observations).elapsed_seconds = Earlier /\ Earlier \in Int
    BY <1>1, Clocks DEF Earlier, Back
  <2>2. QED
    BY <2>1, Clocks
<1>2. CASE n # 1
  <2>1. n - 1 \in 1 .. n - 1 /\ (n - 1) + 1 = n
    <3>1. \A m \in Nat : m >= 1 /\ m # 1 => m - 1 \in 1 .. m - 1 /\ (m - 1) + 1 = m
      OBVIOUS
    <3>2. QED
      BY <1>2, <3>1, Clocks
  <2>2. observations[n].elapsed_seconds - observations[n - 1].elapsed_seconds <= MaxGap
    BY <2>1 DEF CommandInv, IInv, Evidence, Dense
  <2>3. QED
    BY <1>2, <2>2 DEF Earlier, Back
<1>3. QED
  BY <1>1, <1>2

\* Time and every step that neither stamps nor judges a poll.
LEMMA VisitFrame ==
  ASSUME CommandInv, VisitInv,
         UNCHANGED <<observations, terminal, asked, second, elapsed, visits, visitFrom>>,
         UNCHANGED phone.resumed,
         now' \in Int, now' >= now,
         Asking' /\ second >= 0 => Asking,
         UnderWay' => UnderWay
  PROVE  VisitInv'
<1>1. (Promising' <=> Promising) /\ (OnTarget' <=> OnTarget)
  BY DEF Promising, OnTarget, Decided
<1>2. /\ First(observations)' = First(observations) /\ Back(observations)' = Back(observations)
      /\ Earlier' = Earlier
  BY DEF First, Back, Earlier
<1>3. \A visit \in visits : From(visit)' = From(visit)
  BY <1>2 DEF From
<1>4. \A visit \in visits : visit[1] \in Int /\ visit[2] \in Int /\ visit[2] <= now'
  BY Clocks DEF VisitInv
<1>5. ASSUME observations # <<>>, Promising
      PROVE  \A visit \in visits : Missed(visit)'
  BY <1>2, <1>3, <1>5 DEF VisitInv, Missed
<1>6. observations # <<>> /\ Promising => Back(observations).elapsed_seconds <= now'
  BY Clocks DEF VisitInv
<1>7. elapsed <= now'
  BY Clocks DEF VisitInv
<1>8. QED
  BY <1>1, <1>2, <1>4, <1>5, <1>6, <1>7 DEF VisitInv

LEMMA VisitInit == Init => VisitInv
<1> SUFFICES ASSUME Init PROVE VisitInv
  OBVIOUS
<1>1. observations = <<>> /\ visits = {} /\ visitFrom = -1 /\ pc = "start" /\ elapsed = 0 /\ now = 0
  BY DEF Init, StabilizerInit
<1>2. QED
  BY <1>1 DEF VisitInv, Asking

\* The phone resumes another activity: a visit begins or ends now.
LEMMA VisitResume ==
  ASSUME CommandInv, VisitInv, NEW a, Resume(a),
         UNCHANGED <<observations, terminal, asked, second, elapsed, now>>,
         pc' = pc \/ second < 0
  PROVE  VisitInv'
<1>1. phone' = [phone EXCEPT !.resumed = a] /\ phone'.resumed = a
  BY DEF Resume, CommandInv, CommandTypeOK, TypeOK
<1>2. (Promising' <=> Promising) /\ (OnTarget' <=> a \in TargetActivities)
  BY <1>1 DEF Promising, OnTarget, Decided
<1>3. /\ First(observations)' = First(observations) /\ Back(observations)' = Back(observations)
      /\ Earlier' = Earlier /\ (UnderWay' => UnderWay) /\ (Asking' /\ second >= 0 => Asking)
  <2>1. second < 0 => ~(second >= 0)
    BY Clocks
  <2>2. QED
    BY <2>1 DEF First, Back, Earlier, UnderWay, Asking
<1>4. /\ visitFrom \in Int /\ visitFrom' \in {-1, now, visitFrom}
      /\ visitFrom' >= 0 => a \in TargetActivities
      /\ visits' \in {visits, visits \cup {<<visitFrom, now>>}}
      /\ visits' # visits => visitFrom >= 0
  BY Clocks DEF VisitInv, Resume
<1>5. visitFrom' \in Int
  BY <1>4, Clocks
<1>6. \A visit \in visits' : visit[1] \in Int /\ visit[2] \in Int /\ visit[2] <= now
  BY <1>4, Clocks DEF VisitInv
<1>7. Asking' /\ second >= 0 /\ Promising /\ visitFrom' >= 0 => visitFrom' >= elapsed
  BY <1>3, <1>4, Clocks DEF VisitInv
<1>8. observations # <<>> /\ Promising /\ visitFrom' >= 0 =>
        visitFrom' >= Back(observations).elapsed_seconds
  BY <1>4, Clocks DEF VisitInv
<1>9. ASSUME observations # <<>>, Promising, NEW visit \in visits' PROVE Missed(visit)'
  <2>1. CASE visit \in visits
    <3>1. Missed(visit)
      BY <1>9, <2>1 DEF VisitInv
    <3>2. QED
      BY <1>3, <3>1 DEF Missed, From
  <2>2. CASE visit \notin visits
    <3>1. visit = <<visitFrom, now>> /\ visitFrom >= 0
      BY <1>4, <1>9, <2>2
    <3>2. visitFrom >= Back(observations).elapsed_seconds
      BY <1>9, <3>1 DEF VisitInv
    <3>3. visit[1] >= Back(observations)'.elapsed_seconds
      BY <1>3, <3>1, <3>2
    <3>4. QED
      BY <3>3 DEF Missed
  <2>3. QED
    BY <2>1, <2>2
<1>10. QED
  BY <1>2, <1>3, <1>4, <1>5, <1>6, <1>7, <1>8, <1>9 DEF VisitInv

\* No stored instant: the guard has not begun, or an exception forgot it.
LEMMA VisitOutside ==
  ASSUME CommandInv, VisitInv, observations' = <<>>, visits' = visits, now' = now,
         visitFrom' \in Int, visitFrom' >= 0 => OnTarget',
         elapsed' <= now,
         ~Asking'
  PROVE  VisitInv'
BY DEF VisitInv

\* A query of the guard either finds no visit, or a visit that ends the guard.
LEMMA VisitReadTop == ASSUME CommandInv, VisitInv, ReadTop PROVE VisitInv'
<1>1. /\ pc = "top" /\ pc' = "windows"
      /\ UNCHANGED <<observations, terminal, second, elapsed, visits, visitFrom, now, phone>>
  BY DEF ReadTop, Goto, worldVars, stabilizerVars
<1>2. asked'.target <=> asked.target \/ (second >= 0 /\ OnTarget)
  BY DEF ReadTop
<1>3. /\ First(observations)' = First(observations) /\ Back(observations)' = Back(observations)
      /\ Earlier' = Earlier /\ (OnTarget' <=> OnTarget)
  BY <1>1 DEF First, Back, Earlier, OnTarget
<1>4. (UnderWay' => UnderWay) /\ (Promising' => Promising)
  BY <1>1, <1>2 DEF UnderWay, Promising, Decided
<1>5. second >= 0 /\ Promising' => ~(visitFrom >= 0)
  BY <1>2 DEF VisitInv, Promising
<1>6. ASSUME observations # <<>>, Promising' PROVE \A visit \in visits : Missed(visit)'
  BY <1>1, <1>3, <1>4, <1>6 DEF VisitInv, Missed, From
<1>7. observations # <<>> => second >= 0
  BY Clocks DEF CommandInv, Progress
<1>8. QED
  BY <1>1, <1>3, <1>4, <1>5, <1>6, <1>7 DEF VisitInv

\* Every finished visit is over when the next poll is stamped.
LEMMA VisitPoll == ASSUME CommandInv, VisitInv, Poll PROVE VisitInv'
<1>1. /\ pc = "poll" /\ pc' = "top" /\ elapsed' = now
      /\ UNCHANGED <<observations, terminal, asked, second, visits, visitFrom, now, phone>>
  BY DEF Poll, Goto, worldVars, stabilizerVars
<1>2. /\ First(observations)' = First(observations) /\ Back(observations)' = Back(observations)
      /\ Earlier' = Earlier /\ (OnTarget' <=> OnTarget) /\ (Promising' <=> Promising)
  BY <1>1 DEF First, Back, Earlier, OnTarget, Promising, Decided
<1>3. ~Asking' /\ elapsed' <= now
  BY <1>1, Clocks DEF Asking
<1>4. ASSUME observations # <<>>, Promising PROVE \A visit \in visits : Missed(visit)'
  BY <1>1, <1>2, <1>4 DEF VisitInv, Missed, From
<1>5. QED
  BY <1>1, <1>2, <1>3, <1>4 DEF VisitInv

\* A poll is stored: what was missed since the last one is over, and what was
\* missed since the one before is short.
LEMMA VisitGuardPoll ==
  ASSUME CommandInv, VisitInv, second >= 0, ReadTrust PROVE VisitInv'
<1>1. /\ pc = "trust" /\ pc' = "poll" /\ ~Decided
      /\ UNCHANGED <<elapsed, now, phone, visits, visitFrom, asked>>
  BY GuardPoll
<1>2. /\ visitFrom' \in Int /\ (visitFrom' >= 0 => OnTarget')
      /\ \A visit \in visits' : visit[1] \in Int /\ visit[2] \in Int /\ visit[2] <= now'
      /\ elapsed' <= now' /\ ~Asking' /\ ~UnderWay'
  BY <1>1 DEF VisitInv, OnTarget, Asking, UnderWay
<1>3. ASSUME Promising'
      PROVE  /\ Back(observations)'.elapsed_seconds = elapsed
             /\ visitFrom >= 0 => visitFrom >= elapsed
             /\ \A visit \in visits : Missed(visit)'
  <2>1. Decided' => terminal'.passed
    BY <1>3 DEF Promising
  <2>2. Promising /\ Asking /\ UnderWay
    BY <1>1, <2>1, GuardPoll DEF Promising, Asking, UnderWay
  <2>3. PICK state \in AndroidUiState :
          observations' = Append(observations, [elapsed_seconds |-> elapsed, state |-> state])
    BY <2>1, GuardPoll
  <2> DEFINE entry == [elapsed_seconds |-> elapsed, state |-> state]
             n == Len(observations)
  <2>4. entry \in ClassifiedStateObservation
    BY Clocks DEF ClassifiedStateObservation
  <2>5. /\ n \in Nat /\ Len(observations)' = n + 1
        /\ observations'[n + 1] = entry
        /\ \A i \in 1 .. n : observations'[i] = observations[i]
    BY <2>3, <2>4, Clocks
  <2>6. Back(observations)'.elapsed_seconds = elapsed
    BY <2>5 DEF Back
  <2>7. visitFrom >= 0 => visitFrom >= elapsed
    BY <2>2 DEF VisitInv
  <2>8. ASSUME NEW visit \in visits PROVE Missed(visit)'
    <3>1. visit[1] \in Int /\ visit[2] \in Int
      BY DEF VisitInv
    <3>2. CASE observations = <<>>
      <4>1. n = 0 /\ Len(observations)' = 1 /\ observations'[1] = entry
        BY <2>5, <3>2
      <4>2. First(observations)'.elapsed_seconds = elapsed /\ Earlier' = elapsed
        BY <4>1 DEF First, Earlier
      <4>3. From(visit)' >= Earlier'
        BY <3>1, <4>2, Clocks DEF From
      <4>4. QED
        BY <1>2, <4>3 DEF Missed
    <3>3. CASE observations # <<>>
      <4> DEFINE first == First(observations).elapsed_seconds
                 last  == Back(observations).elapsed_seconds
                 from  == From(visit)
      <4>1. n >= 1 /\ first \in Int /\ last \in Int /\ Earlier \in Int
        BY <3>3, Clocks
      <4>2. First(observations)'.elapsed_seconds = first
        BY <2>5, <4>1 DEF First
      <4>3. Earlier' = last
        <5>1. n + 1 # 1 /\ (n + 1) - 1 = n /\ n \in 1 .. n
          BY <2>5, <4>1
        <5>2. QED
          BY <2>5, <5>1 DEF Earlier, Back
      <4>4. From(visit)' = from
        BY <4>2 DEF From
      <4>5. from \in Int /\ from >= visit[1]
        BY <3>1, <4>1 DEF From
      <4>6. last - Earlier <= MaxGap
        BY <3>3, LastGap
      <4>7. elapsed - last <= MaxGap
        <5>1. ~GapExceeded(elapsed)
          BY <2>1, <3>3, GuardPoll
        <5>2. ~(elapsed - last > MaxGap)
          BY <3>3, <5>1 DEF GapExceeded
        <5>3. QED
          BY <4>1, <5>2, Clocks
      <4>8. \/ visit[2] - from <= 2 * MaxGap
            \/ visit[1] >= last
            \/ from >= Earlier /\ visit[2] <= elapsed
        BY <2>2, <3>3 DEF VisitInv, Missed
      <4> HIDE DEF first, last, from
      <4>9. visit[2] - from <= 2 * MaxGap \/ from >= last
        <5>1. MaxGap \in Int /\ elapsed \in Int
          BY Clocks
        <5>2. CASE visit[1] >= last
          BY <3>1, <4>1, <4>5, <5>2
        <5>3. CASE from >= Earlier /\ visit[2] <= elapsed
          BY <3>1, <4>1, <4>5, <4>6, <4>7, <5>1, <5>3
        <5>4. QED
          BY <4>8, <5>2, <5>3
      <4>10. QED
        BY <1>2, <4>3, <4>4, <4>9 DEF Missed
    <3>4. QED
      BY <3>2, <3>3
  <2>9. QED
    BY <2>6, <2>7, <2>8
<1>4. QED
  BY <1>1, <1>2, <1>3 DEF VisitInv

LEMMA VisitStep == CommandInv /\ VisitInv /\ [Next]_vars => VisitInv'
<1> SUFFICES ASSUME CommandInv, VisitInv, [Next]_vars PROVE VisitInv'
  OBVIOUS
<1> USE Clocks
<1>1. CASE Throw
  <2>1. observations' = <<>> /\ elapsed' = 0 /\ pc' = "done" /\ UNCHANGED <<now, phone, visits, visitFrom>>
    BY <1>1 DEF Throw, Leave, Goto, worldVars
  <2>2. elapsed' <= now
    BY <2>1, Limits DEF CommandInv, CommandTypeOK, TypeOK
  <2>3. QED
    BY <2>1, <2>2, VisitOutside DEF VisitInv, OnTarget, Asking
<1>2. ASSUME NEW label \in {"inspect", "unlocked", "launch", "write"}, Jump(label)
      PROVE  VisitInv'
  BY <1>2, VisitFrame
  DEF Jump, Goto, stabilizerVars, localVars, worldVars, Asking, UnderWay
<1>3. CASE CheckOutput \/ Inspect \/ InspectTrust \/ ReadEvents
  BY <1>1, <1>2, <1>3 DEF CheckOutput, Inspect, InspectTrust, ReadEvents
<1>4. CASE Launch
  <2>1. PICK a \in TargetActivities \cup {phone.resumed} : Resume(a)
    BY <1>4 DEF Launch
  <2>2. UNCHANGED <<observations, terminal, asked, second, elapsed, now>> /\ second < 0
    BY <1>4 DEF Launch, stabilizerVars, localVars, CommandInv, Progress
  <2>3. QED
    BY <2>1, <2>2, VisitResume
<1>5. CASE PhoneChanges
  <2>1. UNCHANGED <<observations, terminal, asked, second, elapsed, now, pc>>
    BY <1>5 DEF PhoneChanges, stabilizerVars, localVars
  <2>2. CASE \E a \in Activities \ {phone.resumed} : Resume(a)
    BY <2>1, <2>2, VisitResume
  <2>3. CASE /\ \E field \in {"interactive", "locked", "shade"} :
                 phone' = [phone EXCEPT ![field] = ~@]
             /\ UNCHANGED <<visits, visitFrom>>
    <3>1. UNCHANGED phone.resumed
      BY <2>3 DEF CommandInv, CommandTypeOK, TypeOK
    <3>2. QED
      BY <2>1, <2>3, <3>1, VisitFrame DEF Asking, UnderWay
  <2>4. QED
    BY <1>5, <2>2, <2>3 DEF PhoneChanges
<1>6. CASE OtherWriter \/ Tick \/ ReadWindows \/ ReadPower \/ LoopEnds \/ WriteResult
  <2>1. /\ UNCHANGED <<observations, terminal, asked, second, elapsed, visits, visitFrom, phone>>
        /\ now' \in {now, now + 1}
        /\ pc' = pc \/ pc' \in {"events", "done"} \/ (Asking /\ pc \in {"windows", "power"})
    BY <1>6 DEF OtherWriter, Tick, ReadWindows, ReadPower, ReadField, LoopEnds, WriteResult, Leave,
                Goto, stabilizerVars, localVars, worldVars, Asking
  <2>2. (Asking' => Asking) /\ (UnderWay' => UnderWay)
    BY <2>1 DEF Asking, UnderWay
  <2>3. QED
    BY <2>1, <2>2, VisitFrame
<1>7. CASE SendHome
  <2>1. /\ observations = <<>> /\ pc' = "poll"
        /\ UNCHANGED <<observations, terminal, elapsed, visits, now>>
    BY <1>7 DEF SendHome, Goto, stabilizerVars, CommandInv, Progress
  <2>2. visitFrom' \in Int /\ (visitFrom' >= 0 => OnTarget')
    BY <1>7 DEF SendHome, OnTarget, CommandInv, CommandTypeOK, TypeOK
  <2>3. QED
    BY <2>1, <2>2, VisitOutside DEF VisitInv, Asking
<1>8. CASE ReadTrust /\ second < 0
  <2>1. /\ UNCHANGED <<elapsed, asked, visits, visitFrom, now, phone>> /\ second' < 0
        /\ UNCHANGED <<observations, terminal, second>>
    <3>1. ~(second >= 0)
      BY <1>8
    <3>2. UNCHANGED <<stabilizerVars, second>>
      BY <1>8, <3>1, Zenon DEF ReadTrust
    <3>3. QED
      BY <1>8, <3>2 DEF ReadTrust, worldVars, stabilizerVars
  <2>2. ~UnderWay' /\ ~(second >= 0)
    BY <1>8, <2>1 DEF UnderWay
  <2>3. QED
    BY <2>1, <2>2, VisitFrame
<1>9. CASE UNCHANGED vars
  <2>1. UNCHANGED <<observations, terminal, asked, second, elapsed, visits, visitFrom, phone, now, pc>>
    BY <1>9 DEF vars, stabilizerVars, localVars, worldVars
  <2>2. QED
    BY <2>1, VisitFrame DEF Asking, UnderWay
<1>10. CASE ReadTrust /\ second >= 0
  BY <1>10, VisitGuardPoll
<1>11. CASE ReadTop \/ Poll
  BY <1>11, VisitReadTop, VisitPoll
<1>12. QED
  <2>1. second < 0 \/ second >= 0
    OBVIOUS
  <2>2. QED
    BY <1>1, <1>3, <1>4, <1>5, <1>6, <1>7, <1>8, <1>9, <1>10, <1>11, <2>1
    DEF Next, CommandStep, CommandFails, Done

(***************************************************************************)
(* Polling once a second misses visits of the target, but none longer than *)
(* two maximum gaps within a guard that passed, however long each query    *)
(* takes and whenever the phone changes: between two queries lie at most   *)
(* two gaps of stored instants.                                            *)
(***************************************************************************)
THEOREM LongVisitCaught == Spec => []LongVisitIsCaught
<1>1. CommandInv /\ VisitInv => LongVisitIsCaught
  <2> SUFFICES ASSUME CommandInv, VisitInv, Passed, NEW visit \in visits
               PROVE  LET from == IF visit[1] < evidence.start_seconds
                                    THEN evidence.start_seconds ELSE visit[1]
                          to   == IF visit[2] > evidence.end_seconds
                                    THEN evidence.end_seconds ELSE visit[2]
                      IN  to - from <= 2 * MaxGap
    BY DEF LongVisitIsCaught
  <2>1. /\ Decided /\ evidence = terminal /\ terminal.passed /\ ~asked.target
        /\ pc = "done"
    BY DEF CommandInv, Judged, Seen, Passed, Progress
  <2>2. Describes(terminal, observations)
    BY <2>1 DEF CommandInv, IInv
  <2>3. Len(observations) >= 2 /\ observations # <<>>
    BY <2>1, <2>2 DEF CommandInv, IInv, PassIsEarned, Describes
  <2>4. /\ evidence.start_seconds = First(observations).elapsed_seconds
        /\ evidence.end_seconds = Back(observations).elapsed_seconds
    BY <2>1, <2>2, <2>3 DEF Describes
  <2>5. Missed(visit)
    BY <2>1, <2>3 DEF VisitInv, Promising
  <2> DEFINE first == First(observations).elapsed_seconds
             last  == Back(observations).elapsed_seconds
             to    == IF visit[2] > last THEN last ELSE visit[2]
             from  == From(visit)
  <2>6. /\ first \in Int /\ last \in Int /\ Earlier \in Int /\ MaxGap \in Nat
        /\ visit[1] \in Int /\ visit[2] \in Int
    BY <2>3, Clocks DEF VisitInv
  <2>7. from \in Int /\ from >= visit[1]
    BY <2>6 DEF From
  <2>8. last - Earlier <= MaxGap
    BY <2>3, LastGap
  <2>9. to - from <= 2 * MaxGap
    <3>1. to \in Int /\ to <= visit[2] /\ to <= last
      BY <2>6
    <3>2. \/ visit[2] - from <= 2 * MaxGap
          \/ visit[1] >= last
          \/ from >= Earlier
      BY <2>5 DEF Missed
    <3> HIDE DEF to, from, last
    <3>3. QED
      BY <2>6, <2>7, <2>8, <3>1, <3>2
  <2>10. QED
    BY <2>4, <2>9 DEF From
<1>2. QED
  BY <1>1, VisitInit, VisitStep, CommandInvariance, PTL DEF Spec
-----------------------------------------------------------------------------
(* Guards that end too short.                                              *)

\* What a result that blames the length says of its evidence.
ShortByJitter(claim) ==
  claim.failure_reason = "too short" =>
    /\ Len(claim.observations) = GuardSeconds + 1
    /\ QuietThroughout(claim.observations)
    /\ claim.start_seconds > 0
    /\ claim.end_seconds >= Required

\* When the poll of second k is due.
Due(k) == k * TicksPerSecond

\* Every poll of an open guard is stored, none before its second; and no verdict
\* of the guard itself blames the length.
Counted == second >= 0 /\ ~Decided => Len(observations) = second

Punctual ==
  /\ UnderWay => elapsed >= Due(second)
  /\ second >= 1 /\ ~Decided => Back(observations).elapsed_seconds >= Due(second - 1)

Blamed ==
  /\ Decided => terminal.failure_reason # "too short"
  /\ pc \in {"events", "write"} => ShortByJitter(result)
  /\ path = "evidence" => ShortByJitter(evidence)

TimingInv == Counted /\ Punctual /\ Blamed

LEMMA TimingInit == Init => TimingInv
<1> SUFFICES ASSUME Init PROVE TimingInv
  OBVIOUS
<1>1. second = -1 /\ pc = "start" /\ path # "evidence" /\ ~Decided
  BY DEF Init, StabilizerInit, Decided
<1>2. Counted
  BY <1>1 DEF Counted
<1>3. Punctual
  BY <1>1 DEF Punctual, UnderWay
<1>4. Blamed
  BY <1>1 DEF Blamed
<1>5. QED
  BY <1>2, <1>3, <1>4 DEF TimingInv

\* Steps that neither stamp nor judge a poll, nor end the loop.
LEMMA TimingFrame ==
  ASSUME CommandInv, TimingInv,
         UNCHANGED <<observations, terminal, second, elapsed, result, evidence>>,
         UnderWay' => UnderWay,
         pc' \in {"events", "write"} => pc \in {"events", "write"},
         path' = "evidence" => path = "evidence"
  PROVE  TimingInv'
<1>1. (Decided' <=> Decided) /\ Back(observations)' = Back(observations)
  BY DEF Decided, Back
<1>2. ShortByJitter(result)' = ShortByJitter(result) /\ ShortByJitter(evidence)' = ShortByJitter(evidence)
  BY DEF ShortByJitter, QuietThroughout
<1>3. QED
  BY <1>1, <1>2 DEF TimingInv, Counted, Punctual, Blamed

\* No call of the guard ends it for being short.
LEMMA NeverTooShort ==
  ASSUME IInv, ~Decided, NEW time, NEW observation, Observe(time, observation), Decided'
  PROVE  terminal'.failure_reason # "too short"
<1>1. ASSUME NEW reason \in {"timestamp", "gap"}, Reject(time, reason)
      PROVE  terminal'.failure_reason # "too short"
  <2>1. terminal' = Result(observations, FALSE, reason)
    BY <1>1 DEF Reject
  <2>2. Result(observations, FALSE, reason).failure_reason = reason
    BY DEF Result
  <2>3. QED
    BY <2>1, <2>2
<1>2. CASE Accept(time, observation)
  <2> DEFINE state == Back(observations').state
  <2>1. terminal' \in {NoResult, Result(observations', FALSE, state), Result(observations', TRUE, ""),
                       Result(observations', FALSE, "no normal launcher")}
        /\ (terminal' = Result(observations', FALSE, state) =>
              state \in Forbidden \/ terminal' = Result(observations', FALSE, "no normal launcher")
                                  \/ terminal' = Result(observations', TRUE, "")
                                  \/ terminal' = NoResult)
    BY <1>2, Zenon DEF Accept, Verdict
  <2>2. \A reason \in Forbidden \cup {"", "no normal launcher"} : reason # "too short"
    BY DEF Forbidden
  <2>3. \A passed, reason : Result(observations', passed, reason).failure_reason = reason
    BY DEF Result
  <2>4. QED
    BY <2>1, <2>2, <2>3, Zenon DEF Decided
<1>3. QED
  BY <1>1, <1>2 DEF Observe

LEMMA TimingGuardPoll ==
  ASSUME CommandInv, TimingInv, second >= 0, ReadTrust PROVE TimingInv'
<1>1. /\ pc = "trust" /\ pc' = "poll" /\ second' = second + 1 /\ ~Decided
      /\ UNCHANGED <<elapsed, path, evidence>>
  BY GuardPoll
<1>2. second \in Int /\ ~(second < 0) /\ elapsed \in Int
  BY Clocks
<1>3. ASSUME ~Decided'
      PROVE  /\ Len(observations') = second + 1
             /\ Back(observations').elapsed_seconds = elapsed
  <2>1. PICK state \in AndroidUiState :
          observations' = Append(observations, [elapsed_seconds |-> elapsed, state |-> state])
    BY <1>3, GuardPoll
  <2>2. [elapsed_seconds |-> elapsed, state |-> state] \in ClassifiedStateObservation
    BY <1>2 DEF ClassifiedStateObservation
  <2>3. Len(observations) = second /\ observations \in Seq(ClassifiedStateObservation)
    BY <1>1, Clocks DEF TimingInv, Counted
  <2>4. QED
    BY <2>1, <2>2, <2>3 DEF Back
<1>4. elapsed >= Due((second + 1) - 1)
  <2>1. (second + 1) - 1 = second
    BY <1>2
  <2>2. elapsed >= Due(second)
    BY <1>1 DEF TimingInv, Punctual, UnderWay
  <2>3. QED
    BY <2>1, <2>2
<1>5. Decided' => terminal'.failure_reason # "too short"
  <2>1. PICK reply \in {phone.locked, FALSE} :
          Observe(elapsed, [sample EXCEPT !.device_locked = reply])
    BY <1>2, Zenon DEF ReadTrust
  <2>2. QED
    BY <1>1, <2>1, NeverTooShort DEF CommandInv
<1>6. path # "evidence"
  BY <1>1 DEF CommandInv, Progress
<1>7. Counted'
  BY <1>1, <1>3 DEF Counted
<1>8. Punctual'
  BY <1>1, <1>3, <1>4 DEF Punctual, UnderWay
<1>9. Blamed'
  BY <1>1, <1>5, <1>6 DEF Blamed
<1>10. QED
  BY <1>7, <1>8, <1>9 DEF TimingInv

\* The loop ends undecided only after its last poll, no earlier than its second.
LEMMA TimingLoopEnds == ASSUME CommandInv, TimingInv, LoopEnds PROVE TimingInv'
<1>1. /\ pc = "poll" /\ pc' = "events" /\ result' = Finish /\ (second > GuardSeconds \/ Decided)
      /\ UNCHANGED <<observations, terminal, second, elapsed, path, evidence>>
  BY DEF LoopEnds, Goto, stabilizerVars, fileVars
<1>0. /\ Counted /\ Punctual /\ Blamed
      /\ (Decided' <=> Decided) /\ Back(observations)' = Back(observations)
  BY <1>1 DEF TimingInv, Decided, Back
<1>01. Counted'
  BY <1>0, <1>1 DEF Counted
<1>02. Punctual'
  BY <1>0, <1>1 DEF Punctual, UnderWay
<1>03. path # "evidence"
  BY <1>1 DEF CommandInv, Progress
<1>2. CASE Decided
  <2>1. Finish.failure_reason # "too short"
    BY <1>0, <1>2 DEF Finish, Blamed
  <2>2. Blamed'
    BY <1>0, <1>1, <1>03, <2>1 DEF Blamed, ShortByJitter
  <2>3. QED
    BY <1>01, <1>02, <2>2 DEF TimingInv
<1>3. CASE ~Decided
  <2>1. second = GuardSeconds + 1 /\ Len(observations) = GuardSeconds + 1
        /\ observations # <<>> /\ GuardSeconds \in Nat
    <3>1. second \in -1 .. GuardSeconds + 1 /\ GuardSeconds \in Nat
      BY Limits DEF CommandInv, CommandTypeOK, TypeOK
    <3>2. second = GuardSeconds + 1
      BY <1>1, <1>3, <3>1
    <3>3. Len(observations) = second
      BY <1>0, <1>3, <3>1, <3>2 DEF Counted
    <3>4. QED
      BY <3>1, <3>2, <3>3
  <2>2. /\ First(observations).elapsed_seconds \in Int /\ Back(observations).elapsed_seconds \in Int
    BY <2>1, Clocks
  <2>3. Back(observations).elapsed_seconds >= Required
    <3>1. second >= 1 /\ second - 1 = GuardSeconds
      BY <2>1
    <3>2. Back(observations).elapsed_seconds >= Due(second - 1)
      BY <1>0, <1>3, <3>1 DEF Punctual
    <3>3. Due(second - 1) = Required
      BY <3>1, Limits DEF Due
    <3>4. QED
      BY <3>2, <3>3
  <2>4. QuietThroughout(observations) /\ Span(observations) < Required
    BY <1>3, <2>1 DEF CommandInv, IInv, Open
  <2>5. First(observations).elapsed_seconds > 0
    BY <2>2, <2>3, <2>4, Limits, StabilizerAssumption DEF Span
  <2>6. /\ Finish.observations = observations
        /\ Finish.start_seconds = First(observations).elapsed_seconds
        /\ Finish.end_seconds = Back(observations).elapsed_seconds
    BY <1>3, <2>1 DEF Finish, Result
  <2>7. ShortByJitter(Finish)
    BY <2>1, <2>3, <2>4, <2>5, <2>6 DEF ShortByJitter, QuietThroughout
  <2>8. ShortByJitter(result')
    BY <1>1, <2>7
  <2>9. ShortByJitter(result)'
    BY <2>8 DEF ShortByJitter, QuietThroughout
  <2>10. Blamed'
    BY <1>0, <1>1, <1>3, <1>03, <2>9 DEF Blamed
  <2>11. QED
    BY <1>01, <1>02, <2>10 DEF TimingInv
<1>4. QED
  BY <1>2, <1>3

\* Publishing copies the result; an exception forgets everything.
LEMMA TimingEnds == ASSUME CommandInv, TimingInv, Throw \/ WriteResult PROVE TimingInv'
<1>1. CASE Throw
  <2>1. second' = -1 /\ terminal' = NoResult /\ pc' = "done" /\ UNCHANGED <<path, evidence>>
    BY <1>1 DEF Throw, Leave, Goto, fileVars
  <2>2. ~Decided' /\ ~UnderWay' /\ ShortByJitter(evidence)' = ShortByJitter(evidence)
    BY <2>1 DEF Decided, UnderWay, ShortByJitter, QuietThroughout
  <2>3. Counted' /\ Punctual'
    BY <2>1, <2>2 DEF Counted, Punctual
  <2>4. Blamed'
    BY <2>1, <2>2 DEF TimingInv, Blamed
  <2>5. QED
    BY <2>3, <2>4 DEF TimingInv
<1>2. CASE WriteResult
  <2>1. /\ pc = "write" /\ pc' = "done" /\ evidence' = result
        /\ UNCHANGED <<observations, terminal, second, elapsed>>
    BY <1>2 DEF WriteResult, Leave, Goto, stabilizerVars, localVars
  <2>2. /\ (Decided' <=> Decided) /\ ~UnderWay' /\ Back(observations)' = Back(observations)
        /\ ShortByJitter(evidence)' = ShortByJitter(result)
    BY <2>1 DEF Decided, UnderWay, Back, ShortByJitter, QuietThroughout
  <2>3. Counted'
    BY <2>1, <2>2 DEF TimingInv, Counted
  <2>4. Punctual'
    BY <2>1, <2>2 DEF TimingInv, Punctual
  <2>5. Blamed'
    BY <2>1, <2>2 DEF TimingInv, Blamed
  <2>6. QED
    BY <2>3, <2>4, <2>5 DEF TimingInv
<1>3. QED
  BY <1>1, <1>2

\* The verification of the launch, and the start of the guard.
LEMMA TimingBefore ==
  ASSUME CommandInv, TimingInv, SendHome \/ (ReadTrust /\ second < 0) PROVE TimingInv'
<1>0. second \in Int
  BY Clocks
<1>1. CASE SendHome
  <2>1. /\ pc' = "poll" /\ second' = 0 /\ observations' = <<>> /\ terminal' = NoResult
        /\ UNCHANGED <<path, evidence>>
    BY <1>1 DEF SendHome, Goto, stabilizerVars, fileVars, CommandInv, Progress
  <2>2. ~Decided' /\ ~UnderWay' /\ Len(observations)' = 0
    BY <2>1 DEF Decided, UnderWay
  <2>3. Counted' /\ Punctual'
    BY <2>1, <2>2 DEF Counted, Punctual
  <2>4. ShortByJitter(evidence)' = ShortByJitter(evidence)
    BY <2>1 DEF ShortByJitter, QuietThroughout
  <2>5. Blamed'
    BY <2>1, <2>2, <2>4 DEF TimingInv, Blamed
  <2>6. QED
    BY <2>3, <2>5 DEF TimingInv
<1>2. CASE ReadTrust /\ second < 0
  <2>1. ~(second >= 0)
    BY <1>0, <1>2
  <2>2. PICK state :
          \/ pc' = "home"
          \/ /\ pc' = "events"
             /\ result' = [Result(<<>>, FALSE, "not resumed") EXCEPT !.final_state = state]
    BY <1>2, <2>1, Zenon DEF ReadTrust, Goto
  <2>3. UNCHANGED <<stabilizerVars, second, path, evidence>>
    BY <1>2, <2>1, Zenon DEF ReadTrust, fileVars
  <2>4. pc' = "events" => result'.failure_reason # "too short"
    BY <2>2 DEF Result
  <2>5. pc # "done" /\ ~Decided'
    BY <1>2, <2>3 DEF ReadTrust, CommandInv, Progress, stabilizerVars, Decided
  <2>6. path # "evidence"
    BY <2>5 DEF CommandInv, Progress
  <2>7. Counted' /\ Punctual'
    BY <1>0, <1>2, <2>3, <2>5 DEF Counted, Punctual, UnderWay
  <2>8. Blamed'
    BY <2>2, <2>3, <2>4, <2>5, <2>6 DEF Blamed, ShortByJitter
  <2>9. QED
    BY <2>7, <2>8 DEF TimingInv
<1>3. QED
  BY <1>1, <1>2

\* A poll is stamped no earlier than its second.
LEMMA TimingPoll == ASSUME CommandInv, TimingInv, Poll PROVE TimingInv'
<1>1. /\ pc' = "top" /\ elapsed' = now /\ ~Decided /\ now >= Due(second)
      /\ UNCHANGED <<observations, terminal, second, path, evidence>>
  BY DEF Poll, Goto, stabilizerVars, fileVars, Due
<1>2. /\ ~Decided' /\ Back(observations)' = Back(observations)
      /\ ShortByJitter(evidence)' = ShortByJitter(evidence)
  BY <1>1 DEF Decided, Back, ShortByJitter, QuietThroughout
<1>3. Counted'
  BY <1>1, <1>2 DEF TimingInv, Counted
<1>4. Punctual'
  BY <1>1, <1>2 DEF TimingInv, Punctual
<1>5. Blamed'
  BY <1>1, <1>2 DEF TimingInv, Blamed
<1>6. QED
  BY <1>3, <1>4, <1>5 DEF TimingInv

LEMMA TimingStep == CommandInv /\ TimingInv /\ [Next]_vars => TimingInv'
<1> SUFFICES ASSUME CommandInv, TimingInv, [Next]_vars PROVE TimingInv'
  OBVIOUS
<1>1. CASE Throw \/ WriteResult
  BY <1>1, TimingEnds
<1>2. ASSUME NEW label, Jump(label),
             label \in {"inspect", "unlocked", "launch"} \/ (pc = "events" /\ label = "write")
      PROVE  TimingInv'
  <2>1. /\ UNCHANGED <<observations, terminal, second, elapsed, result, path, evidence>>
        /\ pc' = label
    BY <1>2 DEF Jump, Goto, stabilizerVars, localVars, fileVars
  <2>2. CASE label \in {"inspect", "unlocked", "launch"}
    BY <2>1, <2>2, TimingFrame DEF UnderWay
  <2>3. CASE pc = "events" /\ label = "write"
    BY <2>1, <2>3, TimingFrame DEF UnderWay
  <2>4. QED
    BY <1>2, <2>2, <2>3
<1>3. CASE CheckOutput \/ Inspect \/ InspectTrust \/ ReadEvents
  BY <1>1, <1>2, <1>3 DEF CheckOutput, Inspect, InspectTrust, ReadEvents
<1>4. CASE Launch
  <2>1. /\ UNCHANGED <<observations, terminal, second, elapsed, result, path, evidence>>
        /\ pc' = "top" /\ ~(second >= 0)
    BY <1>4, Clocks DEF Launch, Goto, stabilizerVars, localVars, fileVars, CommandInv, Progress
  <2>2. QED
    BY <2>1, TimingFrame DEF UnderWay
<1>5. CASE PhoneChanges \/ OtherWriter \/ Tick \/ UNCHANGED vars
  <2>1. /\ UNCHANGED <<observations, terminal, second, elapsed, result, evidence, pc>>
        /\ path' = "evidence" => path = "evidence"
    BY <1>5 DEF PhoneChanges, OtherWriter, Tick, vars, stabilizerVars, localVars, fileVars
  <2>2. QED
    BY <2>1, TimingFrame DEF UnderWay
<1>6. CASE ReadTop \/ ReadWindows \/ ReadPower
  <2>1. /\ UNCHANGED <<observations, terminal, second, elapsed, result, path, evidence>>
        /\ pc \in {"top", "windows", "power"} /\ pc' \in {"windows", "power", "trust"}
    BY <1>6 DEF ReadTop, ReadWindows, ReadPower, ReadField, Goto, stabilizerVars, fileVars
  <2>2. QED
    BY <2>1, TimingFrame DEF UnderWay
<1>7. CASE SendHome \/ Poll \/ ReadTrust \/ LoopEnds
  <2>1. second < 0 \/ second >= 0
    BY Clocks
  <2>2. QED
    BY <1>7, <2>1, TimingBefore, TimingPoll, TimingGuardPoll, TimingLoopEnds
<1>8. QED
  BY <1>1, <1>3, <1>4, <1>5, <1>6, <1>7 DEF Next, CommandStep, CommandFails, Done

(***************************************************************************)
(* A guard that is blamed for nothing but its length made every poll, all  *)
(* quiet, the last no earlier than the required duration: only a first     *)
(* poll that came later after its second than the last can have made it    *)
(* short, whatever the clock and the phone do.                             *)
(***************************************************************************)
THEOREM ShortGuardLate == Spec => []ShortGuardBeganLate
<1>1. CommandInv /\ TimingInv => ShortGuardBeganLate
  BY DEF TimingInv, Blamed, ShortByJitter, ShortGuardBeganLate
<1>2. QED
  BY <1>1, TimingInit, TimingStep, CommandInvariance, PTL DEF Spec
=============================================================================
