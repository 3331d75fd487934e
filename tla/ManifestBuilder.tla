-------------------------- MODULE ManifestBuilder --------------------------
(***************************************************************************)
(* class ManifestBuilder (src/src/experiments/manifest_builder.cpp) and    *)
(* the guard it trusts: a coordinator observes the phone, keeps what the   *)
(* guard returned at some moment, and adds labelled intervals with or      *)
(* without that result.  Nothing under src/src builds a manifest this way  *)
(* yet; the coordinator is the caller the tests and the documents describe.*)
(***************************************************************************)
EXTENDS BackgroundStabilizer

CONSTANTS
  ActivityState,  \* the labels of a row
  MaxRows         \* bound: intervals added

ASSUME ManifestBuilderAssumption ==
  /\ "background" \in ActivityState
  /\ MaxRows \in Nat

VARIABLES
  gate,  \* the result the coordinator holds, NoResult before it asked
  rows   \* rows_: each with the result that was passed along (history)

builderVars == <<stabilizerVars, gate, rows>>

Optional == BackgroundStabilizerResult \cup {NoResult}

\* A background interval needs a result, and a passing one.
Authorized(state, background_gate) ==
  state = "background" => background_gate # NoResult /\ background_gate.passed

\* add_interval; a refused row leaves the builder as it is.
AddInterval(state, background_gate) ==
  /\ Authorized(state, background_gate)
  /\ rows' = Append(rows, [state |-> state, gate |-> background_gate])
  /\ UNCHANGED <<stabilizerVars, gate>>

BuilderInit ==
  /\ StabilizerInit
  /\ gate = NoResult
  /\ rows = <<>>

\* The coordinator asks for the result, early or late, ...
Collect ==
  /\ gate' = Finish
  /\ UNCHANGED <<stabilizerVars, rows>>

\* ... goes on observing, ...
Watch == StabilizerNext /\ UNCHANGED <<gate, rows>>

\* ... and adds intervals, with the result it holds or with the default.
Label ==
  /\ Len(rows) < MaxRows
  /\ \E state \in ActivityState, background_gate \in {gate, NoResult} :
       AddInterval(state, background_gate)

BuilderNext == Watch \/ Collect \/ Label

BuilderSpec == BuilderInit /\ [][BuilderNext]_builderVars
-----------------------------------------------------------------------------
BuilderTypeOK ==
  /\ StabilizerTypeOK
  /\ gate \in Optional
  /\ rows \in Seq([state : ActivityState, gate : Optional])

\* No interval is labelled background unless the guard stands by it: the result
\* it was admitted on, possibly taken long before, is the guard's verdict still,
\* and the evidence in it is dense, quiet and long enough.  (The guard may go on
\* being called between finish() and add_interval, manifest_builder.cpp:7-15.)
BackgroundRowsAreEarned ==
  \A i \in 1 .. Len(rows) :
    rows[i].state = "background" =>
      /\ rows[i].gate = terminal
      /\ Dense(terminal.observations)
      /\ QuietThroughout(terminal.observations)
      /\ Span(terminal.observations) >= Required
=============================================================================
