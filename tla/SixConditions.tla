---------------------------- MODULE SixConditions ----------------------------
(***************************************************************************)
(* run_six_condition_experiment (integration_experiment.cpp): samples are  *)
(* admitted by their source, the last run of every application is held     *)
(* out, and six pairs of training and testing states are evaluated one     *)
(* after the other.                                                        *)
(*                                                                         *)
(* A sample is its metadata; training and testing are sets of positions in *)
(* the sample list.  One integer predictor stands for the feature vector   *)
(* and centroids are kept as sum and count, so that distances compare      *)
(* without rounding.                                                       *)
(***************************************************************************)
EXTENDS Integers, Sequences, FiniteSets, Metrics

CONSTANTS
  Apps,    \* application labels, as numbers in the order of their names
  Runs,    \* run IDs, as numbers in the order of their names
  Datasets \* the sample lists the experiment is called with

States == {"foreground", "background", "device_control", "transition"}
Sources == {"routed_primary", "pcapdroid_auxiliary", "synthetic_fixture"}
Sample == [app: Apps, run: Runs, state: States, source: Sources, synthetic_test_only: BOOLEAN,
           predictor: Int]

ASSUME SixAssumption ==
  /\ Apps \subseteq Int /\ Runs \subseteq Int
  /\ Datasets \subseteq Seq(Sample)

\* The packet count of a synthetic window, in units of 1/400; app counts from 0 here.
synthetic_vector(app, run, state, sample) ==
  LET count == 7200 + 5200 * app + (IF state = "foreground" THEN 3600 ELSE -1200)
                 + 280 * run + 100 * sample
  IN  CASE state = "device_control" -> count \div 4
        [] state = "transition" -> (count * 6) \div 5
        [] OTHER -> count

\* The nested loops over applications, runs, states and samples.
make_synthetic_samples(apps, runs, windows) ==
  LET order == <<"foreground", "background", "device_control", "transition">>
      Place(n) == (n - 1) \div windows
  IN  [ n \in 1 .. Len(apps) * runs * Len(order) * windows |->
          [ app   |-> apps[(Place(n) \div (runs * Len(order))) + 1],
            run   |-> (Place(n) \div Len(order)) + 1,
            state |-> order[(Place(n) % Len(order)) + 1],
            source |-> "synthetic_fixture", synthetic_test_only |-> TRUE,
            predictor |-> synthetic_vector(Place(n) \div (runs * Len(order)),
                                           ((Place(n) \div Len(order)) % runs) + 1,
                                           order[(Place(n) % Len(order)) + 1],
                                           (n - 1) % windows) ] ]

VARIABLES
  samples, routed, \* the arguments
  pc,
  held_out,        \* the run IDs no condition trains on
  current,         \* the condition being evaluated
  training, testing,
  centroids,       \* of the trained classifier: label -> [sum, count] of its samples
  conditions       \* the results so far

inputVars == <<samples, routed>>
vars == <<inputVars, pc, held_out, current, training, testing, centroids, conditions>>

six_condition_specifications ==
  << [train |-> {"foreground"}, test |-> "foreground"],
     [train |-> {"foreground"}, test |-> "background"],
     [train |-> {"background"}, test |-> "background"],
     [train |-> {"background"}, test |-> "foreground"],
     [train |-> {"foreground", "background"}, test |-> "foreground"],
     [train |-> {"foreground", "background"}, test |-> "background"] >>

specification == six_condition_specifications[current]

Init ==
  /\ samples \in Datasets /\ routed \in BOOLEAN
  /\ pc = "sources"
  /\ held_out = {} /\ current = 1
  /\ training = {} /\ testing = {} /\ centroids = <<>>
  /\ conditions = <<>>

Goto(label) ==
  pc' = label /\ UNCHANGED <<inputVars, held_out, current, training, testing, centroids, conditions>>

\* capabilities_for: only a routed capture has its timing and may be primary.
Eligible(source) == source = "routed_primary"

Admitted(sample) ==
  /\ routed => Eligible(sample.source)
  /\ (sample.source = "synthetic_fixture") = sample.synthetic_test_only

\* validate_capture_sources
CheckSources ==
  /\ pc = "sources"
  /\ Goto(IF samples # <<>> /\ \A i \in DOMAIN samples : Admitted(samples[i])
          THEN "runs" ELSE "failed")

RunsOf(app) == {samples[i].run : i \in {j \in DOMAIN samples : samples[j].app = app}}
Labels == {samples[i].app : i \in DOMAIN samples}
IsLast(run, runs) == run \in runs /\ \A other \in runs : other <= run

\* Mutant: one run is enough.
EnoughWithOne(app) == Cardinality(RunsOf(app)) >= 1

Enough(app) == Cardinality(RunsOf(app)) >= 2

\* Every application gives its last run; the set is shared by all of them.
HoldOut ==
  /\ pc = "runs"
  /\ \/ /\ \E app \in Labels : ~Enough(app)
        /\ pc' = "failed" /\ UNCHANGED held_out
     \/ /\ \A app \in Labels : Enough(app)
        /\ held_out' = {run \in Runs : \E app \in Labels : IsLast(run, RunsOf(app))}
        /\ pc' = "select"
  /\ UNCHANGED <<inputVars, current, training, testing, centroids, conditions>>

\* Mutant: a run is held out only from the application that gave it.
IsHeldOutOfItsApp(i) == IsLast(samples[i].run, RunsOf(samples[i].app))

IsHeldOut(i) == samples[i].run \in held_out

Select ==
  /\ pc = "select"
  /\ training' = {i \in DOMAIN samples : ~IsHeldOut(i) /\ samples[i].state \in specification.train}
  /\ testing'  = {i \in DOMAIN samples : IsHeldOut(i) /\ samples[i].state = specification.test}
  /\ pc' = IF Cardinality(specification.train) > 1 THEN "balance" ELSE "guard"
  /\ UNCHANGED <<inputVars, held_out, current, centroids, conditions>>

\* Mutant: applications that share a run ID share a group.
SameRunAndState(i, j) ==
  samples[i].run = samples[j].run /\ samples[i].state = samples[j].state

SameGroup(i, j) ==
  /\ samples[i].app = samples[j].app
  /\ samples[i].run = samples[j].run
  /\ samples[i].state = samples[j].state

Group(i) == {j \in training : SameGroup(i, j)}

\* balance_mixed_training: as many samples of every group as the smallest has.
Balance ==
  /\ pc = "balance"
  /\ training' = {i \in training :
       \A j \in training : Cardinality({k \in Group(i) : k < i}) < Cardinality(Group(j))}
  /\ pc' = "guard"
  /\ UNCHANGED <<inputVars, held_out, current, testing, centroids, conditions>>

RunsIn(part) == {samples[i].run : i \in part}

\* validate_no_run_leakage
CheckLeakage ==
  /\ pc = "guard"
  /\ Goto(IF RunsIn(training) \cap RunsIn(testing) = {} THEN "train" ELSE "failed")

\* NearestCentroidClassifier::train refuses an empty training set.
Train ==
  /\ pc = "train"
  /\ \/ training = {} /\ Goto("failed")
     \/ /\ training # {}
        /\ centroids' = [label \in {samples[i].app : i \in training} |->
             LET own == {i \in training : samples[i].app = label}
             IN  [sum   |-> SumFunction([i \in own |-> samples[i].predictor]),
                  count |-> Cardinality(own)]]
        /\ pc' = "evaluate"
        /\ UNCHANGED <<inputVars, held_out, current, training, testing, conditions>>

\* How far sample i is from a centroid, scaled by the count of the other one: in one
\* dimension the smaller square has the smaller magnitude.
Distance(i, label, other) ==
  LET gap == samples[i].predictor * centroids[label].count - centroids[label].sum
  IN  (IF gap < 0 THEN -gap ELSE gap) * centroids[other].count

\* NearestCentroidClassifier::predict: the first label in the map's order wins a tie.
predict(i) ==
  CHOOSE label \in DOMAIN centroids : \A other \in DOMAIN centroids :
    \/ Distance(i, label, other) < Distance(i, other, label)
    \/ Distance(i, label, other) = Distance(i, other, label) /\ label <= other

Result ==
  LET actual == [i \in testing |-> samples[i].app]
      predicted == [i \in testing |-> predict(i)]
  IN  [ training |-> training, testing |-> testing, labels |-> DOMAIN centroids,
        predictions |-> predicted, metrics |-> calculate_metrics(actual, predicted) ]

\* Predictions for the test samples; calculate_metrics refuses an empty list.
Evaluate ==
  /\ pc = "evaluate"
  /\ \/ testing = {} /\ Goto("failed")
     \/ /\ testing # {}
        /\ conditions' = Append(conditions, Result)
        /\ IF current < Len(six_condition_specifications)
             THEN current' = current + 1 /\ pc' = "select"
             ELSE UNCHANGED current /\ pc' = "done"
        /\ UNCHANGED <<inputVars, held_out, training, testing, centroids>>

Over == pc \in {"done", "failed"} /\ UNCHANGED vars

Next == CheckSources \/ HoldOut \/ Select \/ Balance \/ CheckLeakage \/ Train \/ Evaluate \/ Over

Spec == Init /\ [][Next]_vars
-----------------------------------------------------------------------------
Part == SUBSET DOMAIN samples

TypeOK ==
  /\ samples \in Seq(Sample) /\ routed \in BOOLEAN
  /\ pc \in {"sources", "runs", "select", "balance", "guard", "train", "evaluate", "done", "failed"}
  /\ held_out \subseteq Runs
  /\ current \in DOMAIN six_condition_specifications
  /\ training \in Part /\ testing \in Part
  /\ DOMAIN centroids \subseteq Labels
  /\ \A label \in DOMAIN centroids : centroids[label] \in [sum: Int, count: Nat \ {0}]
  /\ \A c \in DOMAIN conditions :
       /\ conditions[c].training \in Part /\ conditions[c].testing \in Part
       /\ conditions[c].predictions \in [conditions[c].testing -> conditions[c].labels]

\* A run is on one side in all six conditions: what one condition tests, no
\* condition has trained on.  The guard in the loop compares the two sides of one
\* condition only.
RunsStayTogether ==
  \A c, d \in DOMAIN conditions :
    RunsIn(conditions[c].training) \cap RunsIn(conditions[d].testing) = {}

GroupIn(part, i) == {j \in part : /\ samples[j].app = samples[i].app
                                  /\ samples[j].run = samples[i].run
                                  /\ samples[j].state = samples[i].state}

\* In mixed training every application, run and state that takes part weighs the
\* same, and none that could take part is left out.
MixedTrainingIsBalanced ==
  \A c \in DOMAIN conditions :
    Cardinality(six_condition_specifications[c].train) > 1 =>
      LET part == conditions[c].training
      IN  /\ \A i, j \in part : Cardinality(GroupIn(part, i)) = Cardinality(GroupIn(part, j))
          /\ \A i \in DOMAIN samples :
               /\ samples[i].run \notin held_out
               /\ samples[i].state \in six_condition_specifications[c].train
               => GroupIn(part, i) # {}

\* Run IDs of different applications differ, and every run has both states.
CompleteRuns ==
  \A i \in DOMAIN samples :
    /\ \A j \in DOMAIN samples : samples[i].run = samples[j].run => samples[i].app = samples[j].app
    /\ \A state \in {"foreground", "background"} :
         \E j \in DOMAIN samples : samples[j].run = samples[i].run /\ samples[j].state = state

\* With such runs every condition is evaluated, and every application is trained
\* on and tested in each of them.  Without them an application can silently be
\* missing on one side.
CompleteRunsCoverEveryApp ==
  CompleteRuns =>
    /\ pc = "failed" => held_out = {}
    /\ \A c \in DOMAIN conditions :
         /\ conditions[c].labels = Labels
         /\ {samples[i].app : i \in conditions[c].testing} = Labels

\* What a report says of the test samples agrees with itself and with them: every
\* sample is counted once, under its own label, accuracy is the recall weighted by
\* the support, precision is the recall of the swapped question, no figure exceeds
\* one, and only a report without a mistake has the macro F1 of one
\* (calculate_metrics, and the predictions it is called with).
ReportsAddUp ==
  \A c \in DOMAIN conditions :
    LET report == conditions[c].metrics
        part   == conditions[c].testing
        class  == report.per_class
        mirror == calculate_metrics(conditions[c].predictions, [i \in part |-> samples[i].app])
        AtMostOne(x) == 0 <= x[1] /\ x[1] <= x[2] /\ 0 < x[2]
    IN  /\ \A l \in report.labels :
             /\ class[l].support = Cardinality({i \in part : samples[i].app = l})
             /\ SameFraction(class[l].precision, mirror.per_class[l].recall)
             /\ AtMostOne(class[l].precision) /\ AtMostOne(class[l].recall) /\ AtMostOne(class[l].f1)
        /\ SumFunction([l \in report.labels |-> class[l].support]) = Cardinality(part)
        /\ report.accuracy[1] = SumFunction([l \in report.labels |-> class[l].recall[1]])
        /\ SameFraction(report.macro_f1, <<1, 1>>) <=>
             \A i \in part : conditions[c].predictions[i] = samples[i].app
        /\ report.labels \subseteq Labels
=============================================================================
