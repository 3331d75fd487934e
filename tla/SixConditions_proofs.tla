------------------------- MODULE SixConditions_proofs -------------------------
(***************************************************************************)
(* For every list of samples: a run that is tested in one condition is     *)
(* trained on in none, so the leakage guard never has to refuse; mixed     *)
(* training weighs every application, run and state alike; when the runs   *)
(* are complete, every condition trains on and tests every application;    *)
(* and the totals, supports, shares and averages of every report agree.    *)
(***************************************************************************)
EXTENDS SixConditions, DataInduction, FiniteSetTheorems, TLAPS

\* Every training sample is of a run that is not held out, every test sample of one that is.
Apart(train, test) ==
  /\ \A i \in train : samples[i].run \notin held_out
  /\ \A i \in test : samples[i].run \in held_out

Untouched == training = {} /\ testing = {} /\ conditions = <<>>

SplitInv ==
  /\ pc \in {"sources", "runs"} => Untouched
  /\ training \in Part /\ testing \in Part
  /\ \E S : conditions \in Seq(S)
  /\ Apart(training, testing)
  /\ \A c \in DOMAIN conditions : Apart(conditions[c].training, conditions[c].testing)

LEMMA SplitInit == Init => SplitInv
<1> SUFFICES ASSUME Init PROVE SplitInv
  OBVIOUS
<1>1. Untouched
  BY DEF Init, Untouched
<1>2. DOMAIN conditions = {} /\ conditions \in Seq({})
  BY <1>1 DEF Untouched
<1> QED
  BY <1>1, <1>2 DEF SplitInv, Untouched, Apart, Part

LEMMA UnchangedKeeps ==
  ASSUME SplitInv, UNCHANGED <<inputVars, held_out, training, testing, conditions>>,
         pc' \in {"sources", "runs"} => pc \in {"sources", "runs"}
  PROVE  SplitInv'
BY DEF SplitInv, Untouched, Apart, Part, inputVars

LEMMA HoldOutKeeps == SplitInv /\ HoldOut => SplitInv'
<1> SUFFICES ASSUME SplitInv, HoldOut PROVE SplitInv'
  OBVIOUS
<1>1. Untouched /\ Untouched' /\ samples' = samples /\ pc' \in {"failed", "select"}
  BY DEF SplitInv, HoldOut, Untouched, inputVars
<1>2. DOMAIN conditions' = {} /\ conditions' \in Seq({})
  BY <1>1 DEF Untouched
<1>3. training' \in Part' /\ testing' \in Part'
  BY <1>1 DEF Untouched, Part
<1>4. Apart(training, testing)'
  BY <1>1 DEF Untouched, Apart
<1> QED
  BY <1>1, <1>2, <1>3, <1>4 DEF SplitInv, Apart

LEMMA SelectKeeps == SplitInv /\ Select => SplitInv'
<1> SUFFICES ASSUME SplitInv, Select PROVE SplitInv'
  OBVIOUS
<1>1. /\ training' = {i \in DOMAIN samples : ~IsHeldOut(i) /\ samples[i].state \in specification.train}
      /\ testing' = {i \in DOMAIN samples : IsHeldOut(i) /\ samples[i].state = specification.test}
      /\ UNCHANGED <<samples, routed, held_out, conditions>>
      /\ pc' \in {"balance", "guard"}
  BY DEF Select, inputVars
<1>2. training' \in Part' /\ testing' \in Part'
  BY <1>1 DEF Part
<1>3. Apart(training, testing)'
  BY <1>1 DEF Apart, IsHeldOut
<1> QED
  BY <1>1, <1>2, <1>3 DEF SplitInv, Apart

LEMMA BalanceKeeps == SplitInv /\ Balance => SplitInv'
<1> SUFFICES ASSUME SplitInv, Balance PROVE SplitInv'
  OBVIOUS
<1>1. /\ training' \subseteq training /\ pc' = "guard"
      /\ UNCHANGED <<samples, routed, held_out, testing, conditions>>
  BY DEF Balance, inputVars
<1>2. training' \in Part' /\ testing' \in Part'
  BY <1>1 DEF SplitInv, Part
<1>3. Apart(training, testing)'
  BY <1>1 DEF SplitInv, Apart
<1> QED
  BY <1>1, <1>2, <1>3 DEF SplitInv, Apart

LEMMA EvaluateKeeps == SplitInv /\ Evaluate => SplitInv'
<1> SUFFICES ASSUME SplitInv, Evaluate PROVE SplitInv'
  OBVIOUS
<1>1. CASE Goto("failed")
  BY <1>1, UnchangedKeeps DEF Goto
<1>2. CASE ~Goto("failed")
  <2>1. /\ conditions' = Append(conditions, Result)
        /\ pc' \in {"select", "done"}
        /\ UNCHANGED <<samples, routed, held_out, training, testing>>
    BY <1>2 DEF Evaluate, inputVars
  <2>2. PICK S : conditions \in Seq(S)
    BY DEF SplitInv
  <2>3. Result.training = training /\ Result.testing = testing
    BY DEF Result
  <2> HIDE DEF Result
  <2>4. conditions \in Seq(S \cup {Result})
    BY <2>2
  <2>5. conditions' \in Seq(S \cup {Result})
    BY <2>1, <2>4
  <2>6. \A c \in DOMAIN conditions' : conditions'[c] = Result \/
             (c \in DOMAIN conditions /\ conditions'[c] = conditions[c])
    BY <2>1, <2>4
  <2>7. \A c \in DOMAIN conditions' : Apart(conditions[c].training, conditions[c].testing)'
    BY <2>1, <2>3, <2>6 DEF SplitInv, Apart
  <2>8. training' \in Part' /\ testing' \in Part' /\ Apart(training, testing)'
    BY <2>1 DEF SplitInv, Part, Apart
  <2> QED
    BY <2>1, <2>5, <2>7, <2>8 DEF SplitInv
<1> QED
  BY <1>1, <1>2

LEMMA SplitStep == SplitInv /\ [Next]_vars => SplitInv'
<1> SUFFICES ASSUME SplitInv, [Next]_vars PROVE SplitInv'
  OBVIOUS
<1>1. CASE CheckSources
  BY <1>1, UnchangedKeeps DEF CheckSources, Goto
<1>2. CASE HoldOut
  BY <1>2, HoldOutKeeps
<1>3. CASE Select
  BY <1>3, SelectKeeps
<1>4. CASE Balance
  BY <1>4, BalanceKeeps
<1>5. CASE CheckLeakage
  BY <1>5, UnchangedKeeps DEF CheckLeakage, Goto
<1>6. CASE Train
  BY <1>6, UnchangedKeeps DEF Train, Goto
<1>7. CASE Evaluate
  BY <1>7, EvaluateKeeps
<1>8. CASE Over \/ UNCHANGED vars
  BY <1>8, UnchangedKeeps DEF Over, vars
<1> QED
  BY <1>1, <1>2, <1>3, <1>4, <1>5, <1>6, <1>7, <1>8 DEF Next

LEMMA SplitInvariance == Spec => []SplitInv
BY SplitInit, SplitStep, PTL DEF Spec

\* No condition trains on a run that it or another condition tests, for every list
\* of samples, run IDs shared between applications included
\* (run_six_condition_experiment).
THEOREM RunsApart == Spec => []RunsStayTogether
<1>1. SplitInv => RunsStayTogether
  BY DEF SplitInv, Apart, RunsStayTogether, RunsIn
<1> QED
  BY <1>1, SplitInvariance, PTL

\* The guard against leakage finds nothing to refuse: it never ends an experiment
\* (validate_no_run_leakage as the experiment calls it).
GuardIsIdle == [][CheckLeakage => pc' = "train"]_vars

THEOREM LeakageGuardIsIdle == Spec => GuardIsIdle
<1>1. SplitInv /\ [Next]_vars => [CheckLeakage => pc' = "train"]_vars
  <2> SUFFICES ASSUME SplitInv, CheckLeakage PROVE pc' = "train"
    OBVIOUS
  <2>1. RunsIn(training) \cap RunsIn(testing) = {}
    BY DEF SplitInv, Apart, RunsIn
  <2> QED
    BY <2>1 DEF CheckLeakage, Goto
<1> QED
  BY <1>1, SplitInvariance, PTL DEF Spec, GuardIsIdle
-----------------------------------------------------------------------------
(* Ranks: the position of an element among the smaller ones of its set.    *)

Below(G, i) == {k \in G : k < i}

Rank(G, i) == Cardinality(Below(G, i))

LEMMA RankType ==
  ASSUME NEW G, IsFiniteSet(G), G \subseteq Int
  PROVE  /\ Cardinality(G) \in Nat
         /\ \A i \in G : Rank(G, i) \in 0 .. Cardinality(G) - 1
         /\ \A i, j \in G : i < j => Rank(G, i) < Rank(G, j)
<1>1. Cardinality(G) \in Nat
  BY FS_CardinalityType
<1>2. ASSUME NEW U, IsFiniteSet(U), NEW V \in SUBSET U, NEW x \in U, x \notin V
      PROVE  Cardinality(V) \in Nat /\ Cardinality(V) < Cardinality(U)
  <2>1. IsFiniteSet(V) /\ Cardinality(V) <= Cardinality(U) /\ Cardinality(V) # Cardinality(U)
    BY <1>2, FS_Subset
  <2>2. Cardinality(V) \in Nat /\ Cardinality(U) \in Nat
    BY <1>2, <2>1, FS_CardinalityType
  <2>3. QED
    BY <2>1, <2>2
<1>3. ASSUME NEW i \in G PROVE Rank(G, i) \in 0 .. Cardinality(G) - 1
  <2>1. Below(G, i) \in SUBSET G /\ i \notin Below(G, i)
    BY DEF Below
  <2>2. Rank(G, i) \in Nat /\ Rank(G, i) < Cardinality(G)
    BY <1>2, <2>1 DEF Rank
  <2>3. QED
    BY <1>1, <2>2
<1>4. ASSUME NEW i \in G, NEW j \in G, i < j PROVE Rank(G, i) < Rank(G, j)
  <2>1. Below(G, i) \in SUBSET Below(G, j) /\ i \in Below(G, j) /\ i \notin Below(G, i)
    <3>1. i \in Int /\ j \in Int /\ \A k \in G : k \in Int
      OBVIOUS
    <3>2. \A k \in G : k < i => k < j
      BY <1>4, <3>1
    <3>3. ~(i < i)
      BY <3>1
    <3>4. QED
      BY <1>4, <3>2, <3>3 DEF Below
  <2>2. Below(G, j) \in SUBSET G
    BY DEF Below
  <2>3. IsFiniteSet(Below(G, j))
    BY <2>2, FS_Subset
  <2>4. QED
    BY <1>2, <2>1, <2>3 DEF Rank
<1>5. QED
  BY <1>1, <1>3, <1>4

\* Every rank below the size of the set is taken, by exactly one element.
LEMMA RankOnto ==
  ASSUME NEW G, IsFiniteSet(G), G \subseteq Int
  PROVE  /\ \A t \in 0 .. Cardinality(G) - 1 : \E i \in G : Rank(G, i) = t
         /\ \A i, j \in G : Rank(G, i) = Rank(G, j) => i = j
<1> DEFINE n == Cardinality(G)
           f == [i \in G |-> Rank(G, i)]
<1>1. n \in Nat
  BY RankType
<1>2. ASSUME NEW i \in G, NEW j \in G, Rank(G, i) = Rank(G, j) PROVE i = j
  <2>1. i \in Int /\ j \in Int
    OBVIOUS
  <2>2. /\ Rank(G, i) \in 0 .. n - 1
        /\ i < j => Rank(G, i) < Rank(G, j)
        /\ j < i => Rank(G, j) < Rank(G, i)
    BY RankType
  <2>3. Rank(G, i) \in Int
    BY <2>2
  <2>4. ~(i < j) /\ ~(j < i)
    BY <1>2, <2>2, <2>3
  <2>5. QED
    BY <2>1, <2>4
<1>3. f \in Injection(G, 0 .. n - 1)
  <2>1. f \in [G -> 0 .. n - 1]
    BY RankType
  <2>2. \A i, j \in G : f[i] = f[j] => i = j
    BY <1>2
  <2>3. QED
    BY <2>1, <2>2 DEF Injection, IsInjective
<1>4. IsFiniteSet(0 .. n - 1) /\ Cardinality(0 .. n - 1) = n
  <2>1. n - 1 \in Int /\ 0 \in Int
    BY <1>1
  <2>2. IsFiniteSet(0 .. n - 1) /\ Cardinality(0 .. n - 1) = IF 0 > n - 1 THEN 0 ELSE (n - 1) - 0 + 1
    BY <2>1, FS_Interval
  <2> HIDE DEF n
  <2>3. QED
    BY <1>1, <2>2
<1>5. f \in Surjection(G, 0 .. n - 1)
  BY <1>3, <1>4, FS_Injection
<1>6. \A t \in 0 .. n - 1 : \E i \in G : f[i] = t
  BY <1>5 DEF Surjection
<1>7. QED
  BY <1>2, <1>6

\* How many elements have a rank in T does not depend on the set.
LEMMA RankCount ==
  ASSUME NEW G, IsFiniteSet(G), G \subseteq Int, NEW T, T \subseteq 0 .. Cardinality(G) - 1
  PROVE  Cardinality({i \in G : Rank(G, i) \in T}) = Cardinality(T)
<1> DEFINE K == {i \in G : Rank(G, i) \in T}
           f == [i \in K |-> Rank(G, i)]
<1>1. IsFiniteSet(K)
  BY FS_Subset
<1>2. f \in [K -> T]
  OBVIOUS
<1>3. \A i, j \in K : f[i] = f[j] => i = j
  BY RankOnto
<1>4. ASSUME NEW t \in T PROVE \E i \in K : f[i] = t
  <2>1. PICK i \in G : Rank(G, i) = t
    BY RankOnto
  <2>2. QED
    BY <2>1
<1>5. f \in Bijection(K, T)
  BY <1>2, <1>3, <1>4 DEF Bijection, Injection, IsInjective, Surjection
<1>6. ExistsBijection(K, T)
  BY <1>5 DEF ExistsBijection
<1>7. QED
  BY <1>1, <1>6, FS_Bijection

\* A finite set of numbers has a greatest one.
LEMMA Greatest ==
  ASSUME NEW G, IsFiniteSet(G), G \subseteq Int, G # {}
  PROVE  \E m \in G : \A k \in G : k <= m
<1> DEFINE n == Cardinality(G)
<1>1. n \in Nat /\ n # 0
  BY FS_EmptySet, FS_CardinalityType
<1>2. n - 1 \in 0 .. n - 1
  <2> HIDE DEF n
  <2>1. QED
    BY <1>1
<1>3. PICK m \in G : Rank(G, m) = n - 1
  BY <1>2, RankOnto
<1>4. IsFiniteSet(G \ {m}) /\ Cardinality(G \ {m}) = n - 1
  BY FS_RemoveElement
<1>5. Below(G, m) \in SUBSET (G \ {m})
  BY DEF Below
<1>6. Below(G, m) = G \ {m}
  BY <1>3, <1>4, <1>5, FS_Subset DEF Rank
<1>7. \A k \in G : k <= m
  BY <1>6 DEF Below
<1>8. QED
  BY <1>7
-----------------------------------------------------------------------------
(* Mixed training.                                                         *)

LEMMA Finiteness ==
  ASSUME samples \in Seq(Sample), NEW part \in Part
  PROVE  IsFiniteSet(part) /\ part \subseteq Int /\ Len(samples) \in Nat
<1>1. Len(samples) \in Nat /\ DOMAIN samples = 1 .. Len(samples)
  OBVIOUS
<1>2. IsFiniteSet(1 .. Len(samples))
  BY <1>1, FS_Interval
<1>3. IsFiniteSet(part) /\ part \subseteq Int
  BY <1>1, <1>2, FS_Subset DEF Part
<1>4. QED
  BY <1>1, <1>3

\* Balancing leaves every group as many samples as every other, and at least one.
LEMMA BalanceEvens ==
  ASSUME samples \in Seq(Sample), training \in Part, Balance
  PROVE  /\ training' \subseteq training
         /\ \A i, j \in training :
              Cardinality(GroupIn(training', i)) = Cardinality(GroupIn(training', j))
         /\ \A i \in training : GroupIn(training', i) # {}
<1> DEFINE T == {t \in Nat : \A j \in training : t < Cardinality(Group(j))}
<1>1. training' = {i \in training :
          \A j \in training : Rank(Group(i), i) < Cardinality(Group(j))}
  BY DEF Balance, Rank, Below
<1>2. ASSUME NEW i \in training
      PROVE  /\ IsFiniteSet(Group(i)) /\ Group(i) \subseteq Int
             /\ Cardinality(Group(i)) \in Nat
             /\ i \in Group(i) /\ Cardinality(Group(i)) > 0
             /\ \A k \in Group(i) : k \in training /\ Group(k) = Group(i)
  <2>1. Group(i) \subseteq training
    BY DEF Group
  <2>2. Group(i) \in Part
    BY <2>1 DEF Part
  <2>3. IsFiniteSet(Group(i)) /\ Group(i) \subseteq Int
    BY <2>2, Finiteness
  <2>4. i \in Group(i) /\ \A k \in Group(i) : k \in training /\ Group(k) = Group(i)
    BY DEF Group, SameGroup
  <2>5. Cardinality(Group(i)) \in Nat /\ Cardinality(Group(i)) # 0
    BY <2>3, <2>4, FS_CardinalityType, FS_EmptySet
  <2>6. QED
    BY <2>3, <2>4, <2>5
<1>3. ASSUME NEW i \in training
      PROVE  T \subseteq 0 .. Cardinality(Group(i)) - 1
  BY <1>2
<1>4. ASSUME NEW i \in training
      PROVE  GroupIn(training', i) = {k \in Group(i) : Rank(Group(i), k) \in T}
  <2>1. ASSUME NEW k \in Group(i)
        PROVE  k \in training' <=> Rank(Group(i), k) \in T
    <3>1. k \in training /\ Group(k) = Group(i)
      BY <1>2
    <3>2. Rank(Group(i), k) \in 0 .. Cardinality(Group(i)) - 1
      BY <1>2, RankType
    <3>3. Rank(Group(i), k) \in Nat
      BY <3>2
    <3>4. QED
      BY <1>1, <3>1, <3>3
  <2>2. \A k : k \in GroupIn(training', i) <=> k \in Group(i) /\ k \in training'
    BY <1>1 DEF GroupIn, Group, SameGroup
  <2> HIDE DEF T
  <2>3. QED
    BY <2>1, <2>2
<1>5. ASSUME NEW i \in training PROVE Cardinality(GroupIn(training', i)) = Cardinality(T)
  <2>1. IsFiniteSet(Group(i)) /\ Group(i) \subseteq Int
    BY <1>2
  <2> HIDE DEF T
  <2>2. QED
    BY <1>3, <1>4, <2>1, RankCount
<1>6. ASSUME NEW i \in training PROVE GroupIn(training', i) # {}
  <2>1. 0 \in T
    BY <1>2
  <2>2. 0 \in 0 .. Cardinality(Group(i)) - 1
    BY <1>3, <2>1
  <2>3. PICK k \in Group(i) : Rank(Group(i), k) = 0
    BY <1>2, <2>2, RankOnto
  <2> HIDE DEF T
  <2>4. QED
    BY <1>4, <2>1, <2>3
<1> HIDE DEF T
<1>7. QED
  BY <1>1, <1>5, <1>6

LEMMA Specifications ==
  /\ DOMAIN six_condition_specifications = 1 .. 6 /\ Len(six_condition_specifications) = 6
  /\ \A c \in 1 .. 6 :
       /\ six_condition_specifications[c].train \subseteq {"foreground", "background"}
       /\ six_condition_specifications[c].train # {}
       /\ six_condition_specifications[c].test \in {"foreground", "background"}
BY DEF six_condition_specifications

Candidates(c) ==
  {i \in DOMAIN samples : /\ samples[i].run \notin held_out
                          /\ samples[i].state \in six_condition_specifications[c].train}

Even(part, c) ==
  Cardinality(six_condition_specifications[c].train) > 1 =>
    /\ \A i, j \in part : Cardinality(GroupIn(part, i)) = Cardinality(GroupIn(part, j))
    /\ \A i \in Candidates(c) : GroupIn(part, i) # {}

MixedInv ==
  /\ samples \in Seq(Sample)
  /\ current \in 1 .. 6
  /\ pc \notin {"done", "failed"} => Len(conditions) = current - 1
  /\ pc = "balance" => training = Candidates(current)
  /\ pc \in {"guard", "train", "evaluate"} => Even(training, current)
  /\ \A c \in DOMAIN conditions : Even(conditions[c].training, c)

LEMMA MixedInit == Init => MixedInv
<1> SUFFICES ASSUME Init PROVE MixedInv
  OBVIOUS
<1>1. samples \in Seq(Sample) /\ current = 1 /\ pc = "sources" /\ conditions = <<>>
  BY SixAssumption DEF Init
<1>2. QED
  BY <1>1 DEF MixedInv

\* What was evened stays so while the samples and the runs held out do.
LEMMA EvenStays ==
  ASSUME UNCHANGED <<samples, held_out>>, NEW part, NEW c
  PROVE  Even(part, c)' <=> Even(part, c)
BY DEF Even, Candidates, GroupIn

LEMMA MixedFrame ==
  ASSUME MixedInv, UNCHANGED <<inputVars, held_out, current, training, conditions>>,
         pc' # "balance",
         pc' \in {"guard", "train", "evaluate"} => pc \in {"guard", "train", "evaluate"},
         pc' \notin {"done", "failed"} => pc \notin {"done", "failed"}
  PROVE  MixedInv'
<1>1. UNCHANGED samples
  BY DEF inputVars
<1>2. ASSUME pc' \in {"guard", "train", "evaluate"} PROVE Even(training, current)'
  <2>1. Even(training, current)
    BY <1>2 DEF MixedInv
  <2>2. UNCHANGED <<samples, held_out, training, current>>
    BY <1>1
  <2>3. QED
    BY <2>1, <2>2 DEF Even, Candidates, GroupIn
<1>3. \A c \in DOMAIN conditions : Even(conditions[c].training, c)'
  BY <1>1, EvenStays DEF MixedInv
<1>4. QED
  BY <1>1, <1>2, <1>3 DEF MixedInv

LEMMA MixedStep == SplitInv /\ MixedInv /\ [Next]_vars => MixedInv'
<1> SUFFICES ASSUME SplitInv, MixedInv, [Next]_vars PROVE MixedInv'
  OBVIOUS
<1>1. CASE CheckSources \/ CheckLeakage \/ Train \/ Over
  <2>1. /\ UNCHANGED <<inputVars, held_out, current, training, conditions>>
        /\ pc' # "balance"
        /\ pc' \in {"guard", "train", "evaluate"} => pc \in {"guard", "train", "evaluate"}
        /\ pc' \notin {"done", "failed"} => pc \notin {"done", "failed"}
    BY <1>1 DEF CheckSources, CheckLeakage, Train, Over, Goto, vars
  <2>2. QED
    BY <2>1, MixedFrame
<1>2. CASE HoldOut
  <2>1. /\ UNCHANGED <<samples, current, conditions>> /\ pc = "runs" /\ pc' \in {"failed", "select"}
        /\ conditions = <<>>
    BY <1>2 DEF HoldOut, inputVars, SplitInv, Untouched
  <2>2. QED
    BY <2>1 DEF MixedInv
<1>3. CASE Select
  <2>1. /\ UNCHANGED <<samples, held_out, current, conditions>> /\ pc = "select"
        /\ training' = Candidates(current)
        /\ pc' = IF Cardinality(six_condition_specifications[current].train) > 1
                   THEN "balance" ELSE "guard"
    BY <1>3 DEF Select, inputVars, IsHeldOut, Candidates, specification
  <2>2. Candidates(current)' = Candidates(current)
    BY <2>1 DEF Candidates
  <2>3. pc' = "guard" => Even(training, current)'
    BY <2>1 DEF Even
  <2>4. \A c \in DOMAIN conditions : Even(conditions[c].training, c)'
    BY <2>1, EvenStays DEF MixedInv
  <2>5. QED
    BY <2>1, <2>2, <2>3, <2>4 DEF MixedInv
<1>4. CASE Balance
  <2>1. /\ UNCHANGED <<samples, held_out, current, conditions>> /\ pc = "balance" /\ pc' = "guard"
        /\ training = Candidates(current) /\ samples \in Seq(Sample) /\ training \in Part
    BY <1>4 DEF Balance, inputVars, MixedInv, SplitInv
  <2>2. /\ \A i, j \in training' :
             Cardinality(GroupIn(training', i)) = Cardinality(GroupIn(training', j))
        /\ \A i \in Candidates(current) : GroupIn(training', i) # {}
    BY <1>4, <2>1, BalanceEvens
  <2>3. /\ Candidates(current)' = Candidates(current)
        /\ \A i : GroupIn(training, i)' = GroupIn(training', i)
    BY <2>1 DEF Candidates, GroupIn
  <2>4. Even(training, current)'
    BY <2>1, <2>2, <2>3 DEF Even
  <2>5. \A c \in DOMAIN conditions : Even(conditions[c].training, c)'
    BY <2>1, EvenStays DEF MixedInv
  <2>6. QED
    BY <2>1, <2>4, <2>5 DEF MixedInv
<1>5. CASE Evaluate
  <2>1. CASE Goto("failed")
    BY <2>1, MixedFrame DEF Goto
  <2>2. CASE ~Goto("failed")
    <3>1. /\ conditions' = Append(conditions, Result) /\ pc = "evaluate"
          /\ UNCHANGED <<samples, held_out, training>>
          /\ \/ current < 6 /\ current' = current + 1 /\ pc' = "select"
             \/ pc' = "done" /\ current' = current
      BY <1>5, <2>2, Specifications DEF Evaluate, inputVars
    <3>2. PICK S : conditions \in Seq(S)
      BY DEF SplitInv
    <3>3. Result.training = training
      BY DEF Result
    <3> HIDE DEF Result
    <3>4. conditions \in Seq(S \cup {Result}) /\ Len(conditions) = current - 1 /\ current \in 1 .. 6
      BY <3>1, <3>2 DEF MixedInv
    <3>5. /\ Len(conditions') = current /\ DOMAIN conditions = 1 .. current - 1
          /\ \A c \in DOMAIN conditions' :
               \/ c = current /\ conditions'[c] = Result
               \/ c \in DOMAIN conditions /\ conditions'[c] = conditions[c]
      BY <3>1, <3>4
    <3>6. ASSUME NEW c \in DOMAIN conditions' PROVE Even(conditions[c].training, c)'
      <4>1. CASE c = current /\ conditions'[c] = Result
        <5>1. Even(training, current)
          BY <3>1 DEF MixedInv
        <5>2. conditions'[c].training = training /\ c = current
          BY <3>3, <4>1
        <5>3. QED
          BY <3>1, <5>1, <5>2, EvenStays
      <4>2. CASE c \in DOMAIN conditions /\ conditions'[c] = conditions[c]
        BY <3>1, <4>2, EvenStays DEF MixedInv
      <4>3. QED
        BY <3>5, <4>1, <4>2
    <3>7. current' \in 1 .. 6 /\ (pc' = "select" => Len(conditions') = current' - 1)
      BY <3>1, <3>4, <3>5
    <3>8. QED
      BY <3>1, <3>6, <3>7 DEF MixedInv
  <2>3. QED
    BY <2>1, <2>2
<1>6. CASE UNCHANGED vars
  <2>1. UNCHANGED <<samples, held_out, current, training, conditions, pc>>
    BY <1>6 DEF vars, inputVars
  <2>2. UNCHANGED Candidates(current)
    BY <2>1 DEF Candidates
  <2>3. pc \in {"guard", "train", "evaluate"} => Even(training, current)'
    BY <2>1, EvenStays DEF MixedInv
  <2>4. \A c \in DOMAIN conditions : Even(conditions[c].training, c)'
    BY <2>1, EvenStays DEF MixedInv
  <2>5. QED
    BY <2>1, <2>2, <2>3, <2>4 DEF MixedInv
<1>7. QED
  BY <1>1, <1>2, <1>3, <1>4, <1>5, <1>6 DEF Next

\* In every mixed condition of every experiment, each application, run and state
\* that takes part weighs the same, and none that could is left out
\* (balance_mixed_training).
THEOREM MixedBalanced == Spec => []MixedTrainingIsBalanced
<1>1. SplitInv /\ MixedInv => MixedTrainingIsBalanced
  BY DEF MixedInv, Even, Candidates, MixedTrainingIsBalanced
<1> QED
  BY <1>1, MixedInit, MixedStep, SplitInvariance, PTL DEF Spec
-----------------------------------------------------------------------------
(* Complete runs: every application on both sides of every condition.      *)

Covers(part) ==
  /\ part \subseteq DOMAIN samples
  /\ \A app \in Labels : \E i \in part : samples[i].app = app

\* An application has a run that is held out and one that is not.
Divided ==
  \A app \in Labels : \E i, j \in DOMAIN samples :
    /\ samples[i].app = app /\ samples[i].run \in held_out
    /\ samples[j].app = app /\ samples[j].run \notin held_out

CoverInv ==
  CompleteRuns =>
    /\ pc \in {"sources", "runs", "failed"} => held_out = {}
    /\ pc \notin {"sources", "failed"} => Labels # {}
    /\ pc \notin {"sources", "runs", "failed"} => Divided
    /\ pc \in {"balance", "guard", "train", "evaluate"} => Covers(training) /\ Covers(testing)
    /\ pc = "evaluate" => DOMAIN centroids = Labels
    /\ \A c \in DOMAIN conditions :
         conditions[c].labels = Labels /\ Covers(conditions[c].testing)

LEMMA RunSets ==
  ASSUME samples \in Seq(Sample), NEW app \in Labels
  PROVE  IsFiniteSet(RunsOf(app)) /\ RunsOf(app) \subseteq Runs /\ RunsOf(app) \subseteq Int
<1> DEFINE own == {j \in DOMAIN samples : samples[j].app = app}
           f == [i \in own |-> samples[i].run]
<1>1. own \in Part
  BY DEF Part
<1>2. IsFiniteSet(own)
  BY <1>1, Finiteness
<1>3. f \in Surjection(own, RunsOf(app))
  <2>1. f \in [own -> RunsOf(app)]
    BY DEF RunsOf
  <2>2. \A run \in RunsOf(app) : \E i \in own : f[i] = run
    BY DEF RunsOf
  <2>3. QED
    BY <2>1, <2>2 DEF Surjection
<1>4. IsFiniteSet(RunsOf(app))
  BY <1>2, <1>3, FS_Surjection
<1>5. ASSUME NEW i \in DOMAIN samples PROVE samples[i].run \in Runs
  <2>1. samples[i] \in Sample
    OBVIOUS
  <2>2. QED
    BY <2>1 DEF Sample
<1>6. RunsOf(app) \subseteq Runs
  BY <1>5 DEF RunsOf
<1>7. QED
  BY <1>4, <1>6, SixAssumption

\* Of an application with two runs the last is held out and another one is not.
LEMMA HoldOutDivides ==
  ASSUME samples \in Seq(Sample), CompleteRuns, \A app \in Labels : Enough(app),
         held_out' = {run \in Runs : \E app \in Labels : IsLast(run, RunsOf(app))},
         UNCHANGED samples
  PROVE  Divided'
<1> SUFFICES ASSUME NEW app \in Labels
             PROVE  \E i, j \in DOMAIN samples :
                      /\ samples[i].app = app /\ samples[i].run \in held_out'
                      /\ samples[j].app = app /\ samples[j].run \notin held_out'
  <2>1. Labels' = Labels
    BY DEF Labels
  <2>2. QED
    BY <2>1 DEF Divided
<1>1. IsFiniteSet(RunsOf(app)) /\ RunsOf(app) \subseteq Runs /\ RunsOf(app) \subseteq Int
  BY RunSets
<1>2. Cardinality(RunsOf(app)) >= 2 /\ Cardinality(RunsOf(app)) \in Nat
  BY <1>1, FS_CardinalityType DEF Enough
<1>3. RunsOf(app) # {}
  BY <1>1, <1>2, FS_EmptySet
<1>4. PICK last \in RunsOf(app) : \A k \in RunsOf(app) : k <= last
  BY <1>1, <1>3, Greatest
<1>5. last \in held_out'
  BY <1>1, <1>4 DEF IsLast
<1>6. PICK earlier \in RunsOf(app) : earlier # last
  <2>1. IsFiniteSet(RunsOf(app) \ {last}) /\
        Cardinality(RunsOf(app) \ {last}) = Cardinality(RunsOf(app)) - 1
    BY <1>1, FS_RemoveElement
  <2>2. Cardinality(RunsOf(app) \ {last}) # 0
    BY <1>2, <2>1
  <2>3. RunsOf(app) \ {last} # {}
    BY <2>1, <2>2, FS_EmptySet
  <2>4. QED
    BY <2>3
<1>7. PICK i \in DOMAIN samples, j \in DOMAIN samples :
        /\ samples[i].app = app /\ samples[i].run = last
        /\ samples[j].app = app /\ samples[j].run = earlier
  BY <1>4, <1>6 DEF RunsOf
<1>8. ASSUME NEW other \in Labels, IsLast(earlier, RunsOf(other)) PROVE FALSE
  <2>1. PICK k \in DOMAIN samples : samples[k].app = other /\ samples[k].run = earlier
    BY <1>8 DEF IsLast, RunsOf
  <2>2. other = app
    <3>1. samples[k].run = samples[j].run => samples[k].app = samples[j].app
      BY DEF CompleteRuns
    <3>2. QED
      BY <1>7, <2>1, <3>1
  <2>3. last <= earlier /\ earlier <= last /\ last \in Int /\ earlier \in Int
    BY <1>1, <1>4, <1>6, <1>8, <2>2 DEF IsLast
  <2>4. QED
    BY <1>6, <2>3
<1>9. earlier \notin held_out'
  BY <1>8
<1>10. QED
  BY <1>5, <1>7, <1>9

\* Where every run has both states, each side of a condition finds every application.
LEMMA SelectCovers ==
  ASSUME CompleteRuns, Divided, current \in 1 .. 6, Select
  PROVE  /\ \A app \in Labels : \E i \in training' : samples[i].app = app
         /\ \A app \in Labels : \E i \in testing' : samples[i].app = app
<1>1. /\ specification.train \subseteq {"foreground", "background"} /\ specification.train # {}
      /\ specification.test \in {"foreground", "background"}
  BY Specifications DEF specification
<1>2. PICK trained \in specification.train : trained \in {"foreground", "background"}
  BY <1>1
<1>3. /\ training' = {i \in DOMAIN samples :
                        samples[i].run \notin held_out /\ samples[i].state \in specification.train}
      /\ testing' = {i \in DOMAIN samples :
                       samples[i].run \in held_out /\ samples[i].state = specification.test}
  BY DEF Select, IsHeldOut
<1>4. ASSUME NEW i \in DOMAIN samples, NEW state, state \in {"foreground", "background"}
      PROVE  \E k \in DOMAIN samples :
               /\ samples[k].run = samples[i].run /\ samples[k].state = state
               /\ samples[k].app = samples[i].app
  <2>1. PICK k \in DOMAIN samples : samples[k].run = samples[i].run /\ samples[k].state = state
    BY <1>4 DEF CompleteRuns
  <2>2. samples[i].run = samples[k].run => samples[i].app = samples[k].app
    BY DEF CompleteRuns
  <2>3. QED
    BY <2>1, <2>2
<1>5. ASSUME NEW app \in Labels
      PROVE  /\ \E i \in training' : samples[i].app = app
             /\ \E i \in testing' : samples[i].app = app
  <2>1. PICK i \in DOMAIN samples, j \in DOMAIN samples :
          /\ samples[i].app = app /\ samples[i].run \in held_out
          /\ samples[j].app = app /\ samples[j].run \notin held_out
    BY DEF Divided
  <2>2. PICK k \in DOMAIN samples :
          samples[k].run = samples[i].run /\ samples[k].state = specification.test /\ samples[k].app = app
    <3> DEFINE tested == specification.test
    <3>1. tested \in {"foreground", "background"}
      BY <1>1
    <3> HIDE DEF tested
    <3>2. \E k \in DOMAIN samples :
            samples[k].run = samples[i].run /\ samples[k].state = tested /\ samples[k].app = app
      BY <1>4, <2>1, <3>1
    <3>3. QED
      BY <3>2 DEF tested
  <2>3. PICK l \in DOMAIN samples :
          samples[l].run = samples[j].run /\ samples[l].state = trained /\ samples[l].app = app
    BY <1>2, <1>4, <2>1
  <2>4. k \in testing' /\ l \in training'
    BY <1>2, <1>3, <2>1, <2>2, <2>3
  <2>5. QED
    BY <2>2, <2>3, <2>4
<1>6. QED
  BY <1>5

LEMMA CoverInit == Init => CoverInv
<1> SUFFICES ASSUME Init PROVE CoverInv
  OBVIOUS
<1>1. pc = "sources" /\ held_out = {} /\ conditions = <<>>
  BY DEF Init
<1>2. QED
  BY <1>1 DEF CoverInv

\* What is said of unchanged samples, runs and parts stays so.
LEMMA CoversStay ==
  ASSUME UNCHANGED <<samples, held_out>>
  PROVE  /\ CompleteRuns' <=> CompleteRuns
         /\ Labels' = Labels
         /\ Divided' <=> Divided
BY DEF CompleteRuns, Labels, Divided

LEMMA CoverFrame ==
  ASSUME CoverInv, UNCHANGED <<samples, held_out, training, testing, conditions>>,
         pc' = "failed" => pc \in {"sources", "runs", "failed"},
         pc' \in {"sources", "runs"} => pc \in {"sources", "runs"},
         CompleteRuns /\ pc' \notin {"sources", "failed"} => Labels # {},
         pc' \notin {"sources", "runs", "failed"} => pc \notin {"sources", "runs", "failed"},
         pc' \in {"balance", "guard", "train", "evaluate"} =>
           pc \in {"balance", "guard", "train", "evaluate"},
         CompleteRuns /\ pc' = "evaluate" => DOMAIN centroids' = Labels
  PROVE  CoverInv'
<1> SUFFICES ASSUME CompleteRuns' PROVE CoverInv'
  BY DEF CoverInv
<1>1. CompleteRuns /\ Labels' = Labels /\ (Divided' <=> Divided)
  BY CoversStay
<1>2. pc' \in {"balance", "guard", "train", "evaluate"} => Covers(training)' /\ Covers(testing)'
  BY <1>1 DEF CoverInv, Covers
<1>3. \A c \in DOMAIN conditions' :
        conditions'[c].labels = Labels' /\ Covers(conditions[c].testing)'
  BY <1>1 DEF CoverInv, Covers
<1>4. QED
  BY <1>1, <1>2, <1>3 DEF CoverInv

LEMMA CheckSourcesCovers ==
  ASSUME SplitInv, MixedInv, CoverInv, CheckSources PROVE CoverInv'
<1>1. /\ UNCHANGED <<samples, held_out, training, testing, centroids, conditions>>
      /\ pc = "sources" /\ pc' \in {"runs", "failed"} /\ (pc' = "runs" => samples # <<>>)
  BY DEF CheckSources, Goto, inputVars
<1>2. ASSUME samples # <<>> PROVE Labels # {}
  <2>1. samples \in Seq(Sample)
    BY DEF MixedInv
  <2>2. 1 \in DOMAIN samples
    BY <1>2, <2>1
  <2>3. QED
    BY <2>2 DEF Labels
<1>3. QED
  BY <1>1, <1>2, CoverFrame

LEMMA HoldOutCovers ==
  ASSUME SplitInv, MixedInv, CoverInv, HoldOut PROVE CoverInv'
<1>1. /\ UNCHANGED samples /\ pc = "runs" /\ conditions' = <<>>
      /\ \/ pc' = "failed" /\ held_out' = held_out
         \/ /\ pc' = "select" /\ \A app \in Labels : Enough(app)
            /\ held_out' = {run \in Runs : \E app \in Labels : IsLast(run, RunsOf(app))}
  BY DEF HoldOut, inputVars, SplitInv, Untouched
<1>2. (CompleteRuns' <=> CompleteRuns) /\ Labels' = Labels
  BY <1>1 DEF CompleteRuns, Labels
<1>3. CompleteRuns /\ pc' = "select" => Divided'
  BY <1>1, HoldOutDivides DEF MixedInv
<1>4. QED
  BY <1>1, <1>2, <1>3 DEF CoverInv

LEMMA SelectCoversBoth ==
  ASSUME SplitInv, MixedInv, CoverInv, Select PROVE CoverInv'
<1> SUFFICES ASSUME CompleteRuns' PROVE CoverInv'
  BY DEF CoverInv
<1>1. /\ UNCHANGED <<samples, held_out, conditions>>
      /\ pc = "select" /\ pc' \in {"balance", "guard"}
  BY DEF Select, inputVars
<1>2. CompleteRuns /\ Labels' = Labels /\ (Divided' <=> Divided)
  BY <1>1, CoversStay
<1>3. Divided /\ current \in 1 .. 6
  BY <1>1, <1>2 DEF CoverInv, MixedInv
<1>4. Covers(training)' /\ Covers(testing)'
  <2>1. /\ \A app \in Labels : \E i \in training' : samples[i].app = app
        /\ \A app \in Labels : \E i \in testing' : samples[i].app = app
    BY <1>2, <1>3, SelectCovers
  <2>2. training' \subseteq DOMAIN samples' /\ testing' \subseteq DOMAIN samples'
    BY SelectKeeps DEF SplitInv, Part
  <2>3. QED
    BY <1>1, <1>2, <2>1, <2>2 DEF Covers
<1>5. \A c \in DOMAIN conditions' :
        conditions'[c].labels = Labels' /\ Covers(conditions[c].testing)'
  BY <1>1, <1>2 DEF CoverInv, Covers
<1>6. QED
  BY <1>1, <1>2, <1>3, <1>4, <1>5 DEF CoverInv

\* Balancing takes no application out: one sample of each of its groups stays.
LEMMA BalanceCovers ==
  ASSUME SplitInv, MixedInv, CoverInv, Balance PROVE CoverInv'
<1> SUFFICES ASSUME CompleteRuns' PROVE CoverInv'
  BY DEF CoverInv
<1>1. /\ UNCHANGED <<samples, held_out, testing, conditions>>
      /\ pc = "balance" /\ pc' = "guard"
  BY DEF Balance, inputVars
<1>2. CompleteRuns /\ Labels' = Labels /\ (Divided' <=> Divided)
  BY <1>1, CoversStay
<1>3. Covers(training) /\ Covers(testing) /\ Divided /\ Labels # {}
  BY <1>1, <1>2 DEF CoverInv
<1>4. \A i \in training : GroupIn(training', i) # {}
  BY BalanceEvens DEF MixedInv, SplitInv
<1>5. ASSUME NEW app \in Labels PROVE \E i \in training' : samples[i].app = app
  <2>1. PICK i \in training : samples[i].app = app
    BY <1>3 DEF Covers
  <2>2. PICK k : k \in GroupIn(training', i)
    BY <1>4
  <2>3. QED
    BY <2>1, <2>2 DEF GroupIn
<1>6. Covers(training)' /\ Covers(testing)'
  <2>1. training' \subseteq training
    BY DEF Balance
  <2>2. QED
    BY <1>1, <1>2, <1>3, <1>5, <2>1 DEF Covers
<1>7. \A c \in DOMAIN conditions' :
        conditions'[c].labels = Labels' /\ Covers(conditions[c].testing)'
  BY <1>1, <1>2 DEF CoverInv, Covers
<1>8. QED
  BY <1>1, <1>2, <1>3, <1>6, <1>7 DEF CoverInv

LEMMA CheckLeakageCovers ==
  ASSUME SplitInv, MixedInv, CoverInv, CheckLeakage PROVE CoverInv'
<1>1. RunsIn(training) \cap RunsIn(testing) = {}
  BY DEF SplitInv, Apart, RunsIn
<1>2. /\ UNCHANGED <<samples, held_out, training, testing, centroids, conditions>>
      /\ pc = "guard" /\ pc' = "train"
  BY <1>1 DEF CheckLeakage, Goto, inputVars
<1>3. CompleteRuns => Labels # {}
  BY <1>2 DEF CoverInv
<1>4. QED
  BY <1>2, <1>3, CoverFrame

LEMMA TrainCovers ==
  ASSUME SplitInv, MixedInv, CoverInv, Train PROVE CoverInv'
<1> SUFFICES ASSUME CompleteRuns' PROVE CoverInv'
  BY DEF CoverInv
<1>1. /\ UNCHANGED <<samples, held_out, training, testing, conditions>>
      /\ pc = "train"
      /\ \/ training = {} /\ pc' = "failed"
         \/ pc' = "evaluate" /\ DOMAIN centroids' = {samples[i].app : i \in training}
  BY DEF Train, Goto, inputVars
<1>2. CompleteRuns /\ Labels' = Labels /\ (Divided' <=> Divided)
  BY <1>1, CoversStay
<1>3. Covers(training) /\ Labels # {}
  BY <1>1, <1>2 DEF CoverInv
<1>4. training # {}
  BY <1>3 DEF Covers
<1>5. {samples[i].app : i \in training} = Labels
  BY <1>3 DEF Covers, Labels
<1>6. pc' = "evaluate" /\ DOMAIN centroids' = Labels
  BY <1>1, <1>4, <1>5
<1>7. QED
  BY <1>1, <1>2, <1>3, <1>6, CoverFrame

LEMMA EvaluateCovers ==
  ASSUME SplitInv, MixedInv, CoverInv, Evaluate PROVE CoverInv'
<1> SUFFICES ASSUME CompleteRuns' PROVE CoverInv'
  BY DEF CoverInv
<1>1. /\ UNCHANGED <<samples, held_out, training, testing>> /\ pc = "evaluate"
      /\ \/ testing = {} /\ pc' = "failed"
         \/ pc' \in {"select", "done"} /\ conditions' = Append(conditions, Result)
  BY DEF Evaluate, Goto, inputVars
<1>2. CompleteRuns /\ Labels' = Labels /\ (Divided' <=> Divided)
  BY <1>1, CoversStay
<1>3. Covers(testing) /\ Labels # {} /\ Divided /\ DOMAIN centroids = Labels
  BY <1>1, <1>2 DEF CoverInv
<1>4. testing # {}
  BY <1>3 DEF Covers
<1>5. pc' \in {"select", "done"} /\ conditions' = Append(conditions, Result)
  BY <1>1, <1>4
<1>6. Result.labels = Labels /\ Result.testing = testing
  BY <1>3 DEF Result
<1> HIDE DEF Result
<1>7. PICK S : conditions \in Seq(S)
  BY DEF SplitInv
<1>8. conditions \in Seq(S \cup {Result})
  BY <1>7
<1>9. ASSUME NEW c \in DOMAIN conditions'
      PROVE  conditions'[c] = Result \/ (c \in DOMAIN conditions /\ conditions'[c] = conditions[c])
  BY <1>5, <1>8
<1>10. ASSUME NEW c \in DOMAIN conditions'
       PROVE  conditions'[c].labels = Labels' /\ Covers(conditions[c].testing)'
  <2>1. conditions'[c].labels = Labels /\ Covers(conditions'[c].testing)
    <3>1. CASE conditions'[c] = Result
      BY <1>3, <1>6, <3>1
    <3>2. CASE c \in DOMAIN conditions /\ conditions'[c] = conditions[c]
      BY <1>2, <3>2 DEF CoverInv
    <3>3. QED
      BY <1>9, <3>1, <3>2
  <2>2. QED
    BY <1>1, <1>2, <2>1 DEF Covers
<1>11. QED
  BY <1>1, <1>2, <1>3, <1>5, <1>10 DEF CoverInv

LEMMA CoverStep == SplitInv /\ MixedInv /\ CoverInv /\ [Next]_vars => CoverInv'
<1> SUFFICES ASSUME SplitInv, MixedInv, CoverInv, [Next]_vars PROVE CoverInv'
  OBVIOUS
<1>1. CASE UNCHANGED vars
  <2>1. UNCHANGED <<samples, held_out, training, testing, centroids, conditions, pc>>
    BY <1>1 DEF vars, inputVars
  <2>2. /\ CompleteRuns /\ pc \notin {"sources", "failed"} => Labels # {}
        /\ CompleteRuns /\ pc = "evaluate" => DOMAIN centroids = Labels
    BY DEF CoverInv
  <2>3. QED
    BY <2>1, <2>2, CoverFrame
<1>2. CASE Over
  BY <1>1, <1>2 DEF Over
<1>3. QED
  BY <1>1, <1>2, CheckSourcesCovers, HoldOutCovers, SelectCoversBoth, BalanceCovers,
     CheckLeakageCovers, TrainCovers, EvaluateCovers DEF Next

\* When runs are of one application and have both states, no experiment that was not
\* refused at its start fails later, and every condition trains on and tests every
\* application, for every list of samples (run_six_condition_experiment).
THEOREM CompleteRunsCover == Spec => []CompleteRunsCoverEveryApp
<1>1. SplitInv /\ MixedInv /\ CoverInv => CompleteRunsCoverEveryApp
  <2> SUFFICES ASSUME SplitInv, MixedInv, CoverInv, CompleteRuns
               PROVE  /\ pc = "failed" => held_out = {}
                      /\ \A c \in DOMAIN conditions :
                           /\ conditions[c].labels = Labels
                           /\ {samples[i].app : i \in conditions[c].testing} = Labels
    BY DEF CompleteRunsCoverEveryApp
  <2>1. pc = "failed" => held_out = {}
    BY DEF CoverInv
  <2>2. ASSUME NEW c \in DOMAIN conditions
        PROVE  /\ conditions[c].labels = Labels
               /\ {samples[i].app : i \in conditions[c].testing} = Labels
    <3>1. conditions[c].labels = Labels /\ Covers(conditions[c].testing)
      BY DEF CoverInv
    <3>2. QED
      BY <3>1 DEF Covers, Labels
  <2>3. QED
    BY <2>1, <2>2
<1> QED
  BY <1>1, CoverInit, CoverStep, MixedInit, MixedStep, SplitInvariance, PTL DEF Spec
-----------------------------------------------------------------------------
(* A report: the confusion matrix adds up to the test samples.             *)

\* The samples a cell of the confusion matrix counts, and those of its row and its column.
Cell(actual, predicted, a, p) == {i \in DOMAIN actual : actual[i] = a /\ predicted[i] = p}
With(label, l) == {i \in DOMAIN label : label[i] = l}

LabelsIn(actual, predicted) ==
  {actual[i] : i \in DOMAIN actual} \cup {predicted[i] : i \in DOMAIN actual}

Matrix(actual, predicted) ==
  [a \in LabelsIn(actual, predicted) |-> [p \in LabelsIn(actual, predicted) |->
     Cardinality(Cell(actual, predicted, a, p))]]

Precision(actual, predicted, l) ==
  Ratio(Cardinality(Cell(actual, predicted, l, l)), Cardinality(With(predicted, l)))
Recall(actual, predicted, l) ==
  Ratio(Cardinality(Cell(actual, predicted, l, l)), Cardinality(With(actual, l)))
F1(actual, predicted, l) ==
  HarmonicMean(Precision(actual, predicted, l), Recall(actual, predicted, l))

\* Two label vectors of the same samples, of which there are some.
Vectors(actual, predicted) ==
  /\ IsFiniteSet(DOMAIN actual) /\ DOMAIN actual # {} /\ DOMAIN predicted = DOMAIN actual

\* Only finitely many samples are counted.
LEMMA FiniteCounts ==
  ASSUME NEW actual, NEW predicted, Vectors(actual, predicted)
  PROVE  /\ IsFiniteSet(LabelsIn(actual, predicted)) /\ LabelsIn(actual, predicted) # {}
         /\ \A a, p : IsFiniteSet(Cell(actual, predicted, a, p))
         /\ \A l : IsFiniteSet(With(actual, l)) /\ IsFiniteSet(With(predicted, l))
<1>1. \A a, p : IsFiniteSet(Cell(actual, predicted, a, p))
  BY FS_Subset DEF Vectors, Cell
<1>2. \A l : IsFiniteSet(With(actual, l)) /\ IsFiniteSet(With(predicted, l))
  BY FS_Subset DEF Vectors, With
<1>3. ASSUME NEW label PROVE IsFiniteSet({label[i] : i \in DOMAIN actual})
  BY FiniteImage DEF Vectors
<1>4. IsFiniteSet(LabelsIn(actual, predicted))
  BY <1>3, FS_Union DEF LabelsIn
<1>5. LabelsIn(actual, predicted) # {}
  BY DEF LabelsIn, Vectors
<1>6. QED
  BY <1>1, <1>2, <1>4, <1>5

\* A row of the matrix adds up to the samples of its label, a column to the predictions
\* of it.
LEMMA Totals ==
  ASSUME NEW actual, NEW predicted, Vectors(actual, predicted),
         NEW l \in LabelsIn(actual, predicted)
  PROVE  LET matrix == Matrix(actual, predicted)
             labels == LabelsIn(actual, predicted)
         IN  /\ actual_total(matrix, labels, l) = Cardinality(With(actual, l))
             /\ predicted_total(matrix, labels, l) = Cardinality(With(predicted, l))
<1> DEFINE labels == LabelsIn(actual, predicted)
           matrix == Matrix(actual, predicted)
<1>1. IsFiniteSet(labels) /\ IsFiniteSet(With(actual, l)) /\ IsFiniteSet(With(predicted, l))
  BY FiniteCounts
<1>2. ASSUME NEW row, NEW class, IsFiniteSet(row), \A i \in row : class[i] \in labels
      PROVE  SumFunctionOnSet([k \in labels |-> Cardinality({i \in row : class[i] = k})], labels)
               = Cardinality(row)
  <2> HIDE DEF labels
  <2>1. QED
    BY <1>1, <1>2, SumOfClasses
<1>3. actual_total(matrix, labels, l) = Cardinality(With(actual, l))
  <2> DEFINE row == With(actual, l)
  <2>1. \A i \in row : predicted[i] \in labels
    BY DEF With, LabelsIn
  <2>2. \A k \in labels : matrix[l][k] = Cardinality({i \in row : predicted[i] = k})
    <3>1. TAKE k \in labels
    <3>2. Cell(actual, predicted, l, k) = {i \in row : predicted[i] = k}
      BY DEF Cell, With
    <3>3. QED
      BY <3>2 DEF Matrix
  <2>3. [k \in labels |-> matrix[l][k]] = [k \in labels |-> Cardinality({i \in row : predicted[i] = k})]
    BY <2>2
  <2>4. actual_total(matrix, labels, l) = SumFunctionOnSet([k \in labels |-> matrix[l][k]], labels)
    BY DEF actual_total, SumFunction
  <2>5. QED
    BY <1>1, <1>2, <2>1, <2>3, <2>4
<1>4. predicted_total(matrix, labels, l) = Cardinality(With(predicted, l))
  <2> DEFINE column == With(predicted, l)
  <2>1. \A i \in column : actual[i] \in labels
    BY DEF With, LabelsIn, Vectors
  <2>2. \A k \in labels : matrix[k][l] = Cardinality({i \in column : actual[i] = k})
    <3>1. TAKE k \in labels
    <3>2. Cell(actual, predicted, k, l) = {i \in column : actual[i] = k}
      BY DEF Cell, With, Vectors
    <3>3. QED
      BY <3>2 DEF Matrix
  <2>3. [k \in labels |-> matrix[k][l]] = [k \in labels |-> Cardinality({i \in column : actual[i] = k})]
    BY <2>2
  <2>4. predicted_total(matrix, labels, l) = SumFunctionOnSet([k \in labels |-> matrix[k][l]], labels)
    BY DEF predicted_total, SumFunction
  <2>5. QED
    BY <1>1, <1>2, <2>1, <2>3, <2>4
<1>5. QED
  BY <1>3, <1>4

\* What a report says, in terms of the samples.
LEMMA ReportFields ==
  ASSUME NEW actual, NEW predicted, Vectors(actual, predicted)
  PROVE  LET report == calculate_metrics(actual, predicted)
             labels == LabelsIn(actual, predicted)
         IN  /\ report.labels = labels
             /\ report.accuracy[1] = Cardinality({i \in DOMAIN actual : actual[i] = predicted[i]})
             /\ \A l \in labels :
                  /\ report.per_class[l].support = Cardinality(With(actual, l))
                  /\ report.per_class[l].precision = Precision(actual, predicted, l)
                  /\ report.per_class[l].recall = Recall(actual, predicted, l)
                  /\ report.per_class[l].f1 = F1(actual, predicted, l)
             /\ report.macro_f1 = Mean([l \in labels |-> F1(actual, predicted, l)])
<1> DEFINE report == calculate_metrics(actual, predicted)
           labels == LabelsIn(actual, predicted)
           matrix == Matrix(actual, predicted)
           precision(l) == Ratio(matrix[l][l], predicted_total(matrix, labels, l))
           recall(l) == Ratio(matrix[l][l], actual_total(matrix, labels, l))
<1>1. /\ report.labels = labels
      /\ report.accuracy[1] = Cardinality({i \in DOMAIN actual : actual[i] = predicted[i]})
  BY DEF calculate_metrics, LabelsIn
<1>2. /\ report.per_class = [l \in labels |->
            [precision |-> precision(l), recall |-> recall(l),
             f1 |-> HarmonicMean(precision(l), recall(l)),
             support |-> actual_total(matrix, labels, l)]]
      /\ report.macro_f1 = Mean([l \in labels |-> HarmonicMean(precision(l), recall(l))])
  BY DEF calculate_metrics, LabelsIn, Matrix, Cell
<1>3. ASSUME NEW l \in labels
      PROVE  /\ precision(l) = Precision(actual, predicted, l)
             /\ recall(l) = Recall(actual, predicted, l)
             /\ actual_total(matrix, labels, l) = Cardinality(With(actual, l))
  BY Totals DEF Precision, Recall, Matrix
<1>4. [l \in labels |-> HarmonicMean(precision(l), recall(l))] =
        [l \in labels |-> F1(actual, predicted, l)]
  BY <1>3 DEF F1
<1>5. QED
  <2> HIDE DEF precision, recall, report, labels, matrix
  <2>1. \A l \in labels : F1(actual, predicted, l) = HarmonicMean(precision(l), recall(l))
    BY <1>3 DEF F1
  <2>2. QED
    BY <1>1, <1>2, <1>3, <1>4, <2>1 DEF report, labels

\* A fraction between zero and one.
IsShare(x) == 0 <= x[1] /\ x[1] <= x[2] /\ 0 < x[2]

\* A cell of the diagonal counts no more than its row and its column.
LEMMA CellWithin ==
  ASSUME NEW actual, NEW predicted, Vectors(actual, predicted), NEW l
  PROVE  LET tp == Cardinality(Cell(actual, predicted, l, l))
             p  == Cardinality(With(predicted, l))
             a  == Cardinality(With(actual, l))
         IN  /\ tp \in Nat /\ p \in Nat /\ a \in Nat /\ tp <= p /\ tp <= a
             /\ tp = p <=> Cell(actual, predicted, l, l) = With(predicted, l)
             /\ tp = a <=> Cell(actual, predicted, l, l) = With(actual, l)
             /\ a = 0 <=> With(actual, l) = {}
             /\ p = 0 <=> With(predicted, l) = {}
<1>1. /\ IsFiniteSet(Cell(actual, predicted, l, l))
      /\ IsFiniteSet(With(actual, l)) /\ IsFiniteSet(With(predicted, l))
  BY FiniteCounts
<1>2. Cell(actual, predicted, l, l) \subseteq With(actual, l)
  BY DEF Cell, With
<1>3. Cell(actual, predicted, l, l) \subseteq With(predicted, l)
  BY DEF Cell, With, Vectors
<1>4. \A S, T : IsFiniteSet(T) /\ S \subseteq T =>
        Cardinality(S) \in Nat /\ Cardinality(T) \in Nat /\ Cardinality(S) <= Cardinality(T)
          /\ (Cardinality(S) = Cardinality(T) <=> S = T)
  BY FS_Subset, FS_CardinalityType
<1>5. \A T : IsFiniteSet(T) => (Cardinality(T) = 0 <=> T = {})
  BY FS_EmptySet
<1>6. QED
  BY <1>1, <1>2, <1>3, <1>4, <1>5

\* No figure of a label exceeds one, and its F1 is one only if it is never mistaken.
LEMMA Figures ==
  ASSUME NEW tp \in Nat, NEW p \in Nat, NEW a \in Nat, tp <= p, tp <= a
  PROVE  LET precision == Ratio(tp, p)
             recall == Ratio(tp, a)
             f1 == HarmonicMean(precision, recall)
         IN  /\ IsShare(precision) /\ IsShare(recall) /\ IsShare(f1)
             /\ recall[1] = tp
             /\ f1[1] \in Int /\ f1[2] \in Int
             /\ f1[1] = f1[2] <=> tp = p /\ tp = a /\ tp > 0
<1> DEFINE precision == Ratio(tp, p)
           recall == Ratio(tp, a)
           f1 == HarmonicMean(precision, recall)
<1>1. CASE tp = 0
  <2>1. precision[1] = 0 /\ recall[1] = 0 /\ precision[2] > 0 /\ recall[2] > 0
        /\ precision[2] \in Nat /\ recall[2] \in Nat
    BY <1>1 DEF Ratio, Zero
  <2>2. f1 = <<0, 1>>
    <3> HIDE DEF precision, recall
    <3>1. QED
      BY <2>1 DEF HarmonicMean, Zero
  <2>3. QED
    <3> HIDE DEF precision, recall, f1
    <3>1. /\ IsShare(precision) /\ IsShare(recall) /\ IsShare(f1)
      BY <2>1, <2>2 DEF IsShare
    <3>2. QED
      BY <1>1, <2>1, <2>2, <3>1 DEF precision, recall, f1
<1>2. CASE tp > 0
  <2>1. precision = <<tp, p>> /\ recall = <<tp, a>>
    BY <1>2 DEF Ratio
  <2>2. f1 = <<2 * tp * tp, tp * a + tp * p>>
    <3> HIDE DEF precision, recall
    <3>1. QED
      BY <1>2, <2>1 DEF HarmonicMean
  <2>3. /\ tp * tp \in Nat /\ tp * a \in Nat /\ tp * p \in Nat
        /\ 2 * tp * tp = tp * tp + tp * tp
        /\ tp * tp > 0
    BY <1>2
  <2>4. tp * tp <= tp * a /\ tp * tp <= tp * p
    BY <1>2
  <2>5. (tp * tp = tp * a => tp = a) /\ (tp * tp = tp * p => tp = p)
    BY <1>2
  <2>6. f1[1] = tp * tp + tp * tp /\ f1[2] = tp * a + tp * p
    <3> HIDE DEF f1
    <3>1. QED
      BY <2>2, <2>3
  <2>7. IsShare(f1) /\ f1[1] \in Int /\ f1[2] \in Int
    <3> HIDE DEF f1
    <3>1. QED
      BY <2>3, <2>4, <2>6 DEF IsShare
  <2>8. f1[1] = f1[2] <=> tp = p /\ tp = a
    <3> HIDE DEF f1
    <3>1. ASSUME f1[1] = f1[2] PROVE tp = p /\ tp = a
      <4>1. tp * tp = tp * a /\ tp * tp = tp * p
        BY <2>3, <2>4, <2>6, <3>1
      <4>2. QED
        BY <2>5, <4>1
    <3>2. ASSUME tp = p, tp = a PROVE f1[1] = f1[2]
      BY <2>6, <3>2
    <3>3. QED
      BY <3>1, <3>2
  <2>9. IsShare(precision) /\ IsShare(recall) /\ recall[1] = tp
    BY <1>2, <2>1 DEF IsShare
  <2>10. QED
    BY <1>2, <2>7, <2>8, <2>9
<1>3. QED
  BY <1>1, <1>2

\* The sum of the means, as a function over the subsets of the labels.
Summing(value, L) == [l \in L |-> [v \in Int \X Int |-> Plus(value[l], v)]]

\* What the definition of a mean picks by CHOOSE is the only such function.
LEMMA MeanIsFold ==
  ASSUME NEW L, IsFiniteSet(L), NEW value, DOMAIN value = L,
         \A l \in L : value[l][1] \in Int /\ value[l][2] \in Int,
         NEW g, IsFold(g, L, Int \X Int, Zero, Any(L), Summing(value, L))
  PROVE  FoldFunction(Plus, Zero, value) = g[L]
<1> DEFINE Body(it) == [s \in SUBSET L |-> IF s = {} THEN Zero
                          ELSE Plus(value[CHOOSE x \in s : TRUE], it[s \ {CHOOSE x \in s : TRUE}])]
           iter == CHOOSE it : it = Body(it)
<1>1. FoldFunction(Plus, Zero, value) = iter[L]
  BY DEF FoldFunction, FoldFunctionOnSet, MapThenFoldSet
<1>2. g = Body(g)
  <2>1. g \in [SUBSET L -> Int \X Int]
    BY DEF IsFold
  <2>2. \A s \in SUBSET L : g[s] = Body(g)[s]
    <3>1. TAKE s \in SUBSET L
    <3>2. CASE s = {}
      BY <3>2 DEF IsFold
    <3>3. CASE s # {}
      <4> DEFINE x == CHOOSE x \in s : TRUE
      <4>1. x \in L /\ x = Any(L)[s] /\ g[s \ {x}] \in Int \X Int
        BY <2>1, <3>3 DEF Any
      <4>2. g[s] = Summing(value, L)[x][g[s \ {x}]]
        <5> HIDE DEF x
        <5>1. QED
          BY <3>3, <4>1 DEF IsFold
      <4>3. g[s] = Plus(value[x], g[s \ {x}])
        <5> HIDE DEF x
        <5>1. QED
          BY <4>1, <4>2 DEF Summing
      <4>4. QED
        BY <3>3, <4>3
    <3>4. QED
      BY <3>2, <3>3
  <2>3. QED
    <3> HIDE DEF Zero, Plus
    <3>1. QED
      BY <2>1, <2>2
<1>3. iter = Body(iter)
  <2> HIDE DEF Body
  <2>1. QED
    BY <1>2
<1>4. iter = g
  <2> DEFINE T == {s \in SUBSET L : iter[s] = g[s]}
             pick == Any(L)
  <2>1. \A s \in SUBSET L : s # {} => pick[s] \in s
    BY AnyIsAny
  <2>2. {} \in T
    <3> HIDE DEF iter
    <3>1. QED
      BY <1>2, <1>3
  <2>3. ASSUME NEW s \in SUBSET L, s # {}, s \ {pick[s]} \in T PROVE s \in T
    <3> HIDE DEF iter
    <3>1. iter[s] = Plus(value[pick[s]], iter[s \ {pick[s]}])
      BY <1>3, <2>3 DEF Any
    <3>2. g[s] = Plus(value[pick[s]], g[s \ {pick[s]}])
      BY <1>2, <2>3 DEF Any
    <3>3. iter[s \ {pick[s]}] = g[s \ {pick[s]}]
      BY <2>3
    <3>4. iter[s] = g[s]
      BY ONLY <3>1, <3>2, <3>3
    <3>5. QED
      BY <3>4
  <2>4. \A s \in SUBSET L : s \in T
    <3> HIDE DEF T, pick
    <3>1. \A s \in SUBSET L : s # {} /\ s \ {pick[s]} \in T => s \in T
      BY ONLY <2>3
    <3>2. QED
      BY ONLY IsFiniteSet(L), <2>1, <2>2, <3>1, InductionOnSubsets, SMTT(30)
  <2>5. QED
    <3> HIDE DEF iter
    <3>1. QED
      BY <1>2, <1>3, <2>4
<1>5. QED
  <2> HIDE DEF iter
  <2>1. QED
    BY <1>1, <1>4

\* One more fraction in a sum of fractions that are at most one each.
LEMMA OneMore ==
  ASSUME NEW n \in Int, NEW d \in Int, 0 <= n, n <= d, 0 < d,
         NEW a \in Int, NEW b \in Int, NEW k \in Nat, 0 < b, a <= b * k
  PROVE  LET sum == Plus(<<n, d>>, <<a, b>>)
         IN  /\ sum[1] \in Int /\ sum[2] \in Int /\ 0 < sum[2]
             /\ sum[1] <= sum[2] * (k + 1)
             /\ sum[1] = sum[2] * (k + 1) <=> n = d /\ a = b * k
<1> DEFINE u == d - n
           v == b * k - a
<1>1. Plus(<<n, d>>, <<a, b>>) = <<n * b + a * d, d * b>>
  BY DEF Plus
<1>2. n * b + a * d \in Int /\ d * b \in Int /\ 0 < d * b
  OBVIOUS
<1>3. u \in Nat /\ v \in Nat /\ n = d - u /\ a = b * k - v
  OBVIOUS
<1> HIDE DEF u, v
<1>4. (d * b) * (k + 1) - (n * b + a * d) = u * b + v * d
  BY <1>3
<1>5. u * b \in Nat /\ v * d \in Nat
  BY <1>3
<1>6. u * b = 0 <=> u = 0
  BY <1>3
<1>7. v * d = 0 <=> v = 0
  BY <1>3
<1>8. (d * b) * (k + 1) \in Int
  BY <1>2
<1>9. n * b + a * d <= (d * b) * (k + 1)
  BY <1>2, <1>4, <1>5, <1>8
<1>10. n * b + a * d = (d * b) * (k + 1) <=> u = 0 /\ v = 0
  BY <1>2, <1>4, <1>5, <1>6, <1>7, <1>8
<1>11. u = 0 <=> n = d
  BY DEF u
<1>12. v = 0 <=> a = b * k
  BY DEF v
<1>13. QED
  BY <1>1, <1>2, <1>9, <1>10, <1>11, <1>12

\* A mean of fractions that are at most one is one only if each of them is.
LEMMA MeanOfOnes ==
  ASSUME NEW L, IsFiniteSet(L), L # {}, NEW value, DOMAIN value = L,
         \A l \in L : /\ value[l] = <<value[l][1], value[l][2]>>
                     /\ value[l][1] \in Int /\ value[l][2] \in Int /\ IsShare(value[l])
  PROVE  SameFraction(Mean(value), <<1, 1>>) <=> \A l \in L : value[l][1] = value[l][2]
<1> DEFINE V == Int \X Int
           op == Summing(value, L)
           pick == Any(L)
<1>1. Zero \in V /\ \A x \in L : \A v \in V : op[x][v] \in V
  BY DEF Zero, Summing, Plus
<1>2. \A s \in SUBSET L : s # {} => pick[s] \in s
  BY AnyIsAny
<1>3. PICK g : IsFold(g, L, V, Zero, pick, op)
  <2> HIDE DEF V, op, pick, Zero
  <2>1. QED
    BY <1>1, <1>2, FoldExists
<1>4. FoldFunction(Plus, Zero, value) = g[L]
  <2>1. IsFold(g, L, Int \X Int, Zero, Any(L), Summing(value, L))
    BY <1>3
  <2>2. QED
    BY <2>1, MeanIsFold
<1>5. \A s \in SUBSET L : IsFiniteSet(s) /\ Cardinality(s) \in Nat
  BY FS_Subset, FS_CardinalityType
<1> DEFINE Bounded(s) == /\ g[s] = <<g[s][1], g[s][2]>>
                         /\ g[s][1] \in Int /\ g[s][2] \in Int /\ 0 < g[s][2]
                         /\ g[s][1] <= g[s][2] * Cardinality(s)
                         /\ g[s][1] = g[s][2] * Cardinality(s) <=>
                              \A l \in s : value[l][1] = value[l][2]
           T == {s \in SUBSET L : Bounded(s)}
<1>6. {} \in T
  <2>1. g[{}] = <<0, 1>>
    BY <1>3 DEF IsFold, Zero
  <2>2. Cardinality({}) = 0
    BY FS_EmptySet
  <2>3. Bounded({})
    BY <2>1, <2>2
  <2>4. QED
    BY <2>3
<1>7. ASSUME NEW s \in SUBSET L, s # {}, s \ {pick[s]} \in T PROVE s \in T
  <2> DEFINE x == pick[s]
             r == s \ {x}
             k == Cardinality(r)
  <2>1. x \in s /\ x \in L /\ r \in SUBSET L
    BY <1>2, <1>7
  <2>2. k \in Nat /\ Cardinality(s) = k + 1
    BY <1>5, <2>1, OneLess
  <2>3. Bounded(r)
    BY <1>7
  <2>4. g[s] = Plus(value[x], g[r])
    <3>1. g[s] = op[x][g[r]] /\ g[r] \in V
      <4> HIDE DEF op, pick, V, Zero
      <4>1. QED
        BY <1>3, <1>7, <2>1 DEF IsFold
    <3>2. QED
      <4> HIDE DEF x, r
      <4>1. QED
        BY <2>1, <3>1 DEF Summing
  <2> DEFINE n == value[x][1]
             d == value[x][2]
             a == g[r][1]
             b == g[r][2]
  <2>5. /\ n \in Int /\ d \in Int /\ 0 <= n /\ n <= d /\ 0 < d
        /\ value[x] = <<n, d>>
    BY <2>1 DEF IsShare
  <2>6. /\ a \in Int /\ b \in Int /\ 0 < b /\ a <= b * k /\ g[r] = <<a, b>>
        /\ a = b * k <=> \A l \in r : value[l][1] = value[l][2]
    BY <2>3
  <2> HIDE DEF n, d, a, b, k, r, x
  <2>7. /\ g[s][1] \in Int /\ g[s][2] \in Int /\ 0 < g[s][2]
        /\ g[s][1] <= g[s][2] * (k + 1)
        /\ g[s][1] = g[s][2] * (k + 1) <=> n = d /\ a = b * k
    BY <2>2, <2>4, <2>5, <2>6, OneMore
  <2>8. g[s] = <<g[s][1], g[s][2]>>
    BY <2>4, <2>5, <2>6 DEF Plus
  <2>9. (\A l \in s : value[l][1] = value[l][2]) <=>
          n = d /\ \A l \in r : value[l][1] = value[l][2]
    BY <2>1 DEF r, n, d
  <2>10. Bounded(s)
    BY <2>2, <2>6, <2>7, <2>8, <2>9
  <2>11. QED
    BY <2>10
<1>8. \A s \in SUBSET L : s \in T
  <2> HIDE DEF T, pick
  <2>1. QED
    BY <1>2, <1>6, <1>7, InductionOnSubsets
<1>9. Bounded(L)
  BY <1>8
<1>10. Mean(value) = <<g[L][1], g[L][2] * Cardinality(L)>>
  BY <1>4 DEF Mean
<1>11. g[L][2] * Cardinality(L) \in Int
  BY <1>5, <1>9
<1>12. QED
  BY <1>9, <1>10, <1>11 DEF SameFraction

\* What one report says of the test samples agrees with itself and with them.
LEMMA ReportIsTrue ==
  ASSUME NEW actual, NEW predicted, Vectors(actual, predicted)
  PROVE  LET report == calculate_metrics(actual, predicted)
             class  == report.per_class
             mirror == calculate_metrics(predicted, actual)
         IN  /\ \A l \in report.labels :
                  /\ class[l].support = Cardinality(With(actual, l))
                  /\ SameFraction(class[l].precision, mirror.per_class[l].recall)
                  /\ IsShare(class[l].precision) /\ IsShare(class[l].recall) /\ IsShare(class[l].f1)
             /\ SumFunction([l \in report.labels |-> class[l].support]) = Cardinality(DOMAIN actual)
             /\ report.accuracy[1] = SumFunction([l \in report.labels |-> class[l].recall[1]])
             /\ SameFraction(report.macro_f1, <<1, 1>>) <=>
                  \A i \in DOMAIN actual : predicted[i] = actual[i]
<1> DEFINE report == calculate_metrics(actual, predicted)
           class  == report.per_class
           mirror == calculate_metrics(predicted, actual)
           L == LabelsIn(actual, predicted)
           R == DOMAIN actual
           tp(l) == Cardinality(Cell(actual, predicted, l, l))
           p(l) == Cardinality(With(predicted, l))
           a(l) == Cardinality(With(actual, l))
<1>1. /\ report.labels = L
      /\ report.accuracy[1] = Cardinality({i \in R : actual[i] = predicted[i]})
      /\ report.macro_f1 = Mean([l \in L |-> F1(actual, predicted, l)])
  BY ReportFields
<1>2. ASSUME NEW l \in L
      PROVE  /\ class[l].support = a(l)
             /\ class[l].precision = Precision(actual, predicted, l)
             /\ class[l].recall = Recall(actual, predicted, l)
             /\ class[l].f1 = F1(actual, predicted, l)
  BY ReportFields
<1>3. ASSUME NEW l \in L PROVE mirror.per_class[l].recall = Precision(actual, predicted, l)
  <2>1. Vectors(predicted, actual) /\ l \in LabelsIn(predicted, actual)
    BY DEF Vectors, LabelsIn
  <2>2. mirror.per_class[l].recall = Recall(predicted, actual, l)
    BY <2>1, ReportFields
  <2>3. Cell(predicted, actual, l, l) = Cell(actual, predicted, l, l)
    BY DEF Cell, Vectors
  <2>4. QED
    BY <2>2, <2>3 DEF Recall, Precision
<1>4. ASSUME NEW l
      PROVE  /\ tp(l) \in Nat /\ p(l) \in Nat /\ a(l) \in Nat /\ tp(l) <= p(l) /\ tp(l) <= a(l)
             /\ tp(l) = p(l) <=> Cell(actual, predicted, l, l) = With(predicted, l)
             /\ tp(l) = a(l) <=> Cell(actual, predicted, l, l) = With(actual, l)
             /\ a(l) = 0 <=> With(actual, l) = {}
  BY CellWithin
<1>5. ASSUME NEW l
      PROVE  /\ IsShare(Precision(actual, predicted, l)) /\ IsShare(Recall(actual, predicted, l))
             /\ IsShare(F1(actual, predicted, l))
             /\ Recall(actual, predicted, l)[1] = tp(l)
             /\ F1(actual, predicted, l)[1] \in Int /\ F1(actual, predicted, l)[2] \in Int
             /\ F1(actual, predicted, l)[1] = F1(actual, predicted, l)[2]
                  <=> tp(l) = p(l) /\ tp(l) = a(l) /\ tp(l) > 0
  <2> DEFINE n == tp(l)
             m == p(l)
             k == a(l)
  <2>1. n \in Nat /\ m \in Nat /\ k \in Nat /\ n <= m /\ n <= k
    BY <1>4
  <2>2. /\ Precision(actual, predicted, l) = Ratio(n, m) /\ Recall(actual, predicted, l) = Ratio(n, k)
        /\ F1(actual, predicted, l) = HarmonicMean(Ratio(n, m), Ratio(n, k))
    BY DEF Precision, Recall, F1
  <2> HIDE DEF n, m, k
  <2>3. LET f1 == HarmonicMean(Ratio(n, m), Ratio(n, k))
        IN  /\ IsShare(Ratio(n, m)) /\ IsShare(Ratio(n, k)) /\ IsShare(f1)
            /\ Ratio(n, k)[1] = n
            /\ f1[1] \in Int /\ f1[2] \in Int
            /\ f1[1] = f1[2] <=> n = m /\ n = k /\ n > 0
    BY <2>1, Figures
  <2>4. QED
    BY <2>2, <2>3 DEF n, m, k
<1>6. IsFiniteSet(L) /\ L # {} /\ IsFiniteSet(R)
  BY FiniteCounts DEF Vectors
<1>7. SumFunction([l \in L |-> class[l].support]) = Cardinality(R)
  <2>1. [l \in L |-> class[l].support] = [l \in L |-> Cardinality({i \in R : actual[i] = l})]
    <3>1. \A l \in L : class[l].support = Cardinality({i \in R : actual[i] = l})
      BY <1>2 DEF With
    <3>2. QED
      BY <3>1
  <2>2. \A i \in R : actual[i] \in L
    BY DEF LabelsIn
  <2>3. SumFunctionOnSet([l \in L |-> Cardinality({i \in R : actual[i] = l})], L) = Cardinality(R)
    <3> HIDE DEF L, R
    <3>1. QED
      BY <1>6, <2>2, SumOfClasses
  <2>4. QED
    BY <2>1, <2>3 DEF SumFunction
<1>8. report.accuracy[1] = SumFunction([l \in L |-> class[l].recall[1]])
  <2> DEFINE Right == {i \in R : actual[i] = predicted[i]}
  <2>1. \A l \in L : class[l].recall[1] = Cardinality({i \in Right : actual[i] = l})
    <3>1. TAKE l \in L
    <3>2. Cell(actual, predicted, l, l) = {i \in Right : actual[i] = l}
      BY DEF Cell
    <3>3. QED
      BY <1>2, <1>5, <3>2
  <2>2. [l \in L |-> class[l].recall[1]] = [l \in L |-> Cardinality({i \in Right : actual[i] = l})]
    BY <2>1
  <2>3. IsFiniteSet(Right) /\ \A i \in Right : actual[i] \in L
    BY <1>6, FS_Subset DEF LabelsIn
  <2>4. SumFunctionOnSet([l \in L |-> Cardinality({i \in Right : actual[i] = l})], L) = Cardinality(Right)
    <3> HIDE DEF L, Right
    <3>1. QED
      BY <1>6, <2>3, SumOfClasses
  <2>5. QED
    BY <1>1, <2>2, <2>4 DEF SumFunction
<1>9. SameFraction(report.macro_f1, <<1, 1>>) <=> \A i \in R : predicted[i] = actual[i]
  <2> DEFINE value == [l \in L |-> F1(actual, predicted, l)]
  <2>1. ASSUME NEW l \in L
        PROVE  value[l] = <<value[l][1], value[l][2]>>
    <3>1. \A x, y : HarmonicMean(x, y) = <<HarmonicMean(x, y)[1], HarmonicMean(x, y)[2]>>
      BY DEF HarmonicMean, Zero
    <3>2. QED
      BY <3>1 DEF F1
  <2>2. SameFraction(Mean(value), <<1, 1>>) <=> \A l \in L : value[l][1] = value[l][2]
    <3>1. \A l \in L : value[l][1] \in Int /\ value[l][2] \in Int /\ IsShare(value[l])
      BY <1>5
    <3>2. DOMAIN value = L
      OBVIOUS
    <3> HIDE DEF value, L
    <3>3. QED
      BY <1>6, <2>1, <3>1, <3>2, MeanOfOnes
  <2>3. (\A l \in L : value[l][1] = value[l][2]) <=>
          \A l \in L : tp(l) = p(l) /\ tp(l) = a(l) /\ tp(l) > 0
    BY <1>5
  <2>4. ASSUME \A l \in L : tp(l) = p(l) /\ tp(l) = a(l) /\ tp(l) > 0, NEW i \in R
        PROVE  predicted[i] = actual[i]
    <3>1. actual[i] \in L /\ i \in With(actual, actual[i])
      BY DEF LabelsIn, With
    <3>2. Cell(actual, predicted, actual[i], actual[i]) = With(actual, actual[i])
      BY <1>4, <2>4, <3>1
    <3>3. QED
      BY <3>1, <3>2 DEF Cell
  <2>5. ASSUME \A i \in R : predicted[i] = actual[i], NEW l \in L
        PROVE  tp(l) = p(l) /\ tp(l) = a(l) /\ tp(l) > 0
    <3>1. /\ Cell(actual, predicted, l, l) = With(actual, l)
          /\ Cell(actual, predicted, l, l) = With(predicted, l)
      BY <2>5 DEF Cell, With, Vectors
    <3>2. With(actual, l) # {}
      BY <2>5 DEF LabelsIn, With
    <3>3. tp(l) = p(l) /\ tp(l) = a(l)
      BY <1>4, <3>1
    <3>4. a(l) \in Nat /\ a(l) # 0
      BY <1>4, <3>2
    <3>5. QED
      BY <3>3, <3>4
  <2>6. QED
    BY <1>1, <2>2, <2>3, <2>4, <2>5
<1>10. QED
  <2>1. ASSUME NEW l \in report.labels
        PROVE  /\ class[l].support = Cardinality(With(actual, l))
               /\ SameFraction(class[l].precision, mirror.per_class[l].recall)
               /\ IsShare(class[l].precision) /\ IsShare(class[l].recall) /\ IsShare(class[l].f1)
    <3>1. l \in L
      BY <1>1
    <3>2. SameFraction(class[l].precision, mirror.per_class[l].recall)
      BY <1>2, <1>3, <3>1 DEF SameFraction
    <3>3. QED
      BY <1>2, <1>5, <3>1, <3>2
  <2>2. QED
    <3> HIDE DEF class, report, mirror, L
    <3>1. QED
      BY <1>1, <1>7, <1>8, <1>9, <2>1 DEF class, report, mirror
-----------------------------------------------------------------------------
(* Predictions are labels the classifier was trained on.                   *)

\* One centroid is at least as good as another for sample i: nearer, or as near and
\* earlier in the map.
Better(i, label, other) ==
  \/ Distance(i, label, other) < Distance(i, other, label)
  \/ Distance(i, label, other) = Distance(i, other, label) /\ label <= other

\* Comparing fractions by cross-multiplication is transitive.
LEMMA CrossLess ==
  ASSUME NEW d1 \in Nat, NEW d2 \in Nat, NEW d3 \in Nat,
         NEW c1 \in Nat \ {0}, NEW c2 \in Nat \ {0}, NEW c3 \in Nat \ {0},
         d1 * c2 <= d2 * c1, d2 * c3 <= d3 * c2
  PROVE  /\ d1 * c3 <= d3 * c1
         /\ d1 * c3 = d3 * c1 => d1 * c2 = d2 * c1 /\ d2 * c3 = d3 * c2
<1> DEFINE u == d2 * c1 - d1 * c2
           v == d3 * c2 - d2 * c3
           w == d3 * c1 - d1 * c3
<1>1. u \in Nat /\ v \in Nat /\ w \in Int
  OBVIOUS
<1>2. w * c2 = c1 * v + c3 * u
  OBVIOUS
<1>3. /\ u = 0 => d1 * c2 = d2 * c1
      /\ v = 0 => d2 * c3 = d3 * c2
      /\ w >= 0 => d1 * c3 <= d3 * c1
      /\ d1 * c3 = d3 * c1 => w = 0
  OBVIOUS
<1> HIDE DEF u, v, w
<1>4. c1 * v \in Nat /\ c3 * u \in Nat
  BY <1>1
<1>5. w >= 0
  <2>1. SUFFICES ASSUME w < 0 PROVE FALSE
    BY <1>1
  <2>2. w * c2 < 0
    BY <1>1, <2>1
  <2>3. QED
    BY <1>2, <1>4, <2>2
<1>6. ASSUME w = 0 PROVE u = 0 /\ v = 0
  <2>1. c1 * v = 0 /\ c3 * u = 0
    BY <1>2, <1>4, <1>6
  <2>2. QED
    BY <1>1, <2>1
<1>7. QED
  BY <1>3, <1>5, <1>6

Trained(label) == centroids[label] \in [sum: Int, count: Nat \ {0}]

\* Whatever the centroids, one of them is as good as every other.
LEMMA BestExists ==
  ASSUME NEW D, IsFiniteSet(D), D # {}, D \subseteq Int, \A label \in D : Trained(label),
         NEW i, samples[i].predictor \in Int
  PROVE  \E label \in D : \A other \in D : Better(i, label, other)
<1> DEFINE gap(label) == samples[i].predictor * centroids[label].count - centroids[label].sum
           far == [label \in D |-> IF gap(label) < 0 THEN -gap(label) ELSE gap(label)]
           size == [label \in D |-> centroids[label].count]
           T == {s \in SUBSET D :
                   s # {} => \E label \in s : \A other \in s : Better(i, label, other)}
<1>1. \A label \in D : far[label] \in Nat /\ size[label] \in Nat \ {0}
  <2>1. TAKE label \in D
  <2>2. centroids[label].count \in Nat \ {0} /\ centroids[label].sum \in Int
    BY DEF Trained
  <2>3. samples[i].predictor * centroids[label].count \in Int
    BY <2>2
  <2>4. gap(label) \in Int
    BY <2>2, <2>3
  <2>5. QED
    BY <2>2, <2>4
<1>2. \A label, other \in D : Distance(i, label, other) = far[label] * size[other]
  BY DEF Distance
<1> HIDE DEF far, size
<1>3. \A label, other \in D : Better(i, label, other) <=>
        \/ far[label] * size[other] < far[other] * size[label]
        \/ far[label] * size[other] = far[other] * size[label] /\ label <= other
  BY <1>2 DEF Better
<1>4. ASSUME NEW x \in D, NEW y \in D PROVE far[x] * size[y] \in Int /\ x \in Int
  <2>1. far[x] \in Nat /\ size[y] \in Nat
    BY <1>1
  <2>2. far[x] * size[y] \in Int
    BY ONLY <2>1
  <2>3. QED
    BY ONLY <2>2, x \in D, D \subseteq Int
<1>5. ASSUME NEW x \in D PROVE Better(i, x, x)
  BY <1>1, <1>3
<1>6. ASSUME NEW x \in D, NEW y \in D PROVE Better(i, x, y) \/ Better(i, y, x)
  <2>1. far[x] * size[y] \in Int /\ x \in Int
    BY <1>4
  <2>2. far[y] * size[x] \in Int /\ y \in Int
    BY <1>4
  <2>3. QED
    BY ONLY <1>3, <2>1, <2>2, x \in D, y \in D
<1>7. ASSUME NEW x \in D, NEW y \in D, NEW z \in D, Better(i, x, y), Better(i, y, z)
      PROVE  Better(i, x, z)
  <2>1. /\ far[x] * size[y] \in Int /\ far[y] * size[x] \in Int
        /\ far[y] * size[z] \in Int /\ far[z] * size[y] \in Int
        /\ far[x] * size[z] \in Int /\ far[z] * size[x] \in Int
        /\ x \in Int /\ y \in Int /\ z \in Int
    BY <1>4
  <2>2. /\ \/ far[x] * size[y] < far[y] * size[x]
           \/ far[x] * size[y] = far[y] * size[x] /\ x <= y
        /\ \/ far[y] * size[z] < far[z] * size[y]
           \/ far[y] * size[z] = far[z] * size[y] /\ y <= z
    BY <1>3, <1>7
  <2>3. far[x] * size[y] <= far[y] * size[x] /\ far[y] * size[z] <= far[z] * size[y]
    BY ONLY <2>1, <2>2
  <2>4. /\ far[x] * size[z] <= far[z] * size[x]
        /\ far[x] * size[z] = far[z] * size[x] =>
             far[x] * size[y] = far[y] * size[x] /\ far[y] * size[z] = far[z] * size[y]
    BY <1>1, <2>3, CrossLess
  <2>5. \/ far[x] * size[z] < far[z] * size[x]
        \/ far[x] * size[z] = far[z] * size[x] /\ x <= z
    BY ONLY <2>1, <2>2, <2>4
  <2>6. QED
    BY <1>3, <2>5
<1>8. {} \in T
  OBVIOUS
<1>9. ASSUME NEW s \in SUBSET D, NEW x \in s, s \ {x} \in T PROVE s \in T
  <2>1. SUFFICES \E label \in s : \A other \in s : Better(i, label, other)
    OBVIOUS
  <2>2. CASE s \ {x} = {}
    BY <1>5, <2>2
  <2>3. CASE s \ {x} # {}
    <3>1. PICK best \in s \ {x} : \A other \in s \ {x} : Better(i, best, other)
      BY <1>9, <2>3
    <3>2. CASE Better(i, best, x)
      BY <3>1, <3>2
    <3>3. CASE Better(i, x, best)
      <4>1. \A other \in s : Better(i, x, other)
        BY <1>5, <1>7, <3>1, <3>3
      <4>2. QED
        BY <4>1
    <3>4. QED
      BY <1>6, <3>1, <3>2, <3>3
  <2>4. QED
    BY <2>2, <2>3
<1>10. D \in T
  <2> HIDE DEF T
  <2>1. QED
    BY <1>8, <1>9, InductionByElement
<1>11. QED
  BY <1>10

\* So the CHOOSE in predict finds one.
LEMMA PredictionIsTrained ==
  ASSUME IsFiniteSet(DOMAIN centroids), DOMAIN centroids # {}, DOMAIN centroids \subseteq Int,
         \A label \in DOMAIN centroids : Trained(label),
         NEW i, samples[i].predictor \in Int
  PROVE  predict(i) \in DOMAIN centroids
<1>1. \E label \in DOMAIN centroids : \A other \in DOMAIN centroids : Better(i, label, other)
  BY BestExists
<1>2. predict(i) = CHOOSE label \in DOMAIN centroids :
                     \A other \in DOMAIN centroids : Better(i, label, other)
  BY DEF predict, Better
<1>3. QED
  BY <1>1, <1>2
-----------------------------------------------------------------------------
(* The reports of an experiment.                                           *)

\* An entry of the results: its report is the one of its predictions.
Actual(entry, list) == [i \in entry.testing |-> list[i].app]

Told(entry, list) ==
  /\ entry.training \subseteq DOMAIN list
  /\ entry.testing \subseteq DOMAIN list /\ entry.testing # {}
  /\ entry.labels \subseteq {list[i].app : i \in DOMAIN list}
  /\ entry.predictions \in [entry.testing -> entry.labels]
  /\ entry.metrics = calculate_metrics(Actual(entry, list), entry.predictions)

TrainedWell == DOMAIN centroids \subseteq Labels /\ \A label \in DOMAIN centroids : Trained(label)

Stages == {"sources", "runs", "select", "balance", "guard", "train", "evaluate", "done", "failed"}

ReportInv ==
  /\ samples \in Seq(Sample) /\ routed \in BOOLEAN
  /\ pc \in Stages /\ held_out \subseteq Runs /\ current \in 1 .. 6
  /\ TrainedWell
  /\ pc = "evaluate" => DOMAIN centroids # {}
  /\ \A c \in DOMAIN conditions : Told(conditions[c], samples)

LEMMA ReportInit == Init => ReportInv
<1> SUFFICES ASSUME Init PROVE ReportInv
  OBVIOUS
<1>1. samples \in Seq(Sample) /\ routed \in BOOLEAN
  BY SixAssumption DEF Init
<1>2. pc = "sources" /\ held_out = {} /\ current = 1 /\ DOMAIN centroids = {} /\ DOMAIN conditions = {}
  BY DEF Init
<1>3. QED
  BY <1>1, <1>2 DEF ReportInv, TrainedWell, Stages

\* A step that leaves centroids and results alone.
LEMMA ReportFrame ==
  ASSUME ReportInv, UNCHANGED <<inputVars, centroids, conditions>>,
         held_out' \subseteq Runs, current' = current,
         pc' \in Stages, pc' = "evaluate" => pc = "evaluate"
  PROVE  ReportInv'
<1>1. \A c \in DOMAIN conditions' : Told(conditions[c], samples)'
  BY DEF ReportInv, inputVars
<1>2. TrainedWell'
  BY DEF ReportInv, TrainedWell, Trained, Labels, inputVars
<1>3. QED
  BY <1>1, <1>2 DEF ReportInv, inputVars

LEMMA LabelsFinite ==
  ASSUME samples \in Seq(Sample)
  PROVE  IsFiniteSet(Labels) /\ Labels \subseteq Apps
<1>1. IsFiniteSet(DOMAIN samples)
  BY Finiteness DEF Part
<1> DEFINE app == [i \in DOMAIN samples |-> samples[i].app]
<1>2. Labels = {app[i] : i \in DOMAIN samples}
  BY DEF Labels
<1>3. IsFiniteSet(Labels)
  <2> HIDE DEF app
  <2>1. QED
    BY <1>1, <1>2, FiniteImage
<1>4. \A i \in DOMAIN samples : samples[i] \in Sample
  OBVIOUS
<1>5. QED
  BY <1>3, <1>4 DEF Labels, Sample

LEMMA TrainReports == SplitInv /\ ReportInv /\ Train => ReportInv'
<1> SUFFICES ASSUME SplitInv, ReportInv, Train PROVE ReportInv'
  OBVIOUS
<1>1. CASE Goto("failed")
  BY <1>1, ReportFrame DEF Goto, ReportInv, Stages
<1>2. CASE ~Goto("failed")
  <2> DEFINE own(label) == {i \in training : samples[i].app = label}
  <2>1. /\ training # {} /\ pc' = "evaluate"
        /\ centroids' = [label \in {samples[i].app : i \in training} |->
             [sum |-> SumFunction([i \in own(label) |-> samples[i].predictor]),
              count |-> Cardinality(own(label))]]
        /\ UNCHANGED <<samples, routed, held_out, current, training, testing, conditions>>
    BY <1>2 DEF Train, inputVars
  <2>2. training \in Part /\ samples \in Seq(Sample)
    BY DEF SplitInv, ReportInv
  <2>3. DOMAIN centroids' \subseteq Labels /\ DOMAIN centroids' # {}
    BY <2>1, <2>2 DEF Labels, Part
  <2>4. ASSUME NEW label \in DOMAIN centroids' PROVE Trained(label)'
    <3>1. own(label) \in Part /\ own(label) # {} /\ \A i \in own(label) : samples[i] \in Sample
      BY <2>1, <2>2 DEF Part
    <3>2. IsFiniteSet(own(label))
      <4> HIDE DEF own
      <4>1. QED
        BY <2>2, <3>1, Finiteness
    <3>3. Cardinality(own(label)) \in Nat \ {0}
      <4> HIDE DEF own
      <4>1. QED
        BY <3>1, <3>2, FS_EmptySet, FS_CardinalityType
    <3> DEFINE f == [i \in own(label) |-> samples[i].predictor]
    <3>4. DOMAIN f = own(label) /\ \A i \in own(label) : f[i] \in Int
      BY <3>1 DEF Sample
    <3>5. SumFunction(f) \in Int
      <4> HIDE DEF f, own
      <4>1. QED
        BY <3>2, <3>4, SumOfRest DEF SumFunction
    <3>6. centroids'[label] = [sum |-> SumFunction(f), count |-> Cardinality(own(label))]
      BY <2>1
    <3>7. QED
      <4> HIDE DEF f, own
      <4>1. QED
        BY <3>3, <3>5, <3>6 DEF Trained
  <2>5. \A c \in DOMAIN conditions' : Told(conditions[c], samples)'
    BY <2>1 DEF ReportInv
  <2>6. TrainedWell'
    <3>1. Labels' = Labels
      BY <2>1 DEF Labels
    <3>2. QED
      BY <2>3, <2>4, <3>1 DEF TrainedWell
  <2>7. QED
    BY <2>1, <2>3, <2>5, <2>6 DEF ReportInv, Stages
<1>3. QED
  BY <1>1, <1>2

\* What Evaluate adds to the results.
LEMMA ResultIsTold ==
  ASSUME SplitInv, ReportInv, pc = "evaluate", testing # {}
  PROVE  Told(Result, samples)
<1>1. samples \in Seq(Sample) /\ training \in Part /\ testing \in Part
  BY DEF SplitInv, ReportInv
<1>2. IsFiniteSet(DOMAIN centroids) /\ DOMAIN centroids # {} /\ DOMAIN centroids \subseteq Int
  <2>1. DOMAIN centroids \subseteq Labels
    BY DEF ReportInv, TrainedWell
  <2>2. QED
    BY <1>1, <2>1, LabelsFinite, FS_Subset, SixAssumption DEF ReportInv
<1>3. \A i \in testing : predict(i) \in DOMAIN centroids
  <2>1. TAKE i \in testing
  <2>2. samples[i].predictor \in Int
    <3>1. samples[i] \in Sample
      BY <1>1 DEF Part
    <3>2. QED
      BY <3>1 DEF Sample
  <2>3. \A label \in DOMAIN centroids : Trained(label)
    BY DEF ReportInv, TrainedWell
  <2>4. QED
    BY <1>2, <2>2, <2>3, PredictionIsTrained
<1>4. /\ Result.training = training /\ Result.testing = testing /\ Result.labels = DOMAIN centroids
      /\ Result.predictions = [i \in testing |-> predict(i)]
      /\ Result.metrics = calculate_metrics([i \in testing |-> samples[i].app],
                                            [i \in testing |-> predict(i)])
  BY DEF Result
<1>5. Result.predictions \in [testing -> DOMAIN centroids]
  BY <1>3, <1>4
<1>6. QED
  <2> HIDE DEF Result
  <2>1. Actual(Result, samples) = [i \in testing |-> samples[i].app]
    BY <1>4 DEF Actual
  <2>2. QED
    BY <1>1, <1>4, <1>5, <2>1 DEF Told, ReportInv, TrainedWell, Part, Labels

LEMMA EvaluateReports == SplitInv /\ ReportInv /\ Evaluate => ReportInv'
<1> SUFFICES ASSUME SplitInv, ReportInv, Evaluate PROVE ReportInv'
  OBVIOUS
<1>1. CASE Goto("failed")
  BY <1>1, ReportFrame DEF Goto, ReportInv, Stages
<1>2. CASE ~Goto("failed")
  <2>1. /\ conditions' = Append(conditions, Result) /\ testing # {} /\ pc = "evaluate"
        /\ UNCHANGED <<samples, routed, held_out, training, testing, centroids>>
        /\ \/ current < Len(six_condition_specifications) /\ current' = current + 1 /\ pc' = "select"
           \/ current' = current /\ pc' = "done"
    BY <1>2 DEF Evaluate, inputVars
  <2>2. current' \in 1 .. 6
    <3>1. Len(six_condition_specifications) = 6 /\ current \in 1 .. 6
      BY Specifications DEF ReportInv
    <3>2. QED
      BY <2>1, <3>1
  <2>3. Told(Result, samples)
    BY <2>1, ResultIsTold
  <2>4. PICK S : conditions \in Seq(S)
    BY DEF SplitInv
  <2> DEFINE result == Result
  <2>5. conditions' = Append(conditions, result) /\ Told(result, samples)
    BY <2>1, <2>3
  <2> HIDE DEF result
  <2>6. \A c \in DOMAIN conditions' : conditions'[c] = result \/
             (c \in DOMAIN conditions /\ conditions'[c] = conditions[c])
    BY <2>4, <2>5
  <2>7. \A c \in DOMAIN conditions' : Told(conditions'[c], samples)
    BY <2>5, <2>6 DEF ReportInv
  <2>8. \A c \in DOMAIN conditions' : Told(conditions[c], samples)'
    BY <2>1, <2>7
  <2>9. TrainedWell'
    BY <2>1 DEF ReportInv, TrainedWell, Trained, Labels
  <2>10. QED
    BY <2>1, <2>2, <2>8, <2>9 DEF ReportInv, Stages
<1>3. QED
  BY <1>1, <1>2

LEMMA ReportStep == SplitInv /\ ReportInv /\ [Next]_vars => ReportInv'
<1> SUFFICES ASSUME SplitInv, ReportInv, [Next]_vars PROVE ReportInv'
  OBVIOUS
<1>1. held_out \subseteq Runs
  BY DEF ReportInv
<1>2. CASE CheckSources
  BY <1>1, <1>2, ReportFrame DEF CheckSources, Goto, Stages
<1>3. CASE HoldOut
  BY <1>1, <1>3, ReportFrame DEF HoldOut, Stages
<1>4. CASE Select
  BY <1>1, <1>4, ReportFrame DEF Select, Stages
<1>5. CASE Balance
  BY <1>1, <1>5, ReportFrame DEF Balance, Stages
<1>6. CASE CheckLeakage
  BY <1>1, <1>6, ReportFrame DEF CheckLeakage, Goto, Stages
<1>7. CASE Train
  BY <1>7, TrainReports
<1>8. CASE Evaluate
  BY <1>8, EvaluateReports
<1>9. CASE Over \/ UNCHANGED vars
  BY <1>1, <1>9, ReportFrame DEF Over, vars, ReportInv
<1>10. QED
  BY <1>2, <1>3, <1>4, <1>5, <1>6, <1>7, <1>8, <1>9 DEF Next

LEMMA ReportInvariance == Spec => []ReportInv
BY ReportInit, ReportStep, SplitInvariance, PTL DEF Spec

\* The experiment's variables keep their types; predictions are trained labels
\* (NearestCentroidClassifier::predict).
THEOREM TypeCorrect == Spec => []TypeOK
<1>1. SplitInv /\ ReportInv => TypeOK
  BY Specifications DEF SplitInv, ReportInv, TypeOK, TrainedWell, Trained, Told, Stages,
                          Part
<1>2. QED
  BY <1>1, SplitInvariance, ReportInvariance, PTL

\* Every report agrees with itself and with the test samples, whatever the samples, the
\* labels and the predictions are (calculate_metrics and its call).
THEOREM ReportsTrue == Spec => []ReportsAddUp
<1>1. ReportInv => ReportsAddUp
  <2> SUFFICES ASSUME ReportInv, NEW c \in DOMAIN conditions
               PROVE  LET report == conditions[c].metrics
                          part   == conditions[c].testing
                          class  == report.per_class
                          predicted == conditions[c].predictions
                          actual == Actual(conditions[c], samples)
                          mirror == calculate_metrics(predicted, actual)
                      IN  /\ \A l \in report.labels :
                               /\ class[l].support = Cardinality({i \in part : samples[i].app = l})
                               /\ SameFraction(class[l].precision, mirror.per_class[l].recall)
                               /\ IsShare(class[l].precision) /\ IsShare(class[l].recall)
                               /\ IsShare(class[l].f1)
                          /\ SumFunction([l \in report.labels |-> class[l].support]) = Cardinality(part)
                          /\ report.accuracy[1] = SumFunction([l \in report.labels |-> class[l].recall[1]])
                          /\ SameFraction(report.macro_f1, <<1, 1>>) <=>
                               \A i \in part : predicted[i] = samples[i].app
                          /\ report.labels \subseteq Labels
    BY DEF ReportsAddUp, IsShare, Actual
  <2> DEFINE part == conditions[c].testing
             predicted == conditions[c].predictions
             actual == Actual(conditions[c], samples)
  <2>1. Told(conditions[c], samples) /\ samples \in Seq(Sample)
    BY DEF ReportInv
  <2>2. /\ part \in Part /\ part # {} /\ DOMAIN actual = part
        /\ \A i \in part : actual[i] = samples[i].app /\ predicted[i] \in Labels
        /\ DOMAIN predicted = part
        /\ conditions[c].metrics = calculate_metrics(actual, predicted)
    BY <2>1 DEF Told, Actual, Part, Labels
  <2>3. IsFiniteSet(part)
    <3> HIDE DEF part
    <3>1. QED
      BY <2>1, <2>2, Finiteness
  <2>4. Vectors(actual, predicted)
    BY <2>2, <2>3 DEF Vectors
  <2> HIDE DEF part, predicted, actual
  <2>5. \A l : With(actual, l) = {i \in part : samples[i].app = l}
    BY <2>2 DEF With
  <2>6. calculate_metrics(actual, predicted).labels \subseteq Labels
    <3>1. calculate_metrics(actual, predicted).labels = LabelsIn(actual, predicted)
      BY <2>4, ReportFields
    <3>2. \A i \in part : actual[i] \in Labels
      BY <2>2 DEF Labels, Part
    <3>3. QED
      BY <2>2, <3>1, <3>2 DEF LabelsIn
  <2>7. LET report == calculate_metrics(actual, predicted)
            class  == report.per_class
            mirror == calculate_metrics(predicted, actual)
        IN  /\ \A l \in report.labels :
                 /\ class[l].support = Cardinality(With(actual, l))
                 /\ SameFraction(class[l].precision, mirror.per_class[l].recall)
                 /\ IsShare(class[l].precision) /\ IsShare(class[l].recall) /\ IsShare(class[l].f1)
            /\ SumFunction([l \in report.labels |-> class[l].support]) = Cardinality(DOMAIN actual)
            /\ report.accuracy[1] = SumFunction([l \in report.labels |-> class[l].recall[1]])
            /\ SameFraction(report.macro_f1, <<1, 1>>) <=>
                 \A i \in DOMAIN actual : predicted[i] = actual[i]
    BY <2>4, ReportIsTrue
  <2> DEFINE report == calculate_metrics(actual, predicted)
             class  == report.per_class
             mirror == calculate_metrics(predicted, actual)
  <2>8. \A l \in report.labels :
          /\ class[l].support = Cardinality({i \in part : samples[i].app = l})
          /\ SameFraction(class[l].precision, mirror.per_class[l].recall)
          /\ IsShare(class[l].precision) /\ IsShare(class[l].recall) /\ IsShare(class[l].f1)
    BY <2>5, <2>7
  <2>9. SameFraction(report.macro_f1, <<1, 1>>) <=> \A i \in part : predicted[i] = samples[i].app
    BY <2>2, <2>7
  <2>10. conditions[c].metrics = report
    BY <2>2
  <2>11. /\ SumFunction([l \in report.labels |-> class[l].support]) = Cardinality(part)
         /\ report.accuracy[1] = SumFunction([l \in report.labels |-> class[l].recall[1]])
    BY <2>2, <2>7
  <2>12. QED
    BY <2>6, <2>8, <2>9, <2>10, <2>11 DEF part, predicted, actual
<1>2. QED
  BY <1>1, ReportInvariance, PTL
=============================================================================
