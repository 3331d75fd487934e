------------------------------- MODULE Metrics -------------------------------
(***************************************************************************)
(* calculate_metrics (integration_experiment.cpp).  The label vectors are  *)
(* functions over the test samples, a size_t is a number and a double is   *)
(* an exact fraction <<numerator, denominator>> that is never reduced:     *)
(* rounding is left out.                                                   *)
(***************************************************************************)
EXTENDS Integers, FiniteSets, Functions

Zero == <<0, 1>>
Plus(x, y) == <<x[1] * y[2] + y[1] * x[2], x[2] * y[2]>>
SameFraction(x, y) == x[1] * y[2] = y[1] * x[2]
Ratio(n, total) == IF total = 0 THEN Zero ELSE <<n, total>>

\* The mean of the values of a function.
Mean(value) ==
  LET sum == FoldFunction(Plus, Zero, value)
  IN  <<sum[1], sum[2] * Cardinality(DOMAIN value)>>

\* 2pr / (p + r)
HarmonicMean(p, r) ==
  IF p[1] = 0 /\ r[1] = 0 THEN Zero ELSE <<2 * p[1] * r[1], p[1] * r[2] + r[1] * p[2]>>

predicted_total(matrix, labels, label) == SumFunction([other \in labels |-> matrix[other][label]])

actual_total(matrix, labels, label) == SumFunction([other \in labels |-> matrix[label][other]])

calculate_metrics(actual, predicted) ==
  LET rows   == DOMAIN actual
      labels == {actual[i] : i \in rows} \cup {predicted[i] : i \in rows}
      matrix == [a \in labels |-> [p \in labels |->
                   Cardinality({i \in rows : actual[i] = a /\ predicted[i] = p})]]
      precision(l) == Ratio(matrix[l][l], predicted_total(matrix, labels, l))
      recall(l) == Ratio(matrix[l][l], actual_total(matrix, labels, l))
      f1(l) == HarmonicMean(precision(l), recall(l))
  IN  [ labels           |-> labels,
        confusion_matrix |-> matrix,
        accuracy         |-> <<Cardinality({i \in rows : actual[i] = predicted[i]}), Cardinality(rows)>>,
        per_class        |-> [l \in labels |->
                               [precision |-> precision(l), recall |-> recall(l), f1 |-> f1(l),
                                support |-> actual_total(matrix, labels, l)]],
        macro_precision  |-> Mean([l \in labels |-> precision(l)]),
        macro_recall     |-> Mean([l \in labels |-> recall(l)]),
        macro_f1         |-> Mean([l \in labels |-> f1(l)]) ]
=============================================================================
