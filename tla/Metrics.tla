------------------------------- MODULE Metrics ------------------------------
(***************************************************************************)
(* What _get_summary makes of the outputs of one threshold: the confusion  *)
(* matrix and five metrics, quotients written <<numerator, denominator>>.  *)
(***************************************************************************)
EXTENDS Naturals, FiniteSets

\* outputs: per capture, whether the feature was expected and whether it fired.
Outcome(outputs, expected, fired) ==
  Cardinality({i \in DOMAIN outputs :
                 outputs[i].expected = expected /\ outputs[i].result = fired})

Matrix(outputs) ==
  [true_positive  |-> Outcome(outputs, TRUE, TRUE),
   true_negative  |-> Outcome(outputs, FALSE, FALSE),
   false_positive |-> Outcome(outputs, FALSE, TRUE),
   false_negative |-> Outcome(outputs, TRUE, FALSE)]

\* Nothing to divide by counts as 0.
Quotient(part, whole) == IF whole > 0 THEN <<part, whole>> ELSE <<0, 1>>

_accuracy(m) ==
  Quotient(m.true_positive + m.true_negative,
           m.true_positive + m.true_negative + m.false_negative + m.false_positive)
_recall(m)    == Quotient(m.true_positive, m.true_positive + m.false_negative)
_precision(m) == Quotient(m.true_positive, m.true_positive + m.false_positive)
_false_positive_rate(m) ==
  Quotient(m.false_positive, m.false_positive + m.true_negative)

\* 2 * precision * recall / (precision + recall), over their common denominator.
_f1_score(m) ==
  LET p == _precision(m)
      r == _recall(m)
  IN  Quotient(2 * p[1] * r[1], p[1] * r[2] + r[1] * p[2])

Same(x, y)    == x[1] * y[2] = y[1] * x[2]
AtMost(x, y)  == x[1] * y[2] <= y[1] * x[2]

\* Against the definitions, on every matrix of up to sixteen captures: each metric
\* is a rate; F1 is 2TP / (2TP + FP + FN), whichever of its quotients was empty, and
\* is perfect only for a threshold that confuses nothing and fires at all.
ASSUME MetricsAgree ==
  \A tp, tn, fp, fn \in 0 .. 4 :
    LET m == [true_positive |-> tp, true_negative |-> tn,
              false_positive |-> fp, false_negative |-> fn]
    IN  /\ \A x \in {_accuracy(m), _recall(m), _precision(m),
                     _false_positive_rate(m), _f1_score(m)} :
             AtMost(x, <<1, 1>>)
        /\ Same(_f1_score(m), Quotient(2 * tp, 2 * tp + fp + fn))
        /\ Same(_f1_score(m), <<1, 1>>) <=> tp > 0 /\ fp + fn = 0
        /\ Same(_accuracy(m), <<1, 1>>) <=> tp + tn > 0 /\ fp + fn = 0

\* Every capture is in one cell of the matrix.
ASSUME MatrixPartitions ==
  \A outputs \in [1 .. 3 -> [expected : BOOLEAN, result : BOOLEAN]] :
    LET m == Matrix(outputs)
    IN  m.true_positive + m.true_negative + m.false_positive + m.false_negative = 3
=============================================================================
