----------------------------- MODULE RuleMaker ------------------------------
(***************************************************************************)
(* The rules rulemaker.py generates for each kind of neuron.               *)
(***************************************************************************)
EXTENDS Rule

(***************************************************************************)
(* The three count detectors and the decision neuron share one shape: the  *)
(* bound "{k,}" is written only for k > 1.  Below that the guard is a bare *)
(* "a", which the engine anchors to exactly one spike.                     *)
(***************************************************************************)
ThresholdRule(k) ==
  [min |-> IF k > 1 THEN k ELSE 1, exact |-> k <= 1, consume |-> WhiteHole,
   produce |-> 1, delay |-> 0]

\* Mutant: strictly more than the threshold.
VelocityRuleStrict(threshold) == ThresholdRule(threshold + 1)

VelocityRule(threshold) == ThresholdRule(threshold)
PatternRule(threshold)  == ThresholdRule(threshold)
DecisionRule(threshold) == ThresholdRule(threshold)

\* Mutant: the strict inequality made weak.
ProportionRuleWeak(hardLimit, base) == ThresholdRule(base * hardLimit)

\* Strictly above base * hardLimit; the builder's rule maker has one input.
ProportionRule(hardLimit, base) == ThresholdRule(base * hardLimit + 1)

\* Mutant: the symbol itself is also forgotten.
SymbolRulesOverlapping(symbol) ==
  {Exactly(symbol, 1)} \cup {Forget(s) : s \in 1..5}

\* Spike on one symbol, forget every other one.
SymbolRules(symbol) ==
  {Exactly(symbol, 1)} \cup {Forget(s) : s \in (1..5) \ {symbol}}

\* Mutant: the rule is written with a delay of 1.
OrRuleDelayed == [min |-> 1, exact |-> FALSE, consume |-> WhiteHole,
                  produce |-> 1, delay |-> 1]

\* RatioOR: "a+" is at once the guard and the consumption.
OrRule == [min |-> 1, exact |-> FALSE, consume |-> WhiteHole,
           produce |-> 1, delay |-> 0]

\* A flag is loaded with two spikes: the first firing makes three.
FlagLoad  == 2
FlagRules == {Exactly(3, 1), Forget(1)}
=============================================================================
