-------------------------------- MODULE Rule --------------------------------
(***************************************************************************)
(* One SN P firing rule (snp_engine/rule.py): guard / consumed -> produced *)
(* ; delay.  The guard is a regular expression over a string of spikes;    *)
(* the grammar the project uses has two shapes, "exactly k" and "k or      *)
(* more", so a guard is a bound and a flag.  A consumption of -1 marks a   *)
(* white-hole rule, as it does in the code.                                *)
(***************************************************************************)
EXTENDS Integers

WhiteHole == -1

RuleType ==
  [min : Nat \ {0}, exact : BOOLEAN, consume : Nat \cup {WhiteHole},
   produce : Nat, delay : Nat]

\* The guard accepts a neuron that holds s spikes.
Matches(r, s) == IF r.exact THEN s = r.min ELSE s >= r.min

\* What the rule removes from a neuron that held s spikes when it matched.
Consumed(r, s) == IF r.consume > WhiteHole THEN r.consume ELSE s

\* parse_rule rejects a rule that would produce more than it consumes.
WellFormed(r) == r.consume # WhiteHole => r.produce <= r.consume

Exactly(k, produced) ==
  [min |-> k, exact |-> TRUE, consume |-> k, produce |-> produced, delay |-> 0]

Forget(k) == Exactly(k, 0)
=============================================================================
