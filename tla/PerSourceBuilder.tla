-------------------------- MODULE PerSourceBuilder --------------------------
(***************************************************************************)
(* per_source_builder.build_system: the neurons, the synapses and the      *)
(* initial contents of the SYN-flood detector for n sources.  A neuron is  *)
(* named <<name, i>>, with i = 0 for the neurons all the sources share.    *)
(***************************************************************************)
EXTENDS RuleMaker, Sequences, FiniteSets

CONSTANTS n, base, ratio, rate_K, pattern_P, H,
          ratio_weight, rate_weight, pattern_weight, decision_threshold

ASSUME BuilderAssumption ==
  /\ {n, H, rate_K, pattern_P, decision_threshold} \subseteq Nat \ {0}
  /\ {base, ratio, ratio_weight, rate_weight, pattern_weight} \subseteq Nat
  /\ ratio < base

Source == 1..n
Shared(name) == <<name, 0>>

\* Mutants: offsets for one packet fewer than the limit.
initShort     == ratio * (H - 1)
finalizeShort == (base - ratio) * (H - 1)

syn_w    == base - ratio
ack_w    == -ratio
init     == ratio * H
finalize == (base - ratio) * H

ChainNames == <<"Packets", "AnomalousSYN", "NormalSYN", "NormalACK",
                "StreamEndDetector", "RatioDetector">>

\* Mutant: the vote listed before the flags it counts.
SharedNamesVoteFirst == <<"RateDetector", "PatternDetector", "RatioOR", "Decision",
                          "RateFlag", "RatioFlag", "PatternFlag", "Output">>

SharedNames == <<"RateDetector", "PatternDetector", "RatioOR", "RateFlag",
                 "RatioFlag", "PatternFlag", "Decision", "Output">>

\* The order of the posted list, which is the order in which a tick activates
\* the neurons: every chain before the shared neurons, targets after sources.
BuiltOrder ==
  [k \in 1..(6 * n + 8) |->
     IF k <= 6 * n THEN <<ChainNames[((k - 1) % 6) + 1], ((k - 1) \div 6) + 1>>
                   ELSE Shared(SharedNames[k - 6 * n])]

BuiltInputs  == {<<"Packets", i>> : i \in Source}
BuiltOutputs == {Shared("Output")}
BuiltRegular == {BuiltOrder[k] : k \in DOMAIN BuiltOrder}
                  \ (BuiltInputs \cup BuiltOutputs)

BuiltContent ==
  [id \in BuiltRegular |->
     CASE id[1] = "RatioDetector" -> init
       [] id[1] \in {"RateFlag", "RatioFlag", "PatternFlag"} -> FlagLoad
       [] OTHER -> 0]

BuiltRules ==
  [id \in BuiltRegular |->
     CASE id[1] = "AnomalousSYN"      -> SymbolRules(2)
       [] id[1] = "NormalSYN"         -> SymbolRules(3)
       [] id[1] = "NormalACK"         -> SymbolRules(4)
       [] id[1] = "StreamEndDetector" -> SymbolRules(5)
       [] id[1] = "RatioDetector"     -> {ProportionRule(H, base)}
       [] id[1] = "RateDetector"      -> {VelocityRule(rate_K)}
       [] id[1] = "PatternDetector"   -> {PatternRule(pattern_P)}
       [] id[1] = "RatioOR"           -> {OrRule}
       [] id[1] = "Decision"          -> {DecisionRule(decision_threshold)}
       [] OTHER                       -> FlagRules]

\* <<from, to, weight>> of every synapse of one source's chain.
ChainSynapses(i) ==
  {<<<<"Packets", i>>, <<c, i>>, 1>> :
     c \in {"AnomalousSYN", "NormalSYN", "NormalACK", "StreamEndDetector"}}
  \cup
  {<<<<"AnomalousSYN", i>>, <<"RatioDetector", i>>, syn_w>>,
   <<<<"NormalSYN", i>>, <<"RatioDetector", i>>, syn_w>>,
   <<<<"NormalACK", i>>, <<"RatioDetector", i>>, ack_w>>,
   <<<<"StreamEndDetector", i>>, <<"RatioDetector", i>>, finalize>>,
   <<<<"RatioDetector", i>>, Shared("RatioOR"), 1>>,
   <<<<"AnomalousSYN", i>>, Shared("RateDetector"), 1>>,
   <<<<"NormalSYN", i>>, Shared("RateDetector"), 1>>,
   <<<<"AnomalousSYN", i>>, Shared("PatternDetector"), 1>>}

VoteSynapses ==
  {<<Shared("RateDetector"), Shared("RateFlag"), 1>>,
   <<Shared("RatioOR"), Shared("RatioFlag"), 1>>,
   <<Shared("PatternDetector"), Shared("PatternFlag"), 1>>,
   <<Shared("RatioFlag"), Shared("Decision"), ratio_weight>>,
   <<Shared("RateFlag"), Shared("Decision"), rate_weight>>,
   <<Shared("PatternFlag"), Shared("Decision"), pattern_weight>>,
   <<Shared("Decision"), Shared("Output"), 1>>}

BuiltSynapses == VoteSynapses \cup UNION {ChainSynapses(i) : i \in Source}

\* Per synapse <<from, to>>, its weight.
BuiltWeight ==
  [e \in {<<s[1], s[2]>> : s \in BuiltSynapses} |->
     (CHOOSE s \in BuiltSynapses : <<s[1], s[2]>> = e)[3]]
=============================================================================
