----------------------------- MODULE Websnapse ------------------------------
(***************************************************************************)
(* websnapse_export.to_websnapse: the built system for another simulator,  *)
(* in whose rules one expression is the guard and the consumption at once. *)
(* The terms' spelling is abstracted away: what is kept is which counts an *)
(* expression stands for.                                                  *)
(***************************************************************************)
EXTENDS PerSourceBuilder

\* _term_to_websnapse of the guard, on both sides of the rule: a^k takes k spikes,
\* a^k(a)* all of them.
rule_to_websnapse(rule) ==
  [rule EXCEPT !.consume = IF rule.exact THEN rule.min ELSE WhiteHole]

Column ==
  [input |-> 0, counter |-> 360, ratio |-> 720, aggregate |-> 1080, flag |-> 1440,
   decision |-> 1800, output |-> 2160]

SOURCE_BAND == 640
COUNTER_GAP == 150

_role(id) ==
  CASE id[1] = "Packets"       -> "input"
    [] id[1] = "Output"        -> "output"
    [] id[1] = "RatioDetector" -> "ratio"
    [] id[1] = "Decision"      -> "decision"
    [] id[1] \in {"RateDetector", "PatternDetector", "RatioOR"} -> "aggregate"
    [] id[1] \in {"RateFlag", "RatioFlag", "PatternFlag"}       -> "flag"
    [] OTHER                   -> "counter"

\* Its row in its column; the aggregate detectors as they come in the list.
Row(id) ==
  CASE id[1] \in {"AnomalousSYN", "RateDetector", "RateFlag"}    -> 0
    [] id[1] \in {"NormalSYN", "PatternDetector", "RatioFlag"}   -> 1
    [] id[1] \in {"NormalACK", "RatioOR", "PatternFlag"}         -> 2
    [] id[1] = "StreamEndDetector"                               -> 3
    [] OTHER                                                     -> 1

Band(id) == IF id[2] > 0 THEN (id[2] - 1) * SOURCE_BAND ELSE 0

\* One and a half gaps down for the neurons in the middle of their band.
_position(id) ==
  [x |-> Column[_role(id)],
   y |-> IF _role(id) \in {"input", "ratio"} THEN Band(id) + 225
                                             ELSE Band(id) + Row(id) * COUNTER_GAP]

BuiltIds == {<<name, i>> : name \in {ChainNames[k] : k \in 1..6}, i \in Source}
              \cup {Shared(SharedNames[k]) : k \in 1..8}

-----------------------------------------------------------------------------

\* websnapse_export.py: "the topology, the synapse weights, and every rule's firing
\* semantics are preserved": an exported rule applies to the same counts as the
\* built one and takes as many spikes from each of them.
ExportKeepsRules ==
  \A id \in BuiltRegular : \A rule \in BuiltRules[id] :
    LET exported == rule_to_websnapse(rule)
    IN  \A s \in Nat :
          /\ Matches(exported, s) <=> Matches(rule, s)
          /\ Matches(rule, s) => Consumed(exported, s) = Consumed(rule, s)

\* "the only requirement is that no two land on the same spot".
NoTwoOnOneSpot ==
  \A a, b \in BuiltIds : _position(a) = _position(b) => a = b
=============================================================================
