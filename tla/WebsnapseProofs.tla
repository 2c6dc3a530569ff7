-------------------------- MODULE WebsnapseProofs ---------------------------
(***************************************************************************)
(* What the export to Websnapse claims of itself, for every number of      *)
(* sources and all thresholds; its own self-check tries the defaults, at   *)
(* the counts around each threshold.                                       *)
(***************************************************************************)
EXTENDS Websnapse, TLAPS

\* The rules that mean the same when their guard is also their consumption:
\* exact ones that take all they match, and white holes that are not exact, or
\* exact at what they hold.
LEMMA MirrorKeepsMeaning ==
  ASSUME NEW rule \in RuleType,
         IF rule.exact THEN rule.consume \in {rule.min, WhiteHole}
                       ELSE rule.consume = WhiteHole,
         NEW s \in Nat
  PROVE  /\ Matches(rule_to_websnapse(rule), s) <=> Matches(rule, s)
         /\ Matches(rule, s) => Consumed(rule_to_websnapse(rule), s) = Consumed(rule, s)
<1> DEFINE exported == rule_to_websnapse(rule)
<1>1. /\ exported.min = rule.min /\ exported.exact = rule.exact
      /\ exported.consume = IF rule.exact THEN rule.min ELSE WhiteHole
  BY DEF rule_to_websnapse, RuleType
<1>2. rule.min \in Nat \ {0} /\ rule.exact \in BOOLEAN
  BY DEF RuleType
<1>3. QED
  BY <1>1, <1>2 DEF Matches, Consumed, WhiteHole

\* Every rule the rule maker writes is of that kind.
LEMMA BuiltRulesMirror ==
  ASSUME NEW id \in BuiltRegular, NEW rule \in BuiltRules[id]
  PROVE  /\ rule \in RuleType
         /\ IF rule.exact THEN rule.consume \in {rule.min, WhiteHole}
                          ELSE rule.consume = WhiteHole
<1> DEFINE Mirrors(r) ==
      /\ r \in RuleType
      /\ IF r.exact THEN r.consume \in {r.min, WhiteHole} ELSE r.consume = WhiteHole
<1>1. \A k \in Nat \ {0}, produced \in Nat : Mirrors(Exactly(k, produced))
  BY DEF Exactly, RuleType, WhiteHole
<1>2. \A k \in Nat \ {0} : Mirrors(ThresholdRule(k))
  BY DEF ThresholdRule, RuleType, WhiteHole
<1>3. Mirrors(OrRule)
  BY DEF OrRule, RuleType, WhiteHole
<1>4. \A c \in 1..5 : \A r \in SymbolRules(c) : Mirrors(r)
  <2> SUFFICES ASSUME NEW c \in 1..5, NEW r \in SymbolRules(c)
               PROVE  Mirrors(r)
    OBVIOUS
  <2>1. \E k \in 1..5, produced \in 0..1 : r = Exactly(k, produced)
    BY DEF SymbolRules, Forget
  <2>2. QED
    BY <1>1, <2>1
<1>5. \A r \in FlagRules : Mirrors(r)
  BY <1>1 DEF FlagRules, Forget
<1>6. base * H + 1 \in Nat \ {0}
  BY BuilderAssumption
<1>7. /\ Mirrors(ProportionRule(H, base)) /\ Mirrors(VelocityRule(rate_K))
      /\ Mirrors(PatternRule(pattern_P)) /\ Mirrors(DecisionRule(decision_threshold))
  BY <1>2, <1>6, BuilderAssumption
     DEF ProportionRule, VelocityRule, PatternRule, DecisionRule
<1>8. QED
  BY <1>3, <1>4, <1>5, <1>7 DEF BuiltRules

\* The export keeps what every rule of the system does, whatever its thresholds.
THEOREM RulesPreserved == ExportKeepsRules
  BY MirrorKeepsMeaning, BuiltRulesMirror DEF ExportKeepsRules

LEMMA IdsListed ==
  ASSUME NEW id \in BuiltIds
  PROVE  /\ id = <<id[1], id[2]>>
         /\ \/ /\ id[1] \in {"Packets", "AnomalousSYN", "NormalSYN", "NormalACK",
                             "StreamEndDetector", "RatioDetector"}
               /\ id[2] \in Nat \ {0}
            \/ /\ id[1] \in {"RateDetector", "PatternDetector", "RatioOR", "RateFlag",
                             "RatioFlag", "PatternFlag", "Decision", "Output"}
               /\ id[2] = 0
<1>1. \A k \in 1..6 :
        ChainNames[k] \in {"Packets", "AnomalousSYN", "NormalSYN", "NormalACK",
                           "StreamEndDetector", "RatioDetector"}
  BY DEF ChainNames
<1>2. \A k \in 1..8 :
        SharedNames[k] \in {"RateDetector", "PatternDetector", "RatioOR", "RateFlag",
                            "RatioFlag", "PatternFlag", "Decision", "Output"}
  BY DEF SharedNames
<1>3. Source \subseteq Nat \ {0}
  BY BuilderAssumption DEF Source
<1>4. CASE \E k \in 1..6, i \in Source : id = <<ChainNames[k], i>>
  BY <1>1, <1>3, <1>4
<1>5. CASE \E k \in 1..8 : id = <<SharedNames[k], 0>>
  BY <1>2, <1>5
<1>6. QED
  BY <1>4, <1>5 DEF BuiltIds, Shared

\* The column, the role and the row of each name.
LEMMA Layout ==
  ASSUME NEW id \in BuiltIds
  PROVE  LET role == _role(id)
             row  == Row(id)
         IN  /\ row \in 0..3
             /\ role \in {"input", "counter", "ratio", "aggregate", "flag", "decision",
                          "output"}
             /\ role = "input" <=> id[1] = "Packets"
             /\ role = "ratio" <=> id[1] = "RatioDetector"
             /\ role = "decision" <=> id[1] = "Decision"
             /\ role = "output" <=> id[1] = "Output"
             /\ role = "counter" =>
                  id[1] = (IF row = 0 THEN "AnomalousSYN" ELSE IF row = 1 THEN "NormalSYN"
                           ELSE IF row = 2 THEN "NormalACK" ELSE "StreamEndDetector")
             /\ role = "aggregate" =>
                  row < 3 /\ id[1] = (IF row = 0 THEN "RateDetector"
                                      ELSE IF row = 1 THEN "PatternDetector" ELSE "RatioOR")
             /\ role = "flag" =>
                  row < 3 /\ id[1] = (IF row = 0 THEN "RateFlag"
                                      ELSE IF row = 1 THEN "RatioFlag" ELSE "PatternFlag")
<1>1. CASE id[1] \in {"Packets", "AnomalousSYN", "NormalSYN", "NormalACK",
                      "StreamEndDetector", "RatioDetector"}
  BY <1>1 DEF _role, Row
<1>2. CASE id[1] \in {"RateDetector", "PatternDetector", "RatioOR", "RateFlag",
                      "RatioFlag", "PatternFlag", "Decision", "Output"}
  BY <1>2 DEF _role, Row
<1>3. QED
  BY <1>1, <1>2, IdsListed

\* A band is taller than the rows of a column, so two neurons of one column and
\* height are in the same band and row.
LEMMA BandsApart ==
  ASSUME NEW a \in BuiltIds, NEW b \in BuiltIds, _role(a) = _role(b),
         _position(a).y = _position(b).y
  PROVE  /\ Band(a) = Band(b)
         /\ _role(a) \notin {"input", "ratio"} => Row(a) = Row(b)
<1>1. /\ Row(a) \in 0..3 /\ Row(b) \in 0..3
      /\ a[2] \in Nat /\ b[2] \in Nat
  BY Layout, IdsListed
<1>2. \A id \in {a, b} : id[2] \in Nat =>
        \E k \in Nat : Band(id) = 640 * k
  <2> SUFFICES ASSUME NEW id \in {a, b}, id[2] \in Nat
               PROVE  \E k \in Nat : Band(id) = 640 * k
    OBVIOUS
  <2> DEFINE k == IF id[2] > 0 THEN id[2] - 1 ELSE 0
  <2>1. k \in Nat /\ Band(id) = 640 * k
    BY DEF Band, SOURCE_BAND
  <2>2. QED
    BY <2>1
<1>3. PICK j \in Nat, k \in Nat : Band(a) = 640 * j /\ Band(b) = 640 * k
  BY <1>1, <1>2
<1>4. CASE _role(a) \in {"input", "ratio"}
  BY <1>3, <1>4 DEF _position
<1>5. CASE _role(a) \notin {"input", "ratio"}
  <2>1. 640 * j + Row(a) * 150 = 640 * k + Row(b) * 150
    BY <1>3, <1>5 DEF _position, COUNTER_GAP
  <2>2. j = k /\ Row(a) = Row(b)
    BY <1>1, <2>1
  <2>3. QED
    BY <1>3, <2>2
<1>6. QED
  BY <1>4, <1>5

\* No two neurons of the exported system are drawn on one spot, however many
\* sources it has.
THEOREM PositionsApart == NoTwoOnOneSpot
<1> SUFFICES ASSUME NEW a \in BuiltIds, NEW b \in BuiltIds, _position(a) = _position(b)
             PROVE  a = b
  BY DEF NoTwoOnOneSpot
<1>1. /\ Column[_role(a)] = Column[_role(b)]
      /\ _position(a).y = _position(b).y
  BY DEF _position
<1>2. _role(a) = _role(b)
  BY <1>1, Layout DEF Column
<1>3. /\ Band(a) = Band(b)
      /\ _role(a) \notin {"input", "ratio"} => Row(a) = Row(b)
  BY <1>1, <1>2, BandsApart
<1>4. a[1] = b[1]
  BY <1>2, <1>3, Layout
<1>5. a[2] = b[2]
  <2>1. a[2] \in Nat /\ b[2] \in Nat /\ (a[2] = 0 <=> b[2] = 0)
    BY <1>4, IdsListed
  <2>2. QED
    BY <1>3, <2>1 DEF Band, SOURCE_BAND
<1>6. QED
  BY <1>4, <1>5, IdsListed
=============================================================================
