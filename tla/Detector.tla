------------------------------ MODULE Detector ------------------------------
(***************************************************************************)
(* The detector per_source_builder builds, one tick of the engine a step.  *)
(* Every synapse of that system leads forward in list order, so all the    *)
(* mail of a tick is folded in the same tick (EngineDetector checks this   *)
(* module against the engine): what fires in a tick is decided by what     *)
(* each neuron held before it.  A source's four counters see the same      *)
(* symbol and empty themselves together; held is the symbol they hold.     *)
(***************************************************************************)
EXTENDS PerSourceBuilder

CONSTANT Streams  \* the encoded streams a source may have: symbols, then a 5

ASSUME StreamsAssumption ==
  /\ Streams \subseteq Seq(1..5)
  /\ \A s \in Streams : Len(s) > 0 /\ \A j \in 1..Len(s) : s[j] = 5 <=> j = Len(s)

Feature == {"rate", "ratio", "pattern"}
SYN     == {2, 3}
ACK     == 4
End     == 5

VARIABLES
  stream,         \* the train of each Packets_i
  sent,           \* how many of its symbols each Packets_i has replayed
  held,           \* the spikes in each of source i's four counters
  ratioSpikes,    \* the spikes in each RatioDetector_i
  rateSpikes, patternSpikes, orSpikes,
  flag,           \* the spikes in each feature's flag neuron
  decision,       \* the spikes in Decision
  alarms,         \* the sum of what Output has recorded
  seen,           \* what Analyzer._check_feature would mark from the history
  status          \* "running", "halted" or "failed"

network == <<sent, held, ratioSpikes, rateSpikes, patternSpikes, orSpikes,
             flag, decision, alarms, seen>>
vars    == <<stream, network, status>>

FiringRatio   == {i \in Source : Matches(ProportionRule(H, base), ratioSpikes[i])}
FiringRate    == Matches(VelocityRule(rate_K), rateSpikes)
FiringPattern == Matches(PatternRule(pattern_P), patternSpikes)
FiringOr      == Matches(OrRule, orSpikes)
FiringAlarm   == Matches(DecisionRule(decision_threshold), decision)

\* The features whose detector (RatioOR for ratio) fires in this tick, and the
\* flags that pass a vote on.
FiringFeature ==
  {f \in Feature : \/ f = "rate" /\ FiringRate
                   \/ f = "ratio" /\ FiringOr
                   \/ f = "pattern" /\ FiringPattern}

\* Mutant: the flag lets every later firing of its detector through.
FiringFlagAgain == {f \in Feature : flag[f] \in {1, 3}}

FiringFlag == {f \in Feature : flag[f] = 3}

Awake ==
  \/ \E i \in Source : sent[i] < Len(stream[i]) \/ held[i] # 0
  \/ FiringRatio # {} \/ FiringFeature # {} \/ FiringAlarm
  \/ \E f \in Feature : flag[f] \in {1, 3}

Arriving(symbols) == Cardinality({i \in Source : held[i] \in symbols})

\* What the counters of source i send its RatioDetector_i.
RatioMail(i) ==
  CASE held[i] \in SYN -> syn_w
    [] held[i] = ACK   -> ack_w
    [] held[i] = End   -> finalize
    [] OTHER           -> 0

\* A white hole keeps only the mail of the tick it fires in.
After(fires, now, mail) == IF fires THEN mail ELSE now + mail

NextRatio(i) == After(i \in FiringRatio, ratioSpikes[i], RatioMail(i))

\* Mutants: the spent flag is not emptied; a later spike is not forgotten.
NextFlagKept(f) ==
  (IF flag[f] = 1 THEN 0 ELSE flag[f]) + (IF f \in FiringFeature THEN 1 ELSE 0)
NextFlagUnforgotten(f) ==
  (IF flag[f] = 3 THEN 0 ELSE flag[f]) + (IF f \in FiringFeature THEN 1 ELSE 0)

\* Fires and empties on 3, forgets 1, waits on 2.
NextFlag(f) ==
  (IF flag[f] \in {1, 3} THEN 0 ELSE flag[f]) + (IF f \in FiringFeature THEN 1 ELSE 0)

Vote(f) == IF f \notin FiringFlag THEN 0
           ELSE CASE f = "rate"    -> rate_weight
                  [] f = "ratio"   -> ratio_weight
                  [] f = "pattern" -> pattern_weight

Ballot == Vote("rate") + Vote("ratio") + Vote("pattern")

Init ==
  /\ stream \in [Source -> Streams]
  /\ sent = [i \in Source |-> 0]
  /\ held = [i \in Source |-> 0]
  /\ ratioSpikes = [i \in Source |-> init]
  /\ rateSpikes = 0 /\ patternSpikes = 0 /\ orSpikes = 0
  /\ flag = [f \in Feature |-> FlagLoad]
  /\ decision = 0 /\ alarms = 0
  /\ seen = {}
  /\ status = "running"

-----------------------------------------------------------------------------

\* simulate_step when no neuron goes below zero.
Tick ==
  /\ status = "running" /\ Awake
  /\ \A i \in Source : NextRatio(i) >= 0
  /\ sent' = [i \in Source |-> IF sent[i] < Len(stream[i]) THEN sent[i] + 1 ELSE sent[i]]
  /\ held' = [i \in Source |-> IF sent[i] < Len(stream[i]) THEN stream[i][sent[i] + 1] ELSE 0]
  /\ ratioSpikes' = [i \in Source |-> NextRatio(i)]
  /\ rateSpikes' = After(FiringRate, rateSpikes, Arriving(SYN))
  /\ patternSpikes' = After(FiringPattern, patternSpikes, Arriving({2}))
  /\ orSpikes' = After(FiringOr, orSpikes, Cardinality(FiringRatio))
  /\ flag' = [f \in Feature |-> NextFlag(f)]
  /\ decision' = After(FiringAlarm, decision, Ballot)
  /\ alarms' = alarms + (IF FiringAlarm THEN 1 ELSE 0)
  /\ seen' = seen \cup FiringFeature \cup (IF FiringAlarm THEN {"alarm"} ELSE {})
  /\ UNCHANGED <<stream, status>>

\* _validate_neuron raises in the middle of a tick: no row is added.
NegativeSpikes ==
  /\ status = "running" /\ Awake
  /\ \E i \in Source : NextRatio(i) < 0
  /\ status' = "failed"
  /\ UNCHANGED <<stream, network>>

Halt ==
  /\ status = "running" /\ ~Awake
  /\ status' = "halted"
  /\ UNCHANGED <<stream, network>>

Done == status # "running" /\ UNCHANGED vars

Next == Tick \/ NegativeSpikes \/ Halt \/ Done

Spec == Init /\ [][Next]_vars /\ WF_vars(Next)

-----------------------------------------------------------------------------
(* What a window holds, counted in its streams.                            *)

\* The places of the first k symbols of source i's stream that hold symbols.
Places(i, k, symbols) == {j \in 1..k : stream[i][j] \in symbols}
Count(i, k, symbols)  == Cardinality(Places(i, k, symbols))
InWindow(i, symbols)  == Count(i, Len(stream[i]), symbols)

\* All the places of the window that hold symbols, over every source.
Total(symbols) ==
  Cardinality({p \in Source \X (1..H) :
                 p[2] <= Len(stream[p[1]]) /\ stream[p[1]][p[2]] \in symbols})

\* The preprocessor's hard limit: no source has more than H packets.
WithinLimit == \A i \in Source : Len(stream[i]) <= H + 1

Exceeded(i)    == (base - ratio) * InWindow(i, SYN) > ratio * InWindow(i, {ACK})
RatioExceeded  == \E i \in Source : Exceeded(i)
RateReached    == Total(SYN) >= rate_K
PatternReached == Total({2}) >= pattern_P

Deserved(f) == \/ f = "rate" /\ RateReached
               \/ f = "ratio" /\ RatioExceeded
               \/ f = "pattern" /\ PatternReached

Tally == (IF Deserved("rate") THEN rate_weight ELSE 0)
           + (IF Deserved("ratio") THEN ratio_weight ELSE 0)
           + (IF Deserved("pattern") THEN pattern_weight ELSE 0)

\* A threshold of one spike makes the guard exact (RuleMaker.ThresholdRule).
ThresholdsAboveOne == rate_K > 1 /\ pattern_P > 1 /\ decision_threshold > 1

Expected ==
  {f \in Feature : Deserved(f)} \cup
  (IF Tally >= decision_threshold THEN {"alarm"} ELSE {})

-----------------------------------------------------------------------------
(* Properties.                                                             *)

TypeOK ==
  /\ stream \in [Source -> Streams]
  /\ sent \in [Source -> Nat] /\ \A i \in Source : sent[i] <= Len(stream[i])
  /\ held \in [Source -> 0..5]
  /\ ratioSpikes \in [Source -> Nat]
  /\ {rateSpikes, patternSpikes, orSpikes, decision, alarms} \subseteq Nat
  /\ flag \in [Feature -> 0..3]
  /\ seen \subseteq Feature \cup {"alarm"}
  /\ status \in {"running", "halted", "failed"}

\* The offset ratio*H keeps every RatioDetector_i from going below zero, so a
\* window within the hard limit is never answered with an error.
NeverFails == WithinLimit => status # "failed"

\* The symbols of source i whose counters have fired.
Passed(i) == IF held[i] = 0 THEN sent[i] ELSE sent[i] - 1

\* The counters hold the last symbol sent, and nothing before the first one
\* or after the last.
HeldIsLastSent ==
  \A i \in Source :
    \/ held[i] = 0 /\ sent[i] \in {0, Len(stream[i])}
    \/ held[i] # 0 /\ sent[i] > 0 /\ held[i] = stream[i][sent[i]]

\* What RatioDetector_i holds once the first k symbols have been counted, until
\* it fires.
Balance(i, k) ==
  init + syn_w * Count(i, k, SYN) + ack_w * Count(i, k, {ACK})
       + finalize * Count(i, k, {End})

\* A RatioDetector_i keeps its balance until its whole stream, end marker
\* included, has been counted, whatever the other sources do: no prefix of a
\* window, however SYN-heavy, fires it.
RatioLedger ==
  WithinLimit =>
    \A i \in Source :
      \/ ratioSpikes[i] = Balance(i, Passed(i))
      \/ /\ ratioSpikes[i] = 0
         /\ Passed(i) = Len(stream[i]) /\ Exceeded(i)
         /\ orSpikes > 0 \/ "ratio" \in seen

\* The ratio verdict is the integer test on each source's own counts.
RatioVerdict ==
  status = "halted" /\ WithinLimit => ("ratio" \in seen <=> RatioExceeded)

\* Rate and pattern add up what all the sources send, in whatever tick.
AggregateVerdicts ==
  status = "halted" /\ WithinLimit /\ ThresholdsAboveOne =>
    /\ "rate" \in seen <=> RateReached
    /\ "pattern" \in seen <=> PatternReached

\* The alarm is the weighted vote over the features that fired, one vote each
\* however often a detector refired: it is raised when the window deserves it, and
\* once only if the weights together cannot clear the threshold twice.
AlarmVerdict ==
  status = "halted" /\ WithinLimit /\ ThresholdsAboveOne =>
    /\ alarms >= 1 <=> Tally >= decision_threshold
    /\ alarms >= 1 <=> "alarm" \in seen
    /\ rate_weight + ratio_weight + pattern_weight < 2 * decision_threshold => alarms <= 1

\* A flag that has been spent never reaches its firing count again.
OneVotePerFeature ==
  [][\A f \in Feature : flag[f] < 2 => flag'[f] < 2]_vars

\* Every window is answered: the network runs out of work.
Answered == <>(status # "running")

\* rulemaker.py: the pattern detector "fires once the bogon-SYN count summed
\* across all sources within a window reaches threshold".
PatternFiresAtThreshold ==
  status = "halted" /\ WithinLimit /\ PatternReached => "pattern" \in seen
=============================================================================
