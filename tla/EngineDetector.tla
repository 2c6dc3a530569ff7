--------------------------- MODULE EngineDetector ---------------------------
(***************************************************************************)
(* The engine running the system the builder builds: the neurons, rules    *)
(* and synapses of PerSourceBuilder in SNPSystem, neuron by neuron, and    *)
(* the tick-level Detector as what its history shows after every tick.     *)
(***************************************************************************)
EXTENDS SNPSystem, PerSourceBuilder

CONSTANT Streams

ASSUME WiringAssumption ==
  /\ Order = BuiltOrder
  /\ Inputs = BuiltInputs
  /\ Outputs = BuiltOutputs
  /\ RulesOf = BuiltRules
  /\ ContentOf = BuiltContent
  /\ Weight = BuiltWeight
  /\ Requests \subseteq [BuiltInputs -> Streams] /\ Streams \subseteq Seq(1..5)

PerSource(name) == [i \in Source |-> row.spikes[<<name, i>>]]
Holds(name)     == row.spikes[Shared(name)]

FlagOf ==
  [f \in {"rate", "ratio", "pattern"} |->
     CASE f = "rate"    -> Holds("RateFlag")
       [] f = "ratio"   -> Holds("RatioFlag")
       [] f = "pattern" -> Holds("PatternFlag")]

\* The spikes an Output neuron has recorded, each by its tick and its number in it.
RecordedSpikes(ticks) == UNION {{k} \X (1..ticks[k]) : k \in DOMAIN ticks}

\* Analyzer._check_feature, over the rows so far.
SeenIn(fired) ==
  {f \in {"rate", "ratio", "pattern", "alarm"} :
     \/ f = "rate" /\ Shared("RateDetector") \in fired
     \/ f = "ratio" /\ Shared("RatioOR") \in fired
     \/ f = "pattern" /\ Shared("PatternDetector") \in fired
     \/ f = "alarm" /\ Shared("Decision") \in fired}

D == INSTANCE Detector WITH
  stream        <- [i \in Source |-> request[<<"Packets", i>>]],
  sent          <- [i \in Source |-> Len(request[<<"Packets", i>>])
                                       - Len(row.remaining[<<"Packets", i>>])],
  held          <- PerSource("AnomalousSYN"),
  ratioSpikes   <- PerSource("RatioDetector"),
  rateSpikes    <- Holds("RateDetector"),
  patternSpikes <- Holds("PatternDetector"),
  orSpikes      <- Holds("RatioOR"),
  flag          <- FlagOf,
  decision      <- Holds("Decision"),
  alarms        <- Cardinality(RecordedSpikes(row.recorded[Shared("Output")])),
  seen          <- SeenIn(spiked),
  status        <- IF status = "answered" /\ endpoint = "simulate"
                   THEN "halted"
                   ELSE IF status = "failed" THEN "failed" ELSE "running"

-----------------------------------------------------------------------------

TypeOK ==
  /\ endpoint \in {"simulate", "step"} /\ status \in {"running", "answered", "failed"}
  /\ DOMAIN spikes = BuiltRegular /\ DOMAIN incoming = BuiltRegular \cup BuiltOutputs
  /\ turn \in 0..(Len(Order) + 1) /\ owed \in 0..2
  /\ \A r \in BuiltRegular :
       delayed[r] = {} /\ activated[r] \in SUBSET BuiltRules[r]

\* Neuron by neuron, the engine does in one tick what the tick-level detector
\* does in one step, errors included.
ImplementsDetector == D!Init /\ [][D!Next]_(D!vars)

\* neuron.py: the detector is constructed so that at most one rule is ever
\* applicable per neuron, which is what makes a run reproducible.
AtMostOneRule ==
  \A r \in BuiltRegular : \A one, other \in Fireable(r) : one = other

\* No mail crosses a tick boundary: the builder's list order is a topological
\* order of its synapses.
MailFoldedWithinTick == turn = 0 => \A t \in Boxes : incoming[t] = 0

\* Every request is answered or fails.
Served == <>(status # "running")
=============================================================================
