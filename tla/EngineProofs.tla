---------------------------- MODULE EngineProofs ----------------------------
(***************************************************************************)
(* What the engine running the built system guarantees, for every number   *)
(* of sources, every threshold and every train, and that neuron by neuron  *)
(* it does what the tick-level Detector does.                              *)
(***************************************************************************)
EXTENDS EngineDetector, FiniteSetTheorems, TLAPS

-----------------------------------------------------------------------------
(* The wiring: the list order, the synapses and the kinds of neurons.      *)

\* The builder's parameters, one by one.
LEMMA Parameters ==
  /\ n \in Nat \ {0} /\ H \in Nat \ {0} /\ rate_K \in Nat \ {0}
  /\ pattern_P \in Nat \ {0} /\ decision_threshold \in Nat \ {0}
  /\ base \in Nat /\ ratio \in Nat /\ ratio < base
  /\ ratio_weight \in Nat /\ rate_weight \in Nat /\ pattern_weight \in Nat
BY BuilderAssumption

\* The engine runs the list, the rules and the synapses the builder posts.
LEMMA Wiring ==
  /\ Order = BuiltOrder /\ Inputs = BuiltInputs /\ Outputs = BuiltOutputs
  /\ RulesOf = BuiltRules /\ ContentOf = BuiltContent /\ Weight = BuiltWeight
  /\ Requests \subseteq [BuiltInputs -> Streams]
BY WiringAssumption

\* The place of a name in its part of the list.
Rank(name) ==
  CASE name \in {"Packets", "RateDetector"}         -> 1
    [] name \in {"AnomalousSYN", "PatternDetector"} -> 2
    [] name \in {"NormalSYN", "RatioOR"}            -> 3
    [] name \in {"NormalACK", "RateFlag"}           -> 4
    [] name \in {"StreamEndDetector", "RatioFlag"}  -> 5
    [] name \in {"RatioDetector", "PatternFlag"}    -> 6
    [] name = "Decision"                            -> 7
    [] name = "Output"                              -> 8

Place(id) == IF id[2] = 0 THEN 6 * n + Rank(id[1]) ELSE 6 * (id[2] - 1) + Rank(id[1])

\* The list names every neuron once, each at the place its name gives.
LEMMA PlaceOfOrder ==
  /\ DOMAIN Order = 1..(6 * n + 8) /\ Len(Order) = 6 * n + 8
  /\ \A k \in DOMAIN Order : Place(Order[k]) = k
<1> USE Parameters
<1>1. Order = BuiltOrder
  BY Wiring
<1>2. DOMAIN Order = 1..(6 * n + 8) /\ Len(Order) = 6 * n + 8
  <2>1. DOMAIN Order = 1..(6 * n + 8)
    BY <1>1 DEF BuiltOrder
  <2> DEFINE S == {Order[k] : k \in 1..(6 * n + 8)}
             m == 6 * n + 8
  <2>2. m \in Nat /\ Order \in [1..m -> S]
    <3>1. Order = [k \in 1..m |-> Order[k]]
      BY <1>1 DEF BuiltOrder
    <3> QED
      BY <3>1
  <2> HIDE DEF S, m
  <2>3. Order \in Seq(S)
    BY <2>2
  <2>4. Len(Order) \in Nat /\ DOMAIN Order = 1..Len(Order)
    BY <2>3
  <2>5. Len(Order) = m
    BY <2>2, <2>4
  <2> QED
    BY <2>1, <2>5 DEF m
<1>3. ASSUME NEW k \in 1..(6 * n + 8), k <= 6 * n PROVE Place(Order[k]) = k
  <2> DEFINE q == (k - 1) \div 6
             r == (k - 1) % 6
  <2>1. q \in Nat /\ r \in 0..5 /\ k = 6 * q + r + 1
    OBVIOUS
  <2> HIDE DEF q, r
  <2>2. Order[k] = <<ChainNames[r + 1], q + 1>>
    BY <1>1, <1>3 DEF BuiltOrder, q, r
  <2>3. Rank(ChainNames[r + 1]) = r + 1
    BY <2>1 DEF Rank, ChainNames
  <2> QED
    BY <2>1, <2>2, <2>3 DEF Place
<1>4. ASSUME NEW k \in 1..(6 * n + 8), k > 6 * n PROVE Place(Order[k]) = k
  <2>1. k - 6 * n \in 1..8
    BY <1>4
  <2>2. Order[k] = <<SharedNames[k - 6 * n], 0>>
    BY <1>1, <1>4 DEF BuiltOrder, Shared
  <2>3. Rank(SharedNames[k - 6 * n]) = k - 6 * n
    BY <2>1 DEF Rank, SharedNames
  <2> QED
    BY <2>1, <2>2, <2>3 DEF Place
<1> QED
  BY <1>2, <1>3, <1>4

\* No two synapses join the same neurons.
LEMMA OneWeight ==
  ASSUME NEW s \in BuiltSynapses, NEW u \in BuiltSynapses, s[1] = u[1], s[2] = u[2]
  PROVE  s[3] = u[3]
BY DEF BuiltSynapses, VoteSynapses, ChainSynapses, Shared, Source

\* A synapse carries the weight it was built with.
LEMMA WeightOfSynapse ==
  ASSUME NEW f, NEW t
  PROVE  /\ <<f, t>> \in DOMAIN Weight <=> \E w : <<f, t, w>> \in BuiltSynapses
         /\ \A w : <<f, t, w>> \in BuiltSynapses => Weight[<<f, t>>] = w
<1>1. Weight = BuiltWeight
  BY Wiring
<1>2. \A s \in BuiltSynapses : s = <<s[1], s[2], s[3]>>
  BY DEF BuiltSynapses, VoteSynapses, ChainSynapses
<1>3. <<f, t>> \in DOMAIN Weight <=> \E w : <<f, t, w>> \in BuiltSynapses
  BY <1>1, <1>2 DEF BuiltWeight
<1>4. ASSUME NEW w, <<f, t, w>> \in BuiltSynapses PROVE Weight[<<f, t>>] = w
  <2> DEFINE u == CHOOSE s \in BuiltSynapses : <<s[1], s[2]>> = <<f, t>>
  <2>1. u \in BuiltSynapses /\ u[1] = f /\ u[2] = t
    BY <1>4
  <2>2. Weight[<<f, t>>] = u[3]
    BY <1>1, <1>3, <1>4 DEF BuiltWeight
  <2> QED
    BY <1>4, <2>1, <2>2, OneWeight
<1> QED
  BY <1>3, <1>4

Counters == {"AnomalousSYN", "NormalSYN", "NormalACK", "StreamEndDetector"}

\* Who sends to the counters and the RatioDetector of a source.
LEMMA IntoChain ==
  ASSUME NEW i \in Source, NEW f
  PROVE  /\ \A w : \A c \in Counters : <<f, <<c, i>>, w>> \in BuiltSynapses
                <=> f = <<"Packets", i>> /\ w = 1
         /\ \A w : <<f, <<"RatioDetector", i>>, w>> \in BuiltSynapses <=>
              \/ f = <<"AnomalousSYN", i>> /\ w = syn_w
              \/ f = <<"NormalSYN", i>> /\ w = syn_w
              \/ f = <<"NormalACK", i>> /\ w = ack_w
              \/ f = <<"StreamEndDetector", i>> /\ w = finalize
BY DEF BuiltSynapses, VoteSynapses, ChainSynapses, Shared, Source, Counters

\* Who sends to the neurons all the sources share.
LEMMA IntoShared ==
  ASSUME NEW f, NEW w
  PROVE  /\ <<f, Shared("RateDetector"), w>> \in BuiltSynapses <=>
              \E i \in Source : f \in {<<"AnomalousSYN", i>>, <<"NormalSYN", i>>} /\ w = 1
         /\ <<f, Shared("PatternDetector"), w>> \in BuiltSynapses <=>
              \E i \in Source : f = <<"AnomalousSYN", i>> /\ w = 1
         /\ <<f, Shared("RatioOR"), w>> \in BuiltSynapses <=>
              \E i \in Source : f = <<"RatioDetector", i>> /\ w = 1
         /\ <<f, Shared("RateFlag"), w>> \in BuiltSynapses <=>
              f = Shared("RateDetector") /\ w = 1
         /\ <<f, Shared("RatioFlag"), w>> \in BuiltSynapses <=>
              f = Shared("RatioOR") /\ w = 1
         /\ <<f, Shared("PatternFlag"), w>> \in BuiltSynapses <=>
              f = Shared("PatternDetector") /\ w = 1
         /\ <<f, Shared("Decision"), w>> \in BuiltSynapses <=>
              \/ f = Shared("RatioFlag") /\ w = ratio_weight
              \/ f = Shared("RateFlag") /\ w = rate_weight
              \/ f = Shared("PatternFlag") /\ w = pattern_weight
         /\ <<f, Shared("Output"), w>> \in BuiltSynapses <=>
              f = Shared("Decision") /\ w = 1
BY DEF BuiltSynapses, VoteSynapses, ChainSynapses, Shared, Source

\* The list order is a topological order of the synapses.
LEMMA SynapsesLeadForward ==
  ASSUME NEW s \in BuiltSynapses
  PROVE  Place(s[1]) < Place(s[2])
BY Parameters DEF BuiltSynapses, VoteSynapses, ChainSynapses, Shared, Source, Place, Rank

SharedRegular == {"RateDetector", "PatternDetector", "RatioOR", "RateFlag",
                  "RatioFlag", "PatternFlag", "Decision"}

\* The neurons of the list: six for every source, eight shared.
LEMMA Listed ==
  Ids = {<<c, i>> : c \in Counters \cup {"Packets", "RatioDetector"}, i \in Source}
          \cup {Shared(c) : c \in SharedRegular \cup {"Output"}}
<1> USE Parameters
<1> DEFINE Chain == {<<c, i>> : c \in Counters \cup {"Packets", "RatioDetector"}, i \in Source}
           Common == {Shared(c) : c \in SharedRegular \cup {"Output"}}
<1>1. Order = BuiltOrder /\ DOMAIN Order = 1..(6 * n + 8)
  BY Wiring, PlaceOfOrder
<1>2. ASSUME NEW k \in 1..(6 * n + 8) PROVE Order[k] \in Chain \cup Common
  <2>1. CASE k <= 6 * n
    <3> DEFINE q == (k - 1) \div 6
               r == (k - 1) % 6
    <3>1. q \in Nat /\ r \in 0..5 /\ k = 6 * q + r + 1
      OBVIOUS
    <3>2. Order[k] = <<ChainNames[r + 1], q + 1>>
      BY <1>1, <2>1 DEF BuiltOrder
    <3> HIDE DEF q, r
    <3>3. q + 1 \in Source
      BY <2>1, <3>1 DEF Source
    <3>4. ChainNames[r + 1] \in Counters \cup {"Packets", "RatioDetector"}
      BY <3>1 DEF ChainNames, Counters
    <3> QED
      BY <3>2, <3>3, <3>4
  <2>2. CASE k > 6 * n
    <3>1. k - 6 * n \in 1..8
      BY <2>2
    <3>2. Order[k] = Shared(SharedNames[k - 6 * n])
      BY <1>1, <2>2 DEF BuiltOrder
    <3>3. SharedNames[k - 6 * n] \in SharedRegular \cup {"Output"}
      BY <3>1 DEF SharedNames, SharedRegular
    <3> QED
      BY <3>2, <3>3
  <2> QED
    BY <2>1, <2>2
<1>3. ASSUME NEW i \in Source, NEW c \in 1..6
      PROVE  <<ChainNames[c], i>> \in Ids
  <2> DEFINE q == i - 1
             r == c - 1
             k == 6 * q + r + 1
  <2>1. q \in Nat /\ r \in 0..5 /\ q + 1 = i /\ r + 1 = c /\ q < n
    BY DEF Source
  <2> HIDE DEF q, r
  <2>2. k \in 1..(6 * n) /\ k - 1 = 6 * q + r
    BY <2>1
  <2>3. (k - 1) \div 6 = q /\ (k - 1) % 6 = r
    BY <2>1, <2>2
  <2> HIDE DEF k
  <2>4. k \in 1..(6 * n + 8) /\ k <= 6 * n
    BY <2>2
  <2>5. Order[k] = <<ChainNames[((k - 1) % 6) + 1], ((k - 1) \div 6) + 1>>
    BY <1>1, <2>4 DEF BuiltOrder
  <2> QED
    BY <1>1, <2>1, <2>3, <2>4, <2>5 DEF Ids
<1>4. ASSUME NEW c \in 1..8 PROVE Shared(SharedNames[c]) \in Ids
  <2>1. 6 * n + c \in 1..(6 * n + 8) /\ 6 * n + c - 6 * n = c /\ ~(6 * n + c <= 6 * n)
    OBVIOUS
  <2>2. Order[6 * n + c] = Shared(SharedNames[c])
    BY <1>1, <2>1 DEF BuiltOrder
  <2> QED
    BY <1>1, <2>1, <2>2 DEF Ids
<1>5. Chain \subseteq Ids
  <2>1. \A c \in Counters \cup {"Packets", "RatioDetector"} : \E j \in 1..6 : ChainNames[j] = c
    BY DEF ChainNames, Counters
  <2>2. ASSUME NEW c \in Counters \cup {"Packets", "RatioDetector"}, NEW i \in Source
        PROVE  <<c, i>> \in Ids
    <3>1. PICK j \in 1..6 : ChainNames[j] = c
      BY <2>1
    <3> QED
      BY <1>3, <3>1
  <2> QED
    BY <2>2
<1>6. Common \subseteq Ids
  <2>1. \A c \in SharedRegular \cup {"Output"} : \E j \in 1..8 : SharedNames[j] = c
    BY DEF SharedNames, SharedRegular
  <2> QED
    BY <1>4, <2>1
<1>7. Ids \subseteq Chain \cup Common
  BY <1>1, <1>2 DEF Ids
<1> QED
  BY <1>5, <1>6, <1>7

\* The neurons of each kind.
LEMMA Members ==
  /\ Inputs = {<<"Packets", i>> : i \in Source} /\ Outputs = {Shared("Output")}
  /\ Regular = BuiltRegular
  /\ Regular = {<<c, i>> : c \in Counters \cup {"RatioDetector"}, i \in Source}
                 \cup {Shared(c) : c \in SharedRegular}
<1>1. Inputs = {<<"Packets", i>> : i \in Source} /\ Outputs = {Shared("Output")}
  BY Wiring DEF BuiltInputs, BuiltOutputs
<1>2. Regular = BuiltRegular
  BY Wiring DEF Regular, BuiltRegular, Ids
<1>3. Regular = {<<c, i>> : c \in Counters \cup {"RatioDetector"}, i \in Source}
                 \cup {Shared(c) : c \in SharedRegular}
  <2>1. \A i \in Source : i # 0
    BY Parameters DEF Source
  <2> QED
    BY <1>1, <2>1, Listed DEF Regular, Counters, SharedRegular, Shared
<1> QED
  BY <1>1, <1>2, <1>3

-----------------------------------------------------------------------------
(* What a tick sends, from the last row and the neurons activated so far.  *)

Emitted(old, id) ==
  IF id \in Inputs
  THEN IF old.remaining[id] = <<>> THEN 0 ELSE Head(old.remaining[id])
  ELSE IF \E rule \in RulesOf[id] : Matches(rule, old.spikes[id]) /\ rule.produce = 1
       THEN 1 ELSE 0

\* What from adds to the box of id when it is activated.
Contribution(old, from, id) ==
  IF <<from, id>> \in DOMAIN Weight THEN Weight[<<from, id>>] * Emitted(old, from) ELSE 0

\* The same, of the neurons in A.
Part(old, A, from, id) == IF from \in A THEN Contribution(old, from, id) ELSE 0

\* The sources whose neuron of that name is in A and fires.
Senders(old, A, name) == {i \in Source : <<name, i>> \in A /\ Emitted(old, <<name, i>>) = 1}

Mail(old, A, id) ==
  CASE id[1] \in Counters       -> Part(old, A, <<"Packets", id[2]>>, id)
    [] id[1] = "RatioDetector"  -> Part(old, A, <<"AnomalousSYN", id[2]>>, id)
                                   + Part(old, A, <<"NormalSYN", id[2]>>, id)
                                   + Part(old, A, <<"NormalACK", id[2]>>, id)
                                   + Part(old, A, <<"StreamEndDetector", id[2]>>, id)
    [] id[1] = "RateDetector"    -> Cardinality(Senders(old, A, "AnomalousSYN"))
                                      + Cardinality(Senders(old, A, "NormalSYN"))
    [] id[1] = "PatternDetector" -> Cardinality(Senders(old, A, "AnomalousSYN"))
    [] id[1] = "RatioOR"         -> Cardinality(Senders(old, A, "RatioDetector"))
    [] id[1] = "RateFlag"        -> Part(old, A, Shared("RateDetector"), id)
    [] id[1] = "RatioFlag"       -> Part(old, A, Shared("RatioOR"), id)
    [] id[1] = "PatternFlag"     -> Part(old, A, Shared("PatternDetector"), id)
    [] id[1] = "Decision"        -> Part(old, A, Shared("RatioFlag"), id)
                                    + Part(old, A, Shared("RateFlag"), id)
                                    + Part(old, A, Shared("PatternFlag"), id)
    [] id[1] = "Output"          -> Part(old, A, Shared("Decision"), id)

\* The weights and offsets are integers; only what an ACK adds may be negative.
LEMMA Weights ==
  syn_w \in Nat /\ ack_w \in Int /\ finalize \in Nat /\ init \in Nat
<1>1. syn_w \in Nat /\ ack_w \in Int
  BY Parameters DEF syn_w, ack_w
<1>2. \A a, b \in Nat : a * b \in Nat
  OBVIOUS
<1> QED
  BY <1>1, <1>2, Parameters DEF finalize, syn_w, init

\* Nothing but a Packets_i emits more than one spike.
LEMMA EmittedType ==
  ASSUME NEW old, NEW id, id \notin Inputs
  PROVE  Emitted(old, id) \in {0, 1}
BY DEF Emitted

\* Only the Packets_i are inputs.
LEMMA NotInput ==
  /\ \A c, i : c # "Packets" => <<c, i>> \notin Inputs
  /\ \A c : Shared(c) \notin Inputs
<1>1. \A i \in Source : i # 0
  BY Parameters DEF Source
<1> QED
  BY <1>1, Members DEF Shared

\* The weights are integers, and so is all that one neuron sends another.
LEMMA ContributionType ==
  ASSUME NEW old, NEW from, Emitted(old, from) \in Int, NEW id
  PROVE  Contribution(old, from, id) \in Int
<1>1. \A s \in BuiltSynapses : s[3] \in Int
  BY Weights, Parameters DEF BuiltSynapses, VoteSynapses, ChainSynapses
<1>2. \A w : <<from, id, w>> \in BuiltSynapses => w \in Int
  BY <1>1
<1>3. \A a, b \in Int : a * b \in Int
  OBVIOUS
<1>4. CASE <<from, id>> \in DOMAIN Weight
  <2>1. PICK w : <<from, id, w>> \in BuiltSynapses
    BY <1>4, WeightOfSynapse
  <2>2. Weight[<<from, id>>] \in Int
    BY <1>2, <2>1, WeightOfSynapse
  <2> QED
    BY <1>3, <1>4, <2>2 DEF Contribution
<1> QED
  BY <1>4 DEF Contribution

\* One more neuron activated adds what it emits to the senders of its name.
LEMMA SendersStep ==
  ASSUME NEW old, NEW A, NEW from, from \notin A, NEW name, name # "Packets"
  PROVE  /\ Cardinality(Senders(old, A, name)) \in Nat
         /\ Cardinality(Senders(old, A \cup {from}, name))
              = Cardinality(Senders(old, A, name)) +
                IF \E i \in Source : from = <<name, i>> THEN Emitted(old, from) ELSE 0
<1> DEFINE S == Senders(old, A, name)
           T == Senders(old, A \cup {from}, name)
<1>1. IsFiniteSet(S) /\ Cardinality(S) \in Nat
  <2>1. IsFiniteSet(Source) /\ S \subseteq Source
    BY Parameters, FS_Interval DEF Source, Senders
  <2> QED
    BY <2>1, FS_Subset, FS_CardinalityType
<1>2. CASE \E i \in Source : from = <<name, i>>
  <2>1. PICK i \in Source : from = <<name, i>>
    BY <1>2
  <2>2. i \notin S
    BY <2>1 DEF Senders
  <2>3. \A j \in Source : j # i => (j \in T <=> j \in S)
    BY <2>1 DEF Senders
  <2>4. i \in T <=> Emitted(old, from) = 1
    BY <2>1 DEF Senders
  <2>5. Emitted(old, from) \in {0, 1}
    BY <2>1, EmittedType, NotInput
  <2>6. S \subseteq Source /\ T \subseteq Source
    BY DEF Senders
  <2> HIDE DEF S, T
  <2>7. CASE Emitted(old, from) = 1
    <3>1. T = S \cup {i}
      BY <2>3, <2>4, <2>6, <2>7
    <3> QED
      BY <1>1, <1>2, <2>2, <2>7, <3>1, FS_AddElement DEF S, T
  <2>8. CASE Emitted(old, from) = 0
    <3>1. T = S
      BY <2>2, <2>3, <2>4, <2>6, <2>8
    <3> QED
      BY <1>1, <1>2, <2>8, <3>1 DEF S, T
  <2> QED
    BY <2>5, <2>7, <2>8
<1>3. CASE ~ \E i \in Source : from = <<name, i>>
  <2>1. T = S
    BY <1>3 DEF Senders
  <2> QED
    BY <1>1, <1>3, <2>1
<1> QED
  BY <1>2, <1>3

\* A train holds symbols.
Trains(old) == \A i \in Inputs : Emitted(old, i) \in Int

\* The mail of a box grows by what the neuron just activated sends it.
LEMMA MailStep ==
  ASSUME NEW old, Trains(old), NEW A, NEW from, from \notin A, NEW id \in Boxes
  PROVE  /\ Mail(old, A, id) \in Int
         /\ Mail(old, A \cup {from}, id) = Mail(old, A, id) + Contribution(old, from, id)
<1> DEFINE B == A \cup {from}
<1>1. id \in {<<c, i>> : c \in Counters \cup {"RatioDetector"}, i \in Source}
              \cup {Shared(c) : c \in SharedRegular \cup {"Output"}}
  BY Members, Listed DEF Boxes, SharedRegular, Counters
<1>2. ASSUME NEW x PROVE Contribution(old, x, id) \in Int
  <2>1. Emitted(old, x) \in Int
    BY EmittedType DEF Trains
  <2> QED
    BY <2>1, ContributionType
<1>3. ASSUME NEW x, NEW X PROVE Part(old, X, x, id) \in Int
  BY <1>2 DEF Part
<1>4. ASSUME NEW name, name # "Packets"
      PROVE  /\ Cardinality(Senders(old, A, name)) \in Nat
             /\ Cardinality(Senders(old, A \cup {from}, name))
                    = Cardinality(Senders(old, A, name)) +
                  IF \E i \in Source : from = <<name, i>> THEN Emitted(old, from) ELSE 0
  BY <1>4, SendersStep
<1>5. ASSUME NEW x
      PROVE  Part(old, B, x, id) = IF x = from THEN Contribution(old, from, id)
                 ELSE Part(old, A, x, id)
  BY DEF Part
<1>6. Part(old, A, from, id) = 0
  BY DEF Part
<1>7. Contribution(old, from, id) # 0 => \E w : <<from, id, w>> \in BuiltSynapses
  BY WeightOfSynapse DEF Contribution
<1>8. <<from, id, 1>> \in BuiltSynapses => Contribution(old, from, id) = Emitted(old, from)
  <2>1. Emitted(old, from) \in Int
    BY EmittedType DEF Trains
  <2> QED
    BY <2>1, WeightOfSynapse DEF Contribution
<1> HIDE DEF B
<1>9. ASSUME NEW x, \A X : Mail(old, X, id) = Part(old, X, x, id),
             \A w : <<from, id, w>> \in BuiltSynapses => from = x
      PROVE  Mail(old, A, id) \in Int
                 /\ Mail(old, B, id) = Mail(old, A, id) + Contribution(old, from, id)
  <2>1. /\ Mail(old, A, id) = Part(old, A, x, id) /\ Mail(old, B, id) = Part(old, B, x, id)
        /\ Part(old, A, x, id) \in Int /\ Contribution(old, from, id) \in Int
    BY <1>2, <1>3, <1>9
  <2>2. CASE from = x
    <3>1. Part(old, A, x, id) = 0 /\ Part(old, B, x, id) = Contribution(old, from, id)
      BY <1>5, <1>6, <2>2
    <3> QED
      BY <2>1, <3>1
  <2>3. CASE from # x
    <3>1. Part(old, B, x, id) = Part(old, A, x, id) /\ Contribution(old, from, id) = 0
      BY <1>5, <1>7, <1>9, <2>3
    <3> QED
      BY <2>1, <3>1
  <2> QED
    BY <2>2, <2>3
<1>10. CASE \E i \in Source : id = <<"RatioDetector", i>>
  <2>1. PICK i \in Source : id = <<"RatioDetector", i>>
    BY <1>10
  <2> DEFINE a == <<"AnomalousSYN", i>>
             s == <<"NormalSYN", i>>
             k == <<"NormalACK", i>>
             e == <<"StreamEndDetector", i>>
  <2>2. \A X : Mail(old, X, id)
            = Part(old, X, a, id) + Part(old, X, s, id) + Part(old, X, k, id) + Part(old, X, e, id)
    BY <2>1 DEF Mail, Counters
  <2>3. Contribution(old, from, id) # 0 => from \in {a, s, k, e}
    BY <1>7, <2>1, IntoChain
  <2>4. a # s /\ a # k /\ a # e /\ s # k /\ s # e /\ k # e
    OBVIOUS
  <2> HIDE DEF a, s, k, e
  <2>5. /\ Mail(old, A, id) = Part(old, A, a, id) + Part(old, A, s, id) + Part(old, A, k, id)
               + Part(old, A, e, id)
        /\ Mail(old, B, id) = Part(old, B, a, id) + Part(old, B, s, id) + Part(old, B, k, id)
               + Part(old, B, e, id)
    BY <2>2
  <2>6. \A x \in {a, s, k, e} : Part(old, A, x, id) \in Int
    BY <1>3
  <2>7. ASSUME NEW x \in {a, s, k, e}, from = x
        PROVE  /\ Part(old, A, x, id) = 0 /\ Part(old, B, x, id) = Contribution(old, from, id)
               /\ \A y \in {a, s, k, e} \ {x} : Part(old, B, y, id) = Part(old, A, y, id)
    BY <1>5, <1>6, <2>7
  <2>8. PICK pa, ps, pk, pe, d \in Int :
           Part(old, A, a, id) = pa /\ Part(old, A, s, id) = ps /\ Part(old, A, k, id) = pk
               /\ Part(old, A, e, id) = pe /\ Contribution(old, from, id) = d
    BY <1>2, <2>6
  <2>9. CASE from = a
    <3>1. pa = 0
      BY <2>8, <2>7, <2>9
    <3>2. Mail(old, A, id) = pa + ps + pk + pe
      BY <2>5, <2>8
    <3>3. Mail(old, B, id) = d + ps + pk + pe
      BY <2>4, <2>5, <2>7, <2>8, <2>9
    <3> QED
      BY <2>8, <3>1, <3>2, <3>3 DEF B
  <2>10. CASE from = s
    <3>1. ps = 0
      BY <2>8, <2>7, <2>10
    <3>2. Mail(old, A, id) = pa + ps + pk + pe
      BY <2>5, <2>8
    <3>3. Mail(old, B, id) = pa + d + pk + pe
      BY <2>4, <2>5, <2>7, <2>8, <2>10
    <3> QED
      BY <2>8, <3>1, <3>2, <3>3 DEF B
  <2>11. CASE from = k
    <3>1. pk = 0
      BY <2>8, <2>7, <2>11
    <3>2. Mail(old, A, id) = pa + ps + pk + pe
      BY <2>5, <2>8
    <3>3. Mail(old, B, id) = pa + ps + d + pe
      BY <2>4, <2>5, <2>7, <2>8, <2>11
    <3> QED
      BY <2>8, <3>1, <3>2, <3>3 DEF B
  <2>12. CASE from = e
    <3>1. pe = 0
      BY <2>8, <2>7, <2>12
    <3>2. Mail(old, A, id) = pa + ps + pk + pe
      BY <2>5, <2>8
    <3>3. Mail(old, B, id) = pa + ps + pk + d
      BY <2>4, <2>5, <2>7, <2>8, <2>12
    <3> QED
      BY <2>8, <3>1, <3>2, <3>3 DEF B
  <2>13. CASE from \notin {a, s, k, e}
    <3>1. Mail(old, A, id) = pa + ps + pk + pe
      BY <2>5, <2>8
    <3>2. Mail(old, B, id) = pa + ps + pk + pe /\ d = 0
      BY <1>5, <2>3, <2>5, <2>8, <2>13
    <3> QED
      BY <2>8, <3>1, <3>2 DEF B
  <2> QED
    BY <2>9, <2>10, <2>11, <2>12, <2>13 DEF B
<1>11. CASE id = Shared("RateDetector")
  <2>1. \A X : Mail(old, X, id) = Cardinality(Senders(old, X, "AnomalousSYN"))
            + Cardinality(Senders(old, X, "NormalSYN"))
    BY <1>11 DEF Mail, Counters, Shared
  <2>2. Contribution(old, from, id) =
          IF \E i \in Source : from \in {<<"AnomalousSYN", i>>, <<"NormalSYN", i>>}
          THEN Emitted(old, from) ELSE 0
    <3>1. \A w : <<from, id, w>> \in BuiltSynapses <=>
                   \E i \in Source : from \in {<<"AnomalousSYN", i>>, <<"NormalSYN", i>>} /\ w = 1
      BY <1>11, IntoShared
    <3> QED
      BY <1>7, <1>8, <3>1
  <2>3. /\ \A name \in {"AnomalousSYN", "NormalSYN"} :
              /\ Cardinality(Senders(old, A, name)) \in Nat
              /\ Cardinality(Senders(old, A \cup {from}, name))
                     = Cardinality(Senders(old, A, name)) +
                   IF \E i \in Source : from = <<name, i>> THEN Emitted(old, from) ELSE 0
    BY <1>4
  <2>4. PICK x, y \in Nat : /\ Cardinality(Senders(old, A, "AnomalousSYN")) = x
                            /\ Cardinality(Senders(old, A, "NormalSYN")) = y
    BY <2>3
  <2>5. Mail(old, A, id) = x + y
    BY <2>1, <2>4
  <2>6. /\ Cardinality(Senders(old, B, "AnomalousSYN")) = x +
             IF \E i \in Source : from = <<"AnomalousSYN", i>> THEN Emitted(old, from) ELSE 0
        /\ Cardinality(Senders(old, B, "NormalSYN")) = y +
             IF \E i \in Source : from = <<"NormalSYN", i>> THEN Emitted(old, from) ELSE 0
    BY <2>3, <2>4 DEF B
  <2>7. Mail(old, B, id) = Cardinality(Senders(old, B, "AnomalousSYN"))
            + Cardinality(Senders(old, B, "NormalSYN"))
    BY <2>1
  <2>8. Emitted(old, from) \in Int
    BY EmittedType DEF Trains
  <2>9. Mail(old, B, id) = x + y + Contribution(old, from, id)
    <3>1. CASE \E i \in Source : from = <<"AnomalousSYN", i>>
      <4>1. ~ \E i \in Source : from = <<"NormalSYN", i>>
        BY <3>1
      <4>2. /\ Cardinality(Senders(old, B, "AnomalousSYN")) = x + Emitted(old, from)
            /\ Cardinality(Senders(old, B, "NormalSYN")) = y + 0
                   /\ Contribution(old, from, id) = Emitted(old, from)
        BY <2>2, <2>6, <3>1, <4>1
      <4> QED
        BY <2>7, <2>8, <4>2
    <3>2. CASE \E i \in Source : from = <<"NormalSYN", i>>
      <4>1. ~ \E i \in Source : from = <<"AnomalousSYN", i>>
        BY <3>2
      <4>2. /\ Cardinality(Senders(old, B, "AnomalousSYN")) = x + 0
            /\ Cardinality(Senders(old, B, "NormalSYN")) = y + Emitted(old, from)
                   /\ Contribution(old, from, id) = Emitted(old, from)
        BY <2>2, <2>6, <3>2, <4>1
      <4> QED
        BY <2>7, <2>8, <4>2
    <3>3. CASE /\ ~ \E i \in Source : from = <<"NormalSYN", i>>
               /\ ~ \E i \in Source : from = <<"AnomalousSYN", i>>
      <4>2. /\ Cardinality(Senders(old, B, "AnomalousSYN")) = x + 0
            /\ Cardinality(Senders(old, B, "NormalSYN")) = y + 0 /\ Contribution(old, from, id) = 0
        BY <2>2, <2>6, <3>3
      <4> QED
        BY <2>7, <2>8, <4>2
    <3> QED
      BY <3>1, <3>2, <3>3
  <2> QED
    BY <2>5, <2>9 DEF B
<1>12. CASE id = Shared("PatternDetector")
  <2>1. \A X : Mail(old, X, id) = Cardinality(Senders(old, X, "AnomalousSYN"))
    BY <1>12 DEF Mail, Counters, Shared
  <2>2. Contribution(old, from, id) =
          IF \E i \in Source : from = <<"AnomalousSYN", i>> THEN Emitted(old, from) ELSE 0
    <3>1. \A w : <<from, id, w>> \in BuiltSynapses <=>
                   \E i \in Source : from = <<"AnomalousSYN", i>> /\ w = 1
      BY <1>12, IntoShared
    <3> QED
      BY <1>7, <1>8, <3>1
  <2>3. /\ Cardinality(Senders(old, A, "AnomalousSYN")) \in Nat
        /\ Cardinality(Senders(old, A \cup {from}, "AnomalousSYN"))
               = Cardinality(Senders(old, A, "AnomalousSYN")) +
             IF \E i \in Source : from = <<"AnomalousSYN", i>> THEN Emitted(old, from) ELSE 0
    BY <1>4
  <2>4. Mail(old, A, id) \in Int
    BY <2>1, <2>3
  <2> QED
    BY <2>1, <2>2, <2>3, <2>4 DEF B
<1>13. CASE id = Shared("RatioOR")
  <2>1. \A X : Mail(old, X, id) = Cardinality(Senders(old, X, "RatioDetector"))
    BY <1>13 DEF Mail, Counters, Shared
  <2>2. Contribution(old, from, id) =
          IF \E i \in Source : from = <<"RatioDetector", i>> THEN Emitted(old, from) ELSE 0
    <3>1. \A w : <<from, id, w>> \in BuiltSynapses <=>
                   \E i \in Source : from = <<"RatioDetector", i>> /\ w = 1
      BY <1>13, IntoShared
    <3> QED
      BY <1>7, <1>8, <3>1
  <2>3. /\ Cardinality(Senders(old, A, "RatioDetector")) \in Nat
        /\ Cardinality(Senders(old, A \cup {from}, "RatioDetector"))
               = Cardinality(Senders(old, A, "RatioDetector")) +
             IF \E i \in Source : from = <<"RatioDetector", i>> THEN Emitted(old, from) ELSE 0
    BY <1>4
  <2>4. Mail(old, A, id) \in Int
    BY <2>1, <2>3
  <2> QED
    BY <2>1, <2>2, <2>3, <2>4 DEF B
<1>14. CASE id = Shared("Decision")
  <2> DEFINE a == Shared("RatioFlag")
             s == Shared("RateFlag")
             k == Shared("PatternFlag")
  <2>1. \A X : Mail(old, X, id) = Part(old, X, a, id) + Part(old, X, s, id) + Part(old, X, k, id)
    BY <1>14 DEF Mail, Counters, Shared
  <2>2. Contribution(old, from, id) # 0 => from \in {a, s, k}
    BY <1>7, <1>14, IntoShared
  <2>3. a # s /\ a # k /\ s # k
    BY DEF Shared
  <2> HIDE DEF a, s, k
  <2>4. /\ Mail(old, A, id) = Part(old, A, a, id) + Part(old, A, s, id) + Part(old, A, k, id)
        /\ Mail(old, B, id) = Part(old, B, a, id) + Part(old, B, s, id) + Part(old, B, k, id)
    BY <2>1
  <2>5. \A x \in {a, s, k} : Part(old, A, x, id) \in Int
    BY <1>3
  <2>6. ASSUME NEW x \in {a, s, k}, from = x
        PROVE  /\ Part(old, A, x, id) = 0 /\ Part(old, B, x, id) = Contribution(old, from, id)
               /\ \A y \in {a, s, k} \ {x} : Part(old, B, y, id) = Part(old, A, y, id)
    BY <1>5, <1>6, <2>6
  <2>7. PICK pa, ps, pk, d \in Int :
           Part(old, A, a, id) = pa /\ Part(old, A, s, id) = ps /\ Part(old, A, k, id) = pk
               /\ Contribution(old, from, id) = d
    BY <1>2, <2>5
  <2>8. CASE from = a
    <3>1. pa = 0
      BY <2>7, <2>6, <2>8
    <3>2. Mail(old, A, id) = pa + ps + pk
      BY <2>4, <2>7
    <3>3. Mail(old, B, id) = d + ps + pk
      BY <2>3, <2>4, <2>6, <2>7, <2>8
    <3> QED
      BY <2>7, <3>1, <3>2, <3>3 DEF B
  <2>9. CASE from = s
    <3>1. ps = 0
      BY <2>7, <2>6, <2>9
    <3>2. Mail(old, A, id) = pa + ps + pk
      BY <2>4, <2>7
    <3>3. Mail(old, B, id) = pa + d + pk
      BY <2>3, <2>4, <2>6, <2>7, <2>9
    <3> QED
      BY <2>7, <3>1, <3>2, <3>3 DEF B
  <2>10. CASE from = k
    <3>1. pk = 0
      BY <2>7, <2>6, <2>10
    <3>2. Mail(old, A, id) = pa + ps + pk
      BY <2>4, <2>7
    <3>3. Mail(old, B, id) = pa + ps + d
      BY <2>3, <2>4, <2>6, <2>7, <2>10
    <3> QED
      BY <2>7, <3>1, <3>2, <3>3 DEF B
  <2>11. CASE from \notin {a, s, k}
    <3>1. Mail(old, A, id) = pa + ps + pk
      BY <2>4, <2>7
    <3>2. Mail(old, B, id) = pa + ps + pk /\ d = 0
      BY <1>5, <2>2, <2>4, <2>7, <2>11
    <3> QED
      BY <2>7, <3>1, <3>2 DEF B
  <2> QED
    BY <2>8, <2>9, <2>10, <2>11 DEF B
<1>15. CASE id \in {Shared("RateFlag"), Shared("RatioFlag"), Shared("PatternFlag"),
           Shared("Output")}
  <2>1. CASE id = Shared("RateFlag")
    <3>1. \A X : Mail(old, X, id) = Part(old, X, Shared("RateDetector"), id)
      BY <2>1 DEF Mail, Counters, Shared
    <3>2. \A w : <<from, id, w>> \in BuiltSynapses => from = Shared("RateDetector")
      BY <2>1, IntoShared
    <3> QED
      BY <1>9, <3>1, <3>2 DEF B
  <2>2. CASE id = Shared("RatioFlag")
    <3>1. \A X : Mail(old, X, id) = Part(old, X, Shared("RatioOR"), id)
      BY <2>2 DEF Mail, Counters, Shared
    <3>2. \A w : <<from, id, w>> \in BuiltSynapses => from = Shared("RatioOR")
      BY <2>2, IntoShared
    <3> QED
      BY <1>9, <3>1, <3>2 DEF B
  <2>3. CASE id = Shared("PatternFlag")
    <3>1. \A X : Mail(old, X, id) = Part(old, X, Shared("PatternDetector"), id)
      BY <2>3 DEF Mail, Counters, Shared
    <3>2. \A w : <<from, id, w>> \in BuiltSynapses => from = Shared("PatternDetector")
      BY <2>3, IntoShared
    <3> QED
      BY <1>9, <3>1, <3>2 DEF B
  <2>4. CASE id = Shared("Output")
    <3>1. \A X : Mail(old, X, id) = Part(old, X, Shared("Decision"), id)
      BY <2>4 DEF Mail, Counters, Shared
    <3>2. \A w : <<from, id, w>> \in BuiltSynapses => from = Shared("Decision")
      BY <2>4, IntoShared
    <3> QED
      BY <1>9, <3>1, <3>2 DEF B
  <2> QED
    BY <1>15, <2>1, <2>2, <2>3, <2>4
<1>16. CASE \E c \in Counters, i \in Source : id = <<c, i>>
  <2>1. PICK c \in Counters, i \in Source : id = <<c, i>>
    BY <1>16
  <2>2. \A X : Mail(old, X, id) = Part(old, X, <<"Packets", i>>, id)
    BY <2>1 DEF Mail, Counters
  <2>3. \A w : <<from, id, w>> \in BuiltSynapses => from = <<"Packets", i>>
    BY <2>1, IntoChain
  <2> QED
    BY <1>9, <2>2, <2>3 DEF B
<1> QED
  BY <1>1, <1>10, <1>11, <1>12, <1>13, <1>14, <1>15, <1>16 DEF SharedRegular

-----------------------------------------------------------------------------
(* The turns of a tick and the rules.                                      *)

\* Before anything is activated no box holds mail.
LEMMA MailNone ==
  ASSUME NEW old, NEW id \in Boxes
  PROVE  Mail(old, {}, id) = 0
<1>1. \A from : Part(old, {}, from, id) = 0
  BY DEF Part
<1>2. \A name : Senders(old, {}, name) = {}
  BY DEF Senders
<1>3. Cardinality({}) = 0
  BY FS_EmptySet
<1>4. id \in {<<c, i>> : c \in Counters \cup {"RatioDetector"}, i \in Source}
              \cup {Shared(c) : c \in SharedRegular \cup {"Output"}}
  BY Members, Listed DEF Boxes, SharedRegular, Counters
<1> QED
  BY <1>1, <1>2, <1>3, <1>4 DEF Mail, Counters, SharedRegular, Shared

\* The neurons activated before the k-th.
Activated(k) == {Order[j] : j \in 1..(k - 1)}

\* A turn activates one neuron more, for the first time in the tick.
LEMMA ActivatedStep ==
  ASSUME NEW k \in DOMAIN Order
  PROVE  /\ Activated(k + 1) = Activated(k) \cup {Order[k]}
         /\ Order[k] \notin Activated(k)
         /\ Activated(k) \subseteq Ids /\ Order[k] \in Ids
<1>1. k \in 1..(6 * n + 8) /\ DOMAIN Order = 1..(6 * n + 8)
  BY PlaceOfOrder
<1>2. \A j \in 1..((k + 1) - 1) : j \in 1..(k - 1) \/ j = k
  BY <1>1
<1>3. \A j \in 1..(k - 1) : j \in 1..((k + 1) - 1) /\ j \in DOMAIN Order /\ j # k
  BY <1>1, Parameters
<1>4. k \in 1..((k + 1) - 1)
  BY <1>1
<1>5. Activated(k + 1) = Activated(k) \cup {Order[k]}
  BY <1>2, <1>3, <1>4 DEF Activated
<1>6. Order[k] \notin Activated(k)
  BY <1>3, PlaceOfOrder DEF Activated
<1> QED
  BY <1>3, <1>5, <1>6 DEF Activated, Ids

\* No neuron is activated when a tick begins, every one when it ends.
LEMMA ActivatedEnds ==
  /\ Activated(0) = {} /\ Activated(1) = {}
  /\ Activated(Len(Order) + 1) = Ids
<1>1. DOMAIN Order = 1..Len(Order) /\ Len(Order) \in Nat
  BY PlaceOfOrder, Parameters
<1> QED
  BY <1>1 DEF Activated, Ids

\* A synapse leads to a neuron that is activated later.
LEMMA Forward ==
  ASSUME NEW k \in DOMAIN Order, NEW other
  PROVE  /\ <<other, Order[k]>> \in DOMAIN Weight => other \in Activated(k)
         /\ <<Order[k], other>> \in DOMAIN Weight => other \notin Activated(k + 1)
<1>1. DOMAIN Order = 1..(6 * n + 8) /\ \A j \in DOMAIN Order : Place(Order[j]) = j
  BY PlaceOfOrder
<1>2. \A f, t : <<f, t>> \in DOMAIN Weight => f \in Ids /\ t \in Ids /\ Place(f) < Place(t)
  <2> SUFFICES ASSUME NEW f, NEW t, <<f, t>> \in DOMAIN Weight
               PROVE  f \in Ids /\ t \in Ids /\ Place(f) < Place(t)
    OBVIOUS
  <2>1. PICK w : <<f, t, w>> \in BuiltSynapses
    BY WeightOfSynapse
  <2>2. <<f, t, w>>[1] = f /\ <<f, t, w>>[2] = t
    OBVIOUS
  <2>3. Place(f) < Place(t)
    BY <2>1, <2>2, SynapsesLeadForward
  <2> QED
    BY <2>3, SystemAssumption
<1>3. ASSUME <<other, Order[k]>> \in DOMAIN Weight PROVE other \in Activated(k)
  <2>1. PICK j \in DOMAIN Order : other = Order[j]
    BY <1>2, <1>3 DEF Ids
  <2>2. j < k
    BY <1>1, <1>2, <1>3, <2>1
  <2>3. j \in 1..(k - 1)
    BY <1>1, <2>2
  <2> QED
    BY <2>1, <2>3 DEF Activated
<1>4. ASSUME <<Order[k], other>> \in DOMAIN Weight, other \in Activated(k + 1) PROVE FALSE
  <2>1. PICK j \in 1..((k + 1) - 1) : other = Order[j]
    BY <1>4 DEF Activated
  <2>2. j \in DOMAIN Order /\ j <= k
    BY <1>1, <2>1, Parameters
  <2> QED
    BY <1>1, <1>2, <1>4, <2>1, <2>2
<1> QED
  BY <1>3, <1>4

\* Whatever a neuron holds, one rule at most matches it, and takes all of it;
\* no rule is delayed or produces more than one spike.
LEMMA Rules ==
  ASSUME NEW r \in Regular, NEW held \in Int,
         NEW rule \in RulesOf[r], Matches(rule, held)
  PROVE  /\ Consumed(rule, held) = held /\ rule.delay = 0 /\ rule.produce \in {0, 1}
         /\ \A other \in RulesOf[r] : Matches(other, held) => other = rule
<1>1. RulesOf[r] = BuiltRules[r] /\ r \in BuiltRegular
  BY Wiring, Members
<1>2. \/ \E k \in 2..5 : RulesOf[r] = SymbolRules(k)
      \/ \E k \in Int : RulesOf[r] = {ThresholdRule(k)}
      \/ RulesOf[r] = {OrRule} \/ RulesOf[r] = FlagRules
  <2>1. H \in Int /\ base * H + 1 \in Int /\ rate_K \in Int /\ pattern_P \in Int
            /\ decision_threshold \in Int
    BY Parameters
  <2>2. BuiltRules[r] =
          CASE r[1] = "AnomalousSYN"      -> SymbolRules(2)
            [] r[1] = "NormalSYN"         -> SymbolRules(3)
            [] r[1] = "NormalACK"         -> SymbolRules(4)
            [] r[1] = "StreamEndDetector" -> SymbolRules(5)
            [] r[1] = "RatioDetector"     -> {ThresholdRule(base * H + 1)}
            [] r[1] = "RateDetector"      -> {ThresholdRule(rate_K)}
            [] r[1] = "PatternDetector"   -> {ThresholdRule(pattern_P)}
            [] r[1] = "RatioOR"           -> {OrRule}
            [] r[1] = "Decision"          -> {ThresholdRule(decision_threshold)}
            [] OTHER                      -> FlagRules
    BY <1>1 DEF BuiltRules, ProportionRule, VelocityRule, PatternRule, DecisionRule
  <2>3. r[1] \in Counters \cup {"RatioDetector"} \cup SharedRegular
    BY Members DEF Shared
  <2>4. CASE r[1] \in Counters
    <3>1. RulesOf[r] \in {SymbolRules(2), SymbolRules(3), SymbolRules(4), SymbolRules(5)}
      BY <1>1, <2>2, <2>4 DEF Counters
    <3> QED
      BY <3>1
  <2>5. CASE r[1] \in {"RatioDetector", "RateDetector", "PatternDetector", "Decision"}
    BY <1>1, <2>1, <2>2, <2>5
  <2>6. CASE r[1] \in {"RatioOR", "RateFlag", "RatioFlag", "PatternFlag"}
    BY <1>1, <2>2, <2>6
  <2> QED
    BY <2>3, <2>4, <2>5, <2>6 DEF SharedRegular
<1>3. CASE \E k \in 2..5 : RulesOf[r] = SymbolRules(k)
  <2>1. PICK k \in 2..5 : RulesOf[r] = SymbolRules(k)
    BY <1>3
  <2>2. ASSUME NEW one \in RulesOf[r]
        PROVE  \E j \in 1..5 : one = Exactly(j, IF j = k THEN 1 ELSE 0)
    BY <2>1 DEF SymbolRules, Forget
  <2>3. PICK j \in 1..5 : rule = Exactly(j, IF j = k THEN 1 ELSE 0)
    BY <2>2
  <2>4. held = j /\ Consumed(rule, held) = held /\ rule.delay = 0 /\ rule.produce \in {0, 1}
    BY <2>3 DEF Exactly, Matches, Consumed, WhiteHole
  <2>5. ASSUME NEW other \in RulesOf[r], Matches(other, held) PROVE other = rule
    <3>1. PICK m \in 1..5 : other = Exactly(m, IF m = k THEN 1 ELSE 0)
      BY <2>2
    <3>2. held = m
      BY <2>5, <3>1 DEF Exactly, Matches
    <3> QED
      BY <2>3, <2>4, <3>1, <3>2
  <2> QED
    BY <2>4, <2>5
<1>4. CASE \E k \in Int : RulesOf[r] = {ThresholdRule(k)}
  BY <1>4 DEF ThresholdRule, Matches, Consumed, WhiteHole
<1>5. CASE RulesOf[r] = {OrRule}
  BY <1>5 DEF OrRule, Matches, Consumed, WhiteHole
<1>6. CASE RulesOf[r] = FlagRules
  <2>1. ASSUME NEW one \in RulesOf[r], Matches(one, held)
        PROVE  \/ one = Exactly(3, 1) /\ held = 3
               \/ one = Exactly(1, 0) /\ held = 1
    BY <1>6, <2>1 DEF FlagRules, Forget, Exactly, Matches
  <2>2. Consumed(rule, held) = held /\ rule.delay = 0 /\ rule.produce \in {0, 1}
    BY <2>1 DEF Exactly, Consumed, WhiteHole
  <2> QED
    BY <2>1, <2>2
<1> QED
  BY <1>2, <1>3, <1>4, <1>5, <1>6

Fired(old, r) == {rule \in RulesOf[r] : Matches(rule, old.spikes[r])}

Held(old, i) == old.spikes[<<"AnomalousSYN", i>>]

\* What a history row shows between two ticks.
RowOK(old) ==
  /\ old.spikes \in [Regular -> Nat]
  /\ \A i \in Source :
       /\ Held(old, i) \in 0..5
       /\ \A c \in Counters : old.spikes[<<c, i>>] = Held(old, i)
  /\ old.remaining \in [Inputs -> Seq(1..5)]
  /\ old.recorded \in [Outputs -> Seq({0, 1})]

\* The rules of each kind of neuron.
LEMMA RulesBuilt ==
  /\ \A i \in Source :
       /\ RulesOf[<<"AnomalousSYN", i>>] = SymbolRules(2)
       /\ RulesOf[<<"NormalSYN", i>>] = SymbolRules(3)
       /\ RulesOf[<<"NormalACK", i>>] = SymbolRules(4)
       /\ RulesOf[<<"StreamEndDetector", i>>] = SymbolRules(5)
       /\ RulesOf[<<"RatioDetector", i>>] = {ProportionRule(H, base)}
  /\ RulesOf[Shared("RateDetector")] = {VelocityRule(rate_K)}
  /\ RulesOf[Shared("PatternDetector")] = {PatternRule(pattern_P)}
  /\ RulesOf[Shared("RatioOR")] = {OrRule}
  /\ RulesOf[Shared("Decision")] = {DecisionRule(decision_threshold)}
  /\ \A f \in {"RateFlag", "RatioFlag", "PatternFlag"} : RulesOf[Shared(f)] = FlagRules
<1>1. RulesOf = BuiltRules /\ Regular = BuiltRegular
  BY Wiring, Members
<1>2. /\ \A i \in Source, c \in Counters \cup {"RatioDetector"} : <<c, i>> \in BuiltRegular
      /\ \A c \in SharedRegular : Shared(c) \in BuiltRegular
  BY <1>1, Members
<1> QED
  BY <1>1, <1>2 DEF BuiltRules, Counters, SharedRegular, Shared

\* A counter fires on its own symbol, and on no spikes only is it at rest.
LEMMA SymbolFiring ==
  ASSUME NEW k \in 2..5, NEW v \in 0..5
  PROVE  /\ (\E rule \in SymbolRules(k) : Matches(rule, v) /\ rule.produce = 1) <=> v = k
         /\ (\E rule \in SymbolRules(k) : Matches(rule, v)) <=> v # 0
<1>1. \A rule \in SymbolRules(k) : \E j \in 1..5 : rule = Exactly(j, IF j = k THEN 1 ELSE 0)
  BY DEF SymbolRules, Forget
<1>2. \A j \in 1..5 : Exactly(j, IF j = k THEN 1 ELSE 0) \in SymbolRules(k)
  BY DEF SymbolRules, Forget
<1>3. \A p : \A j \in 1..5 : Matches(Exactly(j, p), v) <=> v = j
  BY DEF Matches, Exactly
<1>4. \A p : \A j \in 1..5 : Exactly(j, p).produce = p
  BY DEF Exactly
<1>5. ASSUME NEW rule \in SymbolRules(k), Matches(rule, v)
      PROVE  v # 0 /\ (rule.produce = 1 => v = k)
  <2>1. PICK j \in 1..5 : rule = Exactly(j, IF j = k THEN 1 ELSE 0)
    BY <1>1
  <2>2. v = j /\ rule.produce = IF j = k THEN 1 ELSE 0
    BY <1>3, <1>4, <1>5, <2>1
  <2> QED
    BY <2>2
<1>6. ASSUME v # 0
      PROVE  \E rule \in SymbolRules(k) : Matches(rule, v) /\ (v = k => rule.produce = 1)
  <2>1. v \in 1..5
    BY <1>6
  <2>2. /\ Exactly(v, IF v = k THEN 1 ELSE 0) \in SymbolRules(k)
        /\ Matches(Exactly(v, IF v = k THEN 1 ELSE 0), v)
        /\ Exactly(v, IF v = k THEN 1 ELSE 0).produce = IF v = k THEN 1 ELSE 0
    BY <1>2, <1>3, <1>4, <2>1
  <2> QED
    BY <2>2
<1> QED
  BY <1>5, <1>6

\* A flag fires on three spikes, forgets one, and waits on any other number.
LEMMA FlagFiring ==
  ASSUME NEW v \in Nat
  PROVE  /\ (\E rule \in FlagRules : Matches(rule, v) /\ rule.produce = 1) <=> v = 3
         /\ (\E rule \in FlagRules : Matches(rule, v)) <=> v \in {1, 3}
<1>1. \A v1, p, k : Matches(Exactly(k, p), v1) <=> v1 = k
  BY DEF Matches, Exactly
<1>2. Exactly(3, 1).produce = 1 /\ Exactly(1, 0).produce = 0
  BY DEF Exactly
<1>3. FlagRules = {Exactly(3, 1), Exactly(1, 0)}
  BY DEF FlagRules, Forget
<1> QED
  BY <1>1, <1>2, <1>3

\* What the counters of a source emit is decided by the symbol they hold.
LEMMA ChainEmits ==
  ASSUME NEW old, RowOK(old), NEW i \in Source
  PROVE  /\ Emitted(old, <<"AnomalousSYN", i>>) = IF Held(old, i) = 2 THEN 1 ELSE 0
         /\ Emitted(old, <<"NormalSYN", i>>) = IF Held(old, i) = 3 THEN 1 ELSE 0
         /\ Emitted(old, <<"NormalACK", i>>) = IF Held(old, i) = 4 THEN 1 ELSE 0
         /\ Emitted(old, <<"StreamEndDetector", i>>) = IF Held(old, i) = 5 THEN 1 ELSE 0
         /\ \A c \in Counters : Fired(old, <<c, i>>) = {} <=> Held(old, i) = 0
<1>1. \A c \in Counters : <<c, i>> \notin Inputs /\ old.spikes[<<c, i>>] = Held(old, i)
  BY NotInput DEF RowOK, Counters
<1>2. Held(old, i) \in 0..5
  BY DEF RowOK
<1>3. ASSUME NEW c \in Counters, NEW k \in 2..5, RulesOf[<<c, i>>] = SymbolRules(k)
      PROVE  /\ Emitted(old, <<c, i>>) = IF Held(old, i) = k THEN 1 ELSE 0
             /\ Fired(old, <<c, i>>) = {} <=> Held(old, i) = 0
  BY <1>1, <1>2, <1>3, SymbolFiring DEF Emitted, Fired
<1>4. /\ "AnomalousSYN" \in Counters /\ "NormalSYN" \in Counters
      /\ "NormalACK" \in Counters /\ "StreamEndDetector" \in Counters
      /\ RulesOf[<<"AnomalousSYN", i>>] = SymbolRules(2)
      /\ RulesOf[<<"NormalSYN", i>>] = SymbolRules(3)
      /\ RulesOf[<<"NormalACK", i>>] = SymbolRules(4)
      /\ RulesOf[<<"StreamEndDetector", i>>] = SymbolRules(5)
  BY RulesBuilt DEF Counters
<1>5. 2 \in 2..5 /\ 3 \in 2..5 /\ 4 \in 2..5 /\ 5 \in 2..5
  OBVIOUS
<1>6. \A c \in Counters : c \in {"AnomalousSYN", "NormalSYN", "NormalACK", "StreamEndDetector"}
  BY DEF Counters
<1> QED
  BY <1>3, <1>4, <1>5, <1>6

\* A detector neuron fires exactly when its one rule matches.
LEMMA SingleRule ==
  ASSUME NEW old, RowOK(old), NEW r \in Regular, NEW rule, RulesOf[r] = {rule}, rule.produce = 1
  PROVE  /\ Emitted(old, r) = IF Matches(rule, old.spikes[r]) THEN 1 ELSE 0
         /\ Fired(old, r) = {} <=> ~ Matches(rule, old.spikes[r])
BY DEF Emitted, Fired, Regular

\* What the other neurons emit is decided by what they hold.
LEMMA Detectors ==
  ASSUME NEW old, RowOK(old)
  PROVE  /\ \A i \in Source :
              /\ Emitted(old, <<"RatioDetector", i>>) =
                   IF Matches(ProportionRule(H, base), old.spikes[<<"RatioDetector", i>>])
                       THEN 1 ELSE 0
              /\ Fired(old, <<"RatioDetector", i>>) = {} <=>
                   Emitted(old, <<"RatioDetector", i>>) = 0
         /\ Emitted(old, Shared("RateDetector")) =
              IF Matches(VelocityRule(rate_K), old.spikes[Shared("RateDetector")]) THEN 1 ELSE 0
         /\ Emitted(old, Shared("PatternDetector")) =
              IF Matches(PatternRule(pattern_P), old.spikes[Shared("PatternDetector")]) THEN 1
                  ELSE 0
         /\ Emitted(old, Shared("RatioOR")) =
              IF Matches(OrRule, old.spikes[Shared("RatioOR")]) THEN 1 ELSE 0
         /\ Emitted(old, Shared("Decision")) =
              IF Matches(DecisionRule(decision_threshold), old.spikes[Shared("Decision")])
                  THEN 1 ELSE 0
         /\ \A c \in {"RateDetector", "PatternDetector", "RatioOR", "Decision"} :
              Fired(old, Shared(c)) = {} <=> Emitted(old, Shared(c)) = 0
         /\ \A f \in {"RateFlag", "RatioFlag", "PatternFlag"} :
              /\ Emitted(old, Shared(f)) = IF old.spikes[Shared(f)] = 3 THEN 1 ELSE 0
              /\ Fired(old, Shared(f)) = {} <=> old.spikes[Shared(f)] \notin {1, 3}
<1>1. /\ \A k : ThresholdRule(k).produce = 1
      /\ OrRule.produce = 1
  BY DEF ThresholdRule, OrRule
<1>2. /\ \A i \in Source : <<"RatioDetector", i>> \in Regular
      /\ \A c \in SharedRegular : Shared(c) \in Regular
  BY Members
<1>3. ASSUME NEW f \in {"RateFlag", "RatioFlag", "PatternFlag"}
      PROVE  /\ Emitted(old, Shared(f)) = IF old.spikes[Shared(f)] = 3 THEN 1 ELSE 0
             /\ Fired(old, Shared(f)) = {} <=> old.spikes[Shared(f)] \notin {1, 3}
  <2>1. Shared(f) \in Regular /\ Shared(f) \notin Inputs /\ RulesOf[Shared(f)] = FlagRules
    BY <1>2, RulesBuilt, NotInput DEF SharedRegular
  <2>2. old.spikes[Shared(f)] \in Nat
    BY <2>1 DEF RowOK
  <2> QED
    BY <2>1, <2>2, FlagFiring DEF Emitted, Fired
<1>4. ASSUME NEW i \in Source
      PROVE  /\ Emitted(old, <<"RatioDetector", i>>) =
                   IF Matches(ProportionRule(H, base), old.spikes[<<"RatioDetector", i>>])
                       THEN 1 ELSE 0
             /\ Fired(old, <<"RatioDetector", i>>) = {} <=>
                   Emitted(old, <<"RatioDetector", i>>) = 0
  <2>1. RulesOf[<<"RatioDetector", i>>] = {ProportionRule(H, base)}
    BY RulesBuilt
  <2>2. ProportionRule(H, base).produce = 1
    BY <1>1 DEF ProportionRule
  <2>3. /\ Emitted(old, <<"RatioDetector", i>>) =
             IF Matches(ProportionRule(H, base), old.spikes[<<"RatioDetector", i>>]) THEN 1 ELSE 0
        /\ Fired(old, <<"RatioDetector", i>>) = {} <=>
             ~ Matches(ProportionRule(H, base), old.spikes[<<"RatioDetector", i>>])
    BY <1>2, <2>1, <2>2, SingleRule
  <2> QED
    BY <2>3
<1>5. ASSUME NEW c \in SharedRegular, NEW rule, RulesOf[Shared(c)] = {rule}, rule.produce = 1
      PROVE  /\ Emitted(old, Shared(c)) = IF Matches(rule, old.spikes[Shared(c)]) THEN 1 ELSE 0
             /\ Fired(old, Shared(c)) = {} <=> Emitted(old, Shared(c)) = 0
  BY <1>2, <1>5, SingleRule
<1> QED
  BY <1>1, <1>3, <1>4, <1>5, RulesBuilt DEF SharedRegular, VelocityRule, PatternRule, DecisionRule

-----------------------------------------------------------------------------
(* The detector's view of a row.                                           *)

\* The instance reads the builder's definitions as this module does.
LEMMA SameBuilder ==
  /\ D!Source = Source
  /\ D!init = init /\ D!syn_w = syn_w /\ D!ack_w = ack_w /\ D!finalize = finalize
  /\ \A rule, v : D!Matches(rule, v) = Matches(rule, v)
  /\ \A k : /\ D!VelocityRule(k) = VelocityRule(k) /\ D!PatternRule(k) = PatternRule(k)
            /\ D!DecisionRule(k) = DecisionRule(k)
  /\ D!ProportionRule(H, base) = ProportionRule(H, base)
  /\ D!OrRule = OrRule /\ D!FlagLoad = FlagLoad
  /\ D!Feature = {"rate", "ratio", "pattern"}
<1>1. \A k : D!ThresholdRule(k) = ThresholdRule(k)
  BY DEF D!ThresholdRule, ThresholdRule, D!WhiteHole, WhiteHole
<1>2. D!OrRule = OrRule /\ D!FlagLoad = FlagLoad
  BY DEF D!OrRule, OrRule, D!WhiteHole, WhiteHole, D!FlagLoad, FlagLoad
<1>3. \A rule, v : D!Matches(rule, v) = Matches(rule, v)
  BY DEF D!Matches, Matches
<1>4. D!init = init /\ D!syn_w = syn_w /\ D!ack_w = ack_w /\ D!finalize = finalize
          /\ D!Source = Source
  BY DEF D!init, init, D!syn_w, syn_w, D!ack_w, ack_w, D!finalize, finalize, D!Source, Source
<1> QED
  BY <1>1, <1>2, <1>3, <1>4 DEF D!VelocityRule, VelocityRule, D!PatternRule, PatternRule,
     D!DecisionRule, DecisionRule, D!ProportionRule, ProportionRule, D!Feature

FeatureNeuron(f) ==
  Shared(CASE f = "rate" -> "RateDetector" [] f = "ratio" -> "RatioOR"
           [] f = "pattern" -> "PatternDetector")

FlagNeuron(f) ==
  Shared(CASE f = "rate" -> "RateFlag" [] f = "ratio" -> "RatioFlag"
           [] f = "pattern" -> "PatternFlag")

\* What fires in the detector is what emits in the engine.
LEMMA SameFirings ==
  ASSUME RowOK(row)
  PROVE  /\ D!FiringRatio = {i \in Source : Emitted(row, <<"RatioDetector", i>>) = 1}
         /\ D!FiringRate <=> Emitted(row, Shared("RateDetector")) = 1
         /\ D!FiringPattern <=> Emitted(row, Shared("PatternDetector")) = 1
         /\ D!FiringOr <=> Emitted(row, Shared("RatioOR")) = 1
         /\ D!FiringAlarm <=> Emitted(row, Shared("Decision")) = 1
         /\ \A f \in D!Feature : f \in D!FiringFeature <=> Emitted(row, FeatureNeuron(f)) = 1
         /\ \A f \in D!Feature : f \in D!FiringFlag <=> Emitted(row, FlagNeuron(f)) = 1
<1> USE SameBuilder
<1>1. D!FiringRatio = {i \in Source : Emitted(row, <<"RatioDetector", i>>) = 1}
  BY Detectors DEF D!FiringRatio, PerSource
<1>2. D!FiringRate <=> Emitted(row, Shared("RateDetector")) = 1
  BY Detectors DEF D!FiringRate, Holds
<1>3. D!FiringPattern <=> Emitted(row, Shared("PatternDetector")) = 1
  BY Detectors DEF D!FiringPattern, Holds
<1>4. D!FiringOr <=> Emitted(row, Shared("RatioOR")) = 1
  BY Detectors DEF D!FiringOr, Holds
<1>5. D!FiringAlarm <=> Emitted(row, Shared("Decision")) = 1
  BY Detectors DEF D!FiringAlarm, Holds
<1>6. \A f \in D!Feature : f \in D!FiringFeature <=> Emitted(row, FeatureNeuron(f)) = 1
  BY <1>2, <1>3, <1>4 DEF D!FiringFeature, FeatureNeuron
<1>7. \A f \in D!Feature : FlagOf[f] = row.spikes[FlagNeuron(f)]
  BY DEF FlagOf, Holds, FlagNeuron
<1>8. \A f \in D!Feature : f \in D!FiringFlag <=> Emitted(row, FlagNeuron(f)) = 1
  <2>1. \A f \in {"RateFlag", "RatioFlag", "PatternFlag"} :
           Emitted(row, Shared(f)) = IF row.spikes[Shared(f)] = 3 THEN 1 ELSE 0
    BY Detectors
  <2> QED
    BY <1>7, <2>1 DEF D!FiringFlag, FlagNeuron
<1> QED
  BY <1>1, <1>2, <1>3, <1>4, <1>5, <1>6, <1>8

\* The instance counts as this module does.
LEMMA SameCardinality == \A S : D!Cardinality(S) = Cardinality(S)
BY DEF D!Cardinality, Cardinality

\* No neuron emits more than a symbol.
LEMMA EmittedSymbol ==
  ASSUME NEW old, RowOK(old), NEW from
  PROVE  Emitted(old, from) \in 0..5
<1>1. CASE from \in Inputs
  <2>1. old.remaining[from] \in Seq(1..5)
    BY <1>1 DEF RowOK
  <2>2. old.remaining[from] # <<>> => Head(old.remaining[from]) \in 1..5
    BY <2>1
  <2> QED
    BY <1>1, <2>2 DEF Emitted
<1>2. CASE from \notin Inputs
  BY <1>2, EmittedType
<1> QED
  BY <1>1, <1>2

\* What a synapse carries.
LEMMA OfSynapse ==
  ASSUME NEW old, NEW f, NEW t, NEW w, <<f, t, w>> \in BuiltSynapses
  PROVE  Contribution(old, f, t) = w * Emitted(old, f)
BY WeightOfSynapse DEF Contribution

\* The synapses the builder draws.
LEMMA Drawn ==
  /\ \A i \in Source :
       /\ \A c \in Counters : <<<<"Packets", i>>, <<c, i>>, 1>> \in BuiltSynapses
       /\ <<<<"AnomalousSYN", i>>, <<"RatioDetector", i>>, syn_w>> \in BuiltSynapses
       /\ <<<<"NormalSYN", i>>, <<"RatioDetector", i>>, syn_w>> \in BuiltSynapses
       /\ <<<<"NormalACK", i>>, <<"RatioDetector", i>>, ack_w>> \in BuiltSynapses
       /\ <<<<"StreamEndDetector", i>>, <<"RatioDetector", i>>, finalize>> \in BuiltSynapses
  /\ <<Shared("RateDetector"), Shared("RateFlag"), 1>> \in BuiltSynapses
  /\ <<Shared("RatioOR"), Shared("RatioFlag"), 1>> \in BuiltSynapses
  /\ <<Shared("PatternDetector"), Shared("PatternFlag"), 1>> \in BuiltSynapses
  /\ <<Shared("RatioFlag"), Shared("Decision"), ratio_weight>> \in BuiltSynapses
  /\ <<Shared("RateFlag"), Shared("Decision"), rate_weight>> \in BuiltSynapses
  /\ <<Shared("PatternFlag"), Shared("Decision"), pattern_weight>> \in BuiltSynapses
  /\ <<Shared("Decision"), Shared("Output"), 1>> \in BuiltSynapses
BY DEF BuiltSynapses, VoteSynapses, ChainSynapses, Shared, Source, Counters

\* The four counters of a source send its RatioDetector what the symbol they
\* hold is worth.
LEMMA RatioMailed ==
  ASSUME RowOK(row), NEW i \in Source, NEW A,
         \A c \in Counters : <<c, i>> \in A
  PROVE  /\ Mail(row, A, <<"RatioDetector", i>>) = D!RatioMail(i)
         /\ D!RatioMail(i) \in Int
         /\ D!RatioMail(i) < 0 => Held(row, i) # 0
<1> DEFINE id == <<"RatioDetector", i>>
           a == <<"AnomalousSYN", i>>
           s == <<"NormalSYN", i>>
           k == <<"NormalACK", i>>
           e == <<"StreamEndDetector", i>>
<1>1. Mail(row, A, id) = Contribution(row, a, id) + Contribution(row, s, id)
                           + Contribution(row, k, id) + Contribution(row, e, id)
  <2>1. a \in A /\ s \in A /\ k \in A /\ e \in A
    BY DEF Counters
  <2> QED
    BY <2>1 DEF Mail, Part, Counters
<1>2. /\ Contribution(row, a, id) = syn_w * Emitted(row, a)
      /\ Contribution(row, s, id) = syn_w * Emitted(row, s)
      /\ Contribution(row, k, id) = ack_w * Emitted(row, k)
      /\ Contribution(row, e, id) = finalize * Emitted(row, e)
  BY OfSynapse, Drawn
<1>3. /\ Emitted(row, a) = IF Held(row, i) = 2 THEN 1 ELSE 0
      /\ Emitted(row, s) = IF Held(row, i) = 3 THEN 1 ELSE 0
      /\ Emitted(row, k) = IF Held(row, i) = 4 THEN 1 ELSE 0
      /\ Emitted(row, e) = IF Held(row, i) = 5 THEN 1 ELSE 0
  BY ChainEmits
<1>4. \A w \in Int : w * 1 = w /\ w * 0 = 0
  OBVIOUS
<1>5. syn_w \in Nat /\ ack_w \in Int /\ finalize \in Nat
  BY Weights
<1>6. /\ Contribution(row, a, id) = IF Held(row, i) = 2 THEN syn_w ELSE 0
      /\ Contribution(row, s, id) = IF Held(row, i) = 3 THEN syn_w ELSE 0
      /\ Contribution(row, k, id) = IF Held(row, i) = 4 THEN ack_w ELSE 0
      /\ Contribution(row, e, id) = IF Held(row, i) = 5 THEN finalize ELSE 0
  BY <1>2, <1>3, <1>4, <1>5
<1>7. Mail(row, A, id) =
        CASE Held(row, i) \in {2, 3} -> syn_w
          [] Held(row, i) = 4 -> ack_w
          [] Held(row, i) = 5 -> finalize
          [] OTHER -> 0
  <2> HIDE DEF a, s, k, e, id
  <2>1. Held(row, i) \in 0..5
    BY DEF RowOK
  <2>2. PICK v \in 0..5 : Held(row, i) = v
    BY <2>1
  <2> QED
    BY <1>1, <1>5, <1>6, <2>2
<1>8. D!RatioMail(i) =
        CASE Held(row, i) \in {2, 3} -> syn_w
          [] Held(row, i) = 4 -> ack_w
          [] Held(row, i) = 5 -> finalize
          [] OTHER -> 0
  <2>1. PerSource("AnomalousSYN")[i] = Held(row, i)
    BY DEF PerSource, Held
  <2> QED
    BY <2>1, SameBuilder DEF D!RatioMail, D!SYN, D!ACK, D!End
<1> QED
  BY <1>5, <1>7, <1>8

\* What the other boxes hold when all the neurons before them are activated.
LEMMA AllMailed ==
  ASSUME RowOK(row), NEW A, Ids \subseteq A
  PROVE  /\ \A i \in Source, c \in Counters : Mail(row, A, <<c, i>>)
                = Emitted(row, <<"Packets", i>>)
         /\ Mail(row, A, Shared("RateDetector")) = D!Arriving(D!SYN)
         /\ Mail(row, A, Shared("PatternDetector")) = D!Arriving({2})
         /\ Mail(row, A, Shared("RatioOR")) = Cardinality(D!FiringRatio)
         /\ \A f \in D!Feature :
              Mail(row, A, FlagNeuron(f)) = IF f \in D!FiringFeature THEN 1 ELSE 0
         /\ Mail(row, A, Shared("Decision")) = D!Ballot
         /\ Mail(row, A, Shared("Output")) = IF D!FiringAlarm THEN 1 ELSE 0
<1> USE SameBuilder
<1>1. /\ \A i \in Source, c \in Counters \cup {"Packets", "RatioDetector"} : <<c, i>> \in A
      /\ \A c \in SharedRegular : Shared(c) \in A
  BY Listed
<1>2. ASSUME NEW i \in Source, NEW c \in Counters
      PROVE  Mail(row, A, <<c, i>>) = Emitted(row, <<"Packets", i>>)
  <2>1. Mail(row, A, <<c, i>>) = Contribution(row, <<"Packets", i>>, <<c, i>>)
    BY <1>1 DEF Mail, Part, Counters
  <2>2. Contribution(row, <<"Packets", i>>, <<c, i>>) = 1 * Emitted(row, <<"Packets", i>>)
    BY OfSynapse, Drawn
  <2>3. Emitted(row, <<"Packets", i>>) \in Int
    BY EmittedSymbol
  <2> QED
    BY <2>1, <2>2, <2>3
<1>3. \A c : Senders(row, A, c) = {i \in Source : <<c, i>> \in A /\ Emitted(row, <<c, i>>) = 1}
  BY DEF Senders
<1>4. /\ Senders(row, A, "AnomalousSYN") = {i \in Source : Held(row, i) = 2}
      /\ Senders(row, A, "NormalSYN") = {i \in Source : Held(row, i) = 3}
      /\ Senders(row, A, "RatioDetector") = D!FiringRatio
  BY <1>1, <1>3, ChainEmits, SameFirings DEF Counters
<1>5. ASSUME NEW S
      PROVE  D!Arriving(S) = Cardinality({i \in Source : Held(row, i) \in S})
  <2>1. \A i \in Source : PerSource("AnomalousSYN")[i] = Held(row, i)
    BY DEF PerSource, Held
  <2>2. D!Arriving(S) = Cardinality({i \in D!Source : PerSource("AnomalousSYN")[i] \in S})
    BY SameCardinality DEF D!Arriving
  <2>3. {i \in D!Source : PerSource("AnomalousSYN")[i] \in S} = {i \in Source : Held(row, i) \in S}
    BY <2>1
  <2> QED
    BY <2>2, <2>3
<1>6. Mail(row, A, Shared("RateDetector")) = D!Arriving(D!SYN)
  <2> DEFINE P == {i \in Source : Held(row, i) = 2}
             Q == {i \in Source : Held(row, i) = 3}
  <2>1. IsFiniteSet(Source) /\ P \subseteq Source /\ Q \subseteq Source
    BY Parameters, FS_Interval DEF Source
  <2>2. IsFiniteSet(P) /\ IsFiniteSet(Q)
    BY <2>1, FS_Subset
  <2>3. P \cap Q = {} /\ P \cup Q = {i \in Source : Held(row, i) \in D!SYN}
    BY DEF D!SYN
  <2>4. Mail(row, A, Shared("RateDetector")) = Cardinality(P) + Cardinality(Q)
    BY <1>4 DEF Mail, Counters, Shared
  <2> HIDE DEF P, Q
  <2>5. /\ Cardinality(P \cup Q) = Cardinality(P) + Cardinality(Q) - Cardinality(P \cap Q)
        /\ Cardinality(P) \in Nat /\ Cardinality(Q) \in Nat
    BY <2>2, FS_Union, FS_CardinalityType
  <2>6. Cardinality(P \cap Q) = 0
    BY <2>3, FS_EmptySet
  <2>7. Cardinality(P \cup Q) = Cardinality(P) + Cardinality(Q)
    BY <2>5, <2>6
  <2> QED
    BY <1>5, <2>3, <2>4, <2>7
<1>7. Mail(row, A, Shared("PatternDetector")) = D!Arriving({2})
  <2>1. {i \in Source : Held(row, i) \in {2}} = {i \in Source : Held(row, i) = 2}
    OBVIOUS
  <2> QED
    BY <1>4, <1>5, <2>1 DEF Mail, Counters, Shared
<1>8. Mail(row, A, Shared("RatioOR")) = Cardinality(D!FiringRatio)
  BY <1>4 DEF Mail, Counters, Shared
<1>9. \A x : Emitted(row, Shared(x)) \in {0, 1}
  BY EmittedType, NotInput
<1>10. ASSUME NEW f \in D!Feature
       PROVE  Mail(row, A, FlagNeuron(f)) = IF f \in D!FiringFeature THEN 1 ELSE 0
  <2>1. Mail(row, A, FlagNeuron(f)) = Contribution(row, FeatureNeuron(f), FlagNeuron(f))
    BY <1>1, <1>10 DEF Mail, Part, Counters, Shared, FlagNeuron, FeatureNeuron, SharedRegular
  <2>2. <<FeatureNeuron(f), FlagNeuron(f), 1>> \in BuiltSynapses
    BY <1>10, Drawn DEF FlagNeuron, FeatureNeuron
  <2>3. Contribution(row, FeatureNeuron(f), FlagNeuron(f)) = 1 * Emitted(row, FeatureNeuron(f))
    BY <2>2, OfSynapse
  <2>4. Emitted(row, FeatureNeuron(f)) \in {0, 1}
    BY <1>9 DEF FeatureNeuron
  <2> QED
    BY <1>10, <2>1, <2>3, <2>4, SameFirings
<1>11. Mail(row, A, Shared("Decision")) = D!Ballot
  <2>1. Mail(row, A, Shared("Decision"))
            = Contribution(row, Shared("RatioFlag"), Shared("Decision"))
             + Contribution(row, Shared("RateFlag"), Shared("Decision"))
             + Contribution(row, Shared("PatternFlag"), Shared("Decision"))
    BY <1>1 DEF Mail, Part, Counters, Shared, SharedRegular
  <2>2. /\ Contribution(row, Shared("RatioFlag"), Shared("Decision"))
               = ratio_weight * Emitted(row, Shared("RatioFlag"))
        /\ Contribution(row, Shared("RateFlag"), Shared("Decision"))
               = rate_weight * Emitted(row, Shared("RateFlag"))
        /\ Contribution(row, Shared("PatternFlag"), Shared("Decision"))
               = pattern_weight * Emitted(row, Shared("PatternFlag"))
    BY Drawn, OfSynapse
  <2>3. \A w \in Int : w * 1 = w /\ w * 0 = 0
    OBVIOUS
  <2>4. /\ Emitted(row, Shared("RatioFlag")) = IF "ratio" \in D!FiringFlag THEN 1 ELSE 0
        /\ Emitted(row, Shared("RateFlag")) = IF "rate" \in D!FiringFlag THEN 1 ELSE 0
        /\ Emitted(row, Shared("PatternFlag")) = IF "pattern" \in D!FiringFlag THEN 1 ELSE 0
    BY <1>9, SameFirings DEF FlagNeuron
  <2>5. /\ Contribution(row, Shared("RatioFlag"), Shared("Decision")) = D!Vote("ratio")
        /\ Contribution(row, Shared("RateFlag"), Shared("Decision")) = D!Vote("rate")
        /\ Contribution(row, Shared("PatternFlag"), Shared("Decision")) = D!Vote("pattern")
    BY <2>2, <2>3, <2>4, Parameters DEF D!Vote
  <2>6. D!Vote("ratio") \in Int /\ D!Vote("rate") \in Int /\ D!Vote("pattern") \in Int
    BY Parameters DEF D!Vote
  <2>7. PICK p, q, r \in Int : D!Vote("ratio") = p /\ D!Vote("rate") = q /\ D!Vote("pattern") = r
    BY <2>6
  <2> QED
    BY <2>1, <2>5, <2>7 DEF D!Ballot
<1>12. Mail(row, A, Shared("Output")) = IF D!FiringAlarm THEN 1 ELSE 0
  <2>1. Mail(row, A, Shared("Output")) = Contribution(row, Shared("Decision"), Shared("Output"))
    BY <1>1 DEF Mail, Part, Counters, Shared, SharedRegular
  <2>2. Contribution(row, Shared("Decision"), Shared("Output"))
            = 1 * Emitted(row, Shared("Decision"))
    BY Drawn, OfSynapse
  <2> QED
    BY <1>9, <2>1, <2>2, SameFirings
<1> QED
  BY <1>2, <1>6, <1>7, <1>8, <1>10, <1>11, <1>12

\* Only a RatioDetector_i is ever sent anything negative.
LEMMA NaturalMail ==
  ASSUME NEW old, RowOK(old), NEW A, NEW id \in Boxes, id[1] # "RatioDetector"
  PROVE  Mail(old, A, id) \in Nat
<1>1. id \in {<<c, i>> : c \in Counters, i \in Source}
              \cup {Shared(c) : c \in SharedRegular \cup {"Output"}}
  BY Members, Listed DEF Boxes, SharedRegular, Counters
<1>2. \A from : Emitted(old, from) \in Nat
  BY EmittedSymbol
<1>3. ASSUME NEW s \in BuiltSynapses, s[2] = id PROVE s[3] \in Nat
  BY <1>1, <1>3, Parameters, Weights
     DEF BuiltSynapses, VoteSynapses, ChainSynapses, Shared, Counters
<1>4. ASSUME NEW from, NEW w, <<from, id, w>> \in BuiltSynapses PROVE w \in Nat
  BY <1>3, <1>4
<1>5. \A a, b \in Nat : a * b \in Nat
  OBVIOUS
<1>6. ASSUME NEW from PROVE Contribution(old, from, id) \in Nat
  <2>1. CASE <<from, id>> \in DOMAIN Weight
    <3>1. PICK w : <<from, id, w>> \in BuiltSynapses
      BY <2>1, WeightOfSynapse
    <3> QED
      BY <1>2, <1>4, <1>5, <3>1, OfSynapse
  <2> QED
    BY <2>1 DEF Contribution
<1>7. \A from : Part(old, A, from, id) \in Nat
  BY <1>6 DEF Part
<1>8. ASSUME NEW name PROVE Cardinality(Senders(old, A, name)) \in Nat
  <2>1. IsFiniteSet(Source) /\ Senders(old, A, name) \subseteq Source
    BY Parameters, FS_Interval DEF Source, Senders
  <2> QED
    BY <2>1, FS_Subset, FS_CardinalityType
<1>9. PICK x, y \in Nat : /\ Cardinality(Senders(old, A, "AnomalousSYN")) = x
                          /\ Cardinality(Senders(old, A, "NormalSYN")) = y
  BY <1>8
<1>10. CASE id \in {<<c, i>> : c \in Counters, i \in Source}
  <2>1. id[1] \in Counters
    BY <1>10
  <2> QED
    BY <1>7, <2>1 DEF Mail, Counters
<1>11. CASE id \in {Shared("RateDetector"), Shared("PatternDetector"), Shared("RatioOR")}
  BY <1>8, <1>9, <1>11 DEF Mail, Counters, Shared
<1>12. CASE id = Shared("Decision")
  <2>1. PICK p, q, r \in Nat : /\ Part(old, A, Shared("RatioFlag"), id) = p
                               /\ Part(old, A, Shared("RateFlag"), id) = q
                               /\ Part(old, A, Shared("PatternFlag"), id) = r
    BY <1>7
  <2> QED
    BY <1>12, <2>1 DEF Mail, Counters, Shared
<1>13. CASE id \in {Shared("RateFlag"), Shared("RatioFlag"), Shared("PatternFlag"),
           Shared("Output")}
  BY <1>7, <1>13 DEF Mail, Counters, Shared
<1> QED
  BY <1>1, <1>10, <1>11, <1>12, <1>13 DEF SharedRegular

-----------------------------------------------------------------------------
(* The invariant.                                                          *)

\* What a neuron holds once its mail is folded: a rule that fires takes all the
\* neuron held before, and leaves the mail.
Folded(old, A, r) ==
  IF Fired(old, r) = {} THEN old.spikes[r] + Mail(old, A, r) ELSE Mail(old, A, r)

Progress(A) ==
  /\ \A i \in Inputs :
       remaining[i] = IF i \in A /\ row.remaining[i] # <<>> THEN Tail(row.remaining[i])
                                                            ELSE row.remaining[i]
  /\ \A r \in Regular :
       IF r \in A THEN /\ spikes[r] = Folded(row, A, r) /\ spikes[r] \in Nat
                       /\ incoming[r] = 0 /\ activated[r] = Fired(row, r)
                  ELSE spikes[r] = row.spikes[r] /\ incoming[r] = Mail(row, A, r)
  /\ \A o \in Outputs :
       IF o \in A THEN /\ recorded[o] = Append(row.recorded[o], Mail(row, A, o))
                       /\ incoming[o] = 0
                  ELSE recorded[o] = row.recorded[o] /\ incoming[o] = Mail(row, A, o)

\* What is left of a train is its end.
TrainEnd(i) ==
  LET left == row.remaining[i] gone == Len(request[i]) - Len(left)
  IN  gone \in Nat /\ \A j \in 1..Len(left) : left[j] = request[i][gone + j]

Shape ==
  /\ endpoint \in {"simulate", "step"} /\ status \in {"running", "answered", "failed"}
  /\ turn \in 0..(Len(Order) + 1) /\ owed \in 0..2
  /\ request \in [Inputs -> Seq(1..5)]
  /\ remaining \in [Inputs -> Seq(1..5)]
  /\ spikes \in [Regular -> Int] /\ incoming \in [Boxes -> Int]
  /\ delayed = [r \in Regular |-> {}]
  /\ activated \in [Regular -> SUBSET UNION {RulesOf[r] : r \in Regular}]
  /\ \A r \in Regular : activated[r] \subseteq RulesOf[r]
  /\ recorded \in [Outputs -> Seq(Int)]

EngineInv ==
  /\ Shape /\ RowOK(row)
  /\ \A i \in Inputs : TrainEnd(i)
  /\ status # "failed" => Progress(Activated(turn))
  /\ status = "failed" => turn > 0
  /\ status = "answered" => turn = 0 /\ (endpoint = "simulate" => ~Active)

-----------------------------------------------------------------------------
(* One step of a tick.                                                     *)

\* receive() on the targets of a neuron that emits.
LEMMA Delivered ==
  ASSUME NEW old, NEW box, box \in [Boxes -> Int], NEW from, Emitted(old, from) \in Int,
         NEW t \in Boxes
  PROVE  Deliver(box, from, Emitted(old, from))[t] = box[t] + Contribution(old, from, t)
<1>1. box[t] + 0 = box[t]
  OBVIOUS
<1> QED
  BY <1>1 DEF Deliver, Contribution

\* One more neuron activated: nothing was sent back, and what it sends is in the
\* boxes of those still to come.
LEMMA Activation ==
  ASSUME EngineInv, status = "running", NEW id, Turn(id),
         \A t \in Boxes \ {id} : incoming'[t] = incoming[t] + Contribution(row, id, t),
         id \in Boxes => incoming'[id] = 0,
         \A i \in Inputs \ {id} : remaining'[i] = remaining[i],
         \A r \in Regular \ {id} : spikes'[r] = spikes[r] /\ activated'[r] = activated[r],
         \A o \in Outputs \ {id} : recorded'[o] = recorded[o],
         id \in Inputs => remaining'[id] = IF row.remaining[id] # <<>> THEN Tail(row.remaining[id])
                                                                      ELSE row.remaining[id],
         id \in Regular => /\ spikes'[id] = Folded(row, Activated(turn), id) /\ spikes'[id] \in Nat
                           /\ activated'[id] = Fired(row, id),
         id \in Outputs => recorded'[id] = Append(row.recorded[id], Mail(row, Activated(turn), id))
  PROVE  Progress(Activated(turn))' /\ turn' \in 0..(Len(Order) + 1)
<1> DEFINE A == Activated(turn)
           B == A \cup {id}
<1>1. /\ turn \in DOMAIN Order /\ Order[turn] = id /\ turn' = turn + 1 /\ row' = row
  BY DEF Turn
<1>2. /\ Activated(turn)' = B /\ id \notin A /\ A \subseteq Ids /\ id \in Ids
  BY <1>1, ActivatedStep
<1>3. turn' \in 0..(Len(Order) + 1)
  BY <1>1, PlaceOfOrder, Parameters
<1>4. Progress(A)
  BY DEF EngineInv
<1>5. Trains(row)
  BY EmittedSymbol DEF Trains, EngineInv
<1>6. ASSUME NEW t \in Boxes
      PROVE  /\ Mail(row, A, t) \in Int
             /\ Mail(row, B, t) = Mail(row, A, t) + Contribution(row, id, t)
             /\ Contribution(row, id, t) \in Int
             /\ t \in B => Contribution(row, id, t) = 0 /\ Mail(row, B, t) = Mail(row, A, t)
  <2>1. /\ Mail(row, A, t) \in Int
        /\ Mail(row, B, t) = Mail(row, A, t) + Contribution(row, id, t)
    BY <1>2, <1>5, MailStep
  <2>2. Emitted(row, id) \in Int
    BY EmittedSymbol DEF EngineInv
  <2>3. Contribution(row, id, t) \in Int
    BY <2>2, ContributionType
  <2>4. t \in B => <<id, t>> \notin DOMAIN Weight
    BY <1>1, <1>2, Forward
  <2>5. t \in B => Contribution(row, id, t) = 0
    BY <2>4 DEF Contribution
  <2> HIDE DEF A, B
  <2>6. PICK p \in Int : Mail(row, A, t) = p
    BY <2>1
  <2> QED
    BY <2>1, <2>3, <2>5, <2>6
<1> HIDE DEF A, B
<1>7. Regular \subseteq Boxes /\ Outputs \subseteq Boxes
  BY SystemAssumption DEF Regular, Boxes
<1>8. Inputs \cap Boxes = {} /\ Regular \cap Outputs = {}
  BY DEF Boxes, Regular
<1>9. incoming \in [Boxes -> Int]
  BY DEF EngineInv, Shape
<1>10. \A i \in Inputs :
         remaining'[i] = IF i \in B /\ row.remaining[i] # <<>> THEN Tail(row.remaining[i])
                                                                ELSE row.remaining[i]
  BY <1>2, <1>4 DEF Progress, B
<1>11. ASSUME NEW t \in Boxes \ {id}
       PROVE  incoming'[t] = IF t \in A THEN incoming[t] ELSE Mail(row, B, t)
  <2>1. incoming[t] = IF t \in A THEN 0 ELSE Mail(row, A, t)
    BY <1>4, <1>7, <1>8 DEF Progress, Boxes, Regular
  <2>2. CASE t \in A
    <3>1. Contribution(row, id, t) = 0
      BY <1>6, <2>2 DEF B
    <3>2. incoming'[t] = incoming[t] + Contribution(row, id, t)
      OBVIOUS
    <3> QED
      BY <2>1, <2>2, <3>1, <3>2
  <2>3. CASE t \notin A
    BY <1>6, <2>1, <2>3
  <2> QED
    BY <2>2, <2>3
<1>12. ASSUME NEW r \in Regular
       PROVE  IF r \in B THEN /\ spikes'[r] = Folded(row, B, r) /\ spikes'[r] \in Nat
                              /\ incoming'[r] = 0 /\ activated'[r] = Fired(row, r)
                         ELSE spikes'[r] = row.spikes[r] /\ incoming'[r] = Mail(row, B, r)
  <2>1. CASE r = id
    BY <1>6, <1>7, <2>1 DEF B, A, Folded
  <2>2. CASE r # id /\ r \in A
    BY <1>4, <1>6, <1>7, <1>11, <2>2 DEF B, Folded, Progress
  <2>3. CASE r # id /\ r \notin A
    BY <1>4, <1>7, <1>11, <2>3 DEF B, Progress
  <2> QED
    BY <2>1, <2>2, <2>3
<1>13. ASSUME NEW o \in Outputs
       PROVE  IF o \in B THEN /\ recorded'[o] = Append(row.recorded[o], Mail(row, B, o))
                              /\ incoming'[o] = 0
                         ELSE recorded'[o] = row.recorded[o] /\ incoming'[o] = Mail(row, B, o)
  <2>1. CASE o = id
    BY <1>6, <1>7, <2>1 DEF B, A
  <2>2. CASE o # id /\ o \in A
    BY <1>4, <1>6, <1>7, <1>11, <2>2 DEF B, Progress
  <2>3. CASE o # id /\ o \notin A
    BY <1>4, <1>7, <1>11, <2>3 DEF B, Progress
  <2> QED
    BY <2>1, <2>2, <2>3
<1> QED
  BY <1>1, <1>2, <1>3, <1>10, <1>12, <1>13 DEF Progress

\* The boxes are those of the Regular and Output neurons.
LEMMA Kinds ==
  /\ Regular \subseteq Boxes /\ Outputs \subseteq Boxes /\ Boxes = Regular \cup Outputs
  /\ Inputs \cap Boxes = {} /\ Regular \cap Outputs = {}
BY SystemAssumption DEF Regular, Boxes

\* A step that adds no row leaves what the row says alone.
LEMMA RowKept ==
  ASSUME RowOK(row), \A i \in Inputs : TrainEnd(i), UNCHANGED <<row, request>>
  PROVE  RowOK(row)' /\ \A i \in Inputs : TrainEnd(i)'
BY DEF RowOK, Held, TrainEnd

\* Between ticks nothing is activated.
LEMMA IdleKept ==
  ASSUME Progress({}), UNCHANGED <<neurons, row>>
  PROVE  Progress({})'
BY DEF Progress, neurons

\* What the builder puts in each neuron.
LEMMA ContentBuilt ==
  /\ ContentOf \in [Regular -> Nat]
  /\ \A i \in Source, c \in Counters : ContentOf[<<c, i>>] = 0
  /\ \A i \in Source : ContentOf[<<"RatioDetector", i>>] = init
  /\ \A c \in {"RateDetector", "PatternDetector", "RatioOR", "Decision"} : ContentOf[Shared(c)] = 0
  /\ \A c \in {"RateFlag", "RatioFlag", "PatternFlag"} : ContentOf[Shared(c)] = FlagLoad
<1>1. ContentOf = BuiltContent /\ Regular = BuiltRegular
  BY Wiring, Members
<1>2. /\ \A i \in Source, c \in Counters \cup {"RatioDetector"} : <<c, i>> \in BuiltRegular
      /\ \A c \in SharedRegular : Shared(c) \in BuiltRegular
  BY <1>1, Members
<1>3. ContentOf \in [Regular -> Nat]
  BY <1>1, Weights DEF BuiltContent, FlagLoad
<1> QED
  BY <1>1, <1>2, <1>3 DEF BuiltContent, Counters, SharedRegular, Shared

\* The constructor establishes the invariant.
LEMMA EngineInit == Init => EngineInv
<1> SUFFICES ASSUME Init PROVE EngineInv
  OBVIOUS
<1>1. request \in [Inputs -> Seq(1..5)]
  BY WiringAssumption DEF Init
<1>2. Shape
  <2>1. Len(Order) \in Nat
    BY PlaceOfOrder, Parameters
  <2>2. spikes \in [Regular -> Int]
    BY ContentBuilt DEF Init
  <2> QED
    BY <1>1, <2>1, <2>2 DEF Init, Shape
<1>3. row.spikes = ContentOf /\ row.remaining = request /\ row.recorded = [o \in Outputs |-> <<>>]
  BY DEF Init, Row
<1>4. RowOK(row)
  BY <1>1, <1>3, ContentBuilt DEF RowOK, Held, Counters
<1>5. ASSUME NEW i \in Inputs PROVE TrainEnd(i)
  <2>1. request[i] \in Seq(1..5)
    BY <1>1
  <2>2. Len(request[i]) \in Nat /\ Len(request[i]) - Len(request[i]) = 0
    BY <2>1
  <2> QED
    BY <1>3, <2>2 DEF TrainEnd
<1>6. Progress(Activated(turn))
  <2>1. Activated(turn) = {}
    BY ActivatedEnds DEF Init
  <2>2. \A t \in Boxes : Mail(row, {}, t) = 0
    BY MailNone
  <2>3. Progress({})
    BY <1>3, <2>2, Kinds DEF Progress, Init
  <2> QED
    BY <2>1, <2>3
<1>7. status = "running"
  BY DEF Init
<1> QED
  BY <1>2, <1>4, <1>5, <1>6, <1>7 DEF EngineInv

\* Beginning a tick activates nothing.
LEMMA BeginStep == EngineInv /\ BeginTick => EngineInv'
<1> SUFFICES ASSUME EngineInv, BeginTick PROVE EngineInv'
  OBVIOUS
<1>1. Shape'
  BY PlaceOfOrder, Parameters DEF EngineInv, Shape, BeginTick, neurons
<1>2. RowOK(row)' /\ \A i \in Inputs : TrainEnd(i)'
  BY RowKept DEF EngineInv, BeginTick
<1>3. Activated(turn)' = {} /\ Activated(turn) = {}
  BY ActivatedEnds DEF BeginTick
<1>4. Progress({})'
  BY <1>3, IdleKept DEF EngineInv, BeginTick
<1>5. Progress(Activated(turn))'
  BY <1>3, <1>4 DEF Progress
<1> QED
  BY <1>1, <1>2, <1>5 DEF EngineInv, BeginTick

\* A box is emptied.
LEMMA Emptied ==
  ASSUME NEW S, NEW f \in [S -> Int], NEW x
  PROVE  [f EXCEPT ![x] = 0] \in [S -> Int]
<1>1. PICK zero \in Int : zero = 0
  OBVIOUS
<1> QED
  BY <1>1

\* What an activation leaves alone whichever neuron it is.
LEMMA TurnShape ==
  ASSUME EngineInv, NEW id, Turn(id)
  PROVE  /\ turn' \in 0..(Len(Order) + 1) /\ turn' > 0 /\ owed' \in 0..2
                /\ endpoint' \in {"simulate", "step"}
         /\ request' \in [Inputs -> Seq(1..5)]
         /\ RowOK(row)' /\ \A i \in Inputs : TrainEnd(i)'
<1>1. turn' \in 0..(Len(Order) + 1) /\ turn' > 0
  BY PlaceOfOrder, Parameters DEF Turn
<1>2. RowOK(row)' /\ \A i \in Inputs : TrainEnd(i)'
  BY RowKept DEF EngineInv, Turn
<1> QED
  BY <1>1, <1>2 DEF EngineInv, Shape, Turn

\* An Input sends the next symbol of its train, or nothing.
LEMMA InputStep ==
  ASSUME EngineInv, NEW i \in Inputs, Replay(i) \/ Exhausted(i)
  PROVE  EngineInv'
<1>1. Turn(i) /\ status = "running" /\ row' = row
  BY DEF Replay, Exhausted, Turn
<1>2. remaining[i] = row.remaining[i]
  <2>1. i \notin Activated(turn) /\ Progress(Activated(turn))
    BY <1>1, ActivatedStep DEF Turn, EngineInv
  <2> QED
    BY <2>1 DEF Progress
<1>3. remaining[i] \in Seq(1..5) /\ incoming \in [Boxes -> Int]
  BY DEF EngineInv, Shape
<1>4. Emitted(row, i) = IF remaining[i] = <<>> THEN 0 ELSE Head(remaining[i])
  BY <1>2 DEF Emitted
<1>5. Emitted(row, i) \in Int
  BY EmittedSymbol DEF EngineInv
<1>6. ASSUME NEW t \in Boxes
      PROVE  incoming'[t] = incoming[t] + Contribution(row, i, t)
  <2>1. CASE Replay(i)
    BY <1>3, <1>4, <1>5, <2>1, Delivered DEF Replay
  <2>2. CASE Exhausted(i)
    <3>1. Contribution(row, i, t) = 0
      <4>1. \A w : <<i, t, w>> \in BuiltSynapses => w \in Int
        BY Parameters, Weights DEF BuiltSynapses, VoteSynapses, ChainSynapses
      <4>2. Emitted(row, i) = 0
        BY <1>4, <2>2 DEF Exhausted
      <4>3. \A w \in Int : w * 0 = 0
        OBVIOUS
      <4>4. CASE <<i, t>> \in DOMAIN Weight
        <5>1. PICK w : <<i, t, w>> \in BuiltSynapses
          BY <4>4, WeightOfSynapse
        <5> QED
          BY <4>1, <4>2, <4>3, <5>1, OfSynapse
      <4> QED
        BY <4>4 DEF Contribution
    <3>2. incoming' = incoming
      BY <2>2 DEF Exhausted, neurons
    <3> QED
      BY <1>3, <3>1, <3>2
  <2> QED
    BY <2>1, <2>2
<1>7. /\ UNCHANGED <<spikes, delayed, activated, recorded, status>>
      /\ remaining' \in [Inputs -> Seq(1..5)]
      /\ \A j \in Inputs \ {i} : remaining'[j] = remaining[j]
      /\ remaining'[i] = IF row.remaining[i] # <<>> THEN Tail(row.remaining[i])
             ELSE row.remaining[i]
  <2>1. remaining \in [Inputs -> Seq(1..5)]
    BY DEF EngineInv, Shape
  <2>2. remaining[i] # <<>> => Tail(remaining[i]) \in Seq(1..5)
    BY <1>3
  <2>3. CASE Replay(i)
    BY <1>2, <2>1, <2>2, <2>3 DEF Replay
  <2>4. CASE Exhausted(i)
    BY <1>2, <2>1, <2>4 DEF Exhausted, neurons
  <2> QED
    BY <2>3, <2>4
<1>8. i \notin Boxes /\ i \notin Regular /\ i \notin Outputs
  BY Kinds
<1>9. Progress(Activated(turn))'
  BY <1>1, <1>6, <1>7, <1>8, Activation
<1>10. incoming' \in [Boxes -> Int]
  BY <1>3, <1>5, <1>6, ContributionType DEF Replay, Exhausted, Deliver, neurons
<1>11. Shape'
  BY <1>1, <1>7, <1>10, TurnShape DEF EngineInv, Shape
<1> QED
  BY <1>1, <1>7, <1>9, <1>11, TurnShape DEF EngineInv

\* An Output appends what its box holds.
LEMMA RecordStep ==
  ASSUME EngineInv, NEW o \in Outputs, Record(o)
  PROVE  EngineInv'
<1>1. Turn(o) /\ status = "running" /\ status' = "running" /\ row' = row
  BY DEF Record, Turn
<1>2. /\ o \in Boxes /\ o \notin Regular /\ o \notin Inputs
  BY Kinds
<1>3. incoming[o] = Mail(row, Activated(turn), o) /\ recorded[o] = row.recorded[o]
  <2>1. o \notin Activated(turn) /\ Progress(Activated(turn))
    BY <1>1, ActivatedStep DEF Turn, EngineInv
  <2> QED
    BY <2>1 DEF Progress
<1>4. incoming \in [Boxes -> Int] /\ recorded \in [Outputs -> Seq(Int)]
  BY DEF EngineInv, Shape
<1>5. ASSUME NEW t PROVE <<o, t>> \notin DOMAIN Weight
  <2>1. <<o, t>>[1] = o
    OBVIOUS
  <2> QED
    BY <2>1, SystemAssumption
<1>6. ASSUME NEW t \in Boxes \ {o}
      PROVE  incoming'[t] = incoming[t] + Contribution(row, o, t)
  <2>1. Contribution(row, o, t) = 0 /\ incoming'[t] = incoming[t]
    BY <1>4, <1>5 DEF Contribution, Record
  <2> QED
    BY <1>4, <2>1
<1>7. /\ incoming'[o] = 0
      /\ UNCHANGED <<remaining, spikes, delayed, activated, status>>
      /\ \A p \in Outputs \ {o} : recorded'[p] = recorded[p]
      /\ recorded'[o] = Append(row.recorded[o], Mail(row, Activated(turn), o))
  BY <1>2, <1>3, <1>4 DEF Record
<1>8. Progress(Activated(turn))'
  BY <1>1, <1>2, <1>6, <1>7, Activation
<1>9. incoming' \in [Boxes -> Int] /\ recorded' \in [Outputs -> Seq(Int)]
  <2>1. incoming[o] \in Int /\ recorded[o] \in Seq(Int)
    BY <1>2, <1>4
  <2> DEFINE longer == Append(recorded[o], incoming[o])
  <2>2. longer \in Seq(Int)
    BY <2>1
  <2>3. recorded' = [recorded EXCEPT ![o] = longer] /\ incoming' = [incoming EXCEPT ![o] = 0]
    BY DEF Record
  <2> HIDE DEF longer
  <2>4. recorded' \in [Outputs -> Seq(Int)]
    BY <1>4, <2>2, <2>3
  <2>5. incoming' \in [Boxes -> Int]
    BY <1>4, <2>3, Emptied
  <2> QED
    BY <2>4, <2>5
<1>10. Shape'
  BY <1>1, <1>7, <1>9, TurnShape DEF EngineInv, Shape
<1> QED
  BY <1>1, <1>8, <1>10, TurnShape DEF EngineInv

\* What a Regular neuron sees when its turn comes.
LEMMA OnTurn ==
  ASSUME EngineInv, NEW r \in Regular, Turn(r)
  PROVE  /\ status = "running" /\ row' = row
         /\ r \in Boxes /\ r \notin Outputs /\ r \notin Inputs
         /\ incoming[r] = Mail(row, Activated(turn), r) /\ incoming[r] \in Int
         /\ spikes[r] = row.spikes[r] /\ spikes[r] \in Nat
         /\ Fireable(r) = Fired(row, r)
         /\ Contribution(row, r, r) = 0
<1>1. status = "running" /\ row' = row /\ r \in Boxes /\ r \notin Outputs /\ r \notin Inputs
  BY Kinds DEF Turn
<1>2. r \notin Activated(turn) /\ Progress(Activated(turn))
  BY <1>1, ActivatedStep DEF Turn, EngineInv
<1>3. incoming[r] = Mail(row, Activated(turn), r) /\ spikes[r] = row.spikes[r]
  BY <1>2 DEF Progress
<1>4. incoming[r] \in Int /\ row.spikes[r] \in Nat
  BY <1>1 DEF EngineInv, Shape, RowOK
<1>5. <<r, r>> \notin DOMAIN Weight
  BY <1>2, Forward DEF Turn
<1> QED
  BY <1>1, <1>3, <1>4, <1>5 DEF Fireable, Fired, Contribution

\* A neuron no rule matches folds its mail; below zero it fails the run.
LEMMA RestStep ==
  ASSUME EngineInv, NEW r \in Regular, Rest(r)
  PROVE  /\ EngineInv'
         /\ status' \in {"running", "failed"}
         /\ status' = "failed" => Folded(row, Activated(turn), r) < 0
<1>1. Turn(r)
  BY DEF Rest
<1>2. /\ incoming \in [Boxes -> Int] /\ spikes \in [Regular -> Int]
      /\ activated \in [Regular -> SUBSET UNION {RulesOf[q] : q \in Regular}]
  BY DEF EngineInv, Shape
<1>3. Emitted(row, r) = 0 /\ Fired(row, r) = {}
  BY <1>1, OnTurn DEF Rest, Fired, Emitted
<1>4. ASSUME NEW t \in Boxes PROVE Contribution(row, r, t) = 0
  <2>1. \A w : <<r, t, w>> \in BuiltSynapses => w \in Int
    BY Parameters, Weights DEF BuiltSynapses, VoteSynapses, ChainSynapses
  <2>2. \A w \in Int : w * 0 = 0
    OBVIOUS
  <2>3. CASE <<r, t>> \in DOMAIN Weight
    <3>1. PICK w : <<r, t, w>> \in BuiltSynapses
      BY <2>3, WeightOfSynapse
    <3> QED
      BY <1>3, <2>1, <2>2, <3>1, OfSynapse
  <2> QED
    BY <2>3 DEF Contribution
<1>5. ASSUME NEW t \in Boxes \ {r}
      PROVE  incoming'[t] = incoming[t] + Contribution(row, r, t)
  <2>1. incoming'[t] = incoming[t]
    BY <1>2 DEF Rest
  <2> QED
    BY <1>2, <1>4, <2>1
<1>6. /\ incoming'[r] = 0
      /\ UNCHANGED <<remaining, delayed, recorded>>
      /\ \A q \in Regular \ {r} : spikes'[q] = spikes[q] /\ activated'[q] = activated[q]
      /\ spikes'[r] = Folded(row, Activated(turn), r) /\ spikes'[r] \in Int
      /\ activated'[r] = Fired(row, r)
  BY <1>1, <1>2, <1>3, OnTurn DEF Rest, Folded
<1>7. status' = IF spikes'[r] < 0 THEN "failed" ELSE "running"
  BY <1>1, OnTurn DEF Rest
<1>8. ASSUME status' = "running" PROVE Progress(Activated(turn))'
  <2>1. spikes'[r] \in Nat
    BY <1>6, <1>7, <1>8
  <2> QED
    BY <1>1, <1>5, <1>6, <2>1, OnTurn, Activation
<1>9. Shape'
  <2>1. spikes' \in [Regular -> Int] /\ incoming' \in [Boxes -> Int]
    <3> DEFINE v == spikes'[r]
    <3>1. v \in Int
      BY <1>6
    <3>2. \E x : spikes' = [spikes EXCEPT ![r] = x]
      BY DEF Rest
    <3>3. PICK x : spikes' = [spikes EXCEPT ![r] = x]
      BY <3>2
    <3>4. x \in Int
      BY <1>2, <3>1, <3>3
    <3>5. spikes' \in [Regular -> Int]
      BY <1>2, <3>3, <3>4
    <3>6. incoming' = [incoming EXCEPT ![r] = 0]
      BY DEF Rest
    <3>7. incoming' \in [Boxes -> Int]
      BY <1>2, <3>6, Emptied
    <3> QED
      BY <3>5, <3>7
  <2>2. /\ activated' \in [Regular -> SUBSET UNION {RulesOf[q] : q \in Regular}]
        /\ \A q \in Regular : activated'[q] \subseteq RulesOf[q]
    BY <1>2 DEF Rest, EngineInv, Shape
  <2> QED
    BY <1>1, <1>6, <1>7, <2>1, <2>2, TurnShape DEF EngineInv, Shape
<1> QED
  BY <1>1, <1>6, <1>7, <1>8, <1>9, TurnShape DEF EngineInv

\* A neuron a rule matches leaves itself its mail and emits; below zero it fails.
LEMMA FireStep ==
  ASSUME EngineInv, NEW r \in Regular, NEW rule \in RulesOf[r], Fire(r, rule)
  PROVE  /\ EngineInv'
         /\ status' \in {"running", "failed"}
         /\ status' = "failed" => Folded(row, Activated(turn), r) < 0
<1>1. Turn(r)
  BY DEF Fire
<1>2. /\ incoming \in [Boxes -> Int] /\ spikes \in [Regular -> Int]
      /\ activated \in [Regular -> SUBSET UNION {RulesOf[q] : q \in Regular}]
      /\ delayed = [q \in Regular |-> {}]
  BY DEF EngineInv, Shape
<1>3. Matches(rule, spikes[r]) /\ spikes[r] \in Nat
  BY <1>1, OnTurn DEF Fire, Fireable
<1>4. /\ Consumed(rule, spikes[r]) = spikes[r] /\ rule.delay = 0 /\ rule.produce \in {0, 1}
      /\ \A other \in RulesOf[r] : Matches(other, spikes[r]) => other = rule
  BY <1>3, Rules
<1>5. Fired(row, r) = {rule} /\ Emitted(row, r) = rule.produce
  BY <1>1, <1>3, <1>4, OnTurn DEF Fired, Emitted
<1>6. ASSUME NEW t \in Boxes
      PROVE  incoming'[t] = [incoming EXCEPT ![r] = 0][t] + Contribution(row, r, t)
  <2> DEFINE box == [incoming EXCEPT ![r] = 0]
  <2>1. box \in [Boxes -> Int]
    BY <1>2, Emptied
  <2>2. incoming' = Deliver(box, r, Emitted(row, r))
    BY <1>4, <1>5 DEF Fire
  <2>3. Emitted(row, r) \in Int
    BY <1>4, <1>5
  <2> HIDE DEF box
  <2>4. incoming'[t] = box[t] + Contribution(row, r, t)
    BY <2>1, <2>2, <2>3, Delivered
  <2> QED
    BY <2>4 DEF box
<1>7. \A t \in Boxes \ {r} : incoming'[t] = incoming[t] + Contribution(row, r, t)
  BY <1>2, <1>6
<1>8. incoming'[r] = 0
  BY <1>1, <1>2, <1>6, OnTurn
<1>9. spikes'[r] = incoming[r]
  <2>1. spikes'[r] = spikes[r] + incoming[r] - Consumed(rule, spikes[r])
    BY <1>2 DEF Fire
  <2>2. incoming[r] \in Int
    BY <1>1, OnTurn
  <2> QED
    BY <1>3, <1>4, <2>1, <2>2
<1>10. /\ UNCHANGED <<remaining, delayed, recorded>>
       /\ \A q \in Regular \ {r} : spikes'[q] = spikes[q] /\ activated'[q] = activated[q]
       /\ spikes'[r] = Folded(row, Activated(turn), r) /\ spikes'[r] \in Int
       /\ activated'[r] = Fired(row, r)
  BY <1>1, <1>2, <1>4, <1>5, <1>9, OnTurn DEF Fire, Folded
<1>11. status' = IF spikes'[r] < 0 THEN "failed" ELSE "running"
  BY <1>1, OnTurn DEF Fire
<1>12. ASSUME status' = "running" PROVE Progress(Activated(turn))'
  <2>1. spikes'[r] \in Nat
    BY <1>10, <1>11, <1>12
  <2> QED
    BY <1>1, <1>7, <1>8, <1>10, <2>1, OnTurn, Activation
<1>13. Shape'
  <2>1. incoming' \in [Boxes -> Int]
    <3>1. \A t \in Boxes : incoming'[t] \in Int
      <4>1. \A t \in Boxes : Contribution(row, r, t) \in Int
                /\ [incoming EXCEPT ![r] = 0][t] \in Int
        BY <1>2, <1>4, <1>5, ContributionType
      <4> QED
        BY <1>6, <4>1
    <3>2. incoming' = [t \in Boxes |-> incoming'[t]]
      BY DEF Fire, Deliver
    <3> QED
      BY <3>1, <3>2
  <2>2. spikes' \in [Regular -> Int]
    BY <1>2, <1>10 DEF Fire
  <2>3. /\ activated' \in [Regular -> SUBSET UNION {RulesOf[q] : q \in Regular}]
        /\ \A q \in Regular : activated'[q] \subseteq RulesOf[q]
    BY <1>2 DEF Fire, EngineInv, Shape
  <2> QED
    BY <1>1, <1>10, <1>11, <2>1, <2>2, <2>3, TurnShape DEF EngineInv, Shape
<1> QED
  BY <1>1, <1>10, <1>11, <1>12, <1>13, TurnShape DEF EngineInv

-----------------------------------------------------------------------------
(* The end of a tick, the answer, and what holds of every run.             *)

\* At the end of a tick every neuron has been activated.
LEMMA TickEnds ==
  ASSUME EngineInv, EndTick
  PROVE  /\ Activated(turn) = Ids
         /\ \A i \in Inputs :
              remaining[i] = IF row.remaining[i] # <<>> THEN Tail(row.remaining[i]) ELSE <<>>
         /\ \A r \in Regular : /\ spikes[r] = Folded(row, Ids, r) /\ spikes[r] \in Nat
                               /\ activated[r] = Fired(row, r)
         /\ \A o \in Outputs : recorded[o] = Append(row.recorded[o], Mail(row, Ids, o))
         /\ \A t \in Boxes : incoming[t] = 0
<1>1. Len(Order) \in Nat
  BY PlaceOfOrder, Parameters
<1>2. turn = Len(Order) + 1
  BY <1>1 DEF EngineInv, Shape, EndTick
<1>3. Activated(turn) = Ids /\ Progress(Ids)
  BY <1>2, ActivatedEnds DEF EngineInv, EndTick
<1>4. Inputs \subseteq Ids /\ Outputs \subseteq Ids /\ Regular \subseteq Ids
  BY SystemAssumption DEF Regular
<1> QED
  BY <1>3, <1>4, Kinds DEF Progress

\* What a counter holds after a tick is the symbol its source sent in it.
LEMMA CounterFolds ==
  ASSUME RowOK(row), NEW i \in Source, NEW c \in Counters
  PROVE  Folded(row, Ids, <<c, i>>) = Emitted(row, <<"Packets", i>>)
<1>1. Mail(row, Ids, <<c, i>>) = Emitted(row, <<"Packets", i>>)
  BY AllMailed
<1>2. Fired(row, <<c, i>>) = {} => row.spikes[<<c, i>>] = 0
  BY ChainEmits DEF RowOK
<1>3. PICK v \in 0..5 : Emitted(row, <<"Packets", i>>) = v
  BY EmittedSymbol
<1> QED
  BY <1>1, <1>2, <1>3 DEF Folded

\* The tail of the end of a train is an end of it.
LEMMA TailIsEnd ==
  ASSUME NEW train \in Seq(1..5), NEW left \in Seq(1..5), left # <<>>,
         Len(train) - Len(left) \in Nat,
         \A j \in 1..Len(left) : left[j] = train[Len(train) - Len(left) + j]
  PROVE  /\ Tail(left) \in Seq(1..5) /\ Len(Tail(left)) = Len(left) - 1
         /\ Len(train) - Len(Tail(left)) \in Nat
         /\ Len(train) - Len(Tail(left)) = Len(train) - Len(left) + 1
         /\ \A j \in 1..Len(Tail(left)) :
              Tail(left)[j] = train[Len(train) - Len(Tail(left)) + j]
         /\ Head(left) = train[Len(train) - Len(left) + 1]
<1>1. PICK p, q \in Nat : Len(train) = p /\ Len(left) = q
  OBVIOUS
<1>2. q > 0
  BY <1>1
<1>3. Tail(left) \in Seq(1..5) /\ Len(Tail(left)) = q - 1
  BY <1>1
<1>4. \A j \in 1..(q - 1) : Tail(left)[j] = left[j + 1]
  BY <1>1
<1>5. p - q \in Nat /\ p - (q - 1) = p - q + 1
  BY <1>1
<1>6. \A j \in 1..(q - 1) : j + 1 \in 1..q /\ p - q + (j + 1) = p - q + 1 + j
  BY <1>1
<1>7. Head(left) = left[1] /\ 1 \in 1..q
  BY <1>1, <1>2
<1> DEFINE rest == Tail(left)
<1>8. rest \in Seq(1..5) /\ Len(rest) = q - 1 /\ \A j \in 1..(q - 1) : rest[j] = left[j + 1]
  BY <1>3, <1>4
<1> HIDE DEF rest
<1>9. /\ Len(rest) = Len(left) - 1 /\ Len(train) - Len(rest) = p - q + 1
      /\ Len(train) - Len(left) = p - q
  BY <1>1, <1>5, <1>8
<1>10. \A j \in 1..q : left[j] = train[p - q + j]
  BY <1>1
<1>11. \A j \in 1..(q - 1) : rest[j] = train[p - q + 1 + j]
  BY <1>6, <1>8, <1>10
<1>12. \A j \in 1..Len(rest) : rest[j] = train[Len(train) - Len(rest) + j]
  BY <1>8, <1>9, <1>11
<1>13. Head(left) = train[Len(train) - Len(left) + 1]
  BY <1>7, <1>9, <1>10
<1> QED
  BY <1>1, <1>5, <1>8, <1>9, <1>12, <1>13 DEF rest

\* The row of a finished tick is one the next tick may start from.
LEMMA EndStep == EngineInv /\ EndTick => EngineInv'
<1> SUFFICES ASSUME EngineInv, EndTick PROVE EngineInv'
  OBVIOUS
<1>1. /\ turn' = 0 /\ row' = Row(remaining, spikes, activated, recorded)
      /\ UNCHANGED <<endpoint, request, neurons, owed, status>> /\ status = "running"
  BY DEF EndTick
<1>2. /\ row'.remaining = remaining /\ row'.spikes = spikes
      /\ row'.activated = activated /\ row'.recorded = recorded
  BY <1>1 DEF Row
<1>3. Shape'
  <2>1. turn' \in 0..(Len(Order) + 1)
    BY <1>1, PlaceOfOrder, Parameters
  <2> QED
    BY <1>1, <2>1 DEF EngineInv, Shape, neurons
<1>4. RowOK(row) /\ Shape
  BY DEF EngineInv
<1>5. spikes \in [Regular -> Nat]
  BY <1>4, TickEnds DEF Shape
<1>6. ASSUME NEW i \in Source, NEW c \in Counters
      PROVE  spikes[<<c, i>>] = Emitted(row, <<"Packets", i>>)
  <2>1. <<c, i>> \in Regular
    BY Members
  <2> QED
    BY <1>4, <2>1, TickEnds, CounterFolds
<1>7. recorded \in [Outputs -> Seq({0, 1})]
  <2>1. ASSUME NEW o \in Outputs PROVE recorded[o] \in Seq({0, 1})
    <3>1. o = Shared("Output")
      BY Members
    <3>2. PICK v \in {0, 1} : Mail(row, Ids, o) = v
      BY <1>4, <3>1, AllMailed
    <3>3. row.recorded[o] \in Seq({0, 1})
      BY <1>4 DEF RowOK
    <3>4. Append(row.recorded[o], v) \in Seq({0, 1})
      BY <3>2, <3>3
    <3> QED
      BY <3>2, <3>4, TickEnds
  <2> QED
    BY <1>4, <2>1 DEF Shape
<1>8. RowOK(row)'
  <2>1. \A i \in Source : \A c \in Counters : spikes[<<c, i>>] = spikes[<<"AnomalousSYN", i>>]
    BY <1>6 DEF Counters
  <2>2. \A i \in Source : spikes[<<"AnomalousSYN", i>>] \in 0..5
    BY <1>4, <1>6, EmittedSymbol DEF Counters
  <2> QED
    BY <1>2, <1>4, <1>5, <1>7, <2>1, <2>2 DEF RowOK, Held, Shape
<1>9. ASSUME NEW i \in Inputs PROVE TrainEnd(i)'
  <2>1. request[i] \in Seq(1..5) /\ row.remaining[i] \in Seq(1..5) /\ TrainEnd(i)
    BY <1>4 DEF EngineInv, Shape, RowOK
  <2>2. row'.remaining[i] = IF row.remaining[i] # <<>> THEN Tail(row.remaining[i]) ELSE <<>>
    BY <1>2, TickEnds
  <2>3. CASE row.remaining[i] = <<>>
    BY <1>1, <2>1, <2>2, <2>3 DEF TrainEnd
  <2>4. CASE row.remaining[i] # <<>>
    <3> DEFINE left == row.remaining[i]
    <3>1. /\ left \in Seq(1..5) /\ left # <<>> /\ Len(request[i]) - Len(left) \in Nat
          /\ \A j \in 1..Len(left) : left[j] = request[i][Len(request[i]) - Len(left) + j]
      BY <2>1, <2>4 DEF TrainEnd
    <3> HIDE DEF left
    <3>2. /\ Len(request[i]) - Len(Tail(left)) \in Nat
          /\ \A j \in 1..Len(Tail(left)) :
               Tail(left)[j] = request[i][Len(request[i]) - Len(Tail(left)) + j]
      BY <2>1, <3>1, TailIsEnd
    <3>3. row'.remaining[i] = Tail(left) /\ request' = request
      BY <1>1, <2>2, <2>4 DEF left
    <3> QED
      BY <3>2, <3>3 DEF TrainEnd
  <2> QED
    BY <2>3, <2>4
<1>10. Progress(Activated(turn))'
  <2>1. Activated(turn)' = {}
    BY <1>1, ActivatedEnds
  <2>2. \A t \in Boxes : Mail(row', {}, t) = 0
    BY MailNone
  <2>3. \A t \in Boxes : incoming'[t] = 0
    BY <1>1, TickEnds DEF neurons
  <2> QED
    BY <1>1, <1>2, <2>1, <2>2, <2>3, Kinds DEF Progress, neurons
<1> QED
  BY <1>1, <1>3, <1>8, <1>9, <1>10 DEF EngineInv

\* An answer leaves the neurons as they are.
LEMMA AnswerStep == EngineInv /\ Answer => EngineInv'
<1> SUFFICES ASSUME EngineInv, Answer PROVE EngineInv'
  OBVIOUS
<1>1. UNCHANGED <<endpoint, request, neurons, turn, owed, row, spiked>> /\ status' = "answered"
  BY DEF Answer
<1>2. Shape'
  BY <1>1 DEF EngineInv, Shape, neurons
<1>3. RowOK(row)' /\ \A i \in Inputs : TrainEnd(i)'
  BY <1>1, RowKept DEF EngineInv
<1>4. Progress(Activated(turn))'
  <2>1. Activated(turn) = {} /\ Activated(turn)' = {} /\ turn = 0
    BY <1>1, ActivatedEnds DEF Answer
  <2>2. Progress({})'
    BY <1>1, <2>1, IdleKept DEF EngineInv, Answer
  <2> QED
    BY <2>1, <2>2 DEF Progress
<1>5. endpoint = "simulate" => ~Active'
  BY <1>1 DEF Answer, Active, Awake, Fireable, neurons
<1> QED
  BY <1>1, <1>2, <1>3, <1>4, <1>5 DEF EngineInv, Answer

\* So does nothing at all.
LEMMA StutterStep == EngineInv /\ UNCHANGED vars => EngineInv'
<1> SUFFICES ASSUME EngineInv, UNCHANGED vars PROVE EngineInv'
  OBVIOUS
<1>1. UNCHANGED <<endpoint, request, remaining, spikes, incoming, delayed, activated, recorded,
                  turn, owed, status, row, spiked>>
  BY DEF vars, neurons
<1>2. Shape'
  BY <1>1 DEF EngineInv, Shape
<1>3. RowOK(row)' /\ \A i \in Inputs : TrainEnd(i)'
  BY <1>1, RowKept DEF EngineInv
<1>4. status # "failed" => Progress(Activated(turn))'
  BY <1>1 DEF EngineInv, Progress
<1>5. Active' = Active
  BY <1>1 DEF Active, Awake, Fireable
<1> QED
  BY <1>1, <1>2, <1>3, <1>4, <1>5 DEF EngineInv

\* Every step of the engine preserves the invariant.
LEMMA EngineNext == EngineInv /\ [Next]_vars => EngineInv'
<1> SUFFICES ASSUME EngineInv, [Next]_vars PROVE EngineInv'
  OBVIOUS
<1>1. CASE BeginTick
  BY <1>1, BeginStep
<1>2. CASE \E i \in Inputs : Replay(i) \/ Exhausted(i)
  BY <1>2, InputStep
<1>3. CASE \E o \in Outputs : Record(o)
  BY <1>3, RecordStep
<1>4. CASE \E r \in Regular : Rest(r)
  BY <1>4, RestStep
<1>5. CASE \E r \in Regular : \E rule \in RulesOf[r] : Fire(r, rule)
  BY <1>5, FireStep
<1>6. CASE EndTick
  BY <1>6, EndStep
<1>7. CASE Answer
  BY <1>7, AnswerStep
<1>8. CASE Done \/ UNCHANGED vars
  BY <1>8, StutterStep DEF Done
<1> QED
  BY <1>1, <1>2, <1>3, <1>4, <1>5, <1>6, <1>7, <1>8 DEF Next

\* Between two turns every box holds exactly what the neurons already
\* activated in this tick have sent it, and every neuron what the last row and
\* its mail make it hold.
THEOREM EngineInvariant == Spec => []EngineInv
BY EngineInit, EngineNext, PTL DEF Spec

\* No mail crosses a tick boundary, whatever the number of sources: list order
\* is a topological order of the synapses (system.py simulate_step).
THEOREM MailFolded == Spec => []MailFoldedWithinTick
<1>1. EngineInv => MailFoldedWithinTick
  <2> SUFFICES ASSUME EngineInv, turn = 0, NEW t \in Boxes PROVE incoming[t] = 0
    BY DEF MailFoldedWithinTick
  <2>1. Activated(turn) = {} /\ status # "failed"
    BY ActivatedEnds DEF EngineInv
  <2>2. Progress({})
    BY <2>1 DEF EngineInv
  <2> QED
    BY <2>2, MailNone, Kinds DEF Progress
<1> QED
  BY <1>1, EngineInvariant, PTL

\* neuron.py: no neuron the builder makes ever has two applicable rules, so
\* which rule the engine would choose never matters.
THEOREM OneRule == Spec => []AtMostOneRule
<1>1. EngineInv => AtMostOneRule
  <2> SUFFICES ASSUME EngineInv, NEW r \in BuiltRegular, NEW one \in Fireable(r),
                      NEW other \in Fireable(r)
               PROVE  one = other
    BY DEF AtMostOneRule
  <2>1. r \in Regular /\ spikes[r] \in Int
    BY Members DEF EngineInv, Shape
  <2>2. /\ one \in RulesOf[r] /\ Matches(one, spikes[r])
        /\ other \in RulesOf[r] /\ Matches(other, spikes[r])
    BY DEF Fireable
  <2> QED
    BY <2>1, <2>2, Rules
<1> QED
  BY <1>1, EngineInvariant, PTL

\* When the halting check of /simulate finds no active neuron, nothing is left
\* that another tick would act on.
THEOREM Quiescence == Spec => []HaltedIsQuiescent
<1>1. EngineInv => HaltedIsQuiescent
  <2> SUFFICES ASSUME EngineInv, status = "answered", endpoint = "simulate"
               PROVE  /\ \A t \in Boxes : incoming[t] = 0
                      /\ \A i \in Inputs : remaining[i] = <<>>
                      /\ \A r \in Regular : Fireable(r) = {} /\ delayed[r] = {}
    BY DEF HaltedIsQuiescent
  <2>1. turn = 0 /\ ~Active /\ Progress({})
    BY ActivatedEnds DEF EngineInv
  <2>2. \A t \in Boxes : incoming[t] = 0
    BY <2>1, MailNone, Kinds DEF Progress
  <2> QED
    BY <2>1, <2>2 DEF Active, Awake
<1> QED
  BY <1>1, EngineInvariant, PTL

\* The types, and that nothing is ever delayed.
THEOREM Typing == Spec => []TypeOK
<1>1. EngineInv => TypeOK
  <2> SUFFICES ASSUME EngineInv PROVE TypeOK
    OBVIOUS
  <2>1. Shape
    BY DEF EngineInv
  <2>2. Regular = BuiltRegular /\ Boxes = BuiltRegular \cup BuiltOutputs /\ RulesOf = BuiltRules
    BY Members, Wiring, Kinds
  <2> QED
    BY <2>1, <2>2 DEF Shape, TypeOK
<1> QED
  BY <1>1, EngineInvariant, PTL

-----------------------------------------------------------------------------
(* The engine implements the detector.                                     *)

StreamOf == [i \in Source |-> request[<<"Packets", i>>]]
SentOf   == [i \in Source |-> Len(request[<<"Packets", i>>]) - Len(row.remaining[<<"Packets", i>>])]
AlarmsOf == Cardinality(RecordedSpikes(row.recorded[Shared("Output")]))

\* Recording a tick adds its spike, if there is one, to the recorded ones.
LEMMA OneMoreSpike ==
  ASSUME NEW ticks \in Seq({0, 1}), NEW v \in {0, 1}
  PROVE  /\ Cardinality(RecordedSpikes(ticks)) \in Nat
         /\ Cardinality(RecordedSpikes(Append(ticks, v))) = Cardinality(RecordedSpikes(ticks)) + v
<1> DEFINE more == Append(ticks, v)
           len == Len(ticks)
           S == RecordedSpikes(ticks)
           T == RecordedSpikes(more)
<1>1. len \in Nat /\ DOMAIN ticks = 1..len /\ DOMAIN more = 1..(len + 1)
  OBVIOUS
<1>2. \A k \in 1..len : more[k] = ticks[k] /\ ticks[k] \in {0, 1}
  OBVIOUS
<1>3. more[len + 1] = v
  OBVIOUS
<1>4. S = {<<k, 1>> : k \in {j \in 1..len : ticks[j] = 1}}
  <2>1. \A k \in 1..len : {k} \X (1..ticks[k]) = IF ticks[k] = 1 THEN {<<k, 1>>} ELSE {}
    BY <1>2
  <2> HIDE DEF len
  <2> QED
    BY <1>1, <2>1 DEF RecordedSpikes
<1>5. T = {<<k, 1>> : k \in {j \in 1..(len + 1) : more[j] = 1}}
  <2>1. \A k \in 1..(len + 1) : more[k] \in {0, 1}
    BY <1>1, <1>2, <1>3
  <2> HIDE DEF more, len
  <2>2. \A k \in 1..(len + 1) : {k} \X (1..more[k]) = IF more[k] = 1 THEN {<<k, 1>>} ELSE {}
    BY <2>1
  <2> QED
    BY <1>1, <2>2 DEF RecordedSpikes
<1>6. IsFiniteSet(S) /\ Cardinality(S) \in Nat
  <2>1. IsFiniteSet(1..len) /\ IsFiniteSet({1})
    <3>1. PICK m \in Nat : len = m
      BY <1>1
    <3>2. IsFiniteSet(1..m)
      BY FS_Interval
    <3> HIDE DEF len
    <3> QED
      BY <3>1, <3>2, FS_Singleton
  <2>2. IsFiniteSet((1..len) \X {1})
    BY <2>1, FS_Product
  <2>3. S \subseteq (1..len) \X {1}
    BY <1>4
  <2> QED
    BY <2>2, <2>3, FS_Subset, FS_CardinalityType
<1> HIDE DEF more, len
<1>7. \A k \in 1..(len + 1) : k \in 1..len \/ k = len + 1
  BY <1>1
<1>8. len + 1 \notin 1..len /\ len + 1 \in 1..(len + 1) /\ 1..len \subseteq 1..(len + 1)
  BY <1>1
<1> HIDE DEF S, T
<1>9. CASE v = 1
  <2>1. T = S \cup {<<len + 1, 1>>} /\ <<len + 1, 1>> \notin S
    BY <1>2, <1>3, <1>4, <1>5, <1>7, <1>8, <1>9
  <2> QED
    BY <1>6, <1>9, <2>1, FS_AddElement DEF S, T, more
<1>10. CASE v = 0
  <2>1. T = S
    BY <1>2, <1>3, <1>4, <1>5, <1>7, <1>8, <1>10
  <2> QED
    BY <1>6, <1>10, <2>1 DEF S, T, more
<1> QED
  BY <1>6, <1>9, <1>10 DEF S

\* A fold is After of the detector.
LEMMA FoldedAfter ==
  ASSUME NEW r, NEW m, Mail(row, Ids, r) = m
  PROVE  Folded(row, Ids, r) = D!After(Fired(row, r) # {}, row.spikes[r], m)
BY DEF Folded, D!After

\* A tick replays one symbol of every train and leaves it in the counters.
LEMMA TickSent ==
  ASSUME EngineInv, EndTick
  PROVE  /\ StreamOf' = StreamOf
         /\ SentOf' = [i \in Source |-> IF SentOf[i] < Len(StreamOf[i]) THEN SentOf[i] + 1
                ELSE SentOf[i]]
         /\ PerSource("AnomalousSYN")' =
              [i \in Source |-> IF SentOf[i] < Len(StreamOf[i]) THEN StreamOf[i][SentOf[i] + 1]
                  ELSE 0]
<1>1. /\ row' = Row(remaining, spikes, activated, recorded) /\ request' = request
  BY DEF EndTick
<1>2. row'.remaining = remaining /\ row'.spikes = spikes
  BY <1>1 DEF Row
<1>3. RowOK(row) /\ request \in [Inputs -> Seq(1..5)] /\ \A i \in Inputs : TrainEnd(i)
  BY DEF EngineInv, Shape
<1>4. ASSUME NEW i \in Source
      PROVE  /\ SentOf'[i] = IF SentOf[i] < Len(StreamOf[i]) THEN SentOf[i] + 1 ELSE SentOf[i]
             /\ PerSource("AnomalousSYN")'[i] =
                  IF SentOf[i] < Len(StreamOf[i]) THEN StreamOf[i][SentOf[i] + 1] ELSE 0
  <2> DEFINE p == <<"Packets", i>>
             train == request[p]
             left == row.remaining[p]
  <2>1. p \in Inputs
    BY Members
  <2>2. train \in Seq(1..5) /\ left \in Seq(1..5)
    BY <1>3, <2>1 DEF RowOK
  <2>3. /\ Len(train) - Len(left) \in Nat
        /\ \A j \in 1..Len(left) : left[j] = train[Len(train) - Len(left) + j]
    BY <1>3, <2>1 DEF TrainEnd
  <2>4. remaining[p] = IF left # <<>> THEN Tail(left) ELSE <<>>
    BY <2>1, TickEnds
  <2>5. StreamOf[i] = train /\ SentOf[i] = Len(train) - Len(left)
    BY DEF StreamOf, SentOf
  <2>6. SentOf'[i] = Len(train) - Len(remaining[p])
    BY <1>1, <1>2 DEF SentOf
  <2>7. PerSource("AnomalousSYN")'[i] = Emitted(row, p)
    <3>1. <<"AnomalousSYN", i>> \in Regular /\ "AnomalousSYN" \in Counters
      BY Members DEF Counters
    <3>2. spikes[<<"AnomalousSYN", i>>] = Emitted(row, p)
      BY <1>3, <3>1, TickEnds, CounterFolds
    <3> QED
      BY <1>2, <3>2 DEF PerSource
  <2>8. Emitted(row, p) = IF left = <<>> THEN 0 ELSE Head(left)
    BY <2>1 DEF Emitted
  <2> HIDE DEF p, train, left
  <2>9. PICK t, l \in Nat : Len(train) = t /\ Len(left) = l
    BY <2>2
  <2>10. CASE left = <<>>
    <3>1. l = 0 /\ t - l = t
      BY <2>9, <2>10
    <3>2. SentOf[i] = t /\ Len(StreamOf[i]) = t /\ SentOf'[i] = t
      BY <2>4, <2>5, <2>6, <2>9, <2>10, <3>1
    <3> QED
      BY <2>7, <2>8, <2>9, <2>10, <3>2
  <2>11. CASE left # <<>>
    <3>1. /\ Len(train) - Len(Tail(left)) = Len(train) - Len(left) + 1
          /\ Head(left) = train[Len(train) - Len(left) + 1]
      BY <2>2, <2>3, <2>11, TailIsEnd
    <3>2. l > 0
      BY <2>2, <2>9, <2>11
    <3>3. t - l < t
      BY <2>9, <3>2
    <3>4. SentOf[i] < Len(StreamOf[i])
      BY <2>5, <2>9, <3>3
    <3>5. SentOf'[i] = SentOf[i] + 1
      BY <2>4, <2>5, <2>6, <2>11, <3>1
    <3>6. PerSource("AnomalousSYN")'[i] = StreamOf[i][SentOf[i] + 1]
      BY <2>5, <2>7, <2>8, <2>11, <3>1
    <3> QED
      BY <3>4, <3>5, <3>6
  <2> QED
    BY <2>10, <2>11
<1>5. StreamOf' = StreamOf
  BY <1>1 DEF StreamOf
<1>6. SentOf' = [i \in Source |-> SentOf'[i]]
  BY DEF SentOf
<1>7. PerSource("AnomalousSYN")' = [i \in Source |-> PerSource("AnomalousSYN")'[i]]
  BY DEF PerSource
<1>8. SentOf' = [i \in Source |-> IF SentOf[i] < Len(StreamOf[i]) THEN SentOf[i] + 1 ELSE SentOf[i]]
  BY <1>4, <1>6
<1>9. PerSource("AnomalousSYN")' =
        [i \in Source |-> IF SentOf[i] < Len(StreamOf[i]) THEN StreamOf[i][SentOf[i] + 1] ELSE 0]
  BY <1>4, <1>7
<1> QED
  BY <1>5, <1>8, <1>9

\* A tick that ends leaves in every RatioDetector what the detector says.
LEMMA TickRatio ==
  ASSUME EngineInv, EndTick
  PROVE  /\ PerSource("RatioDetector")' = [i \in Source |-> D!NextRatio(i)]
         /\ \A i \in Source : D!NextRatio(i) \in Nat
<1>1. row'.spikes = spikes
  BY DEF EndTick, Row
<1>2. RowOK(row)
  BY DEF EngineInv
<1>3. ASSUME NEW i \in Source
      PROVE  spikes[<<"RatioDetector", i>>] = D!NextRatio(i) /\ D!NextRatio(i) \in Nat
  <2> DEFINE r == <<"RatioDetector", i>>
  <2>1. r \in Regular /\ \A c \in Counters : <<c, i>> \in Ids
    BY Members, Listed
  <2>2. Mail(row, Ids, r) = D!RatioMail(i)
    BY <1>2, <2>1, RatioMailed
  <2>3. i \in D!FiringRatio <=> Fired(row, r) # {}
    <3>1. Emitted(row, r) \in {0, 1}
      BY NotInput, EmittedType
    <3> QED
      BY <1>2, <3>1, SameFirings, Detectors
  <2>4. PerSource("RatioDetector")[i] = row.spikes[r]
    BY DEF PerSource
  <2>5. Folded(row, Ids, r) = D!NextRatio(i)
    BY <2>2, <2>3, <2>4 DEF D!NextRatio, D!After, Folded
  <2> QED
    BY <2>1, <2>5, TickEnds
<1> QED
  BY <1>1, <1>3 DEF PerSource

\* So does it in the neurons the sources share.
LEMMA TickShared ==
  ASSUME EngineInv, EndTick
  PROVE  /\ Holds("RateDetector")' = D!After(D!FiringRate, Holds("RateDetector"), D!Arriving(D!SYN))
         /\ Holds("PatternDetector")'
                = D!After(D!FiringPattern, Holds("PatternDetector"), D!Arriving({2}))
         /\ Holds("RatioOR")' = D!After(D!FiringOr, Holds("RatioOR"), D!Cardinality(D!FiringRatio))
         /\ Holds("Decision")' = D!After(D!FiringAlarm, Holds("Decision"), D!Ballot)
         /\ FlagOf' = [f \in D!Feature |-> D!NextFlag(f)]
<1>1. row'.spikes = spikes
  BY DEF EndTick, Row
<1>2. RowOK(row)
  BY DEF EngineInv
<1>3. \A c \in SharedRegular : Shared(c) \in Regular /\ Emitted(row, Shared(c)) \in {0, 1}
  BY Members, NotInput, EmittedType
<1>4. ASSUME NEW c \in {"RateDetector", "PatternDetector", "RatioOR", "Decision"}
      PROVE  Holds(c)' = D!After(Emitted(row, Shared(c)) = 1, Holds(c), Mail(row, Ids, Shared(c)))
  <2>1. Shared(c) \in Regular /\ Emitted(row, Shared(c)) \in {0, 1}
    BY <1>3 DEF SharedRegular
  <2>2. Fired(row, Shared(c)) = {} <=> Emitted(row, Shared(c)) = 0
    BY <1>2, Detectors
  <2>3. Holds(c)' = Folded(row, Ids, Shared(c))
    BY <1>1, <2>1, TickEnds DEF Holds
  <2> QED
    BY <2>1, <2>2, <2>3 DEF Folded, D!After, Holds
<1>5. ASSUME NEW f \in D!Feature PROVE FlagOf'[f] = D!NextFlag(f)
  <2>1. f \in {"rate", "ratio", "pattern"}
    BY SameBuilder
  <2>2. PICK c \in {"RateFlag", "RatioFlag", "PatternFlag"} : FlagNeuron(f) = Shared(c)
    BY <2>1 DEF FlagNeuron
  <2>3. FlagOf[f] = row.spikes[FlagNeuron(f)] /\ FlagOf'[f] = row'.spikes[FlagNeuron(f)]
    BY <2>1 DEF FlagOf, Holds, FlagNeuron
  <2>4. FlagNeuron(f) \in Regular
    BY <1>3, <2>2 DEF SharedRegular
  <2>5. FlagOf'[f] = Folded(row, Ids, FlagNeuron(f))
    BY <1>1, <2>3, <2>4, TickEnds
  <2>6. Fired(row, FlagNeuron(f)) = {} <=> FlagOf[f] \notin {1, 3}
    BY <1>2, <2>2, <2>3, Detectors
  <2>7. PICK m \in {0, 1} :
          m = (IF f \in D!FiringFeature THEN 1 ELSE 0) /\ Mail(row, Ids, FlagNeuron(f)) = m
    BY <1>2, AllMailed
  <2>8. D!NextFlag(f) = (IF FlagOf[f] \in {1, 3} THEN 0 ELSE FlagOf[f]) + m
    BY <2>7 DEF D!NextFlag
  <2> QED
    BY <2>3, <2>5, <2>6, <2>7, <2>8 DEF Folded
<1>6. FlagOf' = [f \in D!Feature |-> FlagOf'[f]]
  BY SameBuilder DEF FlagOf
<1>7. FlagOf' = [f \in D!Feature |-> D!NextFlag(f)]
  BY <1>5, <1>6
<1>8. /\ D!FiringRate <=> Emitted(row, Shared("RateDetector")) = 1
      /\ D!FiringPattern <=> Emitted(row, Shared("PatternDetector")) = 1
      /\ D!FiringOr <=> Emitted(row, Shared("RatioOR")) = 1
      /\ D!FiringAlarm <=> Emitted(row, Shared("Decision")) = 1
  BY <1>2, SameFirings
<1>9. /\ Mail(row, Ids, Shared("RateDetector")) = D!Arriving(D!SYN)
      /\ Mail(row, Ids, Shared("PatternDetector")) = D!Arriving({2})
      /\ Mail(row, Ids, Shared("RatioOR")) = D!Cardinality(D!FiringRatio)
      /\ Mail(row, Ids, Shared("Decision")) = D!Ballot
  BY <1>2, AllMailed, SameCardinality
<1>10. /\ Holds("RateDetector")' = D!After(D!FiringRate, Holds("RateDetector"), D!Arriving(D!SYN))
       /\ Holds("PatternDetector")'
              = D!After(D!FiringPattern, Holds("PatternDetector"), D!Arriving({2}))
       /\ Holds("RatioOR")' = D!After(D!FiringOr, Holds("RatioOR"), D!Cardinality(D!FiringRatio))
       /\ Holds("Decision")' = D!After(D!FiringAlarm, Holds("Decision"), D!Ballot)
  BY <1>4, <1>8, <1>9 DEF D!After
<1> QED
  BY <1>7, <1>10

\* And so does its row in the answer.
LEMMA TickHistory ==
  ASSUME EngineInv, EndTick
  PROVE  /\ AlarmsOf \in Nat
         /\ AlarmsOf' = AlarmsOf + (IF D!FiringAlarm THEN 1 ELSE 0)
         /\ SeenIn(spiked)' =
              SeenIn(spiked) \cup D!FiringFeature \cup (IF D!FiringAlarm THEN {"alarm"} ELSE {})
<1>1. row'.recorded = recorded
  BY DEF EndTick, Row
<1>2. RowOK(row) /\ spikes \in [Regular -> Int]
  BY DEF EngineInv, Shape
<1>3. AlarmsOf \in Nat /\ AlarmsOf' = AlarmsOf + (IF D!FiringAlarm THEN 1 ELSE 0)
  <2>1. Shared("Output") \in Outputs
    BY Members
  <2>2. row.recorded[Shared("Output")] \in Seq({0, 1})
    BY <1>2, <2>1 DEF RowOK
  <2>3. PICK v \in {0, 1} :
           v = (IF D!FiringAlarm THEN 1 ELSE 0) /\ Mail(row, Ids, Shared("Output")) = v
    BY <1>2, AllMailed
  <2>4. row'.recorded[Shared("Output")] = Append(row.recorded[Shared("Output")], v)
    BY <1>1, <2>1, <2>3, TickEnds
  <2> QED
    BY <2>2, <2>3, <2>4, OneMoreSpike DEF AlarmsOf
<1> DEFINE F == {r \in Regular : \E rule \in activated[r] : rule.produce = 1 /\ rule.delay = 0}
<1>4. ASSUME NEW r \in Regular PROVE r \in F <=> Emitted(row, r) = 1
  <2>1. activated[r] = Fired(row, r) /\ r \notin Inputs
    BY TickEnds DEF Regular
  <2>2. row.spikes[r] \in Int
    BY <1>2 DEF RowOK
  <2>3. \A rule \in Fired(row, r) : rule.delay = 0
    BY <2>2, Rules DEF Fired
  <2> QED
    BY <2>1, <2>3 DEF Fired, Emitted
<1>5. spiked' = spiked \cup F
  BY DEF EndTick
<1>6. /\ Shared("RateDetector") \in Regular /\ Shared("RatioOR") \in Regular
      /\ Shared("PatternDetector") \in Regular /\ Shared("Decision") \in Regular
  BY Members DEF SharedRegular
<1> HIDE DEF F
<1>7. /\ D!FiringRate <=> Shared("RateDetector") \in F
      /\ D!FiringPattern <=> Shared("PatternDetector") \in F
      /\ D!FiringOr <=> Shared("RatioOR") \in F
      /\ D!FiringAlarm <=> Shared("Decision") \in F
  BY <1>2, <1>4, <1>6, SameFirings
<1>8. D!FiringFeature = {f \in {"rate", "ratio", "pattern"} :
                           \/ f = "rate" /\ Shared("RateDetector") \in F
                           \/ f = "ratio" /\ Shared("RatioOR") \in F
                           \/ f = "pattern" /\ Shared("PatternDetector") \in F}
  BY <1>7, SameBuilder DEF D!FiringFeature
<1>9. SeenIn(spiked)' = SeenIn(spiked \cup F)
  BY <1>5 DEF SeenIn
<1>10. SeenIn(spiked \cup F) =
         SeenIn(spiked) \cup D!FiringFeature \cup (IF D!FiringAlarm THEN {"alarm"} ELSE {})
  BY <1>7, <1>8 DEF SeenIn
<1> QED
  BY <1>3, <1>9, <1>10

\* What the detector sees of the engine's status.
StatusOf == IF status = "answered" /\ endpoint = "simulate"
            THEN "halted"
            ELSE IF status = "failed" THEN "failed" ELSE "running"

\* The detector sees rows, not the neurons of a tick under way.
LEMMA Unseen ==
  ASSUME UNCHANGED <<request, row, spiked>>
  PROVE  UNCHANGED <<StreamOf, D!network>> /\ (StatusOf' = StatusOf => UNCHANGED D!vars)
BY DEF D!vars, D!network, PerSource, Holds, FlagOf, SeenIn, StatusOf, StreamOf

\* The engine starts where the detector does.
LEMMA AbstractInit == Init => D!Init
<1> SUFFICES ASSUME Init PROVE D!Init
  OBVIOUS
<1>1. /\ row.spikes = ContentOf /\ row.remaining = request
      /\ row.recorded = [o \in Outputs |-> <<>>]
  BY DEF Init, Row
<1>2. request \in [BuiltInputs -> Streams] /\ \A i \in Source : <<"Packets", i>> \in BuiltInputs
  BY WiringAssumption DEF Init, BuiltInputs
<1>3. StreamOf \in [Source -> Streams]
  BY <1>2 DEF StreamOf
<1>4. SentOf = [i \in Source |-> 0]
  <2>1. ASSUME NEW i \in Source
        PROVE  Len(request[<<"Packets", i>>]) - Len(row.remaining[<<"Packets", i>>]) = 0
    <3>1. request[<<"Packets", i>>] \in Seq(1..5)
      BY <1>2, WiringAssumption
    <3>2. PICK l \in Nat : Len(request[<<"Packets", i>>]) = l
      BY <3>1
    <3> QED
      BY <1>1, <3>2
  <2> QED
    BY <2>1 DEF SentOf
<1>5. PerSource("AnomalousSYN") = [i \in Source |-> 0]
          /\ PerSource("RatioDetector") = [i \in Source |-> init]
  BY <1>1, ContentBuilt DEF PerSource, Counters
<1>6. /\ Holds("RateDetector") = 0 /\ Holds("PatternDetector") = 0
      /\ Holds("RatioOR") = 0 /\ Holds("Decision") = 0
  BY <1>1, ContentBuilt DEF Holds
<1>7. FlagOf = [f \in D!Feature |-> D!FlagLoad]
  BY <1>1, ContentBuilt, SameBuilder DEF FlagOf, Holds
<1>8. AlarmsOf = 0
  <2>1. row.recorded[Shared("Output")] = <<>>
    BY <1>1, Members
  <2>2. RecordedSpikes(<<>>) = {}
    BY DEF RecordedSpikes
  <2> QED
    BY <2>1, <2>2, FS_EmptySet DEF AlarmsOf
<1>9. SeenIn(spiked) = {} /\ StatusOf = "running"
  BY DEF Init, SeenIn, StatusOf
<1> QED
  BY <1>3, <1>4, <1>5, <1>6, <1>7, <1>8, <1>9, SameBuilder
     DEF D!Init, StreamOf, SentOf, AlarmsOf, StatusOf

\* Whatever wakes the detector has a neuron with a train to replay or a rule to
\* fire behind it.
LEMMA AwakeNeurons ==
  ASSUME RowOK(row), \A i \in Inputs : TrainEnd(i), request \in [Inputs -> Seq(1..5)], D!Awake
  PROVE  \/ \E i \in Inputs : row.remaining[i] # <<>>
         \/ \E r \in Regular : Fired(row, r) # {}
<1>1. SUFFICES ASSUME \A i \in Inputs : row.remaining[i] = <<>>
               PROVE  \E r \in Regular : Fired(row, r) # {}
  OBVIOUS
<1>2. ASSUME NEW i \in Source
      PROVE  /\ ~(SentOf[i] < Len(StreamOf[i]))
             /\ PerSource("AnomalousSYN")[i] # 0 => Fired(row, <<"AnomalousSYN", i>>) # {}
             /\ <<"AnomalousSYN", i>> \in Regular /\ <<"RatioDetector", i>> \in Regular
  <2>1. <<"Packets", i>> \in Inputs
    BY Members
  <2>2. PICK l \in Nat : Len(request[<<"Packets", i>>]) = l
    BY <2>1
  <2>3. SentOf[i] = l - 0 /\ Len(StreamOf[i]) = l
    BY <1>1, <2>1, <2>2 DEF SentOf, StreamOf
  <2>4. PerSource("AnomalousSYN")[i] # 0 => Fired(row, <<"AnomalousSYN", i>>) # {}
    BY ChainEmits DEF PerSource, Held, Counters
  <2>5. <<"AnomalousSYN", i>> \in Regular /\ <<"RatioDetector", i>> \in Regular
    BY Members DEF Counters
  <2>6. l - 0 = l /\ ~(l < l)
    OBVIOUS
  <2>7. ~(SentOf[i] < Len(StreamOf[i]))
    BY <2>3, <2>6, Zenon
  <2> QED
    BY <2>4, <2>5, <2>7
<1>3. ASSUME NEW r \in Regular, Emitted(row, r) = 1 PROVE Fired(row, r) # {}
  BY <1>3 DEF Emitted, Fired, Regular
<1>4. \A c \in SharedRegular : Shared(c) \in Regular
  BY Members
<1>5. CASE \E i \in Source : SentOf[i] < Len(StreamOf[i]) \/ PerSource("AnomalousSYN")[i] # 0
  BY <1>2, <1>5
<1>6. CASE D!FiringRatio # {} \/ D!FiringFeature # {} \/ D!FiringAlarm
  <2>1. CASE D!FiringRatio # {}
    BY <1>2, <1>3, <2>1, SameFirings
  <2>2. CASE D!FiringFeature # {}
    <3>1. PICK f \in {"rate", "ratio", "pattern"} : f \in D!FiringFeature
      BY <2>2, SameBuilder DEF D!FiringFeature
    <3>2. Emitted(row, FeatureNeuron(f)) = 1
      BY <3>1, SameFirings, SameBuilder
    <3>3. FeatureNeuron(f) \in Regular
      BY <1>4 DEF FeatureNeuron, SharedRegular
    <3> QED
      BY <1>3, <3>2, <3>3
  <2>3. CASE D!FiringAlarm
    BY <1>3, <1>4, <2>3, SameFirings DEF SharedRegular
  <2> QED
    BY <1>6, <2>1, <2>2, <2>3
<1>7. CASE \E f \in D!Feature : FlagOf[f] \in {1, 3}
  <2>1. PICK f \in {"rate", "ratio", "pattern"} : FlagOf[f] \in {1, 3}
    BY <1>7, SameBuilder
  <2>2. PICK c \in {"RateFlag", "RatioFlag", "PatternFlag"} : FlagOf[f] = row.spikes[Shared(c)]
    BY DEF FlagOf, Holds
  <2> QED
    BY <1>4, <2>1, <2>2, Detectors DEF SharedRegular
<1>8. \/ \E i \in Source : SentOf[i] < Len(StreamOf[i]) \/ PerSource("AnomalousSYN")[i] # 0
      \/ D!FiringRatio # {} \/ D!FiringFeature # {} \/ D!FiringAlarm
      \/ \E f \in D!Feature : FlagOf[f] \in {1, 3}
  BY SameBuilder DEF D!Awake, SentOf, StreamOf
<1> QED
  BY <1>5, <1>6, <1>7, <1>8

\* /simulate answers when the detector halts; /simulate/step may answer before.
LEMMA AbstractAnswer == EngineInv /\ Answer => D!Halt \/ UNCHANGED D!vars
<1> SUFFICES ASSUME EngineInv, Answer PROVE D!Halt \/ UNCHANGED D!vars
  OBVIOUS
<1>1. /\ UNCHANGED <<endpoint, request, neurons, turn, row, spiked>>
      /\ status = "running" /\ status' = "answered" /\ turn = 0
  BY DEF Answer
<1>2. CASE endpoint = "step"
  <2>1. StatusOf' = StatusOf
    BY <1>1, <1>2 DEF StatusOf
  <2> QED
    BY <1>1, <2>1, Unseen
<1>3. CASE endpoint = "simulate"
  <2>1. ~Active /\ Progress({})
    BY <1>1, <1>3, ActivatedEnds DEF Answer, EngineInv
  <2>2. \A i \in Inputs : row.remaining[i] = <<>>
    BY <2>1 DEF Progress, Active
  <2>3. ASSUME NEW r \in Regular PROVE Fired(row, r) = {}
    BY <2>1 DEF Progress, Active, Awake, Fireable, Fired
  <2>4. ~D!Awake
    BY <2>2, <2>3, AwakeNeurons DEF EngineInv, Shape
  <2>5. StatusOf = "running" /\ StatusOf' = "halted"
    BY <1>1, <1>3 DEF StatusOf
  <2> QED
    BY <1>1, <2>4, <2>5, Unseen DEF D!Halt, StatusOf, StreamOf
<1> QED
  BY <1>2, <1>3 DEF EngineInv, Shape

\* A tick that fails has found a RatioDetector_i below zero, and so does the
\* detector.
LEMMA AbstractFailure ==
  ASSUME EngineInv, NEW r \in Regular, Turn(r), status' = "failed",
         Folded(row, Activated(turn), r) < 0
  PROVE  D!NegativeSpikes
<1> DEFINE A == Activated(turn)
<1>1. UNCHANGED <<endpoint, request, row, spiked>> /\ status = "running"
  BY DEF Turn
<1>2. RowOK(row) /\ row.spikes[r] \in Nat
  BY DEF EngineInv, RowOK
<1>3. r \in Boxes
  BY Kinds
<1>4. r[1] = "RatioDetector"
  <2>1. SUFFICES ASSUME r[1] # "RatioDetector" PROVE FALSE
    OBVIOUS
  <2>2. PICK m \in Nat : Mail(row, A, r) = m
    BY <1>2, <1>3, <2>1, NaturalMail
  <2> QED
    BY <1>2, <2>2 DEF Folded
<1>5. PICK i \in Source : r = <<"RatioDetector", i>>
  BY <1>4, Members DEF Counters, SharedRegular, Shared
<1>6. ASSUME NEW c \in Counters PROVE <<c, i>> \in A
  <2>1. \E w : <<<<c, i>>, r, w>> \in BuiltSynapses
    BY <1>5, Drawn DEF Counters
  <2>2. <<<<c, i>>, r>> \in DOMAIN Weight
    BY <2>1, WeightOfSynapse
  <2> QED
    BY <2>2, Forward DEF Turn
<1>7. /\ Mail(row, A, r) = D!RatioMail(i) /\ D!RatioMail(i) \in Int
      /\ D!RatioMail(i) < 0 => Held(row, i) # 0
  BY <1>2, <1>5, <1>6, RatioMailed
<1>8. i \in D!FiringRatio <=> Fired(row, r) # {}
  <2>1. Emitted(row, r) \in {0, 1}
    BY <1>5, NotInput, EmittedType
  <2> QED
    BY <1>2, <1>5, <2>1, SameFirings, Detectors
<1>9. PerSource("RatioDetector")[i] = row.spikes[r]
  BY <1>5 DEF PerSource
<1>10. Folded(row, A, r) = D!NextRatio(i)
  BY <1>7, <1>8, <1>9 DEF D!NextRatio, D!After, Folded
<1> HIDE DEF A
<1>11. D!RatioMail(i) < 0
  <2>1. Folded(row, A, r) = row.spikes[r] + D!RatioMail(i) \/ Folded(row, A, r) = D!RatioMail(i)
    BY <1>7 DEF Folded
  <2> QED
    BY <1>2, <1>7, <2>1 DEF A
<1>12. D!Awake
  <2>1. PerSource("AnomalousSYN")[i] # 0
    BY <1>7, <1>11 DEF PerSource, Held
  <2> QED
    BY <2>1, SameBuilder DEF D!Awake
<1>13. \E j \in D!Source : D!NextRatio(j) < 0
  BY <1>10, SameBuilder DEF A
<1>14. StatusOf = "running" /\ StatusOf' = "failed"
  BY <1>1 DEF StatusOf
<1>15. UNCHANGED <<StreamOf, D!network>>
  BY <1>1, Unseen
<1> QED
  BY <1>12, <1>13, <1>14, <1>15 DEF D!NegativeSpikes, StatusOf, StreamOf

\* A tick in which nothing in the detector is awake changes nothing it holds.
LEMMA Asleep ==
  ASSUME RowOK(row), ~D!Awake
  PROVE  /\ D!FiringRatio = {} /\ D!FiringFeature = {} /\ ~D!FiringAlarm
         /\ ~D!FiringRate /\ ~D!FiringPattern /\ ~D!FiringOr
         /\ \A i \in Source : ~(SentOf[i] < Len(StreamOf[i])) /\ PerSource("AnomalousSYN")[i] = 0
         /\ \A f \in {"rate", "ratio", "pattern"} : FlagOf[f] \notin {1, 3}
         /\ \A i \in Source : D!NextRatio(i) = PerSource("RatioDetector")[i]
         /\ D!Arriving(D!SYN) = 0 /\ D!Arriving({2}) = 0 /\ D!Ballot = 0
         /\ D!Cardinality(D!FiringRatio) = 0
         /\ \A f \in {"rate", "ratio", "pattern"} : D!NextFlag(f) = FlagOf[f]
<1> USE SameBuilder
<1>1. /\ D!FiringRatio = {} /\ D!FiringFeature = {} /\ ~D!FiringAlarm
      /\ \A i \in Source : ~(SentOf[i] < Len(StreamOf[i])) /\ PerSource("AnomalousSYN")[i] = 0
      /\ \A f \in {"rate", "ratio", "pattern"} : FlagOf[f] \notin {1, 3}
  BY DEF D!Awake, SentOf, StreamOf
<1>2. ~D!FiringRate /\ ~D!FiringPattern /\ ~D!FiringOr
  BY <1>1 DEF D!FiringFeature
<1>3. Cardinality({}) = 0
  BY FS_EmptySet
<1>4. ASSUME NEW S, 0 \notin S PROVE D!Arriving(S) = 0
  <2>1. {i \in Source : PerSource("AnomalousSYN")[i] \in S} = {}
    BY <1>1, <1>4
  <2> QED
    BY <1>3, <2>1, SameCardinality DEF D!Arriving
<1>5. D!Arriving(D!SYN) = 0 /\ D!Arriving({2}) = 0
  <2>1. 0 \notin D!SYN /\ 0 \notin {2}
    BY DEF D!SYN
  <2> QED
    BY <1>4, <2>1
<1>6. D!FiringFlag = {}
  BY <1>1 DEF D!FiringFlag
<1>7. D!Ballot = 0
  BY <1>6 DEF D!Ballot, D!Vote
<1>8. ASSUME NEW i \in Source PROVE D!NextRatio(i) = PerSource("RatioDetector")[i]
  <2>1. D!RatioMail(i) = 0
    BY <1>1 DEF D!RatioMail, D!SYN, D!ACK, D!End
  <2>2. PerSource("RatioDetector")[i] \in Nat
    BY Members DEF PerSource, RowOK
  <2> QED
    BY <1>1, <2>1, <2>2 DEF D!NextRatio, D!After
<1>9. ASSUME NEW f \in {"rate", "ratio", "pattern"} PROVE D!NextFlag(f) = FlagOf[f]
  <2>1. FlagOf[f] \in Nat
    BY Members DEF FlagOf, Holds, RowOK, SharedRegular
  <2> QED
    BY <1>1, <2>1 DEF D!NextFlag
<1> QED
  BY <1>1, <1>2, <1>3, <1>5, <1>7, <1>8, <1>9, SameCardinality

\* A tick of the engine is one step of the detector, or none if it sleeps.
LEMMA AbstractTick == EngineInv /\ EndTick => D!Tick \/ UNCHANGED D!vars
<1> SUFFICES ASSUME EngineInv, EndTick PROVE D!Tick \/ UNCHANGED D!vars
  OBVIOUS
<1>1. RowOK(row)
  BY DEF EngineInv
<1>2. StatusOf = "running" /\ StatusOf' = "running"
  BY DEF EndTick, StatusOf
<1>3. CASE D!Awake
  <2>1. \A i \in D!Source : D!NextRatio(i) >= 0
    BY TickRatio, SameBuilder
  <2> QED
    BY <1>2, <1>3, <2>1, TickSent, TickRatio, TickShared, TickHistory, SameBuilder
       DEF D!Tick, StatusOf, StreamOf, SentOf, AlarmsOf
<1>4. CASE ~D!Awake
  <2>1. StreamOf' = StreamOf /\ SentOf' = SentOf
    <3>1. SentOf' = [i \in Source |-> SentOf[i]]
      BY <1>1, <1>4, TickSent, Asleep
    <3> QED
      BY <3>1, TickSent DEF SentOf
  <2>2. PerSource("AnomalousSYN")' = PerSource("AnomalousSYN")
    <3>1. PerSource("AnomalousSYN")' = [i \in Source |-> PerSource("AnomalousSYN")[i]]
      BY <1>1, <1>4, TickSent, Asleep
    <3> QED
      BY <3>1 DEF PerSource
  <2>3. PerSource("RatioDetector")' = PerSource("RatioDetector")
    <3>1. PerSource("RatioDetector")' = [i \in Source |-> PerSource("RatioDetector")[i]]
      BY <1>1, <1>4, TickRatio, Asleep
    <3> QED
      BY <3>1 DEF PerSource
  <2>4. ASSUME NEW c \in {"RateDetector", "PatternDetector", "RatioOR", "Decision"}
        PROVE  Holds(c) + 0 = Holds(c)
    <3>1. Holds(c) \in Nat
      BY <1>1, Members DEF Holds, RowOK, SharedRegular
    <3> QED
      BY <3>1
  <2>5. /\ Holds("RateDetector")' = Holds("RateDetector")
        /\ Holds("PatternDetector")' = Holds("PatternDetector")
        /\ Holds("RatioOR")' = Holds("RatioOR")
        /\ Holds("Decision")' = Holds("Decision")
    BY <1>1, <1>4, <2>4, TickShared, Asleep DEF D!After
  <2>6. FlagOf' = FlagOf
    <3>1. FlagOf' = [f \in {"rate", "ratio", "pattern"} |-> FlagOf[f]]
      BY <1>1, <1>4, TickShared, Asleep, SameBuilder
    <3> QED
      BY <3>1 DEF FlagOf
  <2>7. AlarmsOf' = AlarmsOf /\ SeenIn(spiked)' = SeenIn(spiked)
    BY <1>1, <1>4, TickHistory, Asleep
  <2> QED
    BY <1>2, <2>1, <2>2, <2>3, <2>5, <2>6, <2>7
       DEF D!vars, D!network, StatusOf, StreamOf, SentOf, AlarmsOf
<1> QED
  BY <1>3, <1>4

\* Every step of the engine is a step of the detector or none.
LEMMA AbstractNext == EngineInv /\ [Next]_vars => [D!Next]_(D!vars)
<1> SUFFICES ASSUME EngineInv, [Next]_vars PROVE D!Next \/ UNCHANGED D!vars
  OBVIOUS
<1>1. CASE BeginTick
  BY <1>1, Unseen DEF BeginTick, StatusOf
<1>2. ASSUME NEW id, Turn(id), status' = "running" PROVE UNCHANGED D!vars
  BY <1>2, Unseen DEF Turn, StatusOf
<1>3. CASE \E i \in Inputs : Replay(i) \/ Exhausted(i)
  BY <1>2, <1>3 DEF Replay, Exhausted, Turn
<1>4. CASE \E o \in Outputs : Record(o)
  BY <1>2, <1>4 DEF Record, Turn
<1>5. ASSUME NEW r \in Regular, Turn(r), status' \in {"running", "failed"},
             status' = "failed" => Folded(row, Activated(turn), r) < 0
      PROVE  D!Next \/ UNCHANGED D!vars
  BY <1>2, <1>5, AbstractFailure DEF D!Next
<1>6. CASE \E r \in Regular : Rest(r)
  BY <1>5, <1>6, RestStep DEF Rest
<1>7. CASE \E r \in Regular : \E rule \in RulesOf[r] : Fire(r, rule)
  BY <1>5, <1>7, FireStep DEF Fire
<1>8. CASE EndTick
  BY <1>8, AbstractTick DEF D!Next
<1>9. CASE Answer
  BY <1>9, AbstractAnswer DEF D!Next
<1>10. CASE Done \/ UNCHANGED vars
  BY <1>10, Unseen DEF Done, vars, StatusOf
<1> QED
  BY <1>1, <1>3, <1>4, <1>6, <1>7, <1>8, <1>9, <1>10 DEF Next

\* Neuron by neuron, the engine does in one tick what the tick-level detector
\* does in one step, errors included, for every number of sources, every
\* threshold and every train.
THEOREM Refinement == Spec => ImplementsDetector
<1>1. Init => D!Init
  BY AbstractInit
<1>2. EngineInv /\ [Next]_vars => [D!Next]_(D!vars)
  BY AbstractNext
<1> QED
  BY <1>1, <1>2, EngineInvariant, PTL DEF Spec, ImplementsDetector

-----------------------------------------------------------------------------
(* The engine's answer: what DetectorProofs proves of the detector holds   *)
(* of the engine, which does what the detector does.                       *)

P == INSTANCE DetectorProofs WITH
  stream        <- [i \in Source |-> request[<<"Packets", i>>]],
  sent          <- [i \in Source |-> Len(request[<<"Packets", i>>])
                                       - Len(row.remaining[<<"Packets", i>>])],
  held          <- PerSource("AnomalousSYN"),
  ratioSpikes   <- PerSource("RatioDetector"),
  rateSpikes    <- Holds("RateDetector"),
  patternSpikes <- Holds("PatternDetector"),
  orSpikes      <- Holds("RatioOR"),
  flag          <- FlagOf,
  decision      <- Holds("Decision"),
  alarms        <- Cardinality(RecordedSpikes(row.recorded[Shared("Output")])),
  seen          <- SeenIn(spiked),
  status        <- IF status = "answered" /\ endpoint = "simulate"
                   THEN "halted"
                   ELSE IF status = "failed" THEN "failed" ELSE "running"

\* P and D are the same detector: the same names and guards,
LEMMA SameRules ==
  /\ P!Source = D!Source /\ P!Feature = D!Feature /\ P!SYN = D!SYN
  /\ \A S : P!Cardinality(S) = D!Cardinality(S)
  /\ P!FiringRatio = D!FiringRatio /\ P!FiringRate = D!FiringRate
  /\ P!FiringPattern = D!FiringPattern /\ P!FiringOr = D!FiringOr
  /\ P!FiringAlarm = D!FiringAlarm /\ P!FiringFlag = D!FiringFlag
  /\ \A a, b, c : P!After(a, b, c) = D!After(a, b, c)
<1>1. \A S : P!Cardinality(S) = D!Cardinality(S)
  BY DEF P!Cardinality, D!Cardinality
<1>2. /\ P!Source = D!Source /\ P!Feature = D!Feature /\ P!SYN = D!SYN
      /\ \A a, b, c : P!After(a, b, c) = D!After(a, b, c)
  BY DEF P!Source, D!Source, P!Feature, D!Feature, P!SYN, D!SYN, P!After, D!After
<1>3. /\ \A r, v : P!Matches(r, v) = D!Matches(r, v)
      /\ \A k : /\ P!VelocityRule(k) = D!VelocityRule(k)
                /\ P!PatternRule(k) = D!PatternRule(k)
                /\ P!DecisionRule(k) = D!DecisionRule(k)
      /\ P!ProportionRule(H, base) = D!ProportionRule(H, base) /\ P!OrRule = D!OrRule
  BY DEF P!Matches, D!Matches, P!VelocityRule, D!VelocityRule, P!PatternRule, D!PatternRule,
         P!DecisionRule, D!DecisionRule, P!ThresholdRule, D!ThresholdRule,
         P!ProportionRule, D!ProportionRule, P!OrRule, D!OrRule, P!WhiteHole, D!WhiteHole
<1> QED
  BY <1>1, <1>2, <1>3
     DEF P!FiringRatio, D!FiringRatio, P!FiringRate, D!FiringRate,
         P!FiringPattern, D!FiringPattern, P!FiringOr, D!FiringOr,
         P!FiringAlarm, D!FiringAlarm, P!FiringFlag, D!FiringFlag

\* the same features firing,
LEMMA SameFeature == P!FiringFeature = D!FiringFeature /\ P!Awake = D!Awake
<1>1. P!FiringFeature = D!FiringFeature
  BY SameRules DEF P!FiringFeature, D!FiringFeature
<1> QED
  BY <1>1, SameRules DEF P!Awake, D!Awake

\* the same mail,
LEMMA SameMail ==
  /\ \A S : P!Arriving(S) = D!Arriving(S)
  /\ \A i : P!NextRatio(i) = D!NextRatio(i)
  /\ \A f : P!NextFlag(f) = D!NextFlag(f)
  /\ P!Ballot = D!Ballot
BY SameRules, SameFeature
   DEF P!Arriving, D!Arriving, P!NextRatio, D!NextRatio, P!RatioMail, D!RatioMail,
       P!SYN, D!SYN, P!ACK, D!ACK, P!End, D!End, P!syn_w, D!syn_w, P!ack_w, D!ack_w,
       P!finalize, D!finalize, P!NextFlag, D!NextFlag, P!Ballot, D!Ballot, P!Vote, D!Vote

\* the same states and steps,
LEMMA SameDetector ==
  (P!Init <=> D!Init) /\ (P!Next <=> D!Next) /\ P!vars = D!vars
<1>1. P!vars = D!vars /\ P!network = D!network
  BY DEF P!vars, D!vars, P!network, D!network
<1>2. P!Tick <=> D!Tick
  BY SameRules, SameFeature, SameMail DEF P!Tick, D!Tick
<1>3. P!NegativeSpikes <=> D!NegativeSpikes
  BY <1>1, SameRules, SameFeature, SameMail
     DEF P!NegativeSpikes, D!NegativeSpikes, P!network, D!network
<1>4. P!Halt <=> D!Halt
  BY <1>1, SameRules, SameFeature, SameMail DEF P!Halt, D!Halt, P!network, D!network
<1>5. P!Done <=> D!Done
  BY <1>1 DEF P!Done, D!Done, P!vars, D!vars, P!network, D!network
<1>6. P!Init <=> D!Init
  BY DEF P!Init, D!Init, P!Source, D!Source, P!init, D!init, P!Feature, D!Feature,
         P!FlagLoad, D!FlagLoad
<1> QED
  BY <1>1, <1>2, <1>3, <1>4, <1>5, <1>6 DEF P!Next, D!Next

\* and the same window to answer.
LEMMA SameWindow ==
  /\ P!WithinLimit <=> D!WithinLimit
  /\ P!ThresholdsAboveOne <=> D!ThresholdsAboveOne
  /\ P!Expected = D!Expected
<1>1. /\ \A S : P!Total(S) = D!Total(S)
      /\ \A i, S : P!InWindow(i, S) = D!InWindow(i, S)
  BY SameRules DEF P!Total, D!Total, P!InWindow, D!InWindow, P!Count, D!Count, P!Places, D!Places
<1>2. /\ P!RateReached <=> D!RateReached
      /\ P!PatternReached <=> D!PatternReached
      /\ P!RatioExceeded <=> D!RatioExceeded
  BY <1>1, SameRules
     DEF P!RateReached, D!RateReached, P!PatternReached, D!PatternReached,
         P!RatioExceeded, D!RatioExceeded, P!Exceeded, D!Exceeded, P!ACK, D!ACK
<1>3. \A f : P!Deserved(f) <=> D!Deserved(f)
  BY <1>2 DEF P!Deserved, D!Deserved
<1>4. P!Tally = D!Tally
  BY <1>3 DEF P!Tally, D!Tally
<1> QED
  BY <1>3, <1>4, SameRules
     DEF P!WithinLimit, D!WithinLimit, P!ThresholdsAboveOne, D!ThresholdsAboveOne,
         P!Expected, D!Expected

\* The detector's assumptions, of the engine's constants.
LEMMA DetectorAssumptions ==
  ASSUME D!StreamsAssumption PROVE P!BuilderAssumption /\ P!StreamsAssumption
<1>1. P!BuilderAssumption
  BY BuilderAssumption DEF P!BuilderAssumption
<1> QED
  BY <1>1 DEF P!StreamsAssumption, D!StreamsAssumption

\* The invariant of the vote is one of the engine.
LEMMA EngineVotes == ASSUME D!StreamsAssumption PROVE Init => P!VoteInv
<1>1. P!Init => P!VoteInv
  BY DetectorAssumptions, P!VoteInit DEF P!VoteInit
<1> QED
  BY <1>1, AbstractInit, SameDetector

\* Every step of the engine preserves it.
LEMMA EngineVotesNext ==
  ASSUME D!StreamsAssumption
  PROVE  EngineInv /\ P!VoteInv /\ [Next]_vars => P!VoteInv'
<1>1. P!VoteInv /\ [P!Next]_(P!vars) => P!VoteInv'
  BY DetectorAssumptions, P!VoteNext DEF P!VoteNext
<1>2. EngineInv /\ [Next]_vars => [P!Next]_(P!vars)
  <2>1. P!vars' = D!vars'
    BY DEF P!vars, D!vars, P!network, D!network
  <2> QED
    BY <2>1, AbstractNext, SameDetector
<1> QED
  BY <1>1, <1>2

\* What /simulate may answer.
AnswerIsDeserved ==
  D!WithinLimit =>
    /\ status # "failed"
    /\ status = "answered" /\ endpoint = "simulate" /\ D!ThresholdsAboveOne =>
         SeenIn(spiked) = D!Expected

\* The invariants say so when a run ends.
LEMMA AnswerAtHalt == ASSUME D!StreamsAssumption PROVE P!VoteInv => AnswerIsDeserved
<1> SUFFICES ASSUME P!VoteInv, P!WithinLimit
             PROVE  /\ status # "failed"
                    /\ status = "answered" /\ endpoint = "simulate" /\ P!ThresholdsAboveOne =>
                         SeenIn(spiked) = P!Expected
  BY SameWindow DEF AnswerIsDeserved
<1>1. status # "failed"
  <2>1. P!NeverFails
    BY DEF P!VoteInv, P!AggregateInv, P!RatioInv
  <2> QED
    BY <2>1 DEF P!NeverFails
<1>2. ASSUME status = "answered", endpoint = "simulate", P!ThresholdsAboveOne
      PROVE  SeenIn(spiked) = P!Expected
  BY <1>2, DetectorAssumptions, P!ExpectedAtHalt DEF P!ExpectedAtHalt
<1> QED
  BY <1>1, <1>2

\* Neuron by neuron, the engine never fails on a window within the hard limit,
\* and what it answers to /simulate names exactly the features whose conditions,
\* counted on the packets of the window, hold, and the alarm exactly when the
\* weights of those features reach its threshold.
THEOREM EngineAnswers == D!StreamsAssumption => (Spec => []AnswerIsDeserved)
<1> SUFFICES ASSUME D!StreamsAssumption PROVE Spec => []AnswerIsDeserved
  OBVIOUS
<1>1. Init => P!VoteInv
  BY EngineVotes
<1>2. EngineInv /\ P!VoteInv /\ [Next]_vars => P!VoteInv'
  BY EngineVotesNext
<1>3. P!VoteInv => AnswerIsDeserved
  BY AnswerAtHalt
<1> QED
  BY <1>1, <1>2, <1>3, EngineInvariant, PTL DEF Spec
=============================================================================
