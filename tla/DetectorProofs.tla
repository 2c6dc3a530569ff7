--------------------------- MODULE DetectorProofs ---------------------------
(***************************************************************************)
(* What Detector guarantees for every number of sources, every threshold   *)
(* and every window.                                                       *)
(***************************************************************************)
EXTENDS Detector, FiniteSetTheorems, TLAPS

-----------------------------------------------------------------------------
(* Type correctness.                                                       *)

\* The builder's parameters, one by one.
LEMMA Parameters ==
  /\ n \in Nat \ {0} /\ H \in Nat \ {0} /\ rate_K \in Nat \ {0}
  /\ pattern_P \in Nat \ {0} /\ decision_threshold \in Nat \ {0}
  /\ base \in Nat /\ ratio \in Nat /\ ratio < base
  /\ ratio_weight \in Nat /\ rate_weight \in Nat /\ pattern_weight \in Nat
BY BuilderAssumption

\* The detector's offsets and weights are integers, the offsets natural.
LEMMA Offsets ==
  init \in Nat /\ syn_w \in Nat /\ ack_w \in Int /\ finalize \in Nat
<1>1. syn_w \in Nat /\ ack_w \in Int
  BY Parameters DEF syn_w, ack_w
<1>2. init \in Nat
  BY Parameters DEF init
<1>3. \A a, b \in Nat : a * b \in Nat
  OBVIOUS
<1> QED
  BY <1>1, <1>2, <1>3, Parameters DEF finalize, syn_w

\* A count over the sources is a natural number.
LEMMA CountSources ==
  ASSUME NEW S, S \subseteq Source
  PROVE  IsFiniteSet(S) /\ Cardinality(S) \in Nat
<1>1. IsFiniteSet(Source)
  BY Parameters, FS_Interval DEF Source
<1> QED
  BY <1>1, FS_Subset, FS_CardinalityType

\* A symbol of a stream is one of 1..5, the last one and only it the 5.
LEMMA StreamSymbols ==
  ASSUME NEW s \in Streams
  PROVE  /\ Len(s) \in Nat \ {0}
         /\ \A j \in 1..Len(s) : s[j] \in 1..5 /\ (s[j] = 5 <=> j = Len(s))
<1>1. s \in Seq(1..5)
  BY StreamsAssumption
<1> QED
  BY <1>1, StreamsAssumption

\* The network is built well typed.
LEMMA InitType == Init => TypeOK
<1> SUFFICES ASSUME Init PROVE TypeOK
  OBVIOUS
<1>1. \A i \in Source : Len(stream[i]) \in Nat
  BY StreamSymbols DEF Init
<1> QED
  BY <1>1, Offsets DEF Init, TypeOK, FlagLoad

\* A tick keeps every spike count, train position and verdict well typed.
LEMMA NextType == TypeOK /\ [Next]_vars => TypeOK'
<1> SUFFICES ASSUME TypeOK, [Next]_vars PROVE TypeOK'
  OBVIOUS
<1> USE Parameters
<1>1. CASE Tick
  <2>1. \A i \in Source : Len(stream[i]) \in Nat
    BY StreamSymbols DEF TypeOK
  <2>2. stream' \in [Source -> Streams]
    BY <1>1 DEF Tick, TypeOK
  <2>3. sent' \in [Source -> Nat] /\ \A i \in Source : sent'[i] <= Len(stream'[i])
    BY <1>1, <2>1 DEF Tick, TypeOK
  <2>4. held' \in [Source -> 0..5]
    <3>1. \A i \in Source : sent[i] < Len(stream[i]) => stream[i][sent[i] + 1] \in 1..5
      BY <2>1, StreamSymbols DEF TypeOK
    <3> QED
      BY <3>1, <1>1 DEF Tick
  <2>5. ratioSpikes' \in [Source -> Nat]
    <3>1. ASSUME NEW i \in Source PROVE NextRatio(i) \in Int
      <4>1. RatioMail(i) \in Int
        BY Offsets DEF RatioMail, SYN, ACK, End
      <4>2. ratioSpikes[i] \in Nat
        BY DEF TypeOK
      <4> QED
        BY <4>1, <4>2 DEF NextRatio, After
    <3> QED
      BY <3>1, <1>1 DEF Tick
  <2>6. /\ Arriving(SYN) \in Nat /\ Arriving({2}) \in Nat
        /\ Cardinality(FiringRatio) \in Nat
    BY CountSources DEF Arriving, FiringRatio
  <2>7. rateSpikes' \in Nat /\ patternSpikes' \in Nat /\ orSpikes' \in Nat
    BY <1>1, <2>6 DEF Tick, TypeOK, After
  <2>8. decision' \in Nat /\ alarms' \in Nat
    <3>1. Ballot \in Nat
      BY DEF Ballot, Vote
    <3> QED
      BY <1>1, <3>1 DEF Tick, TypeOK, After
  <2>9. flag' \in [Feature -> 0..3]
    BY <1>1 DEF Tick, TypeOK, NextFlag
  <2>10. seen' \subseteq Feature \cup {"alarm"}
    BY <1>1 DEF Tick, TypeOK, FiringFeature
  <2>11. status' \in {"running", "halted", "failed"}
    BY <1>1 DEF Tick, TypeOK
  <2> QED
    BY <2>2, <2>3, <2>4, <2>5, <2>7, <2>8, <2>9, <2>10, <2>11 DEF TypeOK
<1>2. CASE NegativeSpikes
  BY <1>2 DEF NegativeSpikes, TypeOK, network
<1>3. CASE Halt
  BY <1>3 DEF Halt, TypeOK, network
<1>4. CASE Done \/ UNCHANGED vars
  BY <1>4 DEF Done, TypeOK, vars, network
<1> QED
  BY <1>1, <1>2, <1>3, <1>4 DEF Next

\* Every state of every run of the detector is well typed: in particular no
\* RatioDetector_i that a history shows is below zero.
THEOREM TypeCorrect == Spec => []TypeOK
<1>1. Init => TypeOK
  BY InitType
<1>2. TypeOK /\ [Next]_vars => TypeOK'
  BY NextType
<1> QED
  BY <1>1, <1>2, PTL DEF Spec

-----------------------------------------------------------------------------
(* The vote: a spent flag stays spent.                                     *)

\* However often a detector refires within a window, its flag votes once.
THEOREM VotesOnce == Spec => OneVotePerFeature
<1>1. ASSUME TypeOK, [Next]_vars
      PROVE  \A f \in Feature : flag[f] < 2 => flag'[f] < 2
  <2>1. CASE Tick
    <3> SUFFICES ASSUME NEW f \in Feature, flag[f] < 2
                 PROVE  flag'[f] < 2
      OBVIOUS
    <3>1. flag[f] \in {0, 1}
      BY <1>1 DEF TypeOK
    <3> QED
      BY <2>1, <3>1 DEF Tick, NextFlag
  <2>2. CASE NegativeSpikes \/ Halt \/ Done \/ UNCHANGED vars
    BY <2>2 DEF NegativeSpikes, Halt, Done, vars, network
  <2> QED
    BY <1>1, <2>1, <2>2 DEF Next
<1> QED
  BY <1>1, TypeCorrect, PTL DEF Spec, OneVotePerFeature

-----------------------------------------------------------------------------
(* The ratio arithmetic.                                                   *)

\* One more place of a stream changes a count by whether it holds a symbol.
LEMMA CountStep ==
  ASSUME NEW i, NEW k \in Nat, NEW symbols
  PROVE  /\ Count(i, 0, symbols) = 0
         /\ Count(i, k, symbols) \in Nat
         /\ Count(i, k + 1, symbols) = Count(i, k, symbols)
              + IF stream[i][k + 1] \in symbols THEN 1 ELSE 0
<1>1. IsFiniteSet(Places(i, k, symbols))
  <2>1. IsFiniteSet(1..k) /\ Places(i, k, symbols) \subseteq 1..k
    BY FS_Interval DEF Places
  <2> QED
    BY <2>1, FS_Subset
<1>2. Count(i, 0, symbols) = 0
  <2>1. Places(i, 0, symbols) = {}
    BY DEF Places
  <2> QED
    BY <2>1, FS_EmptySet DEF Count
<1>3. Count(i, k, symbols) \in Nat
  BY <1>1, FS_CardinalityType DEF Count
<1>4. CASE stream[i][k + 1] \in symbols
  <2>1. /\ Places(i, k + 1, symbols) = Places(i, k, symbols) \cup {k + 1}
        /\ k + 1 \notin Places(i, k, symbols)
    BY <1>4 DEF Places
  <2> QED
    BY <2>1, <1>1, <1>2, <1>3, <1>4, FS_AddElement DEF Count
<1>5. CASE stream[i][k + 1] \notin symbols
  <2>1. Places(i, k + 1, symbols) = Places(i, k, symbols)
    BY <1>5 DEF Places
  <2> QED
    BY <2>1, <1>2, <1>3, <1>5 DEF Count
<1> QED
  BY <1>4, <1>5

\* Multiplication by a natural number keeps an order and distributes.
LEMMA Times ==
  ASSUME NEW c \in Nat, NEW a \in Int, NEW b \in Int
  PROVE  /\ c * a \in Int
         /\ a <= b => c * a <= c * b
         /\ c * (a + b) = c * a + c * b
         /\ c * (a - b) = c * a - c * b
<1>1. c * a \in Int /\ c * (a + b) = c * a + c * b /\ c * (a - b) = c * a - c * b
  OBVIOUS
<1>2. ASSUME a <= b PROVE c * a <= c * b
  BY <1>2
<1> QED
  BY <1>1, <1>2

\* A RatioDetector_i whose source has sent s SYNs and a ACKs, H packets at
\* most: within 0 and base * H before the end marker, and after it above
\* base * H exactly when the proportion is exceeded.
LEMMA OffsetArithmetic ==
  ASSUME NEW s \in Nat, NEW a \in Nat, s + a <= H
  PROVE  LET value == init + syn_w * s + ack_w * a
             excess == (base - ratio) * s - ratio * a
         IN  /\ value \in Nat /\ value <= base * H
             /\ excess \in Int
             /\ value + finalize = base * H + excess
<1> USE Parameters
<1> DEFINE c == base - ratio
<1>1. c \in Nat /\ base = c + ratio
  OBVIOUS
<1>2. /\ c * s \in Int /\ ratio * a \in Int /\ ratio * H \in Int /\ c * H \in Int
      /\ c * s <= c * H /\ ratio * a <= ratio * H
      /\ 0 <= c * s /\ 0 <= ratio * a
  <2>1. s <= H /\ a <= H /\ 0 <= s /\ 0 <= a /\ c * 0 = 0 /\ ratio * 0 = 0
    BY <1>1
  <2> HIDE DEF c
  <2> QED
    BY <1>1, <2>1, Times
<1>3. base * H = c * H + ratio * H
  BY <1>1
<1>4. ack_w * a = -(ratio * a)
  BY DEF ack_w
<1>5. init = ratio * H /\ syn_w * s = c * s /\ finalize = c * H
  BY DEF init, syn_w, finalize
<1> HIDE DEF c
<1>6. init + syn_w * s + ack_w * a = ratio * H + c * s - ratio * a
  BY <1>2, <1>4, <1>5
<1>7. ratio * H + c * s - ratio * a \in Nat /\ ratio * H + c * s - ratio * a <= c * H + ratio * H
  BY <1>2
<1>8. ratio * H + c * s - ratio * a + c * H = (c * H + ratio * H) + (c * s - ratio * a)
  BY <1>2
<1>9. (base - ratio) * s - ratio * a = c * s - ratio * a /\ c * s - ratio * a \in Int
  BY <1>2 DEF c
<1> QED
  BY <1>3, <1>5, <1>6, <1>7, <1>8, <1>9

\* Until its end marker is counted, a source shows at most k SYNs and ACKs in k
\* symbols and no end; the marker itself is neither.
LEMMA CountBounds ==
  ASSUME NEW i, stream[i] \in Streams, NEW k \in Nat, k < Len(stream[i])
  PROVE  /\ Count(i, k, SYN) + Count(i, k, {ACK}) <= k
         /\ Count(i, k, {End}) = 0
<1>1. \A j \in 1..k : stream[i][j] # End
  BY StreamSymbols DEF End
<1>2. Count(i, k, {End}) = 0
  <2>1. Places(i, k, {End}) = {}
    BY <1>1 DEF Places
  <2> QED
    BY <2>1, FS_EmptySet DEF Count
<1>3. Count(i, k, SYN) + Count(i, k, {ACK}) <= k
  <2> DEFINE P == Places(i, k, SYN)
             Q == Places(i, k, {ACK})
  <2>1. P \subseteq 1..k /\ Q \subseteq 1..k /\ P \cap Q = {}
    BY DEF Places, SYN, ACK
  <2>2. IsFiniteSet(1..k) /\ Cardinality(1..k) = k
    BY FS_Interval
  <2>3. IsFiniteSet(P) /\ IsFiniteSet(Q)
    BY <2>1, <2>2, FS_Subset
  <2>4. Cardinality(P \cup Q) = Cardinality(P) + Cardinality(Q) - Cardinality(P \cap Q)
    BY <2>3, FS_Union
  <2>5. Cardinality(P \cup Q) <= k
    BY <2>1, <2>2, FS_Subset
  <2>6. Cardinality(P \cap Q) = 0
    BY <2>1, FS_EmptySet
  <2>7. Cardinality(P) \in Nat /\ Cardinality(Q) \in Nat
    BY <2>3, FS_CardinalityType
  <2> QED
    BY <2>4, <2>5, <2>6, <2>7 DEF Count
<1> QED
  BY <1>2, <1>3

\* The whole stream holds the SYNs and ACKs of all but its last place, and one
\* end marker.
LEMMA CountWhole ==
  ASSUME NEW i, stream[i] \in Streams
  PROVE  /\ InWindow(i, SYN) \in Nat /\ InWindow(i, {ACK}) \in Nat
         /\ InWindow(i, SYN) + InWindow(i, {ACK}) <= Len(stream[i]) - 1
         /\ InWindow(i, {End}) = 1
<1> DEFINE k == Len(stream[i]) - 1
<1>1. k \in Nat /\ k < Len(stream[i]) /\ k + 1 = Len(stream[i])
  BY StreamSymbols
<1>2. stream[i][k + 1] = 5
  BY <1>1, StreamSymbols
<1> HIDE DEF k
<1>3. /\ Count(i, k, SYN) + Count(i, k, {ACK}) <= k
      /\ Count(i, k, {End}) = 0
  BY <1>1, CountBounds
<1>4. /\ Count(i, k + 1, SYN) = Count(i, k, SYN) /\ Count(i, k, SYN) \in Nat
      /\ Count(i, k + 1, {ACK}) = Count(i, k, {ACK}) /\ Count(i, k, {ACK}) \in Nat
      /\ Count(i, k + 1, {End}) = Count(i, k, {End}) + 1
  <2>1. 5 \notin SYN /\ 5 \notin {ACK} /\ 5 \in {End}
    BY DEF SYN, ACK, End
  <2>2. ASSUME NEW symbols
        PROVE  /\ Count(i, k, symbols) \in Nat
               /\ Count(i, k + 1, symbols) = Count(i, k, symbols)
                    + IF stream[i][k + 1] \in symbols THEN 1 ELSE 0
    <3>1. k \in Nat
      BY <1>1
    <3> QED
      BY <3>1, CountStep, SMTT(60)
  <2>3. Count(i, k, SYN) \in Nat /\ Count(i, k + 1, SYN) = Count(i, k, SYN) + 0
    BY <1>2, <2>1, <2>2
  <2>4. Count(i, k, {ACK}) \in Nat /\ Count(i, k + 1, {ACK}) = Count(i, k, {ACK}) + 0
    BY <1>2, <2>1, <2>2
  <2>5. Count(i, k + 1, {End}) = Count(i, k, {End}) + 1
    BY <1>2, <2>1, <2>2
  <2> QED
    BY <2>3, <2>4, <2>5
<1> QED
  BY <1>1, <1>3, <1>4 DEF InWindow

\* What those counts say of the balance: never negative, never at the firing
\* threshold before the end marker, and after it exactly when exceeded.
LEMMA BalanceBounds ==
  ASSUME NEW i, stream[i] \in Streams, Len(stream[i]) <= H + 1,
         NEW k \in Nat, k <= Len(stream[i])
  PROVE  /\ Balance(i, k) \in Nat
         /\ Balance(i, k) >= base * H + 1 <=> k = Len(stream[i]) /\ Exceeded(i)
<1> USE Parameters
<1>1. Len(stream[i]) \in Nat /\ base * H \in Nat /\ finalize \in Nat
  BY StreamSymbols, Offsets, Times
<1>2. CASE k < Len(stream[i])
  <2>1. /\ Count(i, k, SYN) \in Nat /\ Count(i, k, {ACK}) \in Nat
        /\ Count(i, k, SYN) + Count(i, k, {ACK}) <= H
        /\ Count(i, k, {End}) = 0
    <3>1. Count(i, k, SYN) \in Nat /\ Count(i, k, {ACK}) \in Nat
      BY CountStep
    <3>2. /\ Count(i, k, SYN) + Count(i, k, {ACK}) <= k
          /\ Count(i, k, {End}) = 0
      BY <1>2, CountBounds
    <3> QED
      BY <1>1, <1>2, <3>1, <3>2
  <2>2. Balance(i, k) = init + syn_w * Count(i, k, SYN) + ack_w * Count(i, k, {ACK})
    BY <2>1, Offsets DEF Balance
  <2>3. Balance(i, k) \in Nat /\ Balance(i, k) <= base * H
    BY <2>1, <2>2, OffsetArithmetic
  <2> QED
    BY <1>1, <1>2, <2>3
<1>3. CASE k = Len(stream[i])
  <2> DEFINE s == InWindow(i, SYN)
             a == InWindow(i, {ACK})
             excess == (base - ratio) * s - ratio * a
             value == init + syn_w * s + ack_w * a
  <2>1. s \in Nat /\ a \in Nat /\ s + a <= H /\ InWindow(i, {End}) = 1
    <3>1. /\ s \in Nat /\ a \in Nat /\ s + a <= Len(stream[i]) - 1
          /\ InWindow(i, {End}) = 1
      BY CountWhole
    <3> HIDE DEF s, a
    <3> QED
      BY <1>1, <3>1
  <2>2. /\ value \in Nat /\ excess \in Int
        /\ value + finalize = base * H + excess
    BY <2>1, OffsetArithmetic
  <2>3. Balance(i, k) = value + finalize
    BY <1>3, <2>1, <2>2, Offsets DEF Balance, InWindow
  <2>4. excess > 0 <=> Exceeded(i)
    BY <2>1 DEF Exceeded
  <2> HIDE DEF excess, value
  <2> QED
    BY <1>1, <1>3, <2>2, <2>3, <2>4
<1> QED
  BY <1>1, <1>2, <1>3

-----------------------------------------------------------------------------
(* The ratio verdict, and the absence of errors, by induction.             *)

\* RatioLedger is about one source and the shared RatioOR; to be kept by a
\* tick it needs where each source's symbols are (HeldIsLastSent), and for the
\* verdict that nothing else feeds RatioOR and that a halt leaves no work.
OrIsSound ==
  WithinLimit => (orSpikes > 0 \/ "ratio" \in seen => RatioExceeded)

HaltedIsIdle == status = "halted" => ~Awake

RatioInv ==
  TypeOK /\ HeldIsLastSent /\ RatioLedger /\ OrIsSound /\ HaltedIsIdle /\ NeverFails

\* Above one, a threshold is reached, not met.
LEMMA ThresholdGuard ==
  ASSUME NEW k \in Nat, k > 1, NEW s \in Nat
  PROVE  Matches(ThresholdRule(k), s) <=> s >= k
<1>1. (k <= 1) = FALSE
  OBVIOUS
<1>2. ThresholdRule(k).min = k /\ ThresholdRule(k).exact = FALSE
  BY <1>1 DEF ThresholdRule
<1> QED
  BY <1>2 DEF Matches

\* RatioDetector_i fires on base * H + 1 spikes or more, RatioOR on one.
LEMMA RatioGuards ==
  ASSUME TypeOK
  PROVE  /\ \A i \in Source : i \in FiringRatio <=> ratioSpikes[i] >= base * H + 1
         /\ "ratio" \in FiringFeature <=> orSpikes > 0
<1>1. base * H \in Nat /\ base * H >= 1
  <2>1. base >= 1 /\ H >= 1 /\ base * 1 <= base * H /\ base * H \in Int
    BY Parameters, Times
  <2> QED
    BY <2>1, Parameters
<1> DEFINE threshold == base * H
<1> HIDE DEF threshold
<1>2. ASSUME NEW i \in Source
      PROVE  i \in FiringRatio <=> ratioSpikes[i] >= base * H + 1
  <2>1. ratioSpikes[i] \in Nat /\ threshold \in Nat /\ threshold >= 1
    BY <1>1 DEF TypeOK, threshold
  <2>2. ProportionRule(H, base) = ThresholdRule(threshold + 1)
    BY DEF ProportionRule, threshold
  <2>3. Matches(ThresholdRule(threshold + 1), ratioSpikes[i])
          <=> ratioSpikes[i] >= threshold + 1
    BY <2>1, ThresholdGuard
  <2> QED
    BY <2>2, <2>3 DEF FiringRatio, threshold
<1>3. "ratio" \in FiringFeature <=> orSpikes > 0
  BY DEF FiringFeature, Feature, FiringOr, Matches, OrRule, TypeOK
<1> QED
  BY <1>2, <1>3

\* One more symbol counted changes the balance by what its counter sends.
LEMMA BalanceStep ==
  ASSUME TypeOK, NEW i \in Source, held[i] # 0,
         NEW k \in Nat, held[i] = stream[i][k + 1]
  PROVE  Balance(i, k + 1) = Balance(i, k) + RatioMail(i)
<1> DEFINE s == Count(i, k, SYN)
           a == Count(i, k, {ACK})
           e == Count(i, k, {End})
           ds == IF held[i] \in SYN THEN 1 ELSE 0
           da == IF held[i] = ACK THEN 1 ELSE 0
           de == IF held[i] = End THEN 1 ELSE 0
<1>1. s \in Nat /\ Count(i, k + 1, SYN) = s + ds
  BY CountStep
<1>2. a \in Nat /\ Count(i, k + 1, {ACK}) = a + da
  <2>1. stream[i][k + 1] \in {ACK} <=> held[i] = ACK
    OBVIOUS
  <2> QED
    BY <2>1, CountStep
<1>3. e \in Nat /\ Count(i, k + 1, {End}) = e + de
  <2>1. stream[i][k + 1] \in {End} <=> held[i] = End
    OBVIOUS
  <2> QED
    BY <2>1, CountStep
<1>4. RatioMail(i) = syn_w * ds + ack_w * da + finalize * de
  BY Offsets DEF RatioMail, SYN, ACK, End
<1>5. /\ ds \in Nat /\ da \in Nat /\ de \in Nat
      /\ init \in Int /\ syn_w \in Int /\ ack_w \in Int /\ finalize \in Int
  BY Offsets
<1> HIDE DEF s, a, e, ds, da, de
<1>6. Balance(i, k + 1)
        = init + syn_w * (s + ds) + ack_w * (a + da) + finalize * (e + de)
  BY <1>1, <1>2, <1>3 DEF Balance
<1>7. Balance(i, k) = init + syn_w * s + ack_w * a + finalize * e
  BY DEF Balance, s, a, e
<1> QED
  BY <1>1, <1>2, <1>3, <1>4, <1>5, <1>6, <1>7

\* The symbols a tick counts: the one the counters hold, if any.
NextPassed(i) == IF held[i] = 0 THEN Passed(i) ELSE Passed(i) + 1

\* What a source has passed lies within its stream, before a tick and after it.
LEMMA PassedWithin ==
  ASSUME TypeOK, HeldIsLastSent, NEW i \in Source
  PROVE  /\ stream[i] \in Streams
         /\ Len(stream[i]) \in Nat \ {0}
         /\ Passed(i) \in Nat /\ Passed(i) <= Len(stream[i])
         /\ NextPassed(i) \in Nat /\ NextPassed(i) <= Len(stream[i])
         /\ held[i] # 0 => held[i] = stream[i][Passed(i) + 1] /\ Passed(i) < Len(stream[i])
<1>1. stream[i] \in Streams /\ Len(stream[i]) \in Nat \ {0}
  BY StreamSymbols DEF TypeOK
<1>2. sent[i] \in Nat /\ sent[i] <= Len(stream[i])
  BY DEF TypeOK
<1> QED
  BY <1>1, <1>2 DEF Passed, NextPassed, HeldIsLastSent

\* What a tick leaves in RatioDetector_i: the balance one symbol later, unless
\* it fires now or has fired, which takes an exceeded proportion.
LEMMA NextLedger ==
  ASSUME TypeOK, HeldIsLastSent, RatioLedger, WithinLimit, NEW i \in Source
  PROVE  \/ NextRatio(i) = Balance(i, NextPassed(i))
         \/ /\ NextRatio(i) = 0
            /\ NextPassed(i) = Len(stream[i]) /\ Exceeded(i)
            /\ i \in FiringRatio \/ orSpikes > 0 \/ "ratio" \in seen
<1>1. /\ stream[i] \in Streams /\ Len(stream[i]) \in Nat /\ Len(stream[i]) <= H + 1
      /\ Passed(i) \in Nat /\ Passed(i) <= Len(stream[i])
      /\ held[i] # 0 => held[i] = stream[i][Passed(i) + 1] /\ Passed(i) < Len(stream[i])
  BY PassedWithin DEF WithinLimit
<1>2. i \in FiringRatio <=> ratioSpikes[i] >= base * H + 1
  BY RatioGuards
<1>3. /\ Balance(i, Passed(i)) \in Nat
      /\ Balance(i, Passed(i)) >= base * H + 1
           <=> Passed(i) = Len(stream[i]) /\ Exceeded(i)
  BY <1>1, BalanceBounds
<1>4. held[i] = 0 => RatioMail(i) = 0 /\ NextPassed(i) = Passed(i)
  BY DEF RatioMail, SYN, ACK, End, NextPassed
<1>5. CASE ratioSpikes[i] = Balance(i, Passed(i)) /\ i \in FiringRatio
  <2>1. Passed(i) = Len(stream[i]) /\ Exceeded(i) /\ held[i] = 0
    BY <1>1, <1>2, <1>3, <1>5
  <2> QED
    BY <2>1, <1>4, <1>5 DEF NextRatio, After
<1>6. CASE ratioSpikes[i] = Balance(i, Passed(i)) /\ i \notin FiringRatio
  <2>1. NextRatio(i) = Balance(i, Passed(i)) + RatioMail(i)
    BY <1>6 DEF NextRatio, After
  <2>2. CASE held[i] = 0
    BY <2>1, <2>2, <1>3, <1>4
  <2>3. CASE held[i] # 0
    BY <2>1, <2>3, <1>1, BalanceStep DEF NextPassed
  <2> QED
    BY <2>2, <2>3
<1>7. CASE /\ ratioSpikes[i] = 0
           /\ Passed(i) = Len(stream[i]) /\ Exceeded(i)
           /\ orSpikes > 0 \/ "ratio" \in seen
  <2>1. held[i] = 0 /\ RatioMail(i) = 0 /\ NextPassed(i) = Len(stream[i])
    BY <1>1, <1>4, <1>7
  <2>2. NextRatio(i) = 0
    BY <2>1, <1>7 DEF NextRatio, After
  <2> QED
    BY <2>1, <2>2, <1>7
<1> QED
  BY <1>5, <1>6, <1>7 DEF RatioLedger

\* Within the limit no tick takes a RatioDetector_i below zero.
LEMMA NextNatural ==
  ASSUME TypeOK, HeldIsLastSent, RatioLedger, WithinLimit, NEW i \in Source
  PROVE  NextRatio(i) \in Nat
<1>1. Balance(i, NextPassed(i)) \in Nat
  BY PassedWithin, BalanceBounds DEF WithinLimit
<1> QED
  BY <1>1, NextLedger

\* A network that has not ticked holds init in every RatioDetector_i.
LEMMA RatioInvInit == Init => RatioInv
<1> SUFFICES ASSUME Init PROVE RatioInv
  OBVIOUS
<1>1. TypeOK
  BY InitType
<1>2. ASSUME NEW i \in Source PROVE held[i] = 0 /\ sent[i] = 0 /\ ratioSpikes[i] = init
  BY DEF Init
<1>3. HeldIsLastSent
  BY <1>2 DEF HeldIsLastSent
<1>4. ASSUME NEW i \in Source PROVE ratioSpikes[i] = Balance(i, Passed(i))
  <2>1. Passed(i) = 0
    BY <1>2 DEF Passed
  <2>2. Count(i, 0, SYN) = 0
    BY CountStep
  <2>3. Count(i, 0, {ACK}) = 0
    BY CountStep
  <2>4. Count(i, 0, {End}) = 0
    BY CountStep
  <2> QED
    BY <1>2, <2>1, <2>2, <2>3, <2>4, Offsets DEF Balance
<1>5. RatioLedger /\ OrIsSound
  BY <1>4 DEF RatioLedger, OrIsSound, Init
<1>6. HaltedIsIdle /\ NeverFails
  BY DEF HaltedIsIdle, NeverFails, Init
<1> QED
  BY <1>1, <1>3, <1>5, <1>6 DEF RatioInv

\* The window's counts depend on the streams alone, which never change.
LEMMA WindowFixed ==
  ASSUME UNCHANGED stream
  PROVE  /\ \A i, k : Balance(i, k)' = Balance(i, k')
         /\ \A i : Exceeded(i)' = Exceeded(i)
         /\ WithinLimit' = WithinLimit
         /\ RatioExceeded' = RatioExceeded
BY DEF Balance, Count, Places, Exceeded, InWindow, WithinLimit, RatioExceeded

\* After a tick the counters hold the symbol that was sent in it.
LEMMA TickKeepsHeld ==
  ASSUME TypeOK, HeldIsLastSent, Tick
  PROVE  /\ HeldIsLastSent'
         /\ \A i \in Source : Passed(i)' = NextPassed(i)
<1> SUFFICES ASSUME NEW i \in Source
             PROVE  /\ \/ held'[i] = 0 /\ sent'[i] \in {0, Len(stream'[i])}
                       \/ held'[i] # 0 /\ sent'[i] > 0 /\ held'[i] = stream'[i][sent'[i]]
                    /\ Passed(i)' = NextPassed(i)
  BY DEF HeldIsLastSent
<1>1. /\ stream[i] \in Streams /\ Len(stream[i]) \in Nat \ {0}
      /\ sent[i] \in Nat /\ sent[i] <= Len(stream[i])
  BY PassedWithin DEF TypeOK
<1>2. stream' = stream
  BY DEF Tick
<1>3. CASE sent[i] < Len(stream[i])
  <2>1. sent'[i] = sent[i] + 1 /\ held'[i] = stream[i][sent[i] + 1]
    BY <1>3 DEF Tick
  <2>2. held'[i] # 0
    <3>1. sent[i] + 1 \in 1..Len(stream[i])
      BY <1>1, <1>3
    <3>2. stream[i][sent[i] + 1] \in 1..5
      BY <1>1, <3>1, StreamSymbols
    <3> QED
      BY <2>1, <3>2
  <2>3. held[i] = 0 => sent[i] = 0
    BY <1>1, <1>3 DEF HeldIsLastSent
  <2> QED
    BY <1>1, <1>2, <2>1, <2>2, <2>3 DEF Passed, NextPassed
<1>4. CASE sent[i] = Len(stream[i])
  <2>1. sent'[i] = sent[i] /\ held'[i] = 0
    BY <1>1, <1>4 DEF Tick
  <2> QED
    BY <1>1, <1>2, <1>4, <2>1 DEF Passed, NextPassed
<1> QED
  BY <1>1, <1>3, <1>4

\* After a tick every RatioDetector_i holds its balance, or has fired rightly.
LEMMA TickKeepsLedger ==
  ASSUME RatioInv, Tick
  PROVE  RatioLedger' /\ OrIsSound'
<1> USE DEF RatioInv
<1>1. stream' = stream /\ WithinLimit' = WithinLimit /\ RatioExceeded' = RatioExceeded
  BY WindowFixed DEF Tick
<1>2. Cardinality(FiringRatio) \in Nat /\ (FiringRatio # {} <=> Cardinality(FiringRatio) > 0)
  <2>1. IsFiniteSet(FiringRatio) /\ Cardinality(FiringRatio) \in Nat
    BY CountSources DEF FiringRatio
  <2> QED
    BY <2>1, FS_EmptySet
<1>3. /\ orSpikes' = After(FiringOr, orSpikes, Cardinality(FiringRatio))
      /\ FiringOr <=> orSpikes > 0
      /\ orSpikes \in Nat
      /\ "ratio" \in seen' <=> "ratio" \in seen \/ orSpikes > 0
  <2>1. FiringOr <=> orSpikes > 0
    BY DEF FiringOr, Matches, OrRule, TypeOK
  <2>2. "ratio" \in FiringFeature <=> orSpikes > 0
    BY RatioGuards
  <2> QED
    BY <2>1, <2>2 DEF Tick, TypeOK
<1>4. orSpikes' > 0 \/ "ratio" \in seen'
        <=> FiringRatio # {} \/ orSpikes > 0 \/ "ratio" \in seen
  BY <1>2, <1>3 DEF After
<1>5. ASSUME WithinLimit, NEW i \in Source
      PROVE  \/ ratioSpikes'[i] = Balance(i, Passed(i))'
             \/ /\ ratioSpikes'[i] = 0
                /\ Passed(i)' = Len(stream'[i]) /\ Exceeded(i)'
                /\ orSpikes' > 0 \/ "ratio" \in seen'
  <2>1. ratioSpikes'[i] = NextRatio(i) /\ Passed(i)' = NextPassed(i)
    BY TickKeepsHeld DEF Tick
  <2>2. Balance(i, Passed(i))' = Balance(i, NextPassed(i)) /\ Exceeded(i)' = Exceeded(i)
    BY <1>1, <2>1 DEF Balance, Count, Places, Exceeded, InWindow
  <2>3. i \in FiringRatio => FiringRatio # {}
    OBVIOUS
  <2> QED
    BY <1>1, <1>4, <1>5, <2>1, <2>2, <2>3, NextLedger
<1>6. RatioLedger'
  BY <1>1, <1>5 DEF RatioLedger
<1>7. ASSUME WithinLimit, NEW i \in FiringRatio PROVE Exceeded(i)
  <2>1. i \in Source /\ ratioSpikes[i] >= base * H + 1
    BY RatioGuards DEF FiringRatio
  <2>2. CASE ratioSpikes[i] = 0
    <3>1. base * H \in Nat
      BY Parameters, Times
    <3> QED
      BY <2>1, <2>2, <3>1
  <2>3. CASE ratioSpikes[i] = Balance(i, Passed(i))
    BY <1>7, <2>1, <2>3, PassedWithin, BalanceBounds DEF WithinLimit
  <2> QED
    BY <1>7, <2>1, <2>2, <2>3 DEF RatioLedger
<1>8. OrIsSound'
  <2> SUFFICES ASSUME WithinLimit, orSpikes' > 0 \/ "ratio" \in seen'
               PROVE  RatioExceeded
    BY <1>1 DEF OrIsSound
  <2>1. CASE FiringRatio # {}
    BY <2>1, <1>7 DEF RatioExceeded, FiringRatio
  <2>2. CASE orSpikes > 0 \/ "ratio" \in seen
    BY <2>2 DEF OrIsSound
  <2> QED
    BY <1>4, <2>1, <2>2
<1> QED
  BY <1>6, <1>8

\* No step of the network breaks the ledger.
LEMMA RatioInvNext == RatioInv /\ [Next]_vars => RatioInv'
<1> SUFFICES ASSUME RatioInv, [Next]_vars PROVE RatioInv'
  OBVIOUS
<1> USE DEF RatioInv
<1>1. TypeOK'
  BY NextType
<1>2. CASE Tick
  <2>1. HaltedIsIdle' /\ NeverFails'
    BY <1>2 DEF Tick, HaltedIsIdle, NeverFails
  <2> QED
    BY <1>1, <1>2, <2>1, TickKeepsHeld, TickKeepsLedger
<1>3. CASE NegativeSpikes
  <2>1. ~WithinLimit
    <3>1. PICK i \in Source : NextRatio(i) < 0
      BY <1>3 DEF NegativeSpikes
    <3> QED
      BY <3>1, NextNatural
  <2>2. UNCHANGED <<stream, network>> /\ status' = "failed"
    BY <1>3 DEF NegativeSpikes
  <2>3. WithinLimit' = WithinLimit
    BY <2>2, WindowFixed
  <2>4. HeldIsLastSent'
    BY <2>2 DEF HeldIsLastSent, network
  <2> QED
    BY <1>1, <2>1, <2>2, <2>3, <2>4
       DEF RatioLedger, OrIsSound, HaltedIsIdle, NeverFails
<1>4. CASE Halt \/ Done \/ UNCHANGED vars
  <2>1. UNCHANGED <<stream, network>>
    BY <1>4 DEF Halt, Done, vars
  <2>2. HeldIsLastSent' /\ RatioLedger' /\ OrIsSound'
    <3>1. HeldIsLastSent' /\ WithinLimit' = WithinLimit /\ OrIsSound'
      BY <2>1, WindowFixed DEF HeldIsLastSent, OrIsSound, network
    <3>2. ASSUME NEW i \in Source
          PROVE  /\ Balance(i, Passed(i))' = Balance(i, Passed(i))
                 /\ Passed(i)' = Passed(i) /\ Exceeded(i)' = Exceeded(i)
      BY <2>1 DEF network, Balance, Passed, Count, Places, Exceeded, InWindow
    <3>3. RatioLedger'
      BY <2>1, <3>1, <3>2 DEF RatioLedger, network
    <3> QED
      BY <3>1, <3>3
  <2>3. Awake' = Awake
    BY <2>1 DEF Awake, network, FiringRatio, FiringFeature, FiringRate, FiringPattern,
                FiringOr, FiringAlarm
  <2>4. HaltedIsIdle' /\ NeverFails'
    BY <1>4, <2>1, <2>3 DEF Halt, Done, vars, HaltedIsIdle, NeverFails, WithinLimit
  <2> QED
    BY <1>1, <2>2, <2>4
<1> QED
  BY <1>2, <1>3, <1>4 DEF Next

\* The ledger holds throughout every run.
LEMMA RatioInvariant == Spec => []RatioInv
<1> QED
  BY RatioInvInit, RatioInvNext, PTL DEF Spec

\* Within the hard limit the engine never answers a window with the negative
\* spike error: the offset ratio*H outweighs every ACK of every window.
THEOREM WindowsNeverFail == Spec => []NeverFails
<1>1. RatioInv => NeverFails
  BY DEF RatioInv
<1> QED
  BY <1>1, RatioInvariant, PTL

\* A source's RatioDetector holds exactly its balance until the end marker, so
\* no prefix of a window fires it; it is emptied only by a firing it deserved.
THEOREM RatioIsLedgered == Spec => []RatioLedger
<1>1. RatioInv => RatioLedger
  BY DEF RatioInv
<1> QED
  BY <1>1, RatioInvariant, PTL

\* What RatioInv says of a halted network.
LEMMA RatioAtHalt == RatioInv => RatioVerdict
<1>1. ASSUME RatioInv, status = "halted", WithinLimit
      PROVE  "ratio" \in seen <=> RatioExceeded
  <2> USE DEF RatioInv
  <2>1. /\ \A i \in Source : sent[i] >= Len(stream[i]) /\ held[i] = 0
        /\ FiringRatio = {} /\ FiringFeature = {}
    <3>1. \A i \in Source : sent[i] \in Nat /\ Len(stream[i]) \in Nat
      BY <1>1, PassedWithin DEF TypeOK
    <3> QED
      BY <1>1, <3>1 DEF HaltedIsIdle, Awake
  <2>2. orSpikes = 0
    BY <1>1, <2>1, RatioGuards DEF TypeOK
  <2>3. ASSUME NEW i \in Source, Exceeded(i) PROVE "ratio" \in seen
    <3>1. Passed(i) = Len(stream[i])
      BY <1>1, <2>1, PassedWithin DEF Passed, TypeOK
    <3>2. ratioSpikes[i] # Balance(i, Passed(i))
      BY <1>1, <2>1, <2>3, <3>1, PassedWithin, BalanceBounds, RatioGuards DEF WithinLimit
    <3> QED
      BY <1>1, <2>2, <3>2 DEF RatioLedger
  <2> QED
    BY <1>1, <2>2, <2>3 DEF OrIsSound, RatioExceeded
<1> QED
  BY <1>1 DEF RatioVerdict

\* When the system halts, RatioOR has fired exactly when some source's own
\* proportion of SYNs is strictly above ratio / base.
THEOREM RatioVerdictIsExact == Spec => []RatioVerdict
BY RatioAtHalt, RatioInvariant, PTL

-----------------------------------------------------------------------------
(* The shared counts: what the detectors of rate and pattern have been     *)
(* sent is the number of places the sources have passed.                   *)

\* The places passed that hold symbols, over every source.
Passing(symbols) ==
  {p \in Source \X (1..H) :
     p[2] <= Passed(p[1]) /\ stream[p[1]][p[2]] \in symbols}

\* The places a tick passes.
Coming(symbols) == {<<i, Passed(i) + 1>> : i \in {j \in Source : held[j] \in symbols}}

\* The symbols the shared detectors count are no end markers.
Counted == {SYN, {2}}

LEMMA Grid ==
  ASSUME NEW P, P \subseteq Source \X (1..H)
  PROVE  IsFiniteSet(P) /\ Cardinality(P) \in Nat
<1>1. IsFiniteSet(Source) /\ IsFiniteSet(1..H)
  BY Parameters, FS_Interval DEF Source
<1>2. IsFiniteSet(Source \X (1..H))
  BY <1>1, FS_Product
<1> QED
  BY <1>2, FS_Subset, FS_CardinalityType

\* As many places come as sources hold one of the symbols.
LEMMA ComingCount ==
  ASSUME NEW symbols
  PROVE  IsFiniteSet(Coming(symbols)) /\ Cardinality(Coming(symbols)) = Arriving(symbols)
<1> DEFINE S == {j \in Source : held[j] \in symbols}
           g == [i \in S |-> <<i, Passed(i) + 1>>]
<1>1. IsFiniteSet(S)
  BY CountSources
<1>2. Coming(symbols) = {g[i] : i \in S}
  BY DEF Coming
<1>3. g \in Bijection(S, Coming(symbols))
  <2>1. g \in Injection(S, Coming(symbols))
    BY <1>2 DEF Injection, IsInjective
  <2>2. g \in Surjection(S, Coming(symbols))
    BY <1>2 DEF Surjection
  <2> QED
    BY <2>1, <2>2 DEF Bijection
<1> HIDE DEF S, g
<1>4. ExistsBijection(S, Coming(symbols))
  BY <1>3 DEF ExistsBijection
<1>5. IsFiniteSet(Coming(symbols)) /\ Cardinality(Coming(symbols)) = Cardinality(S)
  BY <1>1, <1>4, FS_Bijection
<1> QED
  BY <1>5 DEF Arriving, S

\* A tick adds them to those passed.
LEMMA PassingStep ==
  ASSUME TypeOK, HeldIsLastSent, WithinLimit, Tick, NEW symbols \in Counted
  PROVE  /\ Cardinality(Passing(symbols)) \in Nat
         /\ Arriving(symbols) \in Nat
         /\ Cardinality(Passing(symbols)') = Cardinality(Passing(symbols)) + Arriving(symbols)
<1>1. symbols \subseteq 1..4 /\ 0 \notin symbols /\ 5 \notin symbols
  BY DEF Counted, SYN
<1>2. stream' = stream /\ \A i \in Source : Passed(i)' = NextPassed(i)
  BY TickKeepsHeld DEF Tick
<1>3. ASSUME NEW i \in Source
      PROVE  /\ Passed(i) \in Nat
             /\ held[i] = 0 => NextPassed(i) = Passed(i)
             /\ held[i] # 0 => NextPassed(i) = Passed(i) + 1 /\ held[i] = stream[i][Passed(i) + 1]
             /\ held[i] \in symbols => Passed(i) + 1 \in 1..H
  <2>1. /\ stream[i] \in Streams /\ Len(stream[i]) \in Nat \ {0} /\ Len(stream[i]) <= H + 1
        /\ Passed(i) \in Nat
        /\ held[i] # 0 => held[i] = stream[i][Passed(i) + 1] /\ Passed(i) < Len(stream[i])
    BY PassedWithin DEF WithinLimit
  <2>2. held[i] \in symbols => Passed(i) + 1 # Len(stream[i])
    <3> SUFFICES ASSUME held[i] \in symbols, Passed(i) + 1 = Len(stream[i]) PROVE FALSE
      OBVIOUS
    <3>1. stream[i][Len(stream[i])] = 5
      BY <2>1, StreamSymbols
    <3> QED
      BY <1>1, <2>1, <3>1
  <2> QED
    BY <1>1, <2>1, <2>2, Parameters DEF NextPassed
<1>4. Passing(symbols)' = Passing(symbols) \cup Coming(symbols)
  <2>1. ASSUME NEW p \in Source \X (1..H)
        PROVE  p \in Passing(symbols)' <=> p \in Passing(symbols) \cup Coming(symbols)
    <3>1. p[1] \in Source /\ p[2] \in 1..H /\ p = <<p[1], p[2]>>
      OBVIOUS
    <3>2. p \in Passing(symbols)' <=> p[2] <= NextPassed(p[1]) /\ stream[p[1]][p[2]] \in symbols
      BY <1>2, <3>1 DEF Passing
    <3>3. p \in Passing(symbols) <=> p[2] <= Passed(p[1]) /\ stream[p[1]][p[2]] \in symbols
      BY <3>1 DEF Passing
    <3>4. p \in Coming(symbols) <=> held[p[1]] \in symbols /\ p[2] = Passed(p[1]) + 1
      <4>1. ASSUME p \in Coming(symbols) PROVE held[p[1]] \in symbols /\ p[2] = Passed(p[1]) + 1
        <5>1. PICK i \in {j \in Source : held[j] \in symbols} : p = <<i, Passed(i) + 1>>
          BY <4>1 DEF Coming
        <5>2. p[1] = i /\ p[2] = Passed(i) + 1
          BY <5>1
        <5> QED
          BY <5>1, <5>2
      <4>2. ASSUME held[p[1]] \in symbols, p[2] = Passed(p[1]) + 1 PROVE p \in Coming(symbols)
        BY <3>1, <4>2 DEF Coming
      <4> QED
        BY <4>1, <4>2
    <3> QED
      BY <1>1, <1>3, <3>1, <3>2, <3>3, <3>4
  <2>2. Coming(symbols) \subseteq Source \X (1..H)
    BY <1>3 DEF Coming
  <2>3. Passing(symbols)' \subseteq Source \X (1..H) /\ Passing(symbols) \subseteq Source \X (1..H)
    BY DEF Passing
  <2> QED
    BY <2>1, <2>2, <2>3
<1>5. Passing(symbols) \cap Coming(symbols) = {}
  BY <1>3 DEF Passing, Coming
<1>6. IsFiniteSet(Passing(symbols)) /\ Cardinality(Passing(symbols)) \in Nat
  BY Grid DEF Passing
<1>7. IsFiniteSet(Coming(symbols)) /\ Cardinality(Coming(symbols)) = Arriving(symbols)
      /\ Arriving(symbols) \in Nat
  BY ComingCount, CountSources DEF Arriving
<1>8. Cardinality(Passing(symbols) \cup Coming(symbols))
        = Cardinality(Passing(symbols)) + Cardinality(Coming(symbols)) - Cardinality({})
  BY <1>5, <1>6, <1>7, FS_Union
<1> QED
  BY <1>4, <1>6, <1>7, <1>8, FS_EmptySet

-----------------------------------------------------------------------------
(* The ledgers of the two shared detectors.                                *)

SharedLedger(f, spikes, threshold, symbols) ==
  \/ f \notin seen /\ spikes = Cardinality(Passing(symbols))
  \/ f \in seen /\ Cardinality(Passing(symbols)) >= threshold

AggregateLedger ==
  WithinLimit /\ ThresholdsAboveOne =>
    /\ SharedLedger("rate", rateSpikes, rate_K, SYN)
    /\ SharedLedger("pattern", patternSpikes, pattern_P, {2})

AggregateInv == RatioInv /\ AggregateLedger

LEMMA SharedGuards ==
  ASSUME TypeOK, ThresholdsAboveOne
  PROVE  /\ FiringRate <=> rateSpikes >= rate_K
         /\ FiringPattern <=> patternSpikes >= pattern_P
         /\ FiringAlarm <=> decision >= decision_threshold
  BY ThresholdGuard, Parameters
  DEF FiringRate, FiringPattern, FiringAlarm, VelocityRule, PatternRule, DecisionRule,
  TypeOK, ThresholdsAboveOne

LEMMA AggregateInit == Init => AggregateInv
<1> SUFFICES ASSUME Init PROVE AggregateLedger
  BY RatioInvInit DEF AggregateInv
<1>1. ASSUME NEW symbols PROVE Cardinality(Passing(symbols)) = 0
  <2>1. Passing(symbols) = {}
    BY DEF Passing, Passed, Init
  <2> QED
    BY <2>1, FS_EmptySet
<1> QED
  BY <1>1 DEF AggregateLedger, SharedLedger, Init

LEMMA AggregateNext == AggregateInv /\ [Next]_vars => AggregateInv'
<1> SUFFICES ASSUME AggregateInv, [Next]_vars PROVE AggregateLedger'
  BY RatioInvNext DEF AggregateInv
<1>1. RatioInv /\ TypeOK /\ HeldIsLastSent /\ AggregateLedger
  BY DEF AggregateInv, RatioInv
<1>2. CASE Tick
  <2>1. WithinLimit' = WithinLimit /\ ThresholdsAboveOne' = ThresholdsAboveOne
    BY <1>2, WindowFixed DEF Tick, ThresholdsAboveOne
  <2> SUFFICES ASSUME WithinLimit, ThresholdsAboveOne
               PROVE  /\ SharedLedger("rate", rateSpikes, rate_K, SYN)'
                      /\ SharedLedger("pattern", patternSpikes, pattern_P, {2})'
    BY <2>1 DEF AggregateLedger
  <2>2. /\ SharedLedger("rate", rateSpikes, rate_K, SYN)
        /\ SharedLedger("pattern", patternSpikes, pattern_P, {2})
    BY <1>1 DEF AggregateLedger
  <2>3. /\ rateSpikes' = After(FiringRate, rateSpikes, Arriving(SYN))
        /\ patternSpikes' = After(FiringPattern, patternSpikes, Arriving({2}))
        /\ "rate" \in seen' <=> "rate" \in seen \/ FiringRate
        /\ "pattern" \in seen' <=> "pattern" \in seen \/ FiringPattern
    BY <1>2 DEF Tick, FiringFeature, Feature
  <2>4. /\ FiringRate <=> rateSpikes >= rate_K
        /\ FiringPattern <=> patternSpikes >= pattern_P
    BY <1>1, SharedGuards
  <2>5. ASSUME NEW symbols \in Counted
        PROVE  /\ Cardinality(Passing(symbols)) \in Nat /\ Arriving(symbols) \in Nat
               /\ Cardinality(Passing(symbols)') = Cardinality(Passing(symbols)) + Arriving(symbols)
    BY <1>1, <1>2, PassingStep
  <2>6. SYN \in Counted /\ {2} \in Counted
    BY DEF Counted
  <2>7. rate_K \in Nat /\ pattern_P \in Nat
    BY Parameters
  <2>8. SharedLedger("rate", rateSpikes, rate_K, SYN)'
    <3>1. /\ Cardinality(Passing(SYN)) \in Nat /\ Arriving(SYN) \in Nat
          /\ Cardinality(Passing(SYN)') = Cardinality(Passing(SYN)) + Arriving(SYN)
      BY <2>5, <2>6
    <3> QED
      BY <2>2, <2>3, <2>4, <2>7, <3>1 DEF SharedLedger, After
  <2>9. SharedLedger("pattern", patternSpikes, pattern_P, {2})'
    <3>1. /\ Cardinality(Passing({2})) \in Nat /\ Arriving({2}) \in Nat
          /\ Cardinality(Passing({2})') = Cardinality(Passing({2})) + Arriving({2})
      BY <2>5, <2>6
    <3> QED
      BY <2>2, <2>3, <2>4, <2>7, <3>1 DEF SharedLedger, After
  <2> QED
    BY <2>8, <2>9
<1>3. CASE NegativeSpikes \/ Halt \/ Done \/ UNCHANGED vars
  <2>1. UNCHANGED <<stream, network>>
    BY <1>3 DEF NegativeSpikes, Halt, Done, vars
  <2>2. WithinLimit' = WithinLimit /\ ThresholdsAboveOne' = ThresholdsAboveOne
        /\ \A symbols : Passing(symbols)' = Passing(symbols)
    BY <2>1, WindowFixed DEF ThresholdsAboveOne, Passing, Passed, network
  <2> QED
    BY <1>1, <2>1, <2>2 DEF AggregateLedger, SharedLedger, network
<1> QED
  BY <1>2, <1>3 DEF Next

LEMMA AggregateAlways == Spec => []AggregateInv
  BY AggregateInit, AggregateNext, PTL DEF Spec

\* A halted network has passed all it was given.
LEMMA HaltedCounts ==
  ASSUME RatioInv, status = "halted", WithinLimit, NEW symbols \in Counted
  PROVE  Passing(symbols) = {p \in Source \X (1..H) :
                               p[2] <= Len(stream[p[1]]) /\ stream[p[1]][p[2]] \in symbols}
<1>1. TypeOK /\ HeldIsLastSent /\ ~Awake
  BY DEF RatioInv, HaltedIsIdle
<1>2. ASSUME NEW i \in Source PROVE Passed(i) = Len(stream[i])
  <2>1. sent[i] \in Nat /\ Len(stream[i]) \in Nat /\ sent[i] <= Len(stream[i])
    BY <1>1, PassedWithin DEF TypeOK
  <2>2. ~(sent[i] < Len(stream[i])) /\ held[i] = 0
    BY <1>1 DEF Awake
  <2> QED
    BY <2>1, <2>2 DEF Passed
<1> QED
  BY <1>2 DEF Passing

LEMMA AggregateAtHalt ==
  ASSUME AggregateInv, status = "halted", WithinLimit, ThresholdsAboveOne
  PROVE  ("rate" \in seen <=> RateReached) /\ ("pattern" \in seen <=> PatternReached)
<1>1. RatioInv /\ TypeOK /\ ~Awake
  BY DEF AggregateInv, RatioInv, HaltedIsIdle
<1>2. Cardinality(Passing(SYN)) = Total(SYN) /\ Cardinality(Passing({2})) = Total({2})
  BY <1>1, HaltedCounts DEF Counted, Total
<1>3. ~FiringRate /\ ~FiringPattern
  BY <1>1 DEF Awake, FiringFeature, Feature
<1>4. ~(rateSpikes >= rate_K) /\ ~(patternSpikes >= pattern_P)
  BY <1>1, <1>3, SharedGuards
<1>5. /\ SharedLedger("rate", rateSpikes, rate_K, SYN)
      /\ SharedLedger("pattern", patternSpikes, pattern_P, {2})
  BY DEF AggregateInv, AggregateLedger
<1> QED
  BY <1>2, <1>4, <1>5 DEF SharedLedger, RateReached, PatternReached

\* However the sources' spikes meet or miss each other, a halted network shows
\* the rate and the pattern feature exactly when the window's totals reach them.
THEOREM AggregateVerdictsAreExact == Spec => []AggregateVerdicts
<1>1. AggregateInv => AggregateVerdicts
  BY AggregateAtHalt DEF AggregateVerdicts
<1> QED
  BY <1>1, AggregateAlways, PTL

-----------------------------------------------------------------------------
(* The vote.                                                               *)

\* The weights of the flags that have passed their vote on.
Votes ==
  (IF flag["rate"] < 2 THEN rate_weight ELSE 0)
    + (IF flag["ratio"] < 2 THEN ratio_weight ELSE 0)
    + (IF flag["pattern"] < 2 THEN pattern_weight ELSE 0)

\* A flag is loaded as long as its feature has not been seen.
FlagsFollow == \A f \in Feature : flag[f] # 2 <=> f \in seen

\* Each alarm has taken its threshold of the votes.
VoteLedger ==
  ThresholdsAboveOne =>
    /\ decision + alarms * decision_threshold <= Votes
    /\ alarms = 0 => decision = Votes
    /\ alarms >= 1 <=> "alarm" \in seen

VoteInv == AggregateInv /\ FlagsFollow /\ VoteLedger

LEMMA VotesNatural ==
  ASSUME TypeOK
  PROVE  /\ Votes \in Nat /\ Ballot \in Nat
         /\ Votes <= rate_weight + ratio_weight + pattern_weight
<1>1. Votes \in Nat /\ Votes <= rate_weight + ratio_weight + pattern_weight
  BY Parameters DEF Votes
<1>2. Vote("rate") \in Nat /\ Vote("ratio") \in Nat /\ Vote("pattern") \in Nat
  BY Parameters DEF Vote
<1> QED
  BY <1>1, <1>2 DEF Ballot

\* The votes of a tick are those of the flags it empties.
LEMMA VotesStep ==
  ASSUME TypeOK, Tick
  PROVE  Votes' = Votes + Ballot
<1>1. /\ flag["rate"] \in 0..3 /\ flag["ratio"] \in 0..3 /\ flag["pattern"] \in 0..3
      /\ \A f \in Feature : f \in FiringFlag <=> flag[f] = 3
      /\ \A f \in Feature : flag'[f] = NextFlag(f)
      /\ {"rate", "ratio", "pattern"} = Feature
  BY DEF TypeOK, Feature, FiringFlag, Tick
<1>2. \A f \in Feature : flag'[f] < 2 <=> flag[f] < 2 \/ flag[f] = 3
  BY <1>1 DEF NextFlag
<1>3. /\ Vote("rate") = IF flag["rate"] = 3 THEN rate_weight ELSE 0
      /\ Vote("ratio") = IF flag["ratio"] = 3 THEN ratio_weight ELSE 0
      /\ Vote("pattern") = IF flag["pattern"] = 3 THEN pattern_weight ELSE 0
  BY <1>1 DEF Vote
<1> QED
  BY <1>1, <1>2, <1>3, Parameters DEF Votes, Ballot

LEMMA VoteNext == VoteInv /\ [Next]_vars => VoteInv'
<1> SUFFICES ASSUME VoteInv, [Next]_vars PROVE FlagsFollow' /\ VoteLedger'
  BY AggregateNext DEF VoteInv
<1>1. TypeOK /\ FlagsFollow /\ VoteLedger
  BY DEF VoteInv, AggregateInv, RatioInv
<1>2. CASE Tick
  <2>1. FlagsFollow'
    BY <1>1, <1>2 DEF Tick, FlagsFollow, NextFlag, TypeOK, Feature
  <2>2. VoteLedger'
    <3> SUFFICES ASSUME ThresholdsAboveOne
                 PROVE  /\ decision' + alarms' * decision_threshold <= Votes'
                        /\ alarms' = 0 => decision' = Votes'
                        /\ alarms' >= 1 <=> "alarm" \in seen'
      BY DEF VoteLedger, ThresholdsAboveOne
    <3>1. /\ decision + alarms * decision_threshold <= Votes
          /\ alarms = 0 => decision = Votes
          /\ alarms >= 1 <=> "alarm" \in seen
      BY <1>1 DEF VoteLedger
    <3>2. /\ decision \in Nat /\ alarms \in Nat /\ decision_threshold \in Nat
          /\ Votes \in Nat /\ Ballot \in Nat /\ Votes' = Votes + Ballot
      BY <1>1, <1>2, VotesNatural, VotesStep, Parameters DEF TypeOK
    <3>3. /\ decision' = After(FiringAlarm, decision, Ballot)
          /\ alarms' = alarms + (IF FiringAlarm THEN 1 ELSE 0)
          /\ "alarm" \in seen' <=> "alarm" \in seen \/ FiringAlarm
      BY <1>2 DEF Tick, FiringFeature, Feature
    <3>4. FiringAlarm <=> decision >= decision_threshold
      BY <1>1, SharedGuards
    <3>5. CASE FiringAlarm
      <4>1. decision' = Ballot /\ alarms' = alarms + 1 /\ "alarm" \in seen'
        BY <3>3, <3>5 DEF After
      <4>2. (alarms + 1) * decision_threshold = alarms * decision_threshold + decision_threshold
            /\ alarms * decision_threshold \in Nat
        BY <3>2
      <4> QED
        BY <3>1, <3>2, <3>4, <3>5, <4>1, <4>2
    <3>6. CASE ~FiringAlarm
      <4>1. decision' = decision + Ballot /\ alarms' = alarms
        BY <3>2, <3>3, <3>6 DEF After
      <4>2. alarms * decision_threshold \in Nat
        BY <3>2
      <4> QED
        BY <3>1, <3>2, <3>3, <3>6, <4>1, <4>2
    <3> QED
      BY <3>5, <3>6
  <2> QED
    BY <2>1, <2>2
<1>3. CASE NegativeSpikes \/ Halt \/ Done \/ UNCHANGED vars
  BY <1>1, <1>3
     DEF NegativeSpikes, Halt, Done, vars, network, FlagsFollow, VoteLedger, Votes,
         ThresholdsAboveOne
<1> QED
  BY <1>2, <1>3 DEF Next

LEMMA VoteInit == Init => VoteInv
<1> SUFFICES ASSUME Init PROVE FlagsFollow /\ VoteLedger
  BY AggregateInit DEF VoteInv
<1>1. \A f \in Feature : flag[f] = 2
  BY DEF Init, FlagLoad
<1>2. Votes = 0
  BY <1>1 DEF Votes, Feature
<1> QED
  BY <1>1, <1>2, Parameters DEF Init, FlagsFollow, VoteLedger

LEMMA VoteAlways == Spec => []VoteInv
  BY VoteInit, VoteNext, PTL DEF Spec

LEMMA AlarmAtHalt ==
  ASSUME VoteInv, status = "halted", WithinLimit, ThresholdsAboveOne, RatioVerdict
  PROVE  /\ alarms >= 1 <=> Tally >= decision_threshold
         /\ alarms >= 1 <=> "alarm" \in seen
         /\ rate_weight + ratio_weight + pattern_weight < 2 * decision_threshold => alarms <= 1
<1>1. /\ TypeOK /\ FlagsFollow /\ ~Awake /\ AggregateInv
      /\ decision + alarms * decision_threshold <= Votes
      /\ alarms = 0 => decision = Votes
      /\ alarms >= 1 <=> "alarm" \in seen
  BY DEF VoteInv, AggregateInv, RatioInv, HaltedIsIdle, VoteLedger
<1>2. \A f \in Feature : flag[f] < 2 <=> f \in seen
  BY <1>1 DEF Awake, FlagsFollow, TypeOK
<1>3. \A f \in Feature : f \in seen <=> Deserved(f)
  BY <1>1, AggregateAtHalt DEF RatioVerdict, Deserved, Feature
<1>4. Votes = Tally
  BY <1>2, <1>3 DEF Votes, Tally, Feature
<1>5. ~(decision >= decision_threshold)
  BY <1>1, SharedGuards DEF Awake
<1>6. /\ decision \in Nat /\ alarms \in Nat /\ decision_threshold \in Nat \ {0} /\ Votes \in Nat
      /\ Votes <= rate_weight + ratio_weight + pattern_weight
      /\ rate_weight \in Nat /\ ratio_weight \in Nat /\ pattern_weight \in Nat
  BY <1>1, VotesNatural, Parameters DEF TypeOK
<1>7. alarms >= 1 => Votes >= decision_threshold
  <2> SUFFICES ASSUME alarms >= 1 PROVE Votes >= decision_threshold
    OBVIOUS
  <2>1. decision_threshold * 1 <= decision_threshold * alarms
    BY <1>6, Times
  <2>2. alarms * decision_threshold = decision_threshold * alarms
            /\ decision_threshold * alarms \in Nat
    BY <1>6
  <2> QED
    BY <1>1, <1>6, <2>1, <2>2
<1>8. alarms >= 2 => Votes >= 2 * decision_threshold
  <2> SUFFICES ASSUME alarms >= 2 PROVE Votes >= 2 * decision_threshold
    OBVIOUS
  <2>1. decision_threshold * 2 <= decision_threshold * alarms
    BY <1>6, Times
  <2>2. /\ alarms * decision_threshold = decision_threshold * alarms
               /\ decision_threshold * alarms \in Nat
        /\ decision_threshold * 2 = 2 * decision_threshold
    BY <1>6
  <2> QED
    BY <1>1, <1>6, <2>1, <2>2
<1>9. alarms >= 1 <=> Tally >= decision_threshold
  BY <1>1, <1>4, <1>5, <1>6, <1>7
<1> QED
  BY <1>1, <1>6, <1>8, <1>9

\* A halted network has raised the alarm exactly when the weights of the features
\* the window deserves reach the threshold, and once at most if all the weights
\* together cannot reach it twice.
THEOREM AlarmVerdictIsExact == Spec => []AlarmVerdict
<1>1. VoteInv /\ RatioVerdict => AlarmVerdict
  BY AlarmAtHalt DEF AlarmVerdict
<1> QED
  BY <1>1, VoteAlways, RatioVerdictIsExact, PTL

\* A halted network shows the features its window deserves and no others.
LEMMA ExpectedAtHalt ==
  ASSUME VoteInv, status = "halted", WithinLimit, ThresholdsAboveOne
  PROVE  seen = Expected
<1>1. AggregateInv /\ RatioInv /\ RatioVerdict /\ seen \subseteq Feature \cup {"alarm"}
  BY RatioAtHalt DEF VoteInv, AggregateInv, RatioInv, TypeOK
<1>2. \A f \in Feature : f \in seen <=> Deserved(f)
  BY <1>1, AggregateAtHalt DEF RatioVerdict, Deserved, Feature
<1>3. "alarm" \in seen <=> Tally >= decision_threshold
  BY <1>1, AlarmAtHalt
<1>4. "alarm" \notin Feature
  BY DEF Feature
<1> QED
  BY <1>1, <1>2, <1>3, <1>4 DEF Expected
=============================================================================
