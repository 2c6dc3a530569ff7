----------------------------- MODULE SweepProofs ----------------------------
(***************************************************************************)
(* What the summaries of a sweep count, for any number of features,        *)
(* thresholds and captures, whatever an earlier sweep left behind.         *)
(***************************************************************************)
EXTENDS Sweep, TLAPS

LEMMA Parameters ==
  /\ Features \in Nat /\ Thresholds \in Nat /\ Captures \in Nat
  /\ Thresholds >= 1
  BY SweepAssumption

\* Simulators run only in a batch that was started, and no batch is started in
\* the loop's last turn; so none is running once the loops have ended.
Threads ==
  \A f \in Feature :
    /\ running[f] # {} => batch[f] = "started"
    /\ batch[f] = "started" => next[f] <= Thresholds
    /\ batch[f] # "none" => next[f] >= 2
    /\ batch[f] = "none" => next[f] = 1
    /\ phase # "simulate" => running[f] = {}
    /\ phase = "simulate" => counted[f] = <<>>

\* What was counted was counted of a pair of the sweep.
CountedPairs ==
  \A f \in Feature : \A k \in DOMAIN counted[f] : PairOf(k) \in Pair

TypeInv == TypeOK /\ Threads /\ CountedPairs

\* The pair a summary comes to is that of the output it counts next.
LEMMA AtIsNext ==
  ASSUME TypeOK, NEW f \in Feature
  PROVE  At(f) = PairOf(Len(counted[f]) + 1) /\ Len(counted[f]) \in Nat
<1>1. counted[f] \in Seq({"earlier", "this"})
  BY DEF TypeOK
<1>2. Len(counted[f]) \in Nat
  BY <1>1
<1>3. PICK n \in Nat : n = Len(counted[f])
  BY <1>2
<1>4. (n + 1) - 1 = n
  BY <1>3
<1>5. QED
  BY <1>3, <1>4 DEF At, PairOf

\* What an output counted makes of a summary.
LEMMA CountOne ==
  ASSUME TypeOK, NEW f \in Feature, NEW one \in {"earlier", "this"},
         counted' = [counted EXCEPT ![f] = Append(@, one)]
  PROVE  /\ counted' \in [Feature -> Seq({"earlier", "this"})]
         /\ \A g \in Feature : g # f => counted'[g] = counted[g]
         /\ \A k \in DOMAIN counted'[f] :
              \/ k \in DOMAIN counted[f] /\ counted'[f][k] = counted[f][k]
              \/ PairOf(k) = At(f) /\ counted'[f][k] = one
<1>1. counted \in [Feature -> Seq({"earlier", "this"})]
  BY DEF TypeOK
<1>2. counted[f] \in Seq({"earlier", "this"}) /\ counted'[f] = Append(counted[f], one)
  BY <1>1
<1>3. counted' \in [Feature -> Seq({"earlier", "this"})]
  BY <1>1, <1>2
<1>4. \A k \in DOMAIN counted'[f] :
        \/ k \in DOMAIN counted[f] /\ counted'[f][k] = counted[f][k]
        \/ k = Len(counted[f]) + 1 /\ counted'[f][k] = one
  BY <1>2
<1>5. QED
  BY <1>1, <1>3, <1>4, AtIsNext

\* What one output written makes of the directories.
LEMMA WriteOne ==
  ASSUME TypeOK, NEW f \in Feature, NEW p \in Pair,
         output' = [output EXCEPT ![f][p] = "this"]
  PROVE  /\ output' \in [Feature -> [Pair -> {"none", "earlier", "this"}]]
         /\ \A g \in Feature, q \in Pair :
              output'[g][q] = IF g = f /\ q = p THEN "this" ELSE output[g][q]
<1>1. output \in [Feature -> [Pair -> {"none", "earlier", "this"}]]
  BY DEF TypeOK
<1>2. /\ [output[f] EXCEPT ![p] = "this"] \in [Pair -> {"none", "earlier", "this"}]
      /\ \A q \in Pair : [output[f] EXCEPT ![p] = "this"][q] =
                           IF q = p THEN "this" ELSE output[f][q]
  BY <1>1
<1>3. output' = [output EXCEPT ![f] = [output[f] EXCEPT ![p] = "this"]]
  OBVIOUS
<1> DEFINE of == [output[f] EXCEPT ![p] = "this"]
<1> HIDE DEF of
<1>4. /\ output' \in [Feature -> [Pair -> {"none", "earlier", "this"}]]
      /\ output'[f] = of /\ \A g \in Feature : g # f => output'[g] = output[g]
  BY <1>1, <1>2, <1>3 DEF of
<1>5. QED
  BY <1>2, <1>4 DEF of

LEMMA TypeInit == Init => TypeInv
  BY Parameters DEF Init, TypeInv, TypeOK, Threads, CountedPairs, Pair

LEMMA TypeNext == TypeInv /\ [Next]_vars => TypeInv'
<1> SUFFICES ASSUME TypeInv, [Next]_vars PROVE TypeInv'
  OBVIOUS
<1> USE Parameters
<1>1. CASE Summarise
  <2>1. \A f \in Feature : running[f] = {}
    <3> SUFFICES ASSUME NEW f \in Feature PROVE running[f] = {}
      OBVIOUS
    <3>1. next[f] > Thresholds \/ batch[f] = "raised"
      BY <1>1 DEF Summarise, LoopEnded
    <3>2. next[f] \in Nat
      BY DEF TypeInv, TypeOK
    <3>3. batch[f] # "started"
      BY <3>1, <3>2 DEF TypeInv, Threads
    <3>4. QED
      BY <3>3 DEF TypeInv, Threads
  <2>2. QED
    BY <1>1, <2>1 DEF Summarise, sims, sums, TypeInv, TypeOK, Threads, CountedPairs
<1>2. CASE WriteResults
  BY <1>2 DEF WriteResults, sims, sums, TypeInv, TypeOK, Threads, CountedPairs
<1>3. ASSUME NEW f \in Feature, Launch(f) PROVE TypeInv'
  BY <1>3 DEF Launch, sums, TypeInv, TypeOK, Threads, CountedPairs
<1>4. ASSUME NEW f \in Feature, Make(f) PROVE TypeInv'
  <2>1. running[f] = {}
    BY <1>4 DEF Make, TypeInv, TypeOK, Threads
  <2>2. /\ next' = [next EXCEPT ![f] = @ + 1] /\ next[f] <= Thresholds
        /\ UNCHANGED <<skip, phase, running, broken, output, counted, summary, written>>
    BY <1>4 DEF Make, sums
  <2>3. PICK b \in {"made", "raised"} : batch' = [batch EXCEPT ![f] = b]
    BY <1>4 DEF Make
  <2>4. /\ next \in [Feature -> 1..(Thresholds + 1)]
        /\ batch \in [Feature -> {"none", "made", "started", "raised"}]
    BY DEF TypeInv, TypeOK
  <2>5. /\ next[f] + 1 \in 2..(Thresholds + 1)
        /\ next'[f] = next[f] + 1 /\ batch'[f] = b
        /\ \A g \in Feature : g # f => next'[g] = next[g] /\ batch'[g] = batch[g]
    BY <2>2, <2>3, <2>4
  <2>6. /\ next' \in [Feature -> 1..(Thresholds + 1)]
        /\ batch' \in [Feature -> {"none", "made", "started", "raised"}]
    BY <2>2, <2>3, <2>4, <2>5
  <2>7. TypeOK' /\ CountedPairs'
    BY <2>2, <2>6 DEF TypeInv, TypeOK, CountedPairs, PairOf
  <2>8. Threads'
    BY <2>1, <2>2, <2>5 DEF TypeInv, Threads
  <2>9. QED
    BY <2>7, <2>8 DEF TypeInv
<1>5. ASSUME NEW f \in Feature, NEW c \in Capture, Score(f, c) \/ Raise(f, c)
      PROVE  TypeInv'
  <2>1. <<next[f] - 1, c>> \in Pair
    <3>1. next[f] \in 2..Thresholds
      BY <1>5 DEF Score, Raise, TypeInv, TypeOK, Threads
    <3>2. next[f] - 1 \in 1..Thresholds
      BY <3>1
    <3>3. QED
      BY <3>2 DEF Pair
  <2>2. output' \in [Feature -> [Pair -> {"none", "earlier", "this"}]]
        /\ broken' \in [Feature -> SUBSET Pair]
    <3>1. CASE Score(f, c)
      <4>1. output' \in [Feature -> [Pair -> {"none", "earlier", "this"}]]
        BY <2>1, <3>1, WriteOne DEF Score, TypeInv
      <4>2. QED
        BY <3>1, <4>1 DEF Score, TypeInv, TypeOK
    <3>2. CASE Raise(f, c)
      BY <2>1, <3>2 DEF Raise, TypeInv, TypeOK
    <3>3. QED
      BY <1>5, <3>1, <3>2
  <2>3. running' \in [Feature -> SUBSET Capture]
        /\ \A g \in Feature : running'[g] \subseteq running[g]
    BY <1>5 DEF Score, Raise, TypeInv, TypeOK
  <2>4. UNCHANGED <<skip, phase, next, batch, counted, summary, written>>
    BY <1>5 DEF Score, Raise, sums
  <2>5. TypeOK'
    BY <2>2, <2>3, <2>4 DEF TypeInv, TypeOK
  <2>6. Threads' /\ CountedPairs'
    BY <2>3, <2>4 DEF TypeInv, Threads, CountedPairs
  <2>7. QED
    BY <2>5, <2>6 DEF TypeInv
<1>6. ASSUME NEW f \in Feature, Read(f) \/ RunInLine(f) PROVE TypeInv'
  <2>1. /\ At(f) \in Pair /\ phase # "simulate"
        /\ UNCHANGED <<skip, phase, next, batch, running, broken, summary, written>>
    BY <1>6 DEF Read, RunInLine, Summarising, sims
  <2>2. PICK one \in {"earlier", "this"} :
          counted' = [counted EXCEPT ![f] = Append(@, one)]
    BY <1>6, <2>1 DEF Read, RunInLine, TypeInv, TypeOK
  <2>3. output' \in [Feature -> [Pair -> {"none", "earlier", "this"}]]
    <3>1. CASE Read(f)
      BY <3>1 DEF Read, TypeInv, TypeOK
    <3>2. CASE RunInLine(f)
      BY <2>1, <3>2, WriteOne DEF RunInLine, TypeInv
    <3>3. QED
      BY <1>6, <3>1, <3>2
  <2>4. /\ counted' \in [Feature -> Seq({"earlier", "this"})]
        /\ \A g \in Feature : g # f => counted'[g] = counted[g]
        /\ \A k \in DOMAIN counted'[f] : k \in DOMAIN counted[f] \/ PairOf(k) = At(f)
    BY <2>2, CountOne DEF TypeInv
  <2>5. TypeOK'
    BY <2>1, <2>3, <2>4 DEF TypeInv, TypeOK
  <2>6. Threads'
    BY <2>1 DEF TypeInv, Threads
  <2>7. CountedPairs'
    BY <2>1, <2>4 DEF TypeInv, CountedPairs, Pair
  <2>8. QED
    BY <2>5, <2>6, <2>7 DEF TypeInv
<1>7. ASSUME NEW f \in Feature, RunInLineRaises(f) \/ Sum(f) PROVE TypeInv'
  BY <1>7 DEF RunInLineRaises, Sum, sims, TypeInv, TypeOK, Threads, CountedPairs
<1>8. CASE UNCHANGED vars
  BY <1>8 DEF vars, sims, sums, TypeInv, TypeOK, Threads, CountedPairs, Pair
<1>9. QED
  BY <1>1, <1>2, <1>3, <1>4, <1>5, <1>6, <1>7, <1>8 DEF Next, Worker

\* A feature's loop, batches, outputs and counts stay what they are, whatever the
\* threads' order.
THEOREM TypeCorrect == Spec => []TypeOK
<1>1. TypeInv => TypeOK
  BY DEF TypeInv
<1>2. QED
  BY <1>1, TypeInit, TypeNext, PTL DEF Spec

-----------------------------------------------------------------------------

\* The outputs of the thresholds whose batch has ended are this sweep's, but for
\* those whose simulator raised.
Swept(f, p) ==
  \/ p[1] < next[f] - 1
  \/ p[1] = next[f] - 1 /\ batch[f] = "started" /\ p[2] \notin running[f]

SweptOutputs ==
  \A f \in Feature : \A p \in Pair :
    ~skip /\ Swept(f, p) => output[f][p] = "this" \/ p \in broken[f]

LoopsEnded == phase # "simulate" /\ ~skip => \A f \in Feature : LoopEnded(f)

SweepInv ==
  /\ TypeInv /\ CountedAsKept /\ SweptOutputs /\ LoopsEnded /\ OldOnlyWhereNotRun

LEMMA SweepInit == Init => SweepInv
<1> SUFFICES ASSUME Init PROVE SweepInv
  OBVIOUS
<1>1. TypeInv
  BY TypeInit
<1>2. SweptOutputs
  BY Parameters DEF Init, SweptOutputs, Swept, Pair
<1>3. QED
  BY <1>1, <1>2 DEF Init, SweepInv, CountedAsKept, LoopsEnded, OldOnlyWhereNotRun

\* Once the loops have ended, an output of an earlier sweep is where none of this
\* one was to be expected.
LEMMA OldIsNotRun ==
  ASSUME TypeInv, SweptOutputs, LoopsEnded, phase # "simulate",
         NEW f \in Feature, NEW p \in Pair, output[f][p] = "earlier"
  PROVE  \/ skip
         \/ p \in broken[f]
         \/ batch[f] = "raised" /\ p[1] >= next[f] - 1
         \/ p[1] = Thresholds
<1>1. SUFFICES ASSUME ~skip, p \notin broken[f], p[1] # Thresholds
               PROVE  batch[f] = "raised" /\ p[1] >= next[f] - 1
  OBVIOUS
<1>2. next[f] \in 1..(Thresholds + 1) /\ p[1] \in 1..Thresholds
  BY DEF TypeInv, TypeOK, Pair
<1>3. ~(p[1] < next[f] - 1)
  BY <1>1 DEF SweptOutputs, Swept
<1>4. next[f] > Thresholds \/ batch[f] = "raised"
  BY <1>1 DEF LoopsEnded, LoopEnded
<1>5. QED
  BY <1>1, <1>2, <1>3, <1>4, Parameters

LEMMA SweepNext == SweepInv /\ [Next]_vars => SweepInv'
<1> SUFFICES ASSUME SweepInv, [Next]_vars PROVE SweepInv'
  OBVIOUS
<1>1. /\ TypeInv /\ TypeInv' /\ TypeOK /\ Threads /\ CountedPairs
      /\ CountedAsKept /\ SweptOutputs /\ LoopsEnded /\ OldOnlyWhereNotRun
  BY TypeNext DEF SweepInv, TypeInv
<1>2. \A f \in Feature : next[f] \in 1..(Thresholds + 1) /\ running[f] \subseteq Capture
  BY <1>1 DEF TypeOK
<1>3. \A p \in Pair : p[1] \in 1..Thresholds /\ p[2] \in Capture /\ p = <<p[1], p[2]>>
  BY DEF Pair
<1>4. CASE Summarise
  BY <1>1, <1>4 DEF Summarise, sims, sums, SweepInv, CountedAsKept, SweptOutputs, Swept,
                    LoopsEnded, LoopEnded, OldOnlyWhereNotRun
<1>5. CASE WriteResults
  BY <1>1, <1>5 DEF WriteResults, sims, sums, SweepInv, CountedAsKept, SweptOutputs, Swept,
                    LoopsEnded, LoopEnded, OldOnlyWhereNotRun
\* While the loops run nothing is counted.
<1>6. ASSUME phase = "simulate", UNCHANGED <<phase, skip, counted>>, SweptOutputs'
      PROVE  SweepInv'
  <2>1. \A f \in Feature : DOMAIN counted'[f] = {}
    BY <1>1, <1>6 DEF Threads
  <2>2. QED
    BY <1>1, <1>6, <2>1 DEF SweepInv, CountedAsKept, LoopsEnded, OldOnlyWhereNotRun
<1>7. ASSUME NEW f \in Feature, Launch(f) PROVE SweepInv'
  <2>1. /\ phase = "simulate" /\ running'[f] = Capture
        /\ \A g \in Feature : g # f => batch'[g] = batch[g] /\ running'[g] = running[g]
        /\ UNCHANGED <<phase, skip, counted, next, output, broken>>
    BY <1>1, <1>7 DEF Launch, sums, TypeOK
  <2>2. SweptOutputs'
    BY <1>1, <1>3, <2>1 DEF SweptOutputs, Swept
  <2>3. QED
    BY <1>6, <2>1, <2>2
<1>8. ASSUME NEW f \in Feature, Make(f) PROVE SweepInv'
  <2>1. /\ phase = "simulate" /\ running[f] = {} /\ batch'[f] # "started"
        /\ next'[f] = next[f] + 1
        /\ \A g \in Feature : g # f => batch'[g] = batch[g] /\ next'[g] = next[g]
        /\ UNCHANGED <<phase, skip, counted, running, output, broken>>
    BY <1>1, <1>8 DEF Make, sums, TypeOK, Threads
  <2>2. \/ batch[f] = "started" \/ (batch[f] = "none" /\ next[f] = 1)
    BY <1>1, <1>8 DEF Make, Threads
  <2>3. ASSUME NEW g \in Feature, NEW p \in Pair, Swept(g, p)' PROVE Swept(g, p)
    <3>1. CASE g = f
      <4>1. p[1] < next[f] /\ p[1] >= 1
        BY <1>2, <1>3, <2>1, <2>3, <3>1 DEF Swept
      <4>2. batch[f] = "started"
        BY <1>3, <2>2, <4>1
      <4>3. p[1] < next[f] - 1 \/ p[1] = next[f] - 1
        BY <1>2, <1>3, <4>1
      <4>4. QED
        BY <2>1, <3>1, <4>2, <4>3 DEF Swept
    <3>2. CASE g # f
      BY <2>1, <2>3, <3>2 DEF Swept
    <3>3. QED
      BY <3>1, <3>2
  <2>4. SweptOutputs'
    BY <1>1, <2>1, <2>3 DEF SweptOutputs
  <2>5. QED
    BY <1>6, <2>1, <2>4
<1>9. ASSUME NEW f \in Feature, NEW c \in Capture, Score(f, c) \/ Raise(f, c)
      PROVE  SweepInv'
  <2> DEFINE ended == <<next[f] - 1, c>>
  <2>1. /\ phase = "simulate" /\ running' = [running EXCEPT ![f] = @ \ {c}]
        /\ UNCHANGED <<phase, skip, counted, next, batch>>
    BY <1>1, <1>9 DEF Score, Raise, sums, Threads
  <2>2. ASSUME NEW g \in Feature, NEW p \in Pair
        PROVE  /\ output[g][p] = "this" \/ p \in broken[g] =>
                    output'[g][p] = "this" \/ p \in broken'[g]
               /\ g = f /\ p = ended => output'[g][p] = "this" \/ p \in broken'[g]
    <3>1. CASE Score(f, c)
      BY <1>1, <3>1 DEF Score, TypeOK
    <3>2. CASE Raise(f, c)
      BY <1>1, <3>2 DEF Raise, TypeOK
    <3>3. QED
      BY <1>9, <3>1, <3>2
  <2>3. ASSUME NEW g \in Feature, NEW p \in Pair, Swept(g, p)'
        PROVE  Swept(g, p) \/ (g = f /\ p = ended)
    <3>1. CASE g = f /\ p[1] = next[f] - 1 /\ p[2] = c
      BY <1>3, <3>1
    <3>2. CASE ~(g = f /\ p[1] = next[f] - 1 /\ p[2] = c)
      BY <1>1, <2>1, <2>3, <3>2 DEF Swept, TypeOK
    <3>3. QED
      BY <3>1, <3>2
  <2>4. SweptOutputs'
    BY <1>1, <2>1, <2>2, <2>3 DEF SweptOutputs
  <2>5. QED
    BY <1>6, <2>1, <2>4
<1>10. ASSUME NEW f \in Feature, Read(f) \/ RunInLine(f) PROVE SweepInv'
  <2>1. /\ At(f) \in Pair /\ phase = "summarise"
        /\ UNCHANGED <<skip, phase, next, batch, running, broken>>
    BY <1>10 DEF Read, RunInLine, Summarising, sims
  <2>2. PICK one \in {"earlier", "this"} :
          /\ counted' = [counted EXCEPT ![f] = Append(@, one)]
          /\ output'[f][At(f)] = one
          /\ one = "earlier" => output[f][At(f)] = "earlier"
    BY <1>1, <1>10, <2>1 DEF Read, RunInLine, TypeOK
  <2>3. /\ \A g \in Feature : g # f => counted'[g] = counted[g]
        /\ \A k \in DOMAIN counted'[f] :
             \/ k \in DOMAIN counted[f] /\ counted'[f][k] = counted[f][k]
             \/ PairOf(k) = At(f) /\ counted'[f][k] = one
    BY <1>1, <2>2, CountOne
  <2>4. \A g \in Feature : \A p \in Pair :
          output[g][p] # "none" => output'[g][p] = output[g][p]
    <3>1. CASE Read(f)
      BY <3>1 DEF Read
    <3>2. CASE RunInLine(f)
      BY <1>1, <2>1, <3>2, WriteOne DEF RunInLine
    <3>3. QED
      BY <1>10, <3>1, <3>2
  <2>5. \A g \in Feature : \A k \in DOMAIN counted[g] :
          /\ PairOf(k) \in Pair /\ counted[g][k] = output[g][PairOf(k)]
          /\ counted[g][k] # "none"
    <3>1. \A g \in Feature : counted[g] \in Seq({"earlier", "this"})
      BY <1>1 DEF TypeOK
    <3>2. \A g \in Feature : \A k \in DOMAIN counted[g] : counted[g][k] \in {"earlier", "this"}
      BY <3>1
    <3>3. QED
      BY <1>1, <3>2 DEF CountedPairs, CountedAsKept
  <2>6. CountedAsKept'
    <3> SUFFICES ASSUME NEW g \in Feature, NEW k \in DOMAIN counted'[g]
                 PROVE  counted'[g][k] = output'[g][PairOf(k)]
      BY DEF CountedAsKept, PairOf
    <3>1. CASE k \in DOMAIN counted[g] /\ counted'[g][k] = counted[g][k]
      BY <2>4, <2>5, <3>1
    <3>2. CASE g = f /\ PairOf(k) = At(f) /\ counted'[g][k] = one
      BY <2>2, <3>2
    <3>3. QED
      BY <2>3, <3>1, <3>2
  <2>7. OldOnlyWhereNotRun'
    <3> SUFFICES ASSUME NEW g \in Feature, NEW k \in DOMAIN counted'[g],
                        counted'[g][k] = "earlier"
                 PROVE  \/ skip
                        \/ PairOf(k) \in broken[g]
                        \/ batch[g] = "raised" /\ PairOf(k)[1] >= next[g] - 1
                        \/ PairOf(k)[1] = Thresholds
      BY <2>1 DEF OldOnlyWhereNotRun, PairOf
    <3>1. CASE k \in DOMAIN counted[g] /\ counted'[g][k] = counted[g][k]
      BY <1>1, <3>1 DEF OldOnlyWhereNotRun
    <3>2. CASE g = f /\ PairOf(k) = At(f) /\ counted'[g][k] = one
      BY <1>1, <2>1, <2>2, <3>2, OldIsNotRun
    <3>3. QED
      BY <2>3, <3>1, <3>2
  <2>8. SweptOutputs'
    <3> SUFFICES ASSUME NEW g \in Feature, NEW p \in Pair, ~skip, Swept(g, p)
                 PROVE  output'[g][p] = "this" \/ p \in broken[g]
      BY <2>1 DEF SweptOutputs, Swept
    <3>1. output[g][p] = "this" \/ p \in broken[g]
      BY <1>1 DEF SweptOutputs
    <3>2. QED
      BY <2>4, <3>1
  <2>9. LoopsEnded'
    BY <1>1, <2>1 DEF LoopsEnded, LoopEnded
  <2>10. QED
    BY <1>1, <2>6, <2>7, <2>8, <2>9 DEF SweepInv
<1>11. ASSUME NEW f \in Feature, RunInLineRaises(f) \/ Sum(f) PROVE SweepInv'
  BY <1>1, <1>11 DEF RunInLineRaises, Sum, sims, SweepInv, CountedAsKept, SweptOutputs, Swept,
                     LoopsEnded, LoopEnded, OldOnlyWhereNotRun
<1>12. CASE UNCHANGED vars
  BY <1>1, <1>12 DEF vars, sims, sums, SweepInv, CountedAsKept, SweptOutputs, Swept,
                     LoopsEnded, LoopEnded, OldOnlyWhereNotRun, PairOf, Pair
<1>13. QED
  BY <1>4, <1>5, <1>7, <1>8, <1>9, <1>10, <1>11, <1>12 DEF Next, Worker

\* Nothing writes an output after a summary has counted it or found it missing.
THEOREM CountsAreKept == Spec => []CountedAsKept
<1>1. SweepInv => CountedAsKept
  BY DEF SweepInv
<1>2. QED
  BY <1>1, SweepInit, SweepNext, PTL DEF Spec

\* A sweep counts an earlier one's outputs at its last threshold, and elsewhere only
\* where its own simulator or feature thread raised.
THEOREM OldIsCountedWhereNotRun == Spec => []OldOnlyWhereNotRun
<1>1. SweepInv => OldOnlyWhereNotRun
  BY DEF SweepInv
<1>2. QED
  BY <1>1, SweepInit, SweepNext, PTL DEF Spec
=============================================================================
