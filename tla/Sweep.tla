-------------------------------- MODULE Sweep -------------------------------
(***************************************************************************)
(* NSimulator: one thread per feature runs every capture under every       *)
(* threshold of the feature's range, a batch of simulator threads a        *)
(* threshold, each leaving an output file; then one thread per feature     *)
(* reads them all, runs in line the ones that are missing, and the results *)
(* are written feature by feature.                                         *)
(*                                                                         *)
(* One run of SNPSimulator (module Simulator) is a step here: it ends with *)
(* its output written, or raises before that.                              *)
(***************************************************************************)
EXTENDS Metrics, Sequences

CONSTANTS
  Features,    \* how many features, in the order the results are written
  Thresholds,  \* how many thresholds each feature's range has
  Captures     \* how many captures, in file name order

ASSUME SweepAssumption ==
  /\ Features \in Nat \ {0} /\ Thresholds \in Nat \ {0} /\ Captures \in Nat \ {0}

Feature == 1..Features
Capture == 1..Captures
Pair    == (1..Thresholds) \X Capture

VARIABLES
  skip,     \* --skip-simulation
  phase,    \* "simulate", "summarise", "end" or "failed"
  next,     \* the threshold each feature thread's loop comes to next
  batch,    \* where its simulators of threshold next - 1 are: "none", "made",
            \* "started", or "raised" when the feature thread has died
  running,  \* the captures whose simulator threads have not ended
  output,   \* per pair: "none", "earlier" (an earlier sweep's) or "this"
  broken,   \* the pairs whose simulator thread raised
  counted,  \* what _get_summary read, pair by pair: "earlier" or "this"
  summary,  \* where each summary thread is: "reading", "ended" or "raised"
  written   \* the features whose results_<feature>.csv was written

sims == <<next, batch, running, broken>>
sums == <<counted, summary>>
vars == <<skip, phase, sims, output, sums, written>>

\* An earlier sweep into the same directories covered some of the thresholds.
Init ==
  /\ skip \in BOOLEAN
  /\ phase = IF skip THEN "summarise" ELSE "simulate"
  /\ next = [f \in Feature |-> 1]
  /\ batch = [f \in Feature |-> "none"]
  /\ running = [f \in Feature |-> {}]
  /\ broken = [f \in Feature |-> {}]
  /\ \E covered \in [Feature -> SUBSET (1..Thresholds)] :
       output = [f \in Feature |->
                   [p \in Pair |-> IF p[1] \in covered[f] THEN "earlier" ELSE "none"]]
  /\ counted = [f \in Feature |-> <<>>]
  /\ summary = [f \in Feature |-> "reading"]
  /\ written = {}

-----------------------------------------------------------------------------
(* _simulate_feature, and the simulator threads it starts.                 *)

\* A turn of the loop starts the batch the turn before it made ...
Launch(f) ==
  /\ phase = "simulate" /\ next[f] <= Thresholds
  /\ batch[f] = "made"
  /\ batch' = [batch EXCEPT ![f] = "started"]
  /\ running' = [running EXCEPT ![f] = Capture]
  /\ UNCHANGED <<skip, phase, next, broken, output, sums, written>>

\* ... joins it, and makes the batch of its own threshold.
Make(f) ==
  /\ phase = "simulate" /\ next[f] <= Thresholds
  /\ batch[f] = "none" \/ (batch[f] = "started" /\ running[f] = {})
  /\ next' = [next EXCEPT ![f] = @ + 1]
  /\ \/ batch' = [batch EXCEPT ![f] = "made"]
     \/ batch' = [batch EXCEPT ![f] = "raised"]  \* a capture cannot be read
  /\ UNCHANGED <<skip, phase, running, broken, output, sums, written>>

Score(f, c) ==
  /\ phase # "failed" /\ c \in running[f]
  /\ running' = [running EXCEPT ![f] = @ \ {c}]
  /\ output' = [output EXCEPT ![f][<<next[f] - 1, c>>] = "this"]
  /\ UNCHANGED <<skip, phase, next, batch, broken, sums, written>>

Raise(f, c) ==
  /\ phase # "failed" /\ c \in running[f]
  /\ running' = [running EXCEPT ![f] = @ \ {c}]
  /\ broken' = [broken EXCEPT ![f] = @ \cup {<<next[f] - 1, c>>}]
  /\ UNCHANGED <<skip, phase, next, batch, output, sums, written>>

\* Mutant: the last turn of the loop is not waited for.
LoopEndedEarly(f) == next[f] >= Thresholds

LoopEnded(f) == next[f] > Thresholds \/ batch[f] = "raised"

\* start joins the three feature threads.
Summarise ==
  /\ phase = "simulate"
  /\ \A f \in Feature : LoopEnded(f)
  /\ phase' = "summarise"
  /\ UNCHANGED <<skip, sims, output, sums, written>>

-----------------------------------------------------------------------------
(* _get_summary: threshold by threshold, capture by capture.               *)

At(f) == <<(Len(counted[f]) \div Captures) + 1, (Len(counted[f]) % Captures) + 1>>

Summarising(f) ==
  phase = "summarise" /\ summary[f] = "reading" /\ At(f) \in Pair

Read(f) ==
  /\ Summarising(f) /\ output[f][At(f)] # "none"
  /\ counted' = [counted EXCEPT ![f] = Append(@, output[f][At(f)])]
  /\ UNCHANGED <<skip, phase, sims, output, summary, written>>

\* Mutant: a missing output is counted as it is.
RunInLineNot(f) ==
  /\ Summarising(f) /\ output[f][At(f)] = "none"
  /\ counted' = [counted EXCEPT ![f] = Append(@, output[f][At(f)])]
  /\ UNCHANGED <<skip, phase, sims, output, summary, written>>

\* A missing output: the pair is run in line and its output counted.
RunInLine(f) ==
  /\ Summarising(f) /\ output[f][At(f)] = "none"
  /\ output' = [output EXCEPT ![f][At(f)] = "this"]
  /\ counted' = [counted EXCEPT ![f] = Append(@, "this")]
  /\ UNCHANGED <<skip, phase, sims, summary, written>>

RunInLineRaises(f) ==
  /\ Summarising(f) /\ output[f][At(f)] = "none"
  /\ summary' = [summary EXCEPT ![f] = "raised"]
  /\ UNCHANGED <<skip, phase, sims, output, counted, written>>

Sum(f) ==
  /\ phase = "summarise" /\ summary[f] = "reading" /\ At(f) \notin Pair
  /\ summary' = [summary EXCEPT ![f] = "ended"]
  /\ UNCHANGED <<skip, phase, sims, output, counted, written>>

\* Mutant: the results wait for a summary of every feature.
WriteResultsOfAll ==
  /\ phase = "summarise"
  /\ \A f \in Feature : summary[f] = "ended"
  /\ written' = Feature
  /\ phase' = "end"
  /\ UNCHANGED <<skip, sims, output, sums>>

\* _make_plots, feature after feature; one with no statistics raises.
WriteResults ==
  /\ phase = "summarise"
  /\ \A f \in Feature : summary[f] # "reading"
  /\ written' = {f \in Feature : \A g \in 1..f : summary[g] = "ended"}
  /\ phase' = IF written' = Feature THEN "end" ELSE "failed"
  /\ UNCHANGED <<skip, sims, output, sums>>

-----------------------------------------------------------------------------

Worker(f) ==
  \/ Launch(f) \/ Make(f)
  \/ \E c \in Capture : Score(f, c) \/ Raise(f, c)
  \/ Read(f) \/ RunInLine(f) \/ RunInLineRaises(f) \/ Sum(f)

Next == Summarise \/ WriteResults \/ \E f \in Feature : Worker(f)

\* Every thread is scheduled, and every run ends, with a result or by raising: a
\* Simulator's does unless a request is never answered (EveryRunEnds).
Spec == Init /\ [][Next]_vars /\ WF_vars(Next)

-----------------------------------------------------------------------------

TypeOK ==
  /\ skip \in BOOLEAN /\ phase \in {"simulate", "summarise", "end", "failed"}
  /\ next \in [Feature -> 1..(Thresholds + 1)]
  /\ batch \in [Feature -> {"none", "made", "started", "raised"}]
  /\ running \in [Feature -> SUBSET Capture]
  /\ broken \in [Feature -> SUBSET Pair]
  /\ output \in [Feature -> [Pair -> {"none", "earlier", "this"}]]
  /\ counted \in [Feature -> Seq({"earlier", "this"})]
  /\ summary \in [Feature -> {"reading", "ended", "raised"}]
  /\ written \subseteq Feature

\* The pair of the k-th output counted.
PairOf(k) == <<((k - 1) \div Captures) + 1, ((k - 1) % Captures) + 1>>

\* What a summary has counted is what the directory holds and goes on holding:
\* no simulator is still to write an output that was counted or found missing.
CountedAsKept ==
  \A f \in Feature : \A k \in DOMAIN counted[f] : counted[f][k] = output[f][PairOf(k)]

\* Unless the sweep is skipped, an earlier sweep's output is counted only where
\* this one raised, or at the last threshold, whose batch is never started.
OldOnlyWhereNotRun ==
  \A f \in Feature : \A k \in DOMAIN counted[f] :
    counted[f][k] = "earlier" =>
      \/ skip
      \/ PairOf(k) \in broken[f]
      \/ batch[f] = "raised" /\ PairOf(k)[1] >= next[f] - 1
      \/ PairOf(k)[1] = Thresholds

\* The sweep ends, with results that sum up every capture at every threshold of
\* every feature, or with an exception.
SweepEnds ==
  <>(\/ phase = "end" /\ \A f \in Feature : Len(counted[f]) = Cardinality(Pair)
     \/ phase = "failed")

\* n_simulator.py, _simulate_feature: "sweep one feature's threshold over every
\* capture, writing each run's outputs under name/<threshold>/".
WholeRangeSwept ==
  phase = "summarise" /\ ~skip =>
    \A f \in Feature :
      batch[f] # "raised" /\ counted[f] = <<>> =>
        \A p \in Pair : p \in broken[f] \/ output[f][p] = "this"
=============================================================================
