----------------------------- MODULE MCDetector -----------------------------
(***************************************************************************)
(* Detector over every window of up to MaxPackets symbols a source, and    *)
(* the windows of OverLimit more packets than H that only a hand-written   *)
(* encoded file (simulator.py --input-path) can hold.                      *)
(***************************************************************************)
EXTENDS Detector, RatioBase, Websnapse, SequencesExt

CONSTANTS MaxPackets, OverLimit

Closed(symbols) == Append(symbols, 5)

AllStreams ==
  {Closed(w) : w \in UNION {[1..k -> 1..4] : k \in 0..MaxPackets}}
  \cup {Closed([j \in 1..(H + OverLimit) |-> symbol]) : symbol \in {2, 3, 4}}

\* The denominator simulator.py gives the ratio.
BaseOfRatio == compute_ratio_base(ratio)
\* What WebsnapseProofs proves, on this instance and the counts up to its largest.
ASSUME ExportChecked ==
  /\ NoTwoOnOneSpot
  /\ \A id \in BuiltRegular : \A rule \in BuiltRules[id], s \in 0 .. base * H + 2 :
       LET exported == rule_to_websnapse(rule)
       IN  /\ Matches(exported, s) <=> Matches(rule, s)
           /\ Matches(rule, s) => Consumed(exported, s) = Consumed(rule, s)
=============================================================================
