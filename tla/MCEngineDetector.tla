-------------------------- MODULE MCEngineDetector --------------------------
(***************************************************************************)
(* EngineDetector over every window of up to MaxPackets packets in all, no *)
(* later source with more of them than an earlier one (the chains are      *)
(* alike), and the window of one source with more ACKs than the limit H.   *)
(***************************************************************************)
EXTENDS EngineDetector, RatioBase

CONSTANT MaxPackets

TooManyACKs == Append([j \in 1..(H + 1) |-> 4], 5)

ShortStreams ==
  {Append(w, 5) : w \in UNION {[1..k -> 1..4] : k \in 0..H}} \cup {TooManyACKs}

Length(req, i) == Len(req[<<"Packets", i>>])

SmallRequests ==
  {req \in [BuiltInputs -> ShortStreams] :
     /\ Length(req, 1) + Length(req, n) <= MaxPackets + 2
     /\ Length(req, n) <= Length(req, 1)}

\* The denominator simulator.py gives the ratio.
BaseOfRatio == compute_ratio_base(ratio)
=============================================================================
