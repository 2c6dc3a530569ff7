----------------------------- MODULE MCSimulator ----------------------------
(***************************************************************************)
(* Simulator over captures of one or two windows of two attackers and a    *)
(* victim (device 3), with an engine that uses small thresholds.           *)
(***************************************************************************)
EXTENDS Simulator

FromAttacker(device, flags, spoofed) ==
  [device |-> device, to_target |-> TRUE, flags |-> flags, spoofed |-> spoofed]
Reply == [device |-> 3, to_target |-> FALSE, flags |-> "other", spoofed |-> FALSE]

mixed ==
  <<FromAttacker(1, "syn", FALSE), Reply, FromAttacker(1, "ack", FALSE),
    FromAttacker(2, "syn", FALSE)>>
spoofed == <<FromAttacker(2, "syn", TRUE), FromAttacker(2, "syn", TRUE)>>

SmallCaptures ==
  {<<mixed>>, <<spoofed>>, <<spoofed, mixed>>, <<mixed, spoofed>>, <<<<>>, spoofed>>}

\* A stand-in for the engine: at least two SYNs, at least two spoofed ones.
SmallDetector(group) ==
  LET Total(symbols) ==
        MapThenSumSet(LAMBDA i : Len(SelectSeq(group[i], LAMBDA s : s \in symbols)),
                      DOMAIN group)
  IN  {f \in {"rate", "pattern"} :
         \/ f = "rate" /\ Total({2, 3}) >= 2
         \/ f = "pattern" /\ Total({2}) >= 2}
=============================================================================
