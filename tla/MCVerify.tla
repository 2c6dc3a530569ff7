------------------------------ MODULE MCVerify ------------------------------
(* A scenario that expects nothing, one of two windows that has an older    *)
(* capture too, one without a capture, one that expects what an earlier one *)
(* found, one that expects the alarm.                                       *)
EXTENDS Verify, TLC

CONSTANTS w1, w2, w3, w4, w5, w6

MCScenarios ==
  <<[expected |-> {}, captures |-> <<{w1}>>],
    [expected |-> {"ratio"}, captures |-> <<{w6}, {w2, w3}>>],
    [expected |-> {"ratio"}, captures |-> <<>>],
    [expected |-> {"ratio"}, captures |-> <<{w4}>>],
    [expected |-> {"rate", "ratio"}, captures |-> <<{w5}>>]>>

\* The other engine is an old one, which knows nothing but the ratio.
MCMarks ==
  "engine" :> (w1 :> {} @@ w2 :> {"ratio"} @@ w3 :> {} @@ w4 :> {"ratio"}
               @@ w5 :> {"rate", "ratio", "alarm"} @@ w6 :> {"rate"})
  @@ "other" :> (w1 :> {"ratio"} @@ w2 :> {"ratio"} @@ w3 :> {} @@ w4 :> {"ratio"}
                 @@ w5 :> {"ratio"} @@ w6 :> {})
=============================================================================
