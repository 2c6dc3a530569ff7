----------------------------- MODULE RatioBase ------------------------------
(***************************************************************************)
(* SNPSimulator._compute_ratio_base: the denominator the ratio in percent  *)
(* is given, which the builder turns into the detector's weights.  Its     *)
(* docstring calls it the "smallest power of ten strictly greater than"    *)
(* the ratio; it is, but for the ratios below ten, that get 100 too, and   *)
(* for 0, whose loop is not entered.  For a negative ratio it never ends.  *)
(***************************************************************************)
EXTENDS Naturals

\* The loop, from its first base on.
Widened(ratio) ==
  LET from[power \in Nat] == IF ratio % power = ratio THEN power ELSE from[10 * power]
  IN  from[100]

compute_ratio_base(ratio) == IF ratio = 0 THEN 10 ELSE Widened(ratio)

\* Against the definition, over the ratios of one to three digits and a half.
Powers == {10, 100, 1000, 10000}

ASSUME RatioBaseIsNextPower ==
  \A ratio \in 0 .. 2000 :
    LET found == compute_ratio_base(ratio)
    IN  /\ found \in Powers /\ found > ratio
        /\ ratio >= 10 => \A power \in Powers : power > ratio => found <= power
        /\ ratio \in 1 .. 9 => found = 100
=============================================================================
