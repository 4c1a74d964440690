----------------------------- MODULE MCScalityUI -----------------------------
(* Instances of the ScalityUI controller for TLC. *)
EXTENDS ScalityUI, TLC

CONSTANTS a, b, v1, v2, x, y

TwoComponents == Permutations({a, b})
=============================================================================
