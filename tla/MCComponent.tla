----------------------------- MODULE MCComponent -----------------------------
(* Instances of the component controller for TLC. *)
EXTENDS Component, TLC

CONSTANTS i1, i2, a, b
=============================================================================
