------------------------------ MODULE MCExposer ------------------------------
(* Instances of the exposer controller for TLC. *)
EXTENDS Exposer, TLC

CONSTANTS e1, e2, c1, c2, v1, v2, r1, r2

\* A runtime configuration that is made of the exposer's settings only, ...
SettingsOnly == [p \in Values \X (Routes \cup {None}) |-> p[1]]

\* ... and one that depends on the authentication of the UI, say, besides.
Rendered == [p \in Values \X (Routes \cup {None}) |-> IF p[2] = r2 THEN v2 ELSE p[1]]
=============================================================================
