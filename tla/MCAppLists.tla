----------------------------- MODULE MCAppLists -----------------------------
(* Instances of the lists of applications for TLC. *)
EXTENDS AppLists

CONSTANTS a, v1

\* Two UIs, the name of one beginning that of the other.
TwoUIs == {<<"shell">>, <<"shell", "-ui">>}
=============================================================================
