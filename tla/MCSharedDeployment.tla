-------------------------- MODULE MCSharedDeployment --------------------------
(* Instances of the component and exposer controllers around one Deployment. *)
EXTENDS SharedDeployment, TLC

CONSTANTS c1, e1, v1, i1, i2, a

AllServeA == [i \in {i1, i2} |-> a]
=============================================================================
