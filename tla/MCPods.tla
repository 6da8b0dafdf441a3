------------------------------- MODULE MCPods -------------------------------
(* A Pod with two containers, whose states change independently.           *)
EXTENDS PodWatcher

CONSTANTS p1, a, b

ThePodOf == [c \in Containers |-> p1]
=============================================================================
