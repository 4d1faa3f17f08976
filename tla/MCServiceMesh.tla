---------------------------- MODULE MCServiceMesh ----------------------------
(* Instances of ServiceMesh for TLC; see the MCServiceMesh_*.cfg files.    *)
EXTENDS ServiceMesh

CONSTANTS p, s, t
MCPods == [c \in Clusters |-> IF c = p THEN 1 ELSE 2]

(* Bound: behaviours are followed through all changes while nothing is     *)
(* disturbed, and through fewer after a first disturbance.                 *)
MCBound ==
  LET kinds == disturbed \ {"repeated"}
  IN  \/ kinds = {}
      \/ Cardinality(kinds) = 1
         /\ changes <= IF kinds \subseteq {"late", "resurrected"} THEN 2 ELSE 1
=============================================================================
