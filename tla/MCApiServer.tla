---------------------------- MODULE MCApiServer ----------------------------
(***************************************************************************)
(* Instances of ApiServer for TLC: the constants are given values by the   *)
(* MCApiServer_*.cfg files; names, specs and statuses are interchangeable. *)
(***************************************************************************)
EXTENDS ApiServer, TLC

Symmetry == Permutations(Names) \cup Permutations(Specs)
            \cup Permutations(Statuses) \cup Permutations(Loops)

=============================================================================
