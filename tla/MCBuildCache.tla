---------------------------- MODULE MCBuildCache ----------------------------
(***************************************************************************)
(* Instances of BuildCache without uploads: the objects are the keys under *)
(* which builders may publish.                                             *)
(***************************************************************************)
EXTENDS BuildCache, TLC

Symmetry == Permutations(Object) \cup Permutations(Task) \cup Permutations(Worker)
=============================================================================
