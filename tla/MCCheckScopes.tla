---------------------------- MODULE MCCheckScopes ----------------------------
(***************************************************************************)
(* Instances of CheckScopes for TLC.                                       *)
(***************************************************************************)
EXTENDS CheckScopes, TLC, FiniteSets

Symmetry == Permutations(Sym) \cup Permutations(Id)
=============================================================================
