----------------------------- MODULE MCCoreUpdate -----------------------------
(* CoreUpdate on small instances, given by the .cfg files. *)
EXTENDS CoreUpdateProps, TLC

Symmetry == Permutations(Apps)

=============================================================================
