----------------------------- MODULE MCLibrary -----------------------------
(* Instances of Library for TLC. *)
EXTENDS Library, TLC

Symmetry == Permutations(Clients) \cup Permutations(Contents) \cup Permutations(Datasets)
=============================================================================
