---------------------------- MODULE MCConfigEdit ----------------------------
(* ConfigEdit on small instances. *)
EXTENDS ConfigEdit, TLC

Symmetry == Permutations(Writers) \cup Permutations(Names)
=============================================================================
