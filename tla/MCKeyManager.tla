---------------------------- MODULE MCKeyManager ----------------------------
(* KeyManager on small instances. *)
EXTENDS KeyManager, TLC

Symmetry == Permutations(Keys) \cup Permutations(Loaders) \cup Permutations(Holders)
=============================================================================
