----------------------------- MODULE MCKMSServer -----------------------------
(* KMSServer on small instances. *)
EXTENDS KMSServer, TLC

Symmetry == Permutations(RPCs) \cup Permutations(Keys)
=============================================================================
