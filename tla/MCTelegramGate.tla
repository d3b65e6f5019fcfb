--------------------------- MODULE MCTelegramGate ---------------------------
(* TelegramGate on small instances. *)
EXTENDS TelegramGate, TLC

Symmetry == Permutations(Devices) \cup Permutations(Callers) \cup Permutations(Requests)
=============================================================================
