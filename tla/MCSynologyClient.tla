-------------------------- MODULE MCSynologyClient --------------------------
(* SynologyClient on small instances. *)
EXTENDS SynologyClient
=============================================================================
