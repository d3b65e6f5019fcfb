--------------------------- MODULE MCTelegramPoll ---------------------------
(* TelegramPoll on small instances. *)
EXTENDS TelegramPoll
=============================================================================
