--------------------------- MODULE MCTelegramPoster ---------------------------
(* Finite instances of TelegramPoster.                                     *)
EXTENDS TelegramPoster

=============================================================================
