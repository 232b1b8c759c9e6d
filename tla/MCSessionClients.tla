--------------------------- MODULE MCSessionClients ---------------------------
(* One session, three pairs of closures for the decoder, frames of two     *)
(* lengths besides the empty one.                                          *)
EXTENDS SessionClients
=============================================================================
