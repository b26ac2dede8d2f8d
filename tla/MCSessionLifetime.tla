--------------------------- MODULE MCSessionLifetime ---------------------------
(* SessionLifetime for TLC.                                                 *)
EXTENDS SessionLifetime
=============================================================================
