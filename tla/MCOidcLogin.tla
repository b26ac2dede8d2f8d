------------------------------ MODULE MCOidcLogin ------------------------------
(* OidcLogin for TLC.                                                       *)
EXTENDS OidcLogin, TLC

Symmetry == Permutations(Callback) \cup Permutations(Key \ {FirstKey})
=============================================================================
