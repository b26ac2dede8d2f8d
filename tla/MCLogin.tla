------------------------------- MODULE MCLogin -------------------------------
(* LoginSessions for TLC.                                                   *)
EXTENDS LoginSessions, TLC

MCPassword == {"login", "totp", "revoke", "password", "change"}
MCFactor   == {"login", "totp", "enroll", "confirm", "own", "reset"}

Symmetry == Permutations(Proc)
=============================================================================
