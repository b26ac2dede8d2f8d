------------------------------ MODULE MCAccounts ------------------------------
(* AccountRegistry for TLC.                                                 *)
EXTENDS AccountRegistry, TLC

MCEveryOp  == AllOps
MCUpdates  == {"create", "update", "password", "login"}
MCDeletes  == {"update", "delete"}

Symmetry == Permutations(Proc)
=============================================================================
