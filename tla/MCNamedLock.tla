----------------------------- MODULE MCNamedLock -----------------------------
(* NamedLock for TLC: two spellings of one group and a second group.        *)
EXTENDS NamedLock, TLC

CONSTANTS staff, Staff, guest

MCName == {staff, Staff, guest}
MCFold == staff :> 1 @@ Staff :> 1 @@ guest :> 2

=============================================================================
