----------------------------- MODULE MCDirectory -----------------------------
(* Directory for TLC.                                                       *)
EXTENDS Directory, TLC

\* Clear one collection, fill one, clear both, leave both.
MCEdits ==
  {[t \in Table |-> IF t = "check" THEN "none" ELSE "keep"],
   [t \in Table |-> IF t = "check" THEN "keep" ELSE "some"],
   [t \in Table |-> "none"],
   [t \in Table |-> "keep"]}

Symmetry == Permutations(Proc) \cup Permutations(User) \cup Permutations(Group)
=============================================================================
