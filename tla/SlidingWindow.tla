---------------------------- MODULE SlidingWindow ----------------------------
(***************************************************************************)
(* What a rate limit promises (NFR-1): an attempt is let through exactly   *)
(* when fewer than Limit attempts were let through during the last Window, *)
(* counted per key since the key was last reset.                           *)
(***************************************************************************)
EXTENDS Integers, Sequences, FiniteSets

CONSTANTS Key, Limit, Window  \* Limit and Window are positive

VARIABLES
  now,      \* time.monotonic()
  log,      \* per key: the times of the attempts let through since its reset
  verdict   \* what the last attempt was told

vars == <<now, log, verdict>>

Recent(k) == {i \in DOMAIN log[k] : now - log[k][i] <= Window}

Init ==
  /\ now \in Nat
  /\ log = [k \in Key |-> <<>>]
  /\ verdict = "none"

Advance == now' \in Nat /\ now' > now /\ UNCHANGED <<log, verdict>>

Attempt(k) ==
  /\ IF Cardinality(Recent(k)) < Limit
     THEN log' = [log EXCEPT ![k] = Append(@, now)] /\ verdict' = "passed"
     ELSE UNCHANGED log /\ verdict' = "refused"
  /\ UNCHANGED now

Forget(K) == log' = [k \in Key |-> IF k \in K THEN <<>> ELSE log[k]] /\ UNCHANGED <<now, verdict>>

Next == Advance \/ (\E k \in Key : Attempt(k)) \/ (\E K \in SUBSET Key : Forget(K))

Spec == Init /\ [][Next]_vars

=============================================================================
