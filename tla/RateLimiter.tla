----------------------------- MODULE RateLimiter -----------------------------
(***************************************************************************)
(* core/ratelimit.py: the in-memory limiter of the login and CoA endpoints.*)
(*                                                                         *)
(* A key's deque is kept here as the part of its log from first[k] on:     *)
(* popleft moves first[k], append extends the log, and a key whose part is *)
(* empty is one the dictionary does not hold.  The log itself is history.  *)
(* The limiter is called from one event loop and guarded by its lock, so a *)
(* call is one step.                                                       *)
(***************************************************************************)
EXTENDS Integers, Sequences

CONSTANTS Key,      \* remote addresses, address and account, totp:{id}
          Limit, Window,
          MaxTime   \* bound on the clock

ASSUME LimitAssumption == Limit \in Nat \ {0} /\ Window \in Nat \ {0}
ASSUME TimeAssumption  == MaxTime \in Nat

VARIABLES
  now,        \* time.monotonic()
  log,        \* times of the attempts let through since the key's last reset
  first,      \* index of the oldest one still in the deque
  lastSweep,  \* _last_sweep
  checked,    \* time of the last check
  verdict     \* what it told the caller

vars == <<now, log, first, lastSweep, checked, verdict>>

Tracked(k) == first[k] <= Len(log[k])

Init ==
  /\ now = 0 /\ lastSweep = 0 /\ checked = 0
  /\ log   = [k \in Key |-> <<>>]
  /\ first = [k \in Key |-> 1]
  /\ verdict = "none"

Advance ==
  /\ \E t \in 0..MaxTime : t > now /\ now' = t
  /\ UNCHANGED <<log, first, lastSweep, checked, verdict>>

\* Mutant of Expired: >= for >.
ExpiredAtWindow(t) == now - t >= Window

Expired(t) == now - t > Window

\* f is where the deque of k starts once the expired times are popped from its left.
Popped(k, f) ==
  /\ f \in first[k]..(Len(log[k]) + 1)
  /\ \A i \in first[k]..(f - 1) : Expired(log[k][i])
  /\ f <= Len(log[k]) => ~Expired(log[k][f])

FirstFresh(k) == CHOOSE f \in first[k]..(Len(log[k]) + 1) : Popped(k, f)

\* Mutant of SweepDue: keys are never swept.
SweepNever == FALSE

\* _sweep, called by every check: at most once per window, over all keys.
SweepDue == now - lastSweep >= Window

\* Mutant of Check: counts before the expired times are popped.
CheckBeforePopping(k) ==
  /\ first' = [j \in Key |-> IF SweepDue \/ j = k THEN FirstFresh(j) ELSE first[j]]
  /\ lastSweep' = IF SweepDue THEN now ELSE lastSweep
  /\ IF Len(log[k]) - first[k] + 1 >= Limit
     THEN UNCHANGED log /\ verdict' = "refused"
     ELSE log' = [log EXCEPT ![k] = Append(@, now)] /\ verdict' = "passed"
  /\ checked' = now
  /\ UNCHANGED now

(* check(key): sweep, pop, then refuse or append.                           *)
Check(k) ==
  /\ first' = [j \in Key |-> IF SweepDue \/ j = k THEN FirstFresh(j) ELSE first[j]]
  /\ lastSweep' = IF SweepDue THEN now ELSE lastSweep
  /\ IF Len(log[k]) - first'[k] + 1 >= Limit
     THEN UNCHANGED log /\ verdict' = "refused"
     ELSE log' = [log EXCEPT ![k] = Append(@, now)] /\ verdict' = "passed"
  /\ checked' = now
  /\ UNCHANGED now

Forget(K) ==
  /\ log'   = [k \in Key |-> IF k \in K THEN <<>> ELSE log[k]]
  /\ first' = [k \in Key |-> IF k \in K THEN 1 ELSE first[k]]
  /\ UNCHANGED <<now, lastSweep, checked, verdict>>

\* reset(key) after a complete login; clear() forgets all keys.
Reset(k) == Forget({k})
Clear    == Forget(Key)

Next == Advance \/ (\E k \in Key : Check(k) \/ Reset(k)) \/ Clear

Spec == Init /\ [][Next]_vars

-----------------------------------------------------------------------------
(* Types; first points into the log or just behind it.                      *)
TypeOK ==
  /\ now \in Nat /\ lastSweep \in Nat /\ checked \in Nat
  /\ log \in [Key -> Seq(Nat)]
  /\ first \in [Key -> Nat]
  /\ \A k \in Key : first[k] \in 1..(Len(log[k]) + 1)
  /\ verdict \in {"none", "passed", "refused"}

(* No window, closed at both ends, ever holds more than Limit attempts let  *)
(* through, although expired times leave the deques at the oddest moments.  *)
WindowBound ==
  \A k \in Key : \A i \in DOMAIN log[k] :
    i + Limit \in DOMAIN log[k] => log[k][i + Limit] - log[k][i] > Window

(* The dictionary does not grow for ever: after a check no key is left      *)
(* whose last attempt is two windows old ("ohne Aufraeumen wuechse der      *)
(* Speicher durch unangemeldete Anfragen unbegrenzt").                      *)
KeysForgotten ==
  \A k \in Key : Tracked(k) => checked - log[k][Len(log[k])] < 2 * Window

(* The deques that are popped lazily and swept now and then decide as a     *)
(* count over the whole history would.                                      *)
Promise == INSTANCE SlidingWindow WITH
  Key <- Key, Limit <- Limit, Window <- Window,
  now <- now, log <- log, verdict <- verdict
DecidesAsPromised == Promise!Spec

-----------------------------------------------------------------------------
(* The parts of the inductive invariant.                                    *)

\* Times are appended in order.
LogInOrder ==
  \A k \in Key : \A i \in 1..Len(log[k]) :
    log[k][i] <= now /\ \A j \in 1..i : log[k][j] <= log[k][i]

\* What has left a deque has expired, and stays expired.
DroppedExpired == \A k \in Key : \A i \in 1..(first[k] - 1) : Expired(log[k][i])

\* The clocks of the bookkeeping, and what the last sweep has left behind.
SweptRecently ==
  /\ lastSweep <= checked /\ checked <= now /\ checked - lastSweep < Window
  /\ \A k \in Key : Tracked(k) => lastSweep - log[k][Len(log[k])] <= Window

IInv == TypeOK /\ LogInOrder /\ DroppedExpired /\ WindowBound /\ SweptRecently

=============================================================================
