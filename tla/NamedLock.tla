------------------------------ MODULE NamedLock ------------------------------
(***************************************************************************)
(* The named locks of app/core/locking.py over the two connection pools of *)
(* app/core/db.py.                                                         *)
(*                                                                         *)
(* The RADIUS tables have no unique constraint on user or group names, so  *)
(* every check-then-write of the services runs inside named_lock(): all    *)
(* GET_LOCKs of the block are taken on one connection of the lock pool, in *)
(* sorted order, and the caller's read snapshot (MariaDB, REPEATABLE READ) *)
(* is dropped before the block starts.  A request that waits for its locks *)
(* keeps the query connection of its open transaction.                     *)
(*                                                                         *)
(* Fold maps a name to its lock key: spellings the database compares as    *)
(* equal share one key.  Keys are natural numbers, their order is the      *)
(* order in which the code sorts them.                                     *)
(***************************************************************************)
EXTENDS Integers, FiniteSets

CONSTANTS Proc,        \* requests served concurrently
          Name,        \* names passed to named_lock ("user:x", "group:y")
          Fold,        \* Name -> key, the lock key of a name
          KeyMax,      \* the largest key: keys have at most 64 characters
          NoProc,      \* owner of a free key
          LockPool,    \* connections of the lock pool (size + overflow)
          QueryPool    \* connections of the query pool (size + overflow)

ASSUME ProcAssumption   == IsFiniteSet(Proc)
ASSUME FoldAssumption   == KeyMax \in Nat /\ Fold \in [Name -> 0..KeyMax]
ASSUME NoProcAssumption == NoProc \notin Proc
ASSUME PoolAssumption   == LockPool \in Nat \ {0} /\ QueryPool \in Nat \ {0}

Key == {Fold[n] : n \in Name}

VARIABLES
  pc,      \* where the request stands, see States
  want,    \* the keys of the block it entered or asks for
  owner,   \* MariaDB's table of GET_LOCK locks
  tx,      \* the request's session has an open transaction
  missed   \* keys committed by others since the snapshot of that transaction

vars == <<pc, want, owner, tx, missed>>

(* idle: no request; ready: in a request, outside named_lock; connecting:  *)
(* waits for a lock connection; acquiring: in the GET_LOCK loop; body: in  *)
(* the block; leaving, aborting: in the finally of the block without and   *)
(* with an exception; failed: the exception has left named_lock.           *)
States == {"idle", "ready", "connecting", "acquiring", "body",
           "leaving", "aborting", "failed"}

HasLockConn(p) == pc[p] \in {"acquiring", "body", "leaving", "aborting"}
LockConns      == {p \in Proc : HasLockConn(p)}
QueryConns     == {p \in Proc : tx[p]}

Held(p)      == {k \in Key : owner[k] = p}
Remaining(p) == want[p] \ Held(p)

\* The key GET_LOCK is asked for next: the loop runs over sorted(wanted).
IsNextKey(p, k) == k \in Remaining(p) /\ \A j \in Remaining(p) : k <= j

Goto(p, state) == pc' = [pc EXCEPT ![p] = state]

-----------------------------------------------------------------------------
Init ==
  /\ pc     = [p \in Proc |-> "idle"]
  /\ want   = [p \in Proc |-> {}]
  /\ owner  = [k \in Key |-> NoProc]
  /\ tx     = [p \in Proc |-> FALSE]
  /\ missed = [p \in Proc |-> {}]

\* get_session: one session per request, no transaction yet.
Begin(p) ==
  /\ pc[p] = "idle"
  /\ Goto(p, "ready")
  /\ UNCHANGED <<want, owner, tx, missed>>

\* The first read of a session begins a transaction: it takes a connection of
\* the query pool and fixes the snapshot.
OpenSnapshot(p) ==
  /\ ~tx[p]
  /\ Cardinality(QueryConns) < QueryPool
  /\ tx' = [tx EXCEPT ![p] = TRUE]
  /\ missed' = [missed EXCEPT ![p] = {}]

\* A read before the lock, at the latest the actor's account (current_principal).
ReadBefore(p) ==
  /\ pc[p] = "ready"
  /\ OpenSnapshot(p)
  /\ UNCHANGED <<pc, want, owner>>

\* named_lock(session, *names): at least one name, equal keys fall together.
Request(p) ==
  /\ pc[p] = "ready"
  /\ \E names \in (SUBSET Name) \ {{}} :
        want' = [want EXCEPT ![p] = {Fold[n] : n \in names}]
  /\ Goto(p, "connecting")
  /\ UNCHANGED <<owner, tx, missed>>

\* Mutant of Connect: the lock pool has no limit.
ConnectBeyondPool(p) ==
  /\ pc[p] = "connecting"
  /\ Goto(p, "acquiring")
  /\ UNCHANGED <<want, owner, tx, missed>>

Connect(p) ==
  /\ pc[p] = "connecting"
  /\ Cardinality(LockConns) < LockPool
  /\ Goto(p, "acquiring")
  /\ UNCHANGED <<want, owner, tx, missed>>

\* The pool's own timeout: connect() raises, no lock was taken.
LockPoolTimeout(p) ==
  /\ pc[p] = "connecting"
  /\ Cardinality(LockConns) >= LockPool
  /\ Goto(p, "failed")
  /\ want' = [want EXCEPT ![p] = {}]
  /\ UNCHANGED <<owner, tx, missed>>

\* Mutant of GetLock: the keys are taken in any order.
GetLockUnsorted(p) ==
  /\ pc[p] = "acquiring"
  /\ \E k \in Remaining(p) :
        /\ owner[k] = NoProc
        /\ owner' = [owner EXCEPT ![k] = p]
  /\ UNCHANGED <<pc, want, tx, missed>>

GetLock(p) ==
  /\ pc[p] = "acquiring"
  /\ \E k \in Key :
        /\ IsNextKey(p, k)
        /\ owner[k] = NoProc
        /\ owner' = [owner EXCEPT ![k] = p]
  /\ UNCHANGED <<pc, want, tx, missed>>

\* Mutant of GetLockTimeout: GET_LOCK has no timeout.
GetLockWaitsForever(p) == p = NoProc /\ UNCHANGED vars

\* GET_LOCK returned 0 after LOCK_TIMEOUT_SECONDS: ConflictError(error.busy).
GetLockTimeout(p) ==
  /\ pc[p] = "acquiring"
  /\ \E k \in Key : IsNextKey(p, k) /\ owner[k] # NoProc
  /\ Goto(p, "aborting")
  /\ UNCHANGED <<want, owner, tx, missed>>

\* Mutant of Enter: the snapshot taken before the wait is kept.
EnterKeepingSnapshot(p) ==
  /\ pc[p] = "acquiring"
  /\ Remaining(p) = {}
  /\ Goto(p, "body")
  /\ UNCHANGED <<want, owner, tx, missed>>

\* All keys held: session.rollback() drops the snapshot taken before the wait
\* and gives the query connection back; then the block starts.
Enter(p) ==
  /\ pc[p] = "acquiring"
  /\ Remaining(p) = {}
  /\ Goto(p, "body")
  /\ tx' = [tx EXCEPT ![p] = FALSE]
  /\ missed' = [missed EXCEPT ![p] = {}]
  /\ UNCHANGED <<want, owner>>

\* The check inside the block reads with a new snapshot.
ReadInside(p) ==
  /\ pc[p] = "body"
  /\ OpenSnapshot(p)
  /\ UNCHANGED <<pc, want, owner>>

QueryPoolTimeout(p) ==
  /\ pc[p] = "body"
  /\ ~tx[p]
  /\ Cardinality(QueryConns) >= QueryPool
  /\ Goto(p, "aborting")
  /\ UNCHANGED <<want, owner, tx, missed>>

\* The block writes the rows its keys stand for and commits.
Commit(p) ==
  /\ pc[p] = "body"
  /\ tx[p]
  /\ tx' = [tx EXCEPT ![p] = FALSE]
  /\ missed' = [q \in Proc |-> IF q = p THEN {}
                               ELSE IF tx[q] THEN missed[q] \cup want[p]
                               ELSE missed[q]]
  /\ Goto(p, "leaving")
  /\ UNCHANGED <<want, owner>>

\* The block raises (validation, conflict, not found): nothing is written, the
\* transaction stays open until the exception reaches the session's owner.
Raise(p) ==
  /\ pc[p] = "body"
  /\ tx[p]
  /\ Goto(p, "aborting")
  /\ UNCHANGED <<want, owner, tx, missed>>

\* finally: RELEASE_LOCK in the reverse order of acquisition.
ReleaseKey(p) ==
  /\ pc[p] \in {"leaving", "aborting"}
  /\ \E k \in Held(p) :
        /\ \A j \in Held(p) : j <= k
        /\ owner' = [owner EXCEPT ![k] = NoProc]
  /\ UNCHANGED <<pc, want, tx, missed>>

\* Mutant of Return: an exception leaves the locks on the connection.
ReturnOnError(p) ==
  /\ pc[p] \in {"leaving", "aborting"}
  /\ Held(p) = {} \/ pc[p] = "aborting"
  /\ Goto(p, IF pc[p] = "leaving" THEN "ready" ELSE "failed")
  /\ want' = [want EXCEPT ![p] = {}]
  /\ UNCHANGED <<owner, tx, missed>>

\* The lock connection goes back to its pool.
Return(p) ==
  /\ pc[p] \in {"leaving", "aborting"}
  /\ Held(p) = {}
  /\ Goto(p, IF pc[p] = "leaving" THEN "ready" ELSE "failed")
  /\ want' = [want EXCEPT ![p] = {}]
  /\ UNCHANGED <<owner, tx, missed>>

\* The owner of the session (get_session, or the row loop of an import or bulk
\* run) rolls back after an exception.
Rollback(p) ==
  /\ pc[p] = "failed"
  /\ Goto(p, "ready")
  /\ tx' = [tx EXCEPT ![p] = FALSE]
  /\ missed' = [missed EXCEPT ![p] = {}]
  /\ UNCHANGED <<want, owner>>

\* End of the request: the session closes.
Finish(p) ==
  /\ pc[p] = "ready"
  /\ Goto(p, "idle")
  /\ tx' = [tx EXCEPT ![p] = FALSE]
  /\ missed' = [missed EXCEPT ![p] = {}]
  /\ UNCHANGED <<want, owner>>

\* The steps of named_lock and of the block, taken without the client's help.
LockStep(p) ==
  \/ Connect(p) \/ LockPoolTimeout(p)
  \/ GetLock(p) \/ GetLockTimeout(p)
  \/ Enter(p) \/ ReadInside(p) \/ QueryPoolTimeout(p)
  \/ Commit(p) \/ Raise(p)
  \/ ReleaseKey(p) \/ Return(p) \/ Rollback(p)

Next ==
  \E p \in Proc :
    Begin(p) \/ ReadBefore(p) \/ Request(p) \/ LockStep(p) \/ Finish(p)

\* The event loop runs every request on, and every wait (pool, GET_LOCK) ends
\* by its timeout if not by success.  Nothing obliges a client to send requests.
Fairness == \A p \in Proc : WF_vars(LockStep(p))

Spec == Init /\ [][Next]_vars /\ Fairness

-----------------------------------------------------------------------------
(* Types, and the capacities of the two pools.                             *)
TypeOK ==
  /\ pc \in [Proc -> States]
  /\ want \in [Proc -> SUBSET Key]
  /\ owner \in [Key -> Proc \cup {NoProc}]
  /\ tx \in [Proc -> BOOLEAN]
  /\ missed \in [Proc -> SUBSET Key]
  /\ Cardinality(LockConns) <= LockPool
  /\ Cardinality(QueryConns) <= QueryPool

(* The check a block makes is still true when it commits: no key of the     *)
(* block was committed by another request since the snapshot the block      *)
(* reads from.  This is what named_lock is for ("beide Pruefungen gingen    *)
(* durch und beide schrieben"); it needs the exclusion, the abort on a      *)
(* timeout, the rollback on entry and one key for all spellings together.   *)
FreshCheck ==
  \A p \in Proc : pc[p] = "body" /\ tx[p] => missed[p] \cap want[p] = {}

WaitsFor(p, q) ==
  /\ pc[p] = "acquiring"
  /\ \E k \in Remaining(p) : IsNextKey(p, k) /\ owner[k] = q

(* No set of requests waits for locks held inside the set: callers that     *)
(* name the same groups in different orders never block one another until   *)
(* their timeouts ("liefen in eine Verklemmung").                           *)
NoWaitCycle ==
  \A S \in (SUBSET Proc) \ {{}} :
    \E p \in S : \A q \in S : ~WaitsFor(p, q)

(* A key is owned only by a request that still holds its lock connection    *)
(* and will release it: no lock stays behind on a pooled connection ("die   *)
(* Sperre bliebe haengen"), however the block ends.                         *)
NoLeakedLock ==
  \A k \in Key : owner[k] # NoProc =>
    HasLockConn(owner[k]) /\ k \in want[owner[k]]

(* Every request that asks for locks gets out of named_lock again, although *)
(* waiting requests keep query connections that the holder of their locks   *)
(* needs to go on.                                                          *)
EveryBlockEnds ==
  \A p \in Proc : pc[p] = "connecting" ~> pc[p] = "ready"

-----------------------------------------------------------------------------
(* The strengthening that makes the three invariants inductive.            *)

\* The block starts only when the GET_LOCK loop has run to its end.
BlockHoldsKeys == \A p \in Proc : pc[p] = "body" => want[p] \subseteq Held(p)

\* Keys still to come sort after the keys held.
SortedHolding ==
  \A p \in Proc : pc[p] = "acquiring" =>
    \A h \in Held(p), r \in Remaining(p) : h < r

IInv == TypeOK /\ NoLeakedLock /\ BlockHoldsKeys /\ SortedHolding /\ FreshCheck

=============================================================================
