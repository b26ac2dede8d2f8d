--------------------------- MODULE NamedLockProofs ---------------------------
(***************************************************************************)
(* What holds of NamedLock for every set of requests, every set of names,  *)
(* every folding of names to keys and every size of the two pools.         *)
(***************************************************************************)
EXTENDS NamedLock, FiniteSetTheorems, WellFoundedInduction, TLAPS

\* Every set of naturals that is not empty has a least element.
LEMMA LeastNatural ==
  ASSUME NEW T \in SUBSET Nat, T # {}
  PROVE  \E n \in T : \A m \in T : n <= m
<1>1. PICK n \in T : \A m \in T : ~ (<<m, n>> \in OpToRel(<, Nat))
  BY NatLessThanWellFounded, WFMin, Zenon
<1>2. \A m \in T : ~ (m < n)
  BY <1>1 DEF OpToRel
<1>3. QED
  BY <1>2

LEMMA KeysAreNaturals == Key \in SUBSET Nat /\ \A k \in Key : k <= KeyMax
  BY FoldAssumption DEF Key

(* Taking one connection of a pool that has a free one keeps within its    *)
(* capacity; giving connections back always does.                          *)
LEMMA PoolGrows ==
  ASSUME NEW S \in SUBSET Proc, NEW T \in SUBSET Proc, NEW p \in Proc,
         NEW limit \in Nat, Cardinality(S) < limit, T \subseteq S \cup {p}
  PROVE  Cardinality(T) <= limit
<1>1. IsFiniteSet(S)
  BY ProcAssumption, FS_Subset
<1>2. Cardinality(S) \in Nat
  BY <1>1, FS_CardinalityType
<1>3. IsFiniteSet(S \cup {p})
  BY <1>1, FS_AddElement
<1>4. Cardinality(S \cup {p}) = IF p \in S THEN Cardinality(S) ELSE Cardinality(S) + 1
  BY <1>1, FS_AddElement
<1>5. Cardinality(T) <= Cardinality(S \cup {p})
  BY <1>3, FS_Subset
<1>6. Cardinality(T) \in Nat
  BY ProcAssumption, FS_Subset, FS_CardinalityType
<1>7. QED
  BY <1>2, <1>4, <1>5, <1>6

LEMMA PoolShrinks ==
  ASSUME NEW S \in SUBSET Proc, NEW T \in SUBSET S,
         NEW limit \in Nat, Cardinality(S) <= limit
  PROVE  Cardinality(T) <= limit
<1>1. IsFiniteSet(S)
  BY ProcAssumption, FS_Subset
<1>2. Cardinality(T) <= Cardinality(S)
  BY <1>1, FS_Subset
<1>3. Cardinality(S) \in Nat /\ Cardinality(T) \in Nat
  BY <1>1, FS_Subset, FS_CardinalityType
<1>4. QED
  BY <1>2, <1>3

-----------------------------------------------------------------------------
(* Type correctness.  Types names the part of TypeOK that is about types,   *)
(* LockPoolOK and QueryPoolOK the capacities.                               *)
Types ==
  /\ pc \in [Proc -> States]
  /\ want \in [Proc -> SUBSET Key]
  /\ owner \in [Key -> Proc \cup {NoProc}]
  /\ tx \in [Proc -> BOOLEAN]
  /\ missed \in [Proc -> SUBSET Key]

LockPoolOK  == Cardinality(LockConns) <= LockPool
QueryPoolOK == Cardinality(QueryConns) <= QueryPool

LEMMA InitTypeOK == Init => TypeOK
<1> SUFFICES ASSUME Init PROVE TypeOK
  OBVIOUS
<1>1. LockConns = {} /\ QueryConns = {}
  BY DEF Init, LockConns, QueryConns, HasLockConn
<1>2. Cardinality(LockConns) = 0 /\ Cardinality(QueryConns) = 0
  BY <1>1, FS_EmptySet
<1>3. Types
  BY DEF Init, Types, States
<1>4. QED
  BY <1>2, <1>3, PoolAssumption DEF TypeOK, Types

LEMMA StepTypes ==
  ASSUME Types, NEW p \in Proc,
         \/ Begin(p) \/ ReadBefore(p) \/ Request(p) \/ LockStep(p) \/ Finish(p)
  PROVE  Types'
<1> USE DEF Types, Goto, States
<1>1. CASE Begin(p)
  BY <1>1 DEF Begin
<1>2. CASE ReadBefore(p)
  BY <1>2 DEF ReadBefore, OpenSnapshot
<1>3. CASE Request(p)
  <2>1. PICK names \in (SUBSET Name) \ {{}} :
          want' = [want EXCEPT ![p] = {Fold[n] : n \in names}]
    BY <1>3 DEF Request
  <2>2. {Fold[n] : n \in names} \in SUBSET Key
    BY DEF Key
  <2>3. QED
    BY <1>3, <2>1, <2>2 DEF Request
<1>4. CASE LockStep(p)
  <2>1. CASE Connect(p) \/ LockPoolTimeout(p)
    BY <2>1 DEF Connect, LockPoolTimeout
  <2>2. CASE GetLock(p) \/ GetLockTimeout(p)
    BY <2>2 DEF GetLock, GetLockTimeout
  <2>3. CASE Enter(p) \/ ReadInside(p) \/ QueryPoolTimeout(p)
    BY <2>3 DEF Enter, ReadInside, OpenSnapshot, QueryPoolTimeout
  <2>4. CASE Commit(p)
    BY <2>4 DEF Commit
  <2>5. CASE Raise(p) \/ Return(p) \/ Rollback(p)
    BY <2>5 DEF Raise, Return, Rollback
  <2>6. CASE ReleaseKey(p)
    BY <2>6 DEF ReleaseKey
  <2>7. QED
    BY <1>4, <2>1, <2>2, <2>3, <2>4, <2>5, <2>6 DEF LockStep
<1>5. CASE Finish(p)
  BY <1>5 DEF Finish
<1>6. QED
  BY <1>1, <1>2, <1>3, <1>4, <1>5

(* A step takes at most one lock connection, and only while one is free.    *)
LEMMA StepLockPool ==
  ASSUME Types, LockPoolOK, NEW p \in Proc,
         \/ Begin(p) \/ ReadBefore(p) \/ Request(p) \/ LockStep(p) \/ Finish(p)
  PROVE  LockPoolOK'
<1> USE DEF Types
<1>0. LockConns \in SUBSET Proc /\ LockConns' \in SUBSET Proc /\ LockPool \in Nat
  BY PoolAssumption DEF LockConns
<1>1. CASE Connect(p)
  <2>1. LockConns' \subseteq LockConns \cup {p}
    BY <1>1 DEF Connect, Goto, LockConns, HasLockConn
  <2>2. Cardinality(LockConns) < LockPool
    BY <1>1 DEF Connect
  <2>3. QED
    BY <1>0, <2>1, <2>2, PoolGrows DEF LockPoolOK
<1>2. CASE ~Connect(p)
  <2>1. LockConns' \in SUBSET LockConns
    BY <1>2 DEF LockConns, HasLockConn, Goto, LockStep, Begin, ReadBefore,
       Request, LockPoolTimeout, GetLock, GetLockTimeout, Enter, ReadInside,
       QueryPoolTimeout, Commit, Raise, ReleaseKey, Return, Rollback, Finish
  <2>2. QED
    BY <1>0, <2>1, PoolShrinks DEF LockPoolOK
<1>3. QED
  BY <1>1, <1>2

(* A transaction takes a query connection only while one is free.           *)
LEMMA StepQueryPool ==
  ASSUME Types, QueryPoolOK, NEW p \in Proc,
         \/ Begin(p) \/ ReadBefore(p) \/ Request(p) \/ LockStep(p) \/ Finish(p)
  PROVE  QueryPoolOK'
<1> USE DEF Types
<1>0. QueryConns \in SUBSET Proc /\ QueryConns' \in SUBSET Proc /\ QueryPool \in Nat
  BY PoolAssumption DEF QueryConns
<1>1. CASE OpenSnapshot(p)
  <2>1. QueryConns' \subseteq QueryConns \cup {p}
    BY <1>1 DEF OpenSnapshot, QueryConns
  <2>2. Cardinality(QueryConns) < QueryPool
    BY <1>1 DEF OpenSnapshot
  <2>3. QED
    BY <1>0, <2>1, <2>2, PoolGrows DEF QueryPoolOK
<1>2. CASE ~OpenSnapshot(p)
  <2>1. QueryConns' \in SUBSET QueryConns
    BY <1>2 DEF QueryConns, LockStep, Begin, ReadBefore,
       Request, Connect, LockPoolTimeout, GetLock, GetLockTimeout, Enter, ReadInside,
       QueryPoolTimeout, Commit, Raise, ReleaseKey, Return, Rollback, Finish
  <2>2. QED
    BY <1>0, <2>1, PoolShrinks DEF QueryPoolOK
<1>3. QED
  BY <1>1, <1>2

LEMMA NextTypeOK == TypeOK /\ [Next]_vars => TypeOK'
<1>1. ASSUME TypeOK, Next PROVE TypeOK'
  <2>1. PICK p \in Proc :
          Begin(p) \/ ReadBefore(p) \/ Request(p) \/ LockStep(p) \/ Finish(p)
    BY <1>1 DEF Next
  <2>2. Types /\ LockPoolOK /\ QueryPoolOK
    BY <1>1 DEF TypeOK, Types, LockPoolOK, QueryPoolOK
  <2>3. Types' /\ LockPoolOK' /\ QueryPoolOK'
    BY <2>1, <2>2, StepTypes, StepLockPool, StepQueryPool
  <2>4. QED
    BY <2>3 DEF TypeOK, Types, LockPoolOK, QueryPoolOK
<1>2. TypeOK /\ UNCHANGED vars => TypeOK'
  BY DEF TypeOK, vars, LockConns, QueryConns, HasLockConn
<1>3. QED
  BY <1>1, <1>2

(* Every variable keeps its type and neither pool ever hands out more       *)
(* connections than it has (db.py, pool_size and max_overflow).             *)
THEOREM TypeCorrect == Spec => []TypeOK
<1>1. QED
  BY InitTypeOK, NextTypeOK, PTL DEF Spec

-----------------------------------------------------------------------------
(* The inductive invariant IInv.  The conjunction of its parts is needed:   *)
(* FreshCheck rests on the exclusion of two blocks, which rests on          *)
(* BlockHoldsKeys, which rests on NoLeakedLock for the owner's state.       *)

AnyStep(p) == Begin(p) \/ ReadBefore(p) \/ Request(p) \/ LockStep(p) \/ Finish(p)

\* Two blocks that share a key never run at the same time.
LEMMA BlocksExclude ==
  ASSUME Types, BlockHoldsKeys, NEW p \in Proc, NEW q \in Proc, p # q,
         pc[p] = "body", pc[q] = "body"
  PROVE  want[p] \cap want[q] = {}
  BY DEF Types, BlockHoldsKeys, Held

LEMMA StepNoLeakedLock ==
  ASSUME Types, Types', NoLeakedLock, NEW p \in Proc, AnyStep(p)
  PROVE  NoLeakedLock'
<1> USE NoProcAssumption DEF Types, Goto, NoLeakedLock, HasLockConn, Held
<1>1. CASE Begin(p) \/ ReadBefore(p) \/ Finish(p)
  BY <1>1 DEF Begin, ReadBefore, Finish
<1>2. CASE Request(p) \/ Connect(p) \/ LockPoolTimeout(p)
  BY <1>2 DEF Request, Connect, LockPoolTimeout
<1>3. CASE GetLock(p) \/ GetLockTimeout(p)
  BY <1>3 DEF GetLock, GetLockTimeout, IsNextKey, Remaining
<1>4. CASE Enter(p) \/ ReadInside(p) \/ QueryPoolTimeout(p) \/ Commit(p) \/ Raise(p)
  BY <1>4 DEF Enter, ReadInside, QueryPoolTimeout, Commit, Raise
<1>5. CASE ReleaseKey(p)
  BY <1>5 DEF ReleaseKey
<1>6. CASE Return(p) \/ Rollback(p)
  BY <1>6 DEF Return, Rollback
<1>7. QED
  BY <1>1, <1>2, <1>3, <1>4, <1>5, <1>6 DEF AnyStep, LockStep

LEMMA StepBlockHoldsKeys ==
  ASSUME Types, Types', BlockHoldsKeys, NEW p \in Proc, AnyStep(p)
  PROVE  BlockHoldsKeys'
<1> USE NoProcAssumption DEF Types, Goto, BlockHoldsKeys, Held
<1>1. CASE Begin(p) \/ ReadBefore(p) \/ Finish(p)
  BY <1>1 DEF Begin, ReadBefore, Finish
<1>2. CASE Request(p) \/ Connect(p) \/ LockPoolTimeout(p)
  BY <1>2 DEF Request, Connect, LockPoolTimeout
<1>3. CASE GetLock(p) \/ GetLockTimeout(p)
  BY <1>3 DEF GetLock, GetLockTimeout, IsNextKey, Remaining
<1>4. CASE Enter(p)
  BY <1>4 DEF Enter, Remaining
<1>5. CASE ReadInside(p) \/ QueryPoolTimeout(p) \/ Commit(p) \/ Raise(p)
  BY <1>5 DEF ReadInside, QueryPoolTimeout, Commit, Raise
<1>6. CASE ReleaseKey(p)
  BY <1>6 DEF ReleaseKey
<1>7. CASE Return(p) \/ Rollback(p)
  BY <1>7 DEF Return, Rollback
<1>8. QED
  BY <1>1, <1>2, <1>3, <1>4, <1>5, <1>6, <1>7 DEF AnyStep, LockStep

LEMMA StepSortedHolding ==
  ASSUME Types, Types', NoLeakedLock, SortedHolding, NEW p \in Proc, AnyStep(p)
  PROVE  SortedHolding'
<1> USE NoProcAssumption, KeysAreNaturals
    DEF Types, Goto, SortedHolding, Held, Remaining
<1>1. CASE Begin(p) \/ ReadBefore(p) \/ Finish(p)
  BY <1>1 DEF Begin, ReadBefore, Finish
<1>2. CASE Request(p) \/ LockPoolTimeout(p)
  BY <1>2 DEF Request, LockPoolTimeout
<1>3. CASE Connect(p)
  <2>1. Held(p) = {}
    BY <1>3 DEF Connect, NoLeakedLock, HasLockConn
  <2>2. QED
    BY <1>3, <2>1 DEF Connect
<1>4. CASE GetLock(p)
  <2>1. PICK k \in Key : IsNextKey(p, k) /\ owner[k] = NoProc
                         /\ owner' = [owner EXCEPT ![k] = p]
    BY <1>4 DEF GetLock
  <2>2. Held(p)' = Held(p) \cup {k} /\ Remaining(p)' = Remaining(p) \ {k}
    BY <1>4, <2>1 DEF GetLock
  <2>3. \A q \in Proc : q # p => Held(q)' = Held(q) /\ Remaining(q)' = Remaining(q)
    BY <1>4, <2>1 DEF GetLock
  <2>4. \A r \in Remaining(p) \ {k} : k < r
    BY <2>1 DEF IsNextKey
  <2>5. ASSUME NEW q \in Proc, pc'[q] = "acquiring", NEW h \in Held(q)',
               NEW r \in Remaining(q)'
        PROVE  h < r
    <3>1. CASE q = p
      <4>1. r \in Remaining(p) \ {k} /\ h \in Held(p) \cup {k}
        BY <2>2, <2>5, <3>1
      <4>2. CASE h = k
        BY <2>4, <4>1, <4>2
      <4>3. CASE h \in Held(p)
        BY <1>4, <4>1, <4>3 DEF GetLock
      <4>4. QED
        BY <4>1, <4>2, <4>3
    <3>2. CASE q # p
      BY <1>4, <2>3, <2>5, <3>2 DEF GetLock
    <3>3. QED
      BY <3>1, <3>2
  <2>6. QED
    BY <2>5
<1>5. CASE GetLockTimeout(p) \/ Enter(p) \/ ReadInside(p) \/ QueryPoolTimeout(p)
  BY <1>5 DEF GetLockTimeout, Enter, ReadInside, QueryPoolTimeout
<1>6. CASE Commit(p) \/ Raise(p)
  BY <1>6 DEF Commit, Raise
<1>7. CASE ReleaseKey(p)
  BY <1>7 DEF ReleaseKey
<1>8. CASE Return(p) \/ Rollback(p)
  BY <1>8 DEF Return, Rollback
<1>9. QED
  BY <1>1, <1>2, <1>3, <1>4, <1>5, <1>6, <1>7, <1>8 DEF AnyStep, LockStep

LEMMA StepFreshCheck ==
  ASSUME Types, Types', BlockHoldsKeys, FreshCheck, NEW p \in Proc, AnyStep(p)
  PROVE  FreshCheck'
<1> USE DEF Types, Goto, FreshCheck
<1>1. CASE Begin(p) \/ ReadBefore(p) \/ Finish(p)
  BY <1>1 DEF Begin, ReadBefore, OpenSnapshot, Finish
<1>2. CASE Request(p) \/ Connect(p) \/ LockPoolTimeout(p)
  BY <1>2 DEF Request, Connect, LockPoolTimeout
<1>3. CASE GetLock(p) \/ GetLockTimeout(p)
  BY <1>3 DEF GetLock, GetLockTimeout
<1>4. CASE Enter(p)
  BY <1>4 DEF Enter
<1>5. CASE ReadInside(p)
  BY <1>5 DEF ReadInside, OpenSnapshot
<1>6. CASE QueryPoolTimeout(p) \/ Raise(p) \/ ReleaseKey(p)
  BY <1>6 DEF QueryPoolTimeout, Raise, ReleaseKey
<1>7. CASE Commit(p)
  <2>1. ASSUME NEW q \in Proc, q # p, pc[q] = "body", tx[q]
        PROVE  (missed[q] \cup want[p]) \cap want[q] = {}
    <3>1. pc[p] = "body"
      BY <1>7 DEF Commit
    <3>2. want[p] \cap want[q] = {}
      BY <2>1, <3>1, BlocksExclude
    <3>3. QED
      BY <2>1, <3>2
  <2>2. QED
    BY <1>7, <2>1 DEF Commit
<1>8. CASE Return(p) \/ Rollback(p)
  BY <1>8 DEF Return, Rollback
<1>9. QED
  BY <1>1, <1>2, <1>3, <1>4, <1>5, <1>6, <1>7, <1>8 DEF AnyStep, LockStep

LEMMA InitIInv == Init => IInv
<1>1. Init => NoLeakedLock /\ BlockHoldsKeys /\ SortedHolding /\ FreshCheck
  BY DEF Init, NoLeakedLock, BlockHoldsKeys, SortedHolding, FreshCheck
<1>2. QED
  BY <1>1, InitTypeOK DEF IInv

LEMMA NextIInv == IInv /\ [Next]_vars => IInv'
<1>1. ASSUME IInv, Next PROVE IInv'
  <2>1. PICK p \in Proc : AnyStep(p)
    BY <1>1 DEF Next, AnyStep
  <2>2. TypeOK' /\ Types /\ Types'
    BY <1>1, NextTypeOK DEF IInv, TypeOK, Types
  <2>3. NoLeakedLock' /\ BlockHoldsKeys' /\ SortedHolding' /\ FreshCheck'
    BY <1>1, <2>1, <2>2, StepNoLeakedLock, StepBlockHoldsKeys, StepSortedHolding,
       StepFreshCheck DEF IInv
  <2>4. QED
    BY <2>2, <2>3 DEF IInv
<1>2. ASSUME IInv, UNCHANGED vars PROVE IInv'
  <2>1. TypeOK'
    BY <1>2, NextTypeOK DEF IInv
  <2>2. NoLeakedLock' /\ BlockHoldsKeys' /\ SortedHolding' /\ FreshCheck'
    BY <1>2 DEF IInv, vars, NoLeakedLock, BlockHoldsKeys, SortedHolding, FreshCheck,
       Held, Remaining, HasLockConn
  <2>3. QED
    BY <2>1, <2>2 DEF IInv
<1>3. QED
  BY <1>1, <1>2

THEOREM InductiveInvariant == Spec => []IInv
<1>1. QED
  BY InitIInv, NextIInv, PTL DEF Spec

(* The check made inside a block still holds when the block commits.        *)
THEOREM ChecksStayFresh == Spec => []FreshCheck
<1>1. IInv => FreshCheck
  BY DEF IInv
<1>2. QED
  BY <1>1, InductiveInvariant, PTL

(* No lock outlives the block that took it.                                 *)
THEOREM NoLockIsLeaked == Spec => []NoLeakedLock
<1>1. IInv => NoLeakedLock
  BY DEF IInv
<1>2. QED
  BY <1>1, InductiveInvariant, PTL

-----------------------------------------------------------------------------
(* No deadlock.  In a set of requests that all wait inside the set, take    *)
(* the one that waits for the largest key: the holder of that key waits for *)
(* a key larger still.                                                      *)
LEMMA WaitedKeyGrows ==
  ASSUME Types, SortedHolding, NEW p \in Proc, NEW q \in Proc,
         NEW k \in Key, IsNextKey(p, k), owner[k] = q,
         NEW j \in Key, pc[q] = "acquiring", IsNextKey(q, j)
  PROVE  k < j
  BY DEF SortedHolding, IsNextKey, Held

LEMMA SortedHoldingExcludesCycles ==
  ASSUME Types, SortedHolding
  PROVE  NoWaitCycle
<1> SUFFICES ASSUME NEW S \in (SUBSET Proc) \ {{}},
                    \A p \in S : \E q \in S : WaitsFor(p, q)
             PROVE  FALSE
  BY DEF NoWaitCycle
<1> DEFINE Waited == {k \in Key : \E p \in S : IsNextKey(p, k) /\ pc[p] = "acquiring"}
           Depth  == {KeyMax - k : k \in Waited}
<1>0. Waited \subseteq Key /\ Key \in SUBSET Nat /\ KeyMax \in Nat
      /\ \A k \in Key : k <= KeyMax
  BY KeysAreNaturals, FoldAssumption
<1>1. \A p \in S : \E k \in Waited : IsNextKey(p, k) /\ owner[k] \in S
                                     /\ pc[p] = "acquiring"
  BY DEF WaitsFor, Remaining, Types, IsNextKey
<1>2. Waited # {}
  BY <1>1
<1>3. Depth \in SUBSET Nat /\ Depth # {}
  <2>1. \A k \in Waited : KeyMax - k \in Nat
    BY <1>0
  <2>2. QED
    BY <1>2, <2>1
<1>4. PICK d \in Depth : \A e \in Depth : d <= e
  BY <1>3, LeastNatural
<1>5. PICK k \in Waited : d = KeyMax - k
  BY <1>4
<1>6. \A j \in Waited : KeyMax - k <= KeyMax - j
  BY <1>4, <1>5
<1>7. PICK p \in S : IsNextKey(p, k) /\ pc[p] = "acquiring"
  BY <1>5
<1>8. owner[k] \in S
  <2>1. PICK i \in Waited : IsNextKey(p, i) /\ owner[i] \in S
    BY <1>1, <1>7
  <2>2. i = k
    BY <1>0, <1>5, <1>7, <2>1 DEF IsNextKey
  <2>3. QED
    BY <2>1, <2>2
<1>9. PICK j \in Waited : IsNextKey(owner[k], j) /\ pc[owner[k]] = "acquiring"
  BY <1>1, <1>8
<1>10. k < j
  BY <1>0, <1>5, <1>7, <1>8, <1>9, WaitedKeyGrows
<1>11. KeyMax - k <= KeyMax - j
  BY <1>6, <1>9
<1>12. k \in Nat /\ j \in Nat /\ KeyMax \in Nat
  BY <1>0, <1>5, <1>9
<1>13. QED
  BY <1>10, <1>11, <1>12

(* Whatever names the requests combine, they never wait for one another in  *)
(* a circle.                                                                *)
THEOREM NoDeadlock == Spec => []NoWaitCycle
<1>1. IInv => NoWaitCycle
  BY SortedHoldingExcludesCycles DEF IInv, TypeOK, Types
<1>2. QED
  BY <1>1, InductiveInvariant, PTL

=============================================================================
