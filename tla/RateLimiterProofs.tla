-------------------------- MODULE RateLimiterProofs --------------------------
(***************************************************************************)
(* What holds of RateLimiter for every set of keys, every limit, every     *)
(* window and however far the clock runs.                                  *)
(***************************************************************************)
EXTENDS RateLimiter, FiniteSetTheorems, WellFoundedInduction, TLAPS

\* Every set of naturals that is not empty has a least element.
LEMMA LeastNatural ==
  ASSUME NEW T \in SUBSET Nat, T # {}
  PROVE  \E n \in T : \A m \in T : n <= m
<1>1. PICK n \in T : \A m \in T : ~ (<<m, n>> \in OpToRel(<, Nat))
  BY NatLessThanWellFounded, WFMin, Zenon
<1>2. \A m \in T : ~ (m < n)
  BY <1>1 DEF OpToRel
<1>3. QED
  BY <1>2

\* The loop that pops expired times ends, and FirstFresh is where.
LEMMA PoppingEnds ==
  ASSUME TypeOK, NEW k \in Key
  PROVE  Popped(k, FirstFresh(k))
<1> DEFINE n == Len(log[k])
           Stop == {i \in first[k]..(n + 1) : i = n + 1 \/ ~Expired(log[k][i])}
<1>1. n \in Nat /\ first[k] \in 1..(n + 1)
  BY DEF TypeOK
<1>2. n + 1 \in Stop /\ Stop \in SUBSET Nat
  BY <1>1
<1>3. PICK f \in Stop : \A i \in Stop : f <= i
  BY <1>2, LeastNatural
<1>4. \A i \in first[k]..(f - 1) : Expired(log[k][i])
  BY <1>1, <1>3
<1>5. Popped(k, f)
  BY <1>1, <1>3, <1>4 DEF Popped
<1>6. f \in first[k]..(Len(log[k]) + 1)
  BY <1>3
<1>7. QED
  BY <1>5, <1>6 DEF FirstFresh

\* What a check leaves as the start of each deque.
LEMMA FirstAfterCheck ==
  ASSUME TypeOK, NEW k \in Key, Check(k)
  PROVE  /\ first' \in [Key -> Nat]
         /\ \A j \in Key : first'[j] \in first[j]..(Len(log[j]) + 1)
         /\ \A j \in Key : SweepDue \/ j = k => Popped(j, first'[j])
         /\ \A j \in Key : ~(SweepDue \/ j = k) => first'[j] = first[j]
<1>1. first' = [j \in Key |-> IF SweepDue \/ j = k THEN FirstFresh(j) ELSE first[j]]
  BY DEF Check
<1>2. \A j \in Key : SweepDue \/ j = k => Popped(j, first'[j])
  BY <1>1, PoppingEnds
<1>3. \A j \in Key : ~(SweepDue \/ j = k) => first'[j] = first[j]
  BY <1>1
<1>4. \A j \in Key : first[j] \in 1..(Len(log[j]) + 1) /\ Len(log[j]) \in Nat
  BY DEF TypeOK
<1>5. \A j \in Key : first'[j] \in first[j]..(Len(log[j]) + 1)
  BY <1>2, <1>3, <1>4 DEF Popped
<1>6. first' \in [Key -> Nat]
  <2>1. \A j \in Key : first'[j] \in Nat
    BY <1>4, <1>5
  <2>2. QED
    BY <1>1, <2>1
<1>7. QED
  BY <1>2, <1>3, <1>5, <1>6

\* What a check leaves as the log of each key.
LEMMA LogAfterCheck ==
  ASSUME TypeOK, NEW k \in Key, Check(k)
  PROVE  /\ log' \in [Key -> Seq(Nat)]
         /\ \A j \in Key : j # k => log'[j] = log[j]
         /\ \/ log'[k] = log[k] /\ Len(log[k]) - first'[k] + 1 >= Limit
            \/ /\ Len(log'[k]) = Len(log[k]) + 1
               /\ \A i \in 1..Len(log[k]) : log'[k][i] = log[k][i]
               /\ log'[k][Len(log[k]) + 1] = now
               /\ ~(Len(log[k]) - first'[k] + 1 >= Limit)
<1>0. log \in [Key -> Seq(Nat)] /\ log[k] \in Seq(Nat) /\ now \in Nat
  BY DEF TypeOK
<1>1. CASE Len(log[k]) - first'[k] + 1 >= Limit
  BY <1>0, <1>1 DEF Check
<1>2. CASE ~(Len(log[k]) - first'[k] + 1 >= Limit)
  <2>1. log' = [log EXCEPT ![k] = Append(@, now)]
    BY <1>2 DEF Check
  <2>2. Append(log[k], now) \in Seq(Nat)
    BY <1>0
  <2>3. log'[k] = Append(log[k], now)
    BY <1>0, <2>1
  <2>4. QED
    BY <1>0, <1>2, <2>1, <2>2, <2>3
<1>3. QED
  BY <1>1, <1>2

-----------------------------------------------------------------------------
LEMMA InitIInv == Init => IInv
  BY LimitAssumption
  DEF Init, IInv, TypeOK, LogInOrder, DroppedExpired, WindowBound, SweptRecently,
      Tracked

LEMMA AdvanceIInv == IInv /\ Advance => IInv'
<1> SUFFICES ASSUME IInv, Advance PROVE IInv'
  OBVIOUS
<1>1. now' \in Nat /\ now' > now /\ UNCHANGED <<log, first, lastSweep, checked, verdict>>
  BY TimeAssumption DEF Advance, IInv, TypeOK
<1>2. TypeOK'
  BY <1>1 DEF IInv, TypeOK
<1>3. LogInOrder'
  BY <1>1 DEF IInv, TypeOK, LogInOrder
<1>4. DroppedExpired'
  <2> SUFFICES ASSUME NEW k \in Key, NEW i \in 1..(first[k] - 1)
               PROVE  now' - log[k][i] > Window
    BY <1>1 DEF DroppedExpired, Expired
  <2>1. now - log[k][i] > Window
    BY DEF IInv, DroppedExpired, Expired
  <2>2. i \in 1..Len(log[k]) /\ log[k] \in Seq(Nat) /\ now \in Nat
    BY DEF IInv, TypeOK
  <2>3. QED
    BY <1>1, <2>1, <2>2, LimitAssumption
<1>5. WindowBound' /\ SweptRecently'
  BY <1>1 DEF IInv, TypeOK, WindowBound, SweptRecently, Tracked
<1>6. QED
  BY <1>2, <1>3, <1>4, <1>5 DEF IInv

LEMMA ForgetIInv == ASSUME IInv, NEW K \in SUBSET Key, Forget(K) PROVE IInv'
<1>1. /\ log' \in [Key -> Seq(Nat)] /\ first' \in [Key -> Nat]
      /\ \A k \in Key : \/ k \notin K /\ log'[k] = log[k] /\ first'[k] = first[k]
                        \/ log'[k] = <<>> /\ first'[k] = 1
      /\ UNCHANGED <<now, lastSweep, checked, verdict>>
  BY DEF Forget, IInv, TypeOK
<1>2. ASSUME NEW k \in Key
      PROVE  /\ first'[k] \in 1..(Len(log'[k]) + 1)
             /\ \A i \in 1..Len(log'[k]) :
                  log'[k][i] <= now /\ \A j \in 1..i : log'[k][j] <= log'[k][i]
             /\ \A i \in 1..(first'[k] - 1) : now - log'[k][i] > Window
             /\ \A i \in DOMAIN log'[k] :
                  i + Limit \in DOMAIN log'[k] => log'[k][i + Limit] - log'[k][i] > Window
             /\ first'[k] <= Len(log'[k]) => lastSweep - log'[k][Len(log'[k])] <= Window
  \* An untouched key keeps what IInv says of it, an empty log has nothing to say.
  <2>1. CASE log'[k] = log[k] /\ first'[k] = first[k]
    <3>1. first[k] \in 1..(Len(log[k]) + 1)
      BY DEF IInv, TypeOK
    <3>2. \A i \in 1..Len(log[k]) :
            log[k][i] <= now /\ \A j \in 1..i : log[k][j] <= log[k][i]
      BY DEF IInv, LogInOrder
    <3>3. \A i \in 1..(first[k] - 1) : now - log[k][i] > Window
      BY DEF IInv, DroppedExpired, Expired
    <3>4. \A i \in DOMAIN log[k] :
            i + Limit \in DOMAIN log[k] => log[k][i + Limit] - log[k][i] > Window
      BY DEF IInv, WindowBound
    <3>5. first[k] <= Len(log[k]) => lastSweep - log[k][Len(log[k])] <= Window
      BY DEF IInv, SweptRecently, Tracked
    <3>6. QED
      BY ONLY <2>1, <3>1, <3>2, <3>3, <3>4, <3>5
  <2>2. CASE log'[k] = <<>> /\ first'[k] = 1
    BY <2>2, LimitAssumption
  <2>3. QED
    BY <1>1, <2>1, <2>2
<1>3. TypeOK'
  BY <1>1, <1>2 DEF IInv, TypeOK
<1>4. LogInOrder'
  BY ONLY <1>1, <1>2 DEF LogInOrder
<1>5. DroppedExpired'
  BY ONLY <1>1, <1>2 DEF DroppedExpired, Expired
<1>6. WindowBound'
  BY ONLY <1>2 DEF WindowBound
<1>7. SweptRecently'
  BY <1>1, <1>2 DEF IInv, SweptRecently, Tracked
<1>8. QED
  BY <1>3, <1>4, <1>5, <1>6, <1>7 DEF IInv

LEMMA CheckIInv == ASSUME IInv, NEW k \in Key, Check(k) PROVE IInv'
<1> USE LimitAssumption
<1>0. TypeOK /\ LogInOrder /\ DroppedExpired /\ WindowBound /\ SweptRecently
  BY DEF IInv
<1>1. /\ now \in Nat /\ lastSweep \in Nat /\ checked \in Nat
      /\ now' = now /\ checked' = now
      /\ lastSweep' = IF SweepDue THEN now ELSE lastSweep
      /\ verdict' \in {"passed", "refused"}
  BY <1>0 DEF Check, TypeOK
<1>2. \A j \in Key : /\ log[j] \in Seq(Nat) /\ Len(log[j]) \in Nat
                     /\ first[j] \in 1..(Len(log[j]) + 1)
  BY <1>0 DEF TypeOK
<1> DEFINE Kept(j) == log'[j] = log[j]
           Grown(j) == /\ Len(log'[j]) = Len(log[j]) + 1
                       /\ \A i \in 1..Len(log[j]) : log'[j][i] = log[j][i]
                       /\ log'[j][Len(log[j]) + 1] = now
<1>3. \A j \in Key : Kept(j) \/ (Grown(j) /\ j = k /\ Len(log[k]) - first'[k] + 1 < Limit)
  <2>1. \A j \in Key : j # k => Kept(j)
    BY <1>0, LogAfterCheck
  <2>2. Kept(k) \/ (Grown(k) /\ ~(Len(log[k]) - first'[k] + 1 >= Limit))
    BY <1>0, LogAfterCheck
  <2>3. first'[k] \in Nat /\ Len(log[k]) \in Nat
    BY <1>0, <1>2, FirstAfterCheck
  <2>4. QED
    BY <2>1, <2>2, <2>3
<1>4. /\ first' \in [Key -> Nat] /\ log' \in [Key -> Seq(Nat)]
      /\ \A j \in Key : first'[j] \in first[j]..(Len(log[j]) + 1)
      /\ \A j \in Key : SweepDue \/ j = k => Popped(j, first'[j])
      /\ \A j \in Key : ~(SweepDue \/ j = k) => first'[j] = first[j]
  BY <1>0, FirstAfterCheck, LogAfterCheck
<1> HIDE DEF Kept, Grown
<1>5. TypeOK'
  <2>1. \A j \in Key : first'[j] \in 1..(Len(log'[j]) + 1)
    <3> SUFFICES ASSUME NEW j \in Key PROVE first'[j] \in 1..(Len(log'[j]) + 1)
      OBVIOUS
    <3>1. first'[j] \in 1..(Len(log[j]) + 1) /\ Len(log[j]) \in Nat
      <4>1. Len(log[j]) \in Nat /\ first[j] \in 1..(Len(log[j]) + 1)
        BY <1>2
      <4>2. first'[j] \in first[j]..(Len(log[j]) + 1)
        BY <1>4
      <4>3. QED
        BY <4>1, <4>2
    <3>2. Len(log'[j]) = Len(log[j]) \/ Len(log'[j]) = Len(log[j]) + 1
      BY <1>3 DEF Kept, Grown
    <3>3. QED
      BY <3>1, <3>2
  <2>2. QED
    BY <1>1, <1>4, <2>1 DEF TypeOK
<1>6. LogInOrder'
  <2> SUFFICES ASSUME NEW j \in Key, NEW i \in 1..Len(log'[j])
               PROVE  log'[j][i] <= now /\ \A h \in 1..i : log'[j][h] <= log'[j][i]
    BY <1>1 DEF LogInOrder
  <2>1. \A a \in 1..Len(log[j]) :
          log[j][a] \in Nat /\ log[j][a] <= now /\ \A h \in 1..a : log[j][h] <= log[j][a]
    BY <1>0, <1>2 DEF LogInOrder
  <2>2. CASE Kept(j)
    BY <2>1, <2>2 DEF Kept
  <2>3. CASE Grown(j)
    <3> DEFINE n == Len(log[j])
    <3>0. n \in Nat /\ i \in 1..(n + 1)
      BY <1>2, <2>3 DEF Grown
    <3>1. \A h \in 1..n : log'[j][h] = log[j][h]
      BY <2>3 DEF Grown
    <3>2. log'[j][n + 1] = now
      BY <2>3 DEF Grown
    <3> HIDE DEF n
    <3>3. CASE i \in 1..n
      <4>1. \A h \in 1..i : h \in 1..n
        BY <3>0, <3>3
      <4>2. QED
        BY <2>1, <3>1, <3>3, <4>1 DEF n
    <3>4. CASE i = n + 1
      <4>1. \A h \in 1..i : h \in 1..n \/ h = i
        BY <3>0, <3>4
      <4>2. QED
        BY <1>1, <2>1, <3>1, <3>2, <3>4, <4>1 DEF n
    <3>5. QED
      BY <3>0, <3>3, <3>4
  <2>4. QED
    BY <1>3, <2>2, <2>3
<1>7. \A j \in Key : \A i \in 1..(first'[j] - 1) : now - log[j][i] > Window
  <2> SUFFICES ASSUME NEW j \in Key, NEW i \in 1..(first'[j] - 1)
               PROVE  now - log[j][i] > Window
    OBVIOUS
  <2>1. CASE i < first[j]
    <3>1. i \in 1..(first[j] - 1)
      BY <1>2, <2>1
    <3>2. QED
      BY <1>0, <3>1 DEF DroppedExpired, Expired
  <2>2. CASE ~(i < first[j])
    <3>1. Popped(j, first'[j]) /\ i \in first[j]..(first'[j] - 1)
      BY <1>2, <1>4, <2>2
    <3>2. QED
      BY <3>1 DEF Popped, Expired
  <2>3. QED
    BY <2>1, <2>2
<1>8. DroppedExpired'
  <2> SUFFICES ASSUME NEW j \in Key, NEW i \in 1..(first'[j] - 1)
               PROVE  now - log'[j][i] > Window
    BY <1>1 DEF DroppedExpired, Expired
  <2>1. i \in 1..Len(log[j])
    BY <1>2, <1>4
  <2>2. log'[j][i] = log[j][i]
    BY <1>3, <2>1 DEF Kept, Grown
  <2>3. QED
    BY <1>7, <2>2
<1>9. WindowBound'
  <2> SUFFICES ASSUME NEW j \in Key, NEW i \in 1..Len(log'[j]), i + Limit \in 1..Len(log'[j])
               PROVE  log'[j][i + Limit] - log'[j][i] > Window
    <3>1. \A j \in Key : DOMAIN log'[j] = 1..Len(log'[j])
      BY <1>4
    <3>2. QED
      BY <3>1 DEF WindowBound
  <2>1. CASE i + Limit \in 1..Len(log[j])
    <3>1. i \in 1..Len(log[j])
      BY <2>1
    <3>2. log'[j][i] = log[j][i] /\ log'[j][i + Limit] = log[j][i + Limit]
      BY <1>3, <2>1, <3>1 DEF Kept, Grown
    <3>3. DOMAIN log[j] = 1..Len(log[j])
      BY <1>2
    <3>4. QED
      BY <1>0, <2>1, <3>1, <3>2, <3>3 DEF WindowBound
  <2>2. CASE i + Limit \notin 1..Len(log[j])
    <3>1. ~Kept(j)
      BY <2>2 DEF Kept
    <3>2. Grown(j) /\ j = k /\ Len(log[k]) - first'[k] + 1 < Limit
      BY <1>3, <3>1
    <3> DEFINE n == Len(log[j])
    <3>0. n \in Nat /\ Len(log'[j]) = n + 1 /\ first'[j] \in 1..(n + 1)
      BY <1>2, <1>4, <3>2 DEF Grown
    <3>3. i + Limit = Len(log[j]) + 1
      BY <2>2, <3>0
    <3>4. i \in 1..(first'[j] - 1) /\ i \in 1..Len(log[j])
      BY <3>0, <3>2, <3>3
    <3>5. log'[j][i] = log[j][i] /\ log'[j][i + Limit] = now
      BY <3>2, <3>3, <3>4 DEF Grown
    <3>6. QED
      BY <1>7, <3>4, <3>5
  <2>3. QED
    BY <2>1, <2>2
<1>10. SweptRecently'
  <2>1. lastSweep' <= checked' /\ checked' <= now' /\ checked' - lastSweep' < Window
    BY <1>0, <1>1 DEF SweptRecently, SweepDue
  <2> SUFFICES ASSUME NEW j \in Key, first'[j] <= Len(log'[j])
               PROVE  lastSweep' - log'[j][Len(log'[j])] <= Window
    BY <2>1 DEF SweptRecently, Tracked
  <2> DEFINE n == Len(log[j])
  <2>2. CASE Grown(j)
    <3>1. lastSweep' <= now
      BY <1>0, <1>1 DEF SweptRecently
    <3>2. log'[j][Len(log'[j])] = now
      BY <2>2 DEF Grown
    <3>3. lastSweep' \in Nat
      BY <1>1
    <3>4. QED
      BY <1>1, <3>1, <3>2, <3>3
  <2>3. CASE Kept(j)
    <3>1. first'[j] \in 1..n /\ n \in 1..n /\ log'[j][Len(log'[j])] = log[j][n]
      BY <1>2, <1>4, <2>3 DEF Kept
    <3>2. log[j][n] \in Nat
      BY <1>2, <3>1
    <3>3. CASE SweepDue
      <4>1. ~Expired(log[j][first'[j]])
        BY <1>4, <3>1, <3>3 DEF Popped
      <4>2. log[j][first'[j]] <= log[j][n] /\ log[j][first'[j]] \in Nat
        BY <1>0, <1>2, <3>1 DEF LogInOrder
      <4>3. QED
        BY <1>1, <3>1, <3>2, <3>3, <4>1, <4>2 DEF Expired
    <3>4. CASE ~SweepDue
      <4>1. first[j] <= n
        BY <1>2, <1>4, <3>1
      <4>2. QED
        BY <1>0, <1>1, <3>1, <3>4, <4>1 DEF SweptRecently, Tracked
    <3>5. QED
      BY <3>3, <3>4
  <2>4. QED
    BY <1>3, <2>2, <2>3
<1>11. QED
  BY <1>5, <1>6, <1>8, <1>9, <1>10 DEF IInv

LEMMA NextIInv == IInv /\ [Next]_vars => IInv'
<1> SUFFICES ASSUME IInv, [Next]_vars PROVE IInv'
  OBVIOUS
<1>1. CASE Advance
  BY <1>1, AdvanceIInv
<1>2. CASE \E k \in Key : Check(k)
  BY <1>2, CheckIInv
<1>3. CASE \E k \in Key : Reset(k)
  <2>1. PICK k \in Key : Forget({k})
    BY <1>3 DEF Reset
  <2>2. QED
    BY <2>1, ForgetIInv
<1>4. CASE Clear
  BY <1>4, ForgetIInv DEF Clear
<1>5. CASE UNCHANGED vars
  BY <1>5 DEF vars, IInv, TypeOK, LogInOrder, DroppedExpired, WindowBound, SweptRecently,
              Tracked, Expired
<1>6. QED
  BY <1>1, <1>2, <1>3, <1>4, <1>5 DEF Next

(* The strengthening of WindowBound and KeysForgotten that every call of    *)
(* the limiter preserves.                                                   *)
THEOREM InductiveInvariant == Spec => []IInv
  BY InitIInv, NextIInv, PTL DEF Spec

(* The limit holds in every window, for every limit and window.             *)
THEOREM NeverMoreThanLimit == Spec => []WindowBound
<1>1. IInv => WindowBound
  BY DEF IInv
<1>2. QED
  BY <1>1, InductiveInvariant, PTL

(* The dictionary only holds keys of the last two windows.                  *)
THEOREM MemoryBounded == Spec => []KeysForgotten
<1>1. IInv => KeysForgotten
  <2> SUFFICES ASSUME IInv, NEW k \in Key, Tracked(k)
               PROVE  checked - log[k][Len(log[k])] < 2 * Window
    BY DEF KeysForgotten
  <2>1. checked - lastSweep < Window /\ lastSweep - log[k][Len(log[k])] <= Window
    BY DEF IInv, SweptRecently
  <2>2. Len(log[k]) \in 1..Len(log[k]) /\ log[k] \in Seq(Nat)
    BY DEF IInv, TypeOK, Tracked
  <2>3. log[k][Len(log[k])] \in Nat /\ checked \in Nat /\ lastSweep \in Nat
    BY <2>2 DEF IInv, TypeOK
  <2>4. QED
    BY <2>1, <2>3, LimitAssumption
<1>2. QED
  BY <1>1, InductiveInvariant, PTL

-----------------------------------------------------------------------------
\* A popped deque holds exactly the attempts a count over the history finds.
LEMMA DequeIsRecent ==
  ASSUME IInv, NEW k \in Key, NEW f \in Nat, Popped(k, f)
  PROVE  /\ Cardinality(Promise!Recent(k)) = Len(log[k]) - f + 1
         /\ f <= Len(log[k]) + 1
<1> DEFINE n == Len(log[k])
<1>1. /\ n \in Nat /\ DOMAIN log[k] = 1..n /\ now \in Nat
      /\ first[k] \in Nat /\ 1 <= first[k]
      /\ \A i \in 1..n : log[k][i] \in Nat
  BY DEF IInv, TypeOK
<1>2. first[k] <= f /\ f <= n + 1
  BY <1>1 DEF Popped
<1>3. \A i \in 1..(f - 1) : now - log[k][i] > Window
  <2> SUFFICES ASSUME NEW i \in 1..(f - 1) PROVE now - log[k][i] > Window
    OBVIOUS
  <2>1. i \in 1..(first[k] - 1) \/ i \in first[k]..(f - 1)
    BY <1>1, <1>2
  <2>2. QED
    BY <2>1 DEF IInv, DroppedExpired, Popped, Expired
<1>4. \A i \in f..n : now - log[k][i] <= Window
  <2> SUFFICES ASSUME NEW i \in f..n PROVE now - log[k][i] <= Window
    OBVIOUS
  <2>1. f \in 1..n /\ i \in 1..n /\ f \in 1..i
    BY <1>1, <1>2
  <2>2. log[k][f] <= log[k][i]
    BY <2>1 DEF IInv, LogInOrder
  <2>3. ~(now - log[k][f] > Window)
    BY <2>1 DEF Popped, Expired
  <2>4. QED
    BY <1>1, <2>1, <2>2, <2>3, LimitAssumption
<1>5. Promise!Recent(k) = {i \in 1..n : now - log[k][i] <= Window}
  BY <1>1 DEF Promise!Recent
<1>6. Promise!Recent(k) = f..n
  <2>1. \A i \in 1..n : (now - log[k][i] <= Window) <=> i \in f..n
    <3> SUFFICES ASSUME NEW i \in 1..n
                 PROVE  (now - log[k][i] <= Window) <=> i \in f..n
      OBVIOUS
    <3>1. i \in 1..(f - 1) \/ i \in f..n
      BY <1>1, <1>2
    <3>2. i \in 1..(f - 1) => i \notin f..n
      BY <1>1
    <3>3. QED
      BY <1>1, <1>3, <1>4, <3>1, <3>2, LimitAssumption
  <2>2. f..n \subseteq 1..n
    BY <1>1, <1>2
  <2>3. QED
    BY <1>5, <2>1, <2>2
<1>7. Cardinality(f..n) = IF f > n THEN 0 ELSE n - f + 1
  <2>1. f \in Int /\ n \in Int
    BY <1>1
  <2> HIDE DEF n
  <2>2. QED
    BY <2>1, FS_Interval
<1>8. QED
  BY <1>1, <1>2, <1>6, <1>7

LEMMA CheckIsAttempt == ASSUME IInv, NEW k \in Key, Check(k) PROVE Promise!Attempt(k)
<1>0. TypeOK
  BY DEF IInv
<1>1. first'[k] \in Nat /\ Popped(k, first'[k])
  BY <1>0, FirstAfterCheck
<1>2. Cardinality(Promise!Recent(k)) = Len(log[k]) - first'[k] + 1
  BY <1>1, DequeIsRecent
<1>3. Len(log[k]) \in Nat
  BY <1>0 DEF TypeOK
<1>4. (Cardinality(Promise!Recent(k)) < Limit) <=> ~(Len(log[k]) - first'[k] + 1 >= Limit)
  BY <1>1, <1>2, <1>3, LimitAssumption
<1>5. Promise!Cardinality(Promise!Recent(k)) = Cardinality(Promise!Recent(k))
  BY Zenon DEF Promise!Cardinality, Cardinality
<1>6. CASE Cardinality(Promise!Recent(k)) < Limit
  BY <1>4, <1>5, <1>6 DEF Check, Promise!Attempt
<1>7. CASE ~(Cardinality(Promise!Recent(k)) < Limit)
  BY <1>4, <1>5, <1>7 DEF Check, Promise!Attempt
<1>8. QED
  BY <1>6, <1>7

(* The limiter implements SlidingWindow: popping from the left, sweeping    *)
(* and forgetting keys are invisible to the caller.                         *)
THEOREM LimiterKeepsPromise == Spec => DecidesAsPromised
<1>1. Init => Promise!Init
  BY DEF Init, Promise!Init
<1>2. IInv /\ [Next]_vars => [Promise!Next]_(Promise!vars)
  <2> SUFFICES ASSUME IInv, [Next]_vars PROVE Promise!Next \/ UNCHANGED Promise!vars
    OBVIOUS
  <2>1. CASE Advance
    BY <2>1, TimeAssumption DEF Advance, Promise!Next, Promise!Advance
  <2>2. CASE \E k \in Key : Check(k)
    BY <2>2, CheckIsAttempt DEF Promise!Next
  <2>3. CASE \E k \in Key : Reset(k)
    <3>1. PICK k \in Key : Forget({k})
      BY <2>3 DEF Reset
    <3>2. Promise!Forget({k}) /\ {k} \in SUBSET Key
      BY <3>1 DEF Forget, Promise!Forget
    <3>3. QED
      BY <3>2 DEF Promise!Next
  <2>4. CASE Clear
    <3>1. Promise!Forget(Key)
      BY <2>4 DEF Clear, Forget, Promise!Forget
    <3>2. QED
      BY <3>1 DEF Promise!Next
  <2>5. CASE UNCHANGED vars
    BY <2>5 DEF vars, Promise!vars
  <2>6. QED
    BY <2>1, <2>2, <2>3, <2>4, <2>5 DEF Next
<1>3. QED
  BY <1>1, <1>2, InductiveInvariant, PTL DEF Spec, DecidesAsPromised, Promise!Spec

=============================================================================
