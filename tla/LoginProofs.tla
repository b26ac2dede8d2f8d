----------------------------- MODULE LoginProofs -----------------------------
(***************************************************************************)
(* Passwords, second factors and sessions of one account, for any number   *)
(* of requests and times, any threshold and any bounds.                    *)
(***************************************************************************)
EXTENDS LoginSessions, TLAPS

Time == 0..MaxClock
Code == (0..MaxSecret) \X (0..MaxCounter)
Gen  == (0..MaxEpoch) \cup {None}

\* Where a request of each kind may be.
StageOf(op) ==
  CASE op = "login"             -> {"password", "code", "challenge", "finish"}
    [] op = "totp"              -> {"code", "finish"}
    [] op = "confirm"           -> {"lock", "stamp", "write", "finish"}
    [] op \in {"own", "reset"}  -> {"lock", "stamp", "write"}
    [] op \in {"enroll", "revoke"} -> {"lock", "write"}
    [] op = "password"          -> {"commit"}
    [] OTHER                    -> {}

JobType ==
  [op : AllOps,
   stage : {"password", "code", "challenge", "finish", "lock", "stamp", "write", "commit"},
   obj : RowType, at : Time, pw : Pw, gen : Gen, code : Code, stamp : Time]

SessionType == [at : Time, pw : Pw, epoch : 0..MaxEpoch, gen : Gen, code : Code]

ChallengeType == [scope : {"totp", "totp_enroll"}, at : Time, gen : 0..MaxEpoch, pw : Pw]

World ==
  /\ required \in BOOLEAN
  /\ row \in RowType
  /\ rowLock \in Proc \cup {None} /\ totpLock \in Proc \cup {None}
  /\ clock \in Time /\ made \in 0..MaxSecret
  /\ misses \in 0..Threshold
  /\ challenge = None \/ (challenge \in ChallengeType /\ challenge.at <= clock)
  /\ sessions \in Seq(SessionType)

\* What was obtained with this password at that time rests on the password in
\* force, or is older than the last change, or than one about to be committed.
Rests(at, pw) ==
  /\ pw = row.pw \/ at < row.pwAt
  /\ rowLock # None => at < job[rowLock].stamp

\* What a request that confirms a factor has read and checked.
ConfirmFits(j) ==
  j.op \in {"confirm", "own"} /\ j.stage \in {"stamp", "write"} =>
    /\ ~j.obj.enabled /\ j.obj.secret # 0
    /\ j.code[1] = j.obj.secret
    /\ j.stage = "stamp" => j.code[2] # 0
    /\ j.code[2] # 0 => j.code[2] > j.obj.last

JobFits(p, j) ==
  j # Idle =>
    /\ j \in JobType /\ j.stage \in StageOf(j.op)
    /\ j.op \in {"confirm", "own", "reset"} => j.op \in Ops
    /\ j.at <= clock /\ j.stamp <= clock
    /\ j.stage \in {"stamp", "write"} =>
         totpLock = p /\ j.obj.secret = row.secret /\ j.obj.enabled = row.enabled
    /\ j.stage = "commit" => rowLock = p /\ row.pw < MaxPw
    /\ j.op = "enroll" /\ j.stage = "write" => ~j.obj.enabled
    /\ j.op = "revoke" /\ j.stage = "write" => j.obj.epoch < MaxEpoch
    /\ j.op \in {"totp", "confirm"} => j.gen # None
    /\ ConfirmFits(j)
    /\ j.op = "login" /\ j.stage \in {"code", "challenge", "finish"} => Rests(j.at, j.pw)

JobsFit ==
  /\ job = [p \in Proc |-> job[p]]
  /\ \A p \in Proc : \A j \in {job[p]} : JobFits(p, j)

\* A lock is held by a request that will release it.
LocksHeld ==
  /\ rowLock # None => job[rowLock] # Idle /\ job[rowLock].stage = "commit"
  /\ totpLock # None => job[totpLock] # Idle /\ job[totpLock].stage \in {"stamp", "write"}

SessionFits(s) == s.at <= clock /\ (s.gen = None => Rests(s.at, s.pw))

Kept == {sessions[i] : i \in DOMAIN sessions}

SessionsFit == \A s \in Kept : SessionFits(s)

IInv == World /\ JobsFit /\ LocksHeld /\ SessionsFit /\ ActiveFactorShown

-----------------------------------------------------------------------------
\* Where no request confirms a factor: failures in the row are at least those
\* since the last complete login, and nobody ends a login with a lockout in mind.
MissesCounted ==
  /\ misses <= row.failed
  /\ row.failed = Threshold => row.locked # "no"
  /\ \A p \in Proc : job[p] # Idle /\ job[p].stage = "finish" => job[p].obj.locked = "no"

\* Where no administrator resets a factor: a factor once active stays so, and
\* the counter is past every code accepted for the secret.
FactorStays ==
  /\ \A p \in Proc : job[p] # Idle =>
       /\ job[p].stage = "code" \/ (job[p].stage = "challenge" /\ job[p].obj.enabled) => row.enabled
       /\ job[p].stage \in {"stamp", "write"} /\ ~row.enabled => job[p].obj.last = row.last
  /\ challenge # None /\ challenge.scope = "totp" => row.enabled

CounterPast ==
  /\ row.secret <= made
  /\ spent \subseteq Nat \X Nat
  /\ \A x \in spent : x[1] <= made /\ (x[1] = row.secret => x[2] <= row.last)

\* No code belongs to two logins, complete or about to be; a password alone shows none.
Showing == {p \in Proc : job[p] # Idle /\ job[p].stage = "finish" /\ job[p].code # NoCode}

CodesApart ==
  /\ \A p \in Proc : job[p] # Idle /\ job[p].stage = "password" => job[p].code = NoCode
  /\ \A p \in Showing : job[p].code \in spent
  /\ \A i \in DOMAIN sessions : sessions[i].code # NoCode => sessions[i].code \in spent
  /\ \A p, q \in Showing : p # q => job[p].code # job[q].code
  /\ \A p \in Showing, i \in DOMAIN sessions : sessions[i].code # job[p].code
  /\ \A i, j \in DOMAIN sessions :
       i # j /\ sessions[i].code # NoCode => sessions[i].code # sessions[j].code

CodeInv == FactorStays /\ CounterPast /\ CodesApart

-----------------------------------------------------------------------------
(* The operators on rows.                                                   *)
LEMMA BoundTypes ==
  /\ Threshold \in Nat /\ Threshold >= 1
  /\ MaxClock \in Nat /\ MaxClock >= 1
  /\ MaxSecret \in Nat /\ MaxSecret >= 1
  /\ MaxCounter \in Nat /\ MaxCounter >= 1
  /\ MaxPw \in Nat /\ MaxEpoch \in Nat /\ MaxSessions \in Nat
BY BoundAssumption

LEMMA MissedType ==
  ASSUME NEW r \in RowType
  PROVE  /\ Missed(r) \in RowType
         /\ Missed(r).failed = IF r.failed < Threshold THEN r.failed + 1 ELSE Threshold
         /\ Missed(r).failed = Threshold => Missed(r).locked = "running"
         /\ Missed(r).failed # Threshold => Missed(r).locked = r.locked
         /\ Missed(r).pw = r.pw /\ Missed(r).pwAt = r.pwAt /\ Missed(r).epoch = r.epoch
         /\ Missed(r).enabled = r.enabled /\ Missed(r).secret = r.secret
         /\ Missed(r).last = r.last
         /\ Missed(r).totpAt = r.totpAt /\ Missed(r).active = r.active
<1> DEFINE n == IF r.failed < Threshold THEN r.failed + 1 ELSE Threshold
<1>1. n \in 0..Threshold
  BY BoundTypes DEF RowType
<1>2. Missed(r) = [r EXCEPT !.failed = n, !.locked = IF n = Threshold THEN "running" ELSE @]
  BY DEF Missed
<1> HIDE DEF n
<1>3. /\ Missed(r) \in RowType /\ Missed(r).failed = n
      /\ Missed(r).locked = IF n = Threshold THEN "running" ELSE r.locked
      /\ Missed(r).pw = r.pw /\ Missed(r).pwAt = r.pwAt /\ Missed(r).epoch = r.epoch
      /\ Missed(r).enabled = r.enabled /\ Missed(r).secret = r.secret
      /\ Missed(r).last = r.last
      /\ Missed(r).totpAt = r.totpAt /\ Missed(r).active = r.active
  BY <1>1, <1>2 DEF RowType, Locked
<1>. QED  BY <1>3 DEF n

LEMMA ClearedType ==
  ASSUME NEW r \in RowType
  PROVE  /\ Cleared(r) \in RowType
         /\ Cleared(r).failed = 0 /\ Cleared(r).locked = "no"
         /\ Cleared(r).pw = r.pw /\ Cleared(r).pwAt = r.pwAt /\ Cleared(r).epoch = r.epoch
         /\ Cleared(r).enabled = r.enabled /\ Cleared(r).secret = r.secret
         /\ Cleared(r).last = r.last
         /\ Cleared(r).totpAt = r.totpAt /\ Cleared(r).active = r.active
<1>1. 0 \in 0..Threshold
  BY BoundTypes
<1>. QED  BY <1>1 DEF RowType, Cleared, Locked

LEMMA UnlockedType ==
  ASSUME NEW r \in RowType
  PROVE  /\ Unlocked(r) \in RowType
         /\ r.locked = "expired" => Unlocked(r).failed = 0 /\ Unlocked(r).locked = "no"
         /\ r.locked # "expired" => Unlocked(r) = r
         /\ Unlocked(r).pw = r.pw /\ Unlocked(r).pwAt = r.pwAt /\ Unlocked(r).epoch = r.epoch
         /\ Unlocked(r).enabled = r.enabled /\ Unlocked(r).secret = r.secret
         /\ Unlocked(r).last = r.last
         /\ Unlocked(r).totpAt = r.totpAt /\ Unlocked(r).active = r.active
BY ClearedType DEF Unlocked

Flushed(f, old, new) == IF new[f] = old[f] THEN row[f] ELSE new[f]

LEMMA FlushType ==
  ASSUME row \in RowType, NEW old \in RowType, NEW new \in RowType
  PROVE  /\ Flush(old, new) \in RowType
         /\ \A f \in DOMAIN row : Flush(old, new)[f] = Flushed(f, old, new)
         /\ Flush(old, new).pw = Flushed("pw", old, new)
         /\ Flush(old, new).pwAt = Flushed("pwAt", old, new)
         /\ Flush(old, new).epoch = Flushed("epoch", old, new)
         /\ Flush(old, new).enabled = Flushed("enabled", old, new)
         /\ Flush(old, new).secret = Flushed("secret", old, new)
         /\ Flush(old, new).last = Flushed("last", old, new)
         /\ Flush(old, new).failed = Flushed("failed", old, new)
         /\ Flush(old, new).locked = Flushed("locked", old, new)
BY DEF Flush, Flushed, RowType

-----------------------------------------------------------------------------
(* What a step may do beside its own request.                               *)

LEMMA KeptTyped == World => \A s \in Kept : s \in SessionType
BY DEF World, Kept

\* Each lock stays where it is, is taken, or is released by its owner.
LocksNext(p, r) ==
  /\ \/ rowLock' = rowLock /\ rowLock # p
     \/ rowLock' = None /\ rowLock \in {None, p}
     \/ rowLock' = p /\ rowLock \in {None, p} /\ r # Idle /\ r.stage = "commit"
  /\ \/ totpLock' = totpLock /\ totpLock # p
     \/ totpLock' = None /\ totpLock \in {None, p}
     \/ totpLock' = p /\ totpLock \in {None, p} /\ r # Idle /\ r.stage \in {"stamp", "write"}

\* The factor is changed under the named lock, the password under the row lock.
WritesCovered(p) ==
  /\ (row'.secret = row.secret /\ row'.enabled = row.enabled) \/ totpLock \in {None, p}
  /\ row'.pw = row.pw \/ rowLock \in {None, p}

RestsKept == \A at \in Time, pw \in Pw : at <= clock /\ Rests(at, pw) => Rests(at, pw)'

SessionsNext == \A s \in Kept' : s \in Kept \/ SessionFits(s)'

LEMMA StepKeeps ==
  ASSUME IInv, NEW p \in Proc, NEW r, job' = [job EXCEPT ![p] = r],
         World', clock <= clock', JobFits(p, r)', LocksNext(p, r), WritesCovered(p),
         RestsKept, SessionsNext, ActiveFactorShown'
  PROVE  IInv'
<1> USE NoneAssumption
<1>0. /\ job' = [q \in Proc |-> job'[q]] /\ job'[p] = r
      /\ \A q \in Proc \ {p} : job'[q] = job[q]
      /\ clock \in Nat /\ clock' \in Nat
  BY BoundTypes DEF IInv, JobsFit, World, Time
<1>1. ASSUME NEW q \in Proc \ {p}, NEW j, j = job[q] PROVE JobFits(q, j)'
  <2>1. JobFits(q, j)
    BY <1>1 DEF IInv, JobsFit
  <2>2. SUFFICES ASSUME j # Idle PROVE JobFits(q, j)'
    BY DEF JobFits
  <2>3. j \in JobType /\ j.at <= clock /\ j.stamp <= clock
    BY <2>1, <2>2 DEF JobFits
  <2>4. j.at <= clock' /\ j.stamp <= clock' /\ j.at \in Time /\ j.pw \in Pw
    BY <1>0, <2>3, BoundTypes DEF JobType, Time
  <2>5. j.stage \in {"stamp", "write"} =>
          totpLock' = q /\ j.obj.secret = row'.secret /\ j.obj.enabled = row'.enabled
    BY <2>1, <2>2 DEF JobFits, LocksNext, WritesCovered
  <2>6. j.stage = "commit" => rowLock' = q /\ row'.pw < MaxPw
    BY <2>1, <2>2 DEF JobFits, LocksNext, WritesCovered
  <2>7. j.op = "login" /\ j.stage \in {"code", "challenge", "finish"} => Rests(j.at, j.pw)'
    BY <2>1, <2>2, <2>3, <2>4 DEF JobFits, RestsKept
  <2>. QED  BY <2>1, <2>2, <2>4, <2>5, <2>6, <2>7 DEF JobFits
<1>2. JobsFit'
  <2>1. ASSUME NEW q \in Proc, NEW j \in {job'[q]} PROVE JobFits(q, j)'
    BY <1>0, <1>1, <2>1
  <2>. QED  BY <1>0, <2>1 DEF JobsFit
<1>3. LocksHeld'
  BY <1>0 DEF IInv, World, LocksHeld, LocksNext
<1>4. SessionsFit'
  <2>1. ASSUME NEW s \in Kept PROVE SessionFits(s)'
    <3>1. s \in SessionType /\ SessionFits(s)
      BY <2>1, KeptTyped DEF IInv, SessionsFit
    <3>2. s.at \in Time /\ s.pw \in Pw /\ s.at \in Nat
      BY <3>1, BoundTypes DEF SessionType, Time
    <3>. QED  BY <1>0, <3>1, <3>2 DEF SessionFits, RestsKept
  <2>. QED  BY <2>1 DEF SessionsFit, SessionsNext
<1>. QED  BY <1>2, <1>3, <1>4 DEF IInv

(* As long as the password stays as it is, so does what rests on it.        *)
LEMMA SamePassword ==
  ASSUME IInv, NEW p \in Proc, NEW r, job' = [job EXCEPT ![p] = r], LocksNext(p, r),
         row'.pw = row.pw, row'.pwAt = row.pwAt, rowLock' # p
  PROVE  RestsKept
<1>1. rowLock' # None => rowLock' = rowLock /\ rowLock # p /\ rowLock \in Proc
  BY DEF LocksNext, IInv, World
<1>2. rowLock' # None => job'[rowLock'] = job[rowLock]
  BY <1>1 DEF IInv, JobsFit
<1>. QED  BY <1>1, <1>2 DEF RestsKept, Rests

(* A step of a request that has nothing to do with the password.            *)
LEMMA OrdinaryStep ==
  ASSUME IInv, NEW p \in Proc, NEW r, job' = [job EXCEPT ![p] = r],
         World', clock <= clock', JobFits(p, r)', LocksNext(p, r), rowLock' # p,
         row'.pw = row.pw, row'.pwAt = row.pwAt,
         (row'.secret = row.secret /\ row'.enabled = row.enabled) \/ totpLock \in {None, p},
         SessionsNext, ActiveFactorShown'
  PROVE  IInv'
<1>1. RestsKept
  BY SamePassword
<1>. QED  BY <1>1, StepKeeps DEF WritesCovered

LEMMA AtFits ==
  ASSUME IInv, NEW p \in Proc, NEW j, j = job[p], j # Idle
  PROVE  /\ JobFits(p, j)
         /\ j \in JobType /\ j.stage \in StageOf(j.op)
         /\ j.stage # "commit" => rowLock # p
         /\ j.stage \notin {"stamp", "write"} => totpLock # p
BY NoneAssumption DEF IInv, JobsFit, JobFits, LocksHeld

LEMMA IdleHoldsNothing ==
  ASSUME IInv, NEW p \in Proc, job[p] = Idle
  PROVE  rowLock # p /\ totpLock # p
BY NoneAssumption DEF IInv, LocksHeld

LEMMA FactorStillShown ==
  ASSUME ActiveFactorShown, row'.enabled => row.enabled, row'.secret = row.secret,
         spent \subseteq spent'
  PROVE  ActiveFactorShown'
BY DEF ActiveFactorShown

\* A step that writes nothing but the job, the clock and the challenge.
LEMMA QuietStep ==
  ASSUME IInv, NEW p \in Proc, NEW r, job' = [job EXCEPT ![p] = r],
         UNCHANGED <<required, row, rowLock, totpLock, made, sessions, spent, misses>>,
         clock' \in Time, clock <= clock',
         challenge' = challenge \/ (challenge' \in ChallengeType /\ challenge'.at <= clock'),
         JobFits(p, r)', rowLock # p,
         totpLock # p \/ (r # Idle /\ r.stage \in {"stamp", "write"})
  PROVE  IInv'
<1>1. clock \in Nat /\ clock' \in Nat
  BY BoundTypes DEF IInv, World, Time
<1>2. World'
  <2>1. challenge' = None \/ (challenge' \in ChallengeType /\ challenge'.at <= clock')
    <3>1. challenge \in ChallengeType => challenge.at \in Nat
      BY BoundTypes DEF ChallengeType, Time
    <3>. QED  BY <1>1, <3>1 DEF IInv, World
  <2>. QED  BY <2>1 DEF IInv, World
<1>3. LocksNext(p, r)
  BY DEF LocksNext, IInv, World
<1>4. SessionsNext /\ ActiveFactorShown'
  BY DEF SessionsNext, Kept, IInv, ActiveFactorShown
<1>. QED  BY <1>2, <1>3, <1>4, OrdinaryStep

LEMMA Ticks ==
  World /\ Tick => clock' \in Time /\ clock < clock' /\ clock <= clock' /\ clock' = clock + 1
BY BoundTypes DEF World, Tick, Time

LEMMA StartLoginKeeps == ASSUME IInv, NEW p \in Proc, StartLogin(p) PROVE IInv'
<1>1. PICK guess \in Pw : Serve(p, Job("login", "password", clock', guess, None))
  BY DEF StartLogin
<1>2. /\ May(p, "login") /\ clock' \in Time /\ clock <= clock'
      /\ UNCHANGED <<required, row, rowLock, totpLock, made, challenge, sessions, spent, misses>>
  BY Ticks DEF StartLogin, IInv, db, ghosts
<1>3. PICK r : r = Job("login", "password", clock', guess, None)
  OBVIOUS
<1>4. JobFits(p, r)'
  <2>1. r \in JobType
    BY <1>2, <1>3, BoundTypes DEF JobType, Job, AllOps, IInv, World, Gen, Code, NoCode, Time
  <2>2. r.op = "login" /\ r.stage = "password" /\ r.at = clock' /\ r.stamp = 0 /\ r.stamp <= clock'
    BY <1>2, <1>3, BoundTypes DEF Job, Time
  <2>. QED  BY <1>2, <2>1, <2>2, BoundTypes DEF JobFits, StageOf, ConfirmFits, Time
<1>. QED
  BY <1>1, <1>2, <1>3, <1>4, QuietStep, IdleHoldsNothing DEF Serve, May

LEMMA IssueChallengeKeeps == ASSUME IInv, NEW p \in Proc, IssueChallenge(p) PROVE IInv'
<1>1. PICK j : j = job[p]
  OBVIOUS
<1>2. /\ j # Idle /\ j.stage = "challenge"
      /\ job' = [job EXCEPT ![p] = Idle]
      /\ clock' \in Time /\ clock <= clock'
      /\ UNCHANGED <<required, row, rowLock, totpLock, made, sessions, spent, misses>>
      /\ challenge' \in {challenge,
           [scope |-> IF j.obj.enabled THEN "totp" ELSE "totp_enroll",
            at |-> clock', gen |-> j.obj.epoch, pw |-> j.pw]}
  BY <1>1, Ticks DEF IssueChallenge, IInv, db, ghosts, At, Done, Serve, Idle
<1>3. j \in JobType /\ rowLock # p /\ totpLock # p
  BY <1>1, <1>2, AtFits
<1>4. challenge' = challenge \/ (challenge' \in ChallengeType /\ challenge'.at <= clock')
  <2>1. PICK c : c = [scope |-> IF j.obj.enabled THEN "totp" ELSE "totp_enroll",
                      at |-> clock', gen |-> j.obj.epoch, pw |-> j.pw]
    OBVIOUS
  <2>2. c \in ChallengeType /\ c.at <= clock'
    BY <1>2, <1>3, <2>1, BoundTypes DEF JobType, RowType, ChallengeType, Time
  <2>. QED  BY <1>2, <2>1, <2>2
<1>5. JobFits(p, Idle)'
  BY DEF JobFits
<1>. QED  BY <1>2, <1>3, <1>4, <1>5, QuietStep

\* A request begins with a challenge.
LEMMA FromChallengeKeeps ==
  ASSUME IInv, NEW p \in Proc, NEW op, NEW stage, NEW scope,
         May(p, op), ChallengeAccepted(scope), FromChallenge(p, op, stage),
         UNCHANGED <<db, clock, made, challenge, sessions, ghosts>>,
         (op = "totp" /\ stage = "code") \/ (op \in {"enroll", "confirm"} /\ stage = "lock")
  PROVE  IInv'
<1>1. PICK r : r = Job(op, stage, challenge.at, challenge.pw, challenge.gen)
  OBVIOUS
<1>2. /\ job' = [job EXCEPT ![p] = r]
      /\ UNCHANGED <<required, row, rowLock, totpLock, made, sessions, spent, misses>>
      /\ clock' = clock /\ challenge' = challenge
      /\ clock \in Time
  BY <1>1 DEF FromChallenge, Serve, db, ghosts, IInv, World
<1>3. /\ challenge \in ChallengeType /\ challenge.at <= clock /\ challenge.gen # None
  BY NoneAssumption, BoundTypes DEF ChallengeAccepted, IInv, World, ChallengeType
<1>4. JobFits(p, r)'
  <2>1. r \in JobType /\ r.stage = stage /\ r.op = op /\ r.at = challenge.at /\ r.stamp = 0
        /\ r.gen = challenge.gen
    BY <1>1, <1>3, BoundTypes DEF JobType, Job, AllOps, IInv, World, Gen, Code, NoCode, Time,
      ChallengeType
  <2>2. r.stage \in StageOf(r.op)
    BY <2>1 DEF StageOf
  <2>3. op \in Ops
    BY DEF May
  <2>4. 0 <= clock
    BY <1>2, BoundTypes DEF Time
  <2>. QED  BY <1>2, <1>3, <2>1, <2>2, <2>3, <2>4 DEF JobFits, ConfirmFits
<1>5. rowLock # p /\ totpLock # p
  BY IdleHoldsNothing DEF May
<1>6. clock' \in Time /\ clock <= clock'
  BY <1>2, BoundTypes DEF Time
<1>. QED  BY <1>2, <1>4, <1>5, <1>6, QuietStep

LEMMA StartTotpKeeps == ASSUME IInv, NEW p \in Proc, StartTotp(p) PROVE IInv'
BY FromChallengeKeeps DEF StartTotp

LEMMA StartEnrollKeeps == ASSUME IInv, NEW p \in Proc, StartEnroll(p) PROVE IInv'
BY FromChallengeKeeps DEF StartEnroll

LEMMA StartConfirmKeeps == ASSUME IInv, NEW p \in Proc, StartConfirm(p) PROVE IInv'
BY FromChallengeKeeps DEF StartConfirm

\* A request that goes straight for the named lock.
LEMMA WaitingKeeps ==
  ASSUME IInv, NEW p \in Proc, NEW op \in {"own", "reset", "revoke"},
         May(p, op), Serve(p, Job(op, "lock", 0, 0, None)),
         UNCHANGED <<db, clock, made, challenge, sessions, ghosts>>
  PROVE  IInv'
<1>1. PICK r : r = Job(op, "lock", 0, 0, None)
  OBVIOUS
<1>2. /\ job' = [job EXCEPT ![p] = r]
      /\ UNCHANGED <<required, row, rowLock, totpLock, made, sessions, spent, misses>>
      /\ clock' = clock /\ challenge' = challenge
      /\ clock \in Time
  BY <1>1 DEF Serve, db, ghosts, IInv, World
<1>3. JobFits(p, r)'
  <2>1. r \in JobType /\ r.stage = "lock" /\ r.op = op /\ r.at = 0 /\ r.stamp = 0
    BY <1>1, BoundTypes DEF JobType, Job, AllOps, IInv, World, Gen, Code, NoCode, Time, Pw
  <2>2. r.stage \in StageOf(r.op)
    BY <2>1 DEF StageOf
  <2>3. op \in Ops
    BY DEF May
  <2>4. 0 <= clock
    BY <1>2, BoundTypes DEF Time
  <2>. QED  BY <1>2, <2>1, <2>2, <2>3, <2>4 DEF JobFits, ConfirmFits
<1>4. rowLock # p /\ totpLock # p
  BY IdleHoldsNothing DEF May
<1>5. clock' \in Time /\ clock <= clock'
  BY <1>2, BoundTypes DEF Time
<1>. QED  BY <1>2, <1>3, <1>4, <1>5, QuietStep

LEMMA StartOwnConfirmKeeps == ASSUME IInv, NEW p \in Proc, StartOwnConfirm(p) PROVE IInv'
BY WaitingKeeps DEF StartOwnConfirm

LEMMA StartUpdateKeeps == ASSUME IInv, NEW p \in Proc, StartUpdate(p) PROVE IInv'
BY WaitingKeeps DEF StartUpdate

(* The time stamp is read while the named lock is held.                     *)
LEMMA StampKeeps == ASSUME IInv, NEW p \in Proc, Stamp(p) PROVE IInv'
<1>1. PICK j : j = job[p]
  OBVIOUS
<1>2. PICK r : r = [j EXCEPT !.stamp = clock', !.stage = "write"]
  OBVIOUS
<1>3. /\ j # Idle /\ j.stage = "stamp"
      /\ job' = [job EXCEPT ![p] = r]
      /\ clock' \in Time /\ clock <= clock' /\ challenge' = challenge
      /\ UNCHANGED <<required, row, rowLock, totpLock, made, sessions, spent, misses>>
  BY <1>1, <1>2, Ticks DEF Stamp, IInv, db, ghosts, At, Serve, Idle
<1>4. /\ JobFits(p, j) /\ j \in JobType /\ j.stage \in StageOf(j.op) /\ rowLock # p
  BY <1>1, <1>3, AtFits
<1>5. /\ r \in JobType /\ r.stage = "write" /\ r.stamp = clock'
      /\ r.op = j.op /\ r.obj = j.obj /\ r.at = j.at /\ r.code = j.code /\ r.gen = j.gen
  BY <1>2, <1>3, <1>4 DEF JobType
<1>6. j.op \in {"confirm", "own", "reset"}
  BY <1>3, <1>4 DEF StageOf, JobType, AllOps
<1>7. JobFits(p, r)'
  <2>1. r.at <= clock' /\ r.stamp <= clock'
    BY <1>3, <1>4, <1>5, BoundTypes DEF JobFits, JobType, Time, IInv, World
  <2>2. r.stage \in StageOf(r.op)
    BY <1>5, <1>6 DEF StageOf
  <2>. QED  BY <1>3, <1>4, <1>5, <1>6, <2>1, <2>2 DEF JobFits, ConfirmFits
<1>8. r # Idle
  BY <1>5 DEF JobType, AllOps, Idle
<1>. QED  BY <1>3, <1>4, <1>5, <1>7, <1>8, QuietStep

-----------------------------------------------------------------------------
(* Steps under the row lock that leave password and factor alone.           *)

LEMMA RowStep ==
  ASSUME IInv, NEW p \in Proc, NEW r, job' = [job EXCEPT ![p] = r],
         row' \in RowType, row'.pw = row.pw, row'.pwAt = row.pwAt,
         row'.secret = row.secret, row'.enabled = row.enabled,
         UNCHANGED <<required, rowLock, totpLock, clock, made, challenge>>,
         misses' \in 0..Threshold, spent \subseteq spent',
         sessions' \in Seq(SessionType), SessionsNext,
         JobFits(p, r)', rowLock # p, totpLock # p
  PROVE  IInv'
<1>1. World'
  BY DEF IInv, World
<1>2. clock <= clock'
  BY BoundTypes DEF IInv, World, Time
<1>3. LocksNext(p, r)
  BY DEF LocksNext
<1>4. ActiveFactorShown'
  BY FactorStillShown DEF IInv
<1>. QED  BY <1>1, <1>2, <1>3, <1>4, OrdinaryStep

LEMMA MissesTypes ==
  World => /\ OneMore(misses) \in 0..Threshold
           /\ OneMore(IF row.locked = "expired" THEN 0 ELSE misses) \in 0..Threshold
           /\ (IF row.locked = "expired" THEN 0 ELSE misses) \in 0..Threshold
           /\ 0 \in 0..Threshold
BY BoundTypes DEF World, OneMore

LEMMA SameSessions ==
  ASSUME World, sessions' = sessions
  PROVE  sessions' \in Seq(SessionType) /\ SessionsNext
BY DEF World, SessionsNext, Kept

LEMMA AuthenticateKeeps == ASSUME IInv, NEW p \in Proc, Authenticate(p) PROVE IInv'
<1>1. PICK j : j = job[p]
  OBVIOUS
<1>2. PICK now : now = Unlocked(row)
  OBVIOUS
<1>3. /\ j # Idle /\ j.stage = "password"
      /\ UNCHANGED <<required, rowLock, totpLock, clock, made, challenge, sessions, spent>>
      /\ rowLock = None
  <2>1. At(p, "password")
    BY DEF Authenticate
  <2>2. /\ UNCHANGED <<required, rowLock, totpLock, clock, made, challenge, sessions, spent>>
        /\ rowLock = None
    BY DEF Authenticate
  <2>. QED  BY <1>1, <2>1, <2>2 DEF At, Idle
<1>4. /\ JobFits(p, j) /\ j \in JobType /\ j.stage \in StageOf(j.op)
      /\ rowLock # p /\ totpLock # p
  BY <1>1, <1>3, AtFits
<1>5. /\ now \in RowType
      /\ now.pw = row.pw /\ now.pwAt = row.pwAt /\ now.secret = row.secret
      /\ now.enabled = row.enabled
  BY <1>2, UnlockedType DEF IInv, World
<1>6. sessions' \in Seq(SessionType) /\ SessionsNext /\ spent \subseteq spent'
  BY <1>3, SameSessions DEF IInv
<1>7. JobFits(p, Idle)'
  BY DEF JobFits
<1>8. misses' \in 0..Threshold
  BY <1>1, MissesTypes DEF Authenticate, IInv
<1>9. CASE j.pw # row.pw
  <2>1. row' = Missed(now) /\ job' = [job EXCEPT ![p] = Idle]
    BY <1>1, <1>2, <1>9 DEF Authenticate, Done, Serve
  <2>2. /\ row' \in RowType /\ row'.pw = row.pw /\ row'.pwAt = row.pwAt
        /\ row'.secret = row.secret /\ row'.enabled = row.enabled
    BY <1>5, <2>1, MissedType
  <2>. QED  BY <1>3, <1>4, <1>6, <1>7, <1>8, <2>1, <2>2, RowStep
<1>10. CASE j.pw = row.pw /\ job' = [job EXCEPT ![p] = Idle]
  <2>1. row' = now
    BY <1>1, <1>2, <1>10 DEF Authenticate
  <2>. QED  BY <1>3, <1>4, <1>5, <1>6, <1>7, <1>8, <1>10, <2>1, RowStep
<1>11. CASE j.pw = row.pw /\ job' # [job EXCEPT ![p] = Idle]
  <2>1. row' = now
    BY <1>1, <1>2, <1>11 DEF Authenticate
  <2>2. PICK next \in AfterPassword(now) :
          job' = [job EXCEPT ![p] = [j EXCEPT !.obj = now, !.stage = next]]
    BY <1>1, <1>2, <1>11 DEF Authenticate, Serve, Done
  <2>3. PICK r : r = [j EXCEPT !.obj = now, !.stage = next]
    OBVIOUS
  <2>4. next \in {"code", "challenge", "finish"}
    BY DEF AfterPassword
  <2>5. /\ r \in JobType /\ r.stage = next /\ r.op = j.op /\ r.at = j.at /\ r.pw = j.pw
        /\ r.stamp = j.stamp
    BY <1>4, <1>5, <2>3, <2>4 DEF JobType
  <2>6. j.op = "login"
    BY <1>3, <1>4 DEF StageOf, JobType, AllOps
  <2>7. Rests(r.at, r.pw)'
    BY <1>3, <1>11, <2>1, <1>5, <2>5 DEF Rests
  <2>8. JobFits(p, r)'
    BY <1>3, <1>4, <2>4, <2>5, <2>6, <2>7 DEF JobFits, ConfirmFits, StageOf
  <2>. QED  BY <1>3, <1>4, <1>5, <1>6, <1>8, <2>1, <2>2, <2>3, <2>8, RowStep
<1>. QED  BY <1>9, <1>10, <1>11

LEMMA MissCodeKeeps == ASSUME IInv, NEW p \in Proc, MissCode(p) PROVE IInv'
<1>1. /\ job[p] # Idle /\ job[p].stage = "code" /\ job' = [job EXCEPT ![p] = Idle]
      /\ row' = Missed(row) /\ misses' = OneMore(misses)
      /\ UNCHANGED <<required, rowLock, totpLock, clock, made, challenge, sessions, spent>>
  BY DEF MissCode, At, Done, Serve, Idle
<1>2. rowLock # p /\ totpLock # p
  BY <1>1, AtFits
<1>3. JobFits(p, Idle)'
  BY DEF JobFits
<1>4. sessions' \in Seq(SessionType) /\ SessionsNext /\ row \in RowType
  BY <1>1, SameSessions DEF IInv, World
<1>. QED  BY <1>1, <1>2, <1>3, <1>4, MissedType, MissesTypes, RowStep DEF IInv

LEMMA WrongPasswordKeeps == ASSUME IInv, NEW p \in Proc, WrongPassword(p) PROVE IInv'
<1>1. /\ job[p] = Idle /\ job' = job
      /\ row' = Missed(Unlocked(row))
      /\ misses' = OneMore(IF row.locked = "expired" THEN 0 ELSE misses)
      /\ UNCHANGED <<required, rowLock, totpLock, clock, made, challenge, sessions, spent>>
  BY DEF WrongPassword
<1>2. job' = [job EXCEPT ![p] = Idle]
  BY <1>1 DEF IInv, JobsFit
<1>3. rowLock # p /\ totpLock # p
  BY <1>1, IdleHoldsNothing
<1>4. JobFits(p, Idle)'
  BY DEF JobFits
<1>5. sessions' \in Seq(SessionType) /\ SessionsNext /\ row \in RowType
  BY <1>1, SameSessions DEF IInv, World
<1>6. PICK now : now = Unlocked(row)
  OBVIOUS
<1>7. /\ now \in RowType /\ now.pw = row.pw /\ now.pwAt = row.pwAt
      /\ now.secret = row.secret /\ now.enabled = row.enabled
  BY <1>5, <1>6, UnlockedType
<1>8. /\ row' \in RowType /\ row'.pw = row.pw /\ row'.pwAt = row.pwAt
      /\ row'.secret = row.secret /\ row'.enabled = row.enabled
  BY <1>1, <1>6, <1>7, MissedType
<1>9. misses' \in 0..Threshold /\ spent \subseteq spent'
  BY <1>1, MissesTypes DEF IInv
<1>. QED  BY <1>1, <1>2, <1>3, <1>4, <1>5, <1>8, <1>9, RowStep

LEMMA StartOwnEnrollKeeps == ASSUME IInv, NEW p \in Proc, StartOwnEnroll(p) PROVE IInv'
<1>1. PICK r : r = Job("enroll", "lock", 0, row.pw, None)
  OBVIOUS
<1>2. /\ job[p] = Idle /\ job' = [job EXCEPT ![p] = r]
      /\ row' = Cleared(row) /\ misses' = 0
      /\ UNCHANGED <<required, rowLock, totpLock, clock, made, challenge, sessions, spent>>
  BY <1>1 DEF StartOwnEnroll, May, Serve
<1>3. rowLock # p /\ totpLock # p
  BY <1>2, IdleHoldsNothing
<1>4. sessions' \in Seq(SessionType) /\ SessionsNext /\ row \in RowType /\ clock \in Time
  BY <1>2, SameSessions DEF IInv, World
<1>5. r \in JobType /\ r.op = "enroll" /\ r.stage = "lock" /\ r.at = 0 /\ r.stamp = 0
  BY <1>1, <1>4, BoundTypes DEF JobType, Job, AllOps, RowType, Gen, Code, NoCode, Time
<1>6. JobFits(p, r)'
  BY <1>2, <1>4, <1>5, BoundTypes DEF JobFits, ConfirmFits, StageOf, Time
<1>7. /\ row' \in RowType /\ row'.pw = row.pw /\ row'.pwAt = row.pwAt
      /\ row'.secret = row.secret /\ row'.enabled = row.enabled
  BY <1>2, <1>4, ClearedType
<1>8. misses' \in 0..Threshold /\ spent \subseteq spent'
  BY <1>2, MissesTypes DEF IInv
<1>. QED  BY <1>2, <1>3, <1>4, <1>6, <1>7, <1>8, RowStep

(* A code is accepted: the object in memory is the row as it is written.    *)
LEMMA VerifyCodeKeeps == ASSUME IInv, NEW p \in Proc, VerifyCode(p) PROVE IInv'
<1>1. PICK j : j = job[p]
  OBVIOUS
<1>2. PICK c \in Counter :
        /\ c > row.last
        /\ row' = [Cleared(row) EXCEPT !.last = c]
        /\ spent' = spent \cup {<<row.secret, c>>}
        /\ Serve(p, [j EXCEPT !.obj = row', !.stage = "finish", !.code = <<row.secret, c>>])
  BY <1>1 DEF VerifyCode
<1>3. PICK r : r = [j EXCEPT !.obj = row', !.stage = "finish", !.code = <<row.secret, c>>]
  OBVIOUS
<1>4. At(p, "code")
  BY DEF VerifyCode
<1>5. /\ j # Idle /\ j.stage = "code" /\ job' = [job EXCEPT ![p] = r]
      /\ misses' = 0
      /\ UNCHANGED <<required, rowLock, totpLock, clock, made, challenge, sessions>>
  <2>1. /\ misses' = 0
        /\ UNCHANGED <<required, rowLock, totpLock, clock, made, challenge, sessions>>
    BY DEF VerifyCode
  <2>2. j # Idle /\ j.stage = "code"
    BY <1>1, <1>4 DEF At, Idle
  <2>. QED  BY <1>2, <1>3, <2>1, <2>2 DEF Serve
<1>6. /\ JobFits(p, j) /\ j \in JobType /\ j.stage \in StageOf(j.op)
      /\ rowLock # p /\ totpLock # p
  BY <1>1, <1>5, AtFits
<1>7. row \in RowType /\ c \in 0..MaxCounter
  BY BoundTypes DEF IInv, World, Counter
<1>8. /\ row' \in RowType /\ row'.pw = row.pw /\ row'.pwAt = row.pwAt
      /\ row'.secret = row.secret /\ row'.enabled = row.enabled
  <2>1. PICK new : new = Cleared(row)
    OBVIOUS
  <2>2. /\ new \in RowType /\ new.pw = row.pw /\ new.pwAt = row.pwAt
        /\ new.secret = row.secret /\ new.enabled = row.enabled
    BY <1>7, <2>1, ClearedType
  <2>. QED  BY <1>2, <1>7, <2>1, <2>2 DEF RowType
<1>9. JobFits(p, r)'
  <2>1. <<row.secret, c>> \in Code
    BY <1>7 DEF Code, RowType
  <2>2. /\ r \in JobType /\ r.stage = "finish" /\ r.op = j.op /\ r.at = j.at /\ r.pw = j.pw
        /\ r.stamp = j.stamp /\ r.gen = j.gen
    BY <1>3, <1>6, <1>8, <2>1 DEF JobType
  <2>3. j.op \in {"login", "totp"}
    BY <1>5, <1>6 DEF StageOf, JobType, AllOps
  <2>4. j.op = "login" => Rests(r.at, r.pw)'
    <3>1. rowLock # None => job'[rowLock] = job[rowLock]
      BY <1>5, <1>6 DEF IInv, World, JobsFit
    <3>. QED  BY <1>5, <1>6, <1>8, <2>2, <3>1 DEF Rests, JobFits
  <2>. QED  BY <1>5, <1>6, <2>2, <2>3, <2>4 DEF JobFits, ConfirmFits, StageOf
<1>10. sessions' \in Seq(SessionType) /\ SessionsNext
  BY <1>5, SameSessions DEF IInv
<1>11. misses' \in 0..Threshold /\ spent \subseteq spent'
  BY <1>2, <1>5, MissesTypes DEF IInv
<1>. QED  BY <1>5, <1>6, <1>8, <1>9, <1>10, <1>11, RowStep

(* The end of a login: only failures and lockout are written, whatever has  *)
(* become of the row; a session without a challenge comes from a login.     *)
LEMMA FinishKeeps == ASSUME IInv, NEW p \in Proc, Finish(p) PROVE IInv'
<1>1. PICK j : j = job[p]
  OBVIOUS
<1>2. At(p, "finish")
  BY DEF Finish
<1>3. /\ j # Idle /\ j.stage = "finish" /\ job' = [job EXCEPT ![p] = Idle]
      /\ row' = Flush(j.obj, Cleared(j.obj))
      /\ misses' = 0 /\ rowLock = None
      /\ UNCHANGED <<required, rowLock, totpLock, clock, made, challenge, spent>>
  BY <1>1, <1>2 DEF Finish, At, Done, Serve, Idle
<1>4. /\ JobFits(p, j) /\ j \in JobType /\ j.stage \in StageOf(j.op)
      /\ rowLock # p /\ totpLock # p
  BY <1>1, <1>3, AtFits
<1>5. /\ row' \in RowType /\ row'.pw = row.pw /\ row'.pwAt = row.pwAt
      /\ row'.secret = row.secret /\ row'.enabled = row.enabled
  <2>1. PICK new : new = Cleared(j.obj)
    OBVIOUS
  <2>2. /\ j.obj \in RowType /\ new \in RowType /\ row \in RowType
        /\ new.pw = j.obj.pw /\ new.pwAt = j.obj.pwAt
        /\ new.secret = j.obj.secret /\ new.enabled = j.obj.enabled
    BY <1>4, <2>1, ClearedType DEF JobType, IInv, World
  <2>. QED  BY <1>3, <2>1, <2>2, FlushType DEF Flushed
<1>6. sessions' \in Seq(SessionType) /\ SessionsNext
  <2>1. CASE sessions' = sessions
    BY <2>1, SameSessions DEF IInv
  <2>2. CASE sessions' # sessions
    <3>1. PICK s : s = [at |-> IF j.op = "confirm" THEN Later(j.at, j.stamp) ELSE j.at,
                        pw |-> j.pw, epoch |-> j.obj.epoch, gen |-> j.gen, code |-> j.code]
      OBVIOUS
    <3>2. sessions' = Append(sessions, s)
      BY <1>1, <2>2, <3>1 DEF Finish
    <3>3. s \in SessionType /\ s.at <= clock
      <4>1. /\ j.at \in Time /\ j.stamp \in Time /\ j.pw \in Pw /\ j.gen \in Gen
            /\ j.code \in Code /\ j.obj.epoch \in 0..MaxEpoch
            /\ j.at <= clock /\ j.stamp <= clock
        BY <1>3, <1>4 DEF JobType, RowType, JobFits
      <4>2. s.at \in Time /\ s.at <= clock
        BY <3>1, <4>1 DEF Later
      <4>. QED  BY <3>1, <4>1, <4>2 DEF SessionType
    <3>4. s.gen = None => Rests(s.at, s.pw)'
      <4>1. j.gen = None => j.op = "login"
        BY <1>3, <1>4 DEF JobFits, StageOf, JobType, AllOps
      <4>. QED  BY <1>3, <1>4, <1>5, <3>1, <4>1 DEF JobFits, Rests
    <3>5. sessions' \in Seq(SessionType) /\ Kept' \subseteq Kept \cup {s}
      BY <3>2, <3>3 DEF IInv, World, Kept
    <3>. QED  BY <1>3, <3>3, <3>4, <3>5 DEF SessionsNext, SessionFits
  <2>. QED  BY <2>1, <2>2
<1>7. JobFits(p, Idle)'
  BY DEF JobFits
<1>8. misses' \in 0..Threshold /\ spent \subseteq spent'
  BY <1>3, MissesTypes DEF IInv
<1>. QED  BY <1>3, <1>4, <1>5, <1>6, <1>7, <1>8, RowStep

-----------------------------------------------------------------------------
(* The named lock account-totp:{id}.                                        *)

\* The object is read afresh once the lock is held.
LEMMA EnterFits ==
  ASSUME IInv, NEW p \in Proc, NEW j, j = job[p], NEW stage \in {"stamp", "write"},
         NEW code \in Code, Enter(p, stage, code), stage \in StageOf(j.op),
         j.op = "enroll" => ~row.enabled, j.op = "revoke" => row.epoch < MaxEpoch,
         j.op \in {"confirm", "own"} =>
           /\ ~row.enabled /\ row.secret # 0
           /\ code[1] = row.secret
           /\ stage = "stamp" => code[2] # 0
           /\ code[2] # 0 => code[2] > row.last
  PROVE  IInv'
<1>1. PICK r : r = [j EXCEPT !.obj = row, !.stage = stage, !.code = code]
  OBVIOUS
<1>2. At(p, "lock")
  BY DEF Enter
<1>3. /\ j # Idle /\ j.stage = "lock" /\ job' = [job EXCEPT ![p] = r]
      /\ totpLock = None /\ totpLock' = p
      /\ UNCHANGED <<required, row, rowLock, clock, made, challenge, sessions, spent, misses>>
  BY <1>1, <1>2 DEF Enter, At, Serve, Idle, ghosts
<1>4. /\ JobFits(p, j) /\ j \in JobType /\ j.stage \in StageOf(j.op)
      /\ rowLock # p
  BY <1>3, AtFits
<1>5. row \in RowType
  BY DEF IInv, World
<1>6. /\ r \in JobType /\ r.op = j.op /\ r.stage = stage /\ r.obj = row /\ r.code = code
      /\ r.at = j.at /\ r.stamp = j.stamp /\ r.gen = j.gen
  BY <1>1, <1>4, <1>5 DEF JobType
<1>7. JobFits(p, r)'
  <2>1. r.op # "login"
    BY <1>3, <1>4, <1>6 DEF StageOf
  <2>2. r.at <= clock' /\ r.stamp <= clock'
    BY <1>3, <1>4, <1>6 DEF JobFits
  <2>. QED  BY <1>3, <1>4, <1>6, <2>1, <2>2 DEF JobFits, ConfirmFits
<1>8. World' /\ ActiveFactorShown' /\ SessionsNext
  BY <1>3 DEF IInv, World, ActiveFactorShown, SessionsNext, Kept
<1>9. clock <= clock'
  BY <1>3, BoundTypes DEF IInv, World, Time
<1>10. LocksNext(p, r)
  BY <1>3, <1>4, <1>6 DEF LocksNext, Idle, JobType, AllOps
<1>. QED  BY <1>3, <1>4, <1>7, <1>8, <1>9, <1>10, OrdinaryStep

LEMMA CodeTypes ==
  World => /\ NoCode \in Code
           /\ \A c \in 0..MaxCounter : <<row.secret, c>> \in Code
BY BoundTypes DEF World, RowType, Code, NoCode

LEMMA EnterEnrollKeeps == ASSUME IInv, NEW p \in Proc, EnterEnroll(p) PROVE IInv'
<1>1. PICK j : j = job[p]
  OBVIOUS
<1>2. j.op = "enroll" /\ ~row.enabled /\ Enter(p, "write", NoCode)
  BY <1>1 DEF EnterEnroll
<1>3. "write" \in StageOf(j.op)
  BY <1>2 DEF StageOf
<1>. QED  BY <1>1, <1>2, <1>3, EnterFits, CodeTypes DEF IInv

LEMMA EnterConfirmKeeps == ASSUME IInv, NEW p \in Proc, EnterConfirm(p) PROVE IInv'
<1>1. PICK j : j = job[p]
  OBVIOUS
<1>2. PICK c \in 0..MaxCounter :
        /\ c = 0 \/ c > row.last
        /\ Enter(p, IF c = 0 THEN "write" ELSE "stamp", <<row.secret, c>>)
  BY DEF EnterConfirm
<1>3. PICK stage \in {"stamp", "write"} : stage = IF c = 0 THEN "write" ELSE "stamp"
  OBVIOUS
<1>4. PICK code : code = <<row.secret, c>>
  OBVIOUS
<1>5. j.op \in {"confirm", "own"} /\ row.secret # 0 /\ ~row.enabled
  BY <1>1 DEF EnterConfirm, MayConfirm
<1>6. stage \in StageOf(j.op)
  BY <1>5 DEF StageOf
<1>7. code \in Code /\ code[1] = row.secret /\ code[2] = c
  BY <1>4, CodeTypes DEF IInv
<1>8. Enter(p, stage, code)
  BY <1>2, <1>3, <1>4
<1>. QED  BY <1>1, <1>2, <1>3, <1>5, <1>6, <1>7, <1>8, EnterFits

LEMMA EnterUpdateKeeps == ASSUME IInv, NEW p \in Proc, EnterUpdate(p) PROVE IInv'
<1>1. PICK j : j = job[p]
  OBVIOUS
<1>2. CASE j.op = "reset" /\ Enter(p, "stamp", NoCode)
  <2>1. "stamp" \in StageOf(j.op)
    BY <1>2 DEF StageOf
  <2>. QED  BY <1>1, <1>2, <2>1, EnterFits, CodeTypes DEF IInv
<1>3. CASE j.op = "revoke" /\ row.epoch < MaxEpoch /\ Enter(p, "write", NoCode)
  <2>1. "write" \in StageOf(j.op)
    BY <1>3 DEF StageOf
  <2>. QED  BY <1>1, <1>3, <2>1, EnterFits, CodeTypes DEF IInv
<1>. QED  BY <1>1, <1>2, <1>3 DEF EnterUpdate

(* A write under the named lock, which ends with it: password and stamp are *)
(* not among what it changes, secret and state of the factor are as read.   *)
LEMMA Written ==
  ASSUME IInv, NEW p \in Proc, NEW j, j = job[p], NEW new \in RowType, Write(p, new),
         new.pw = j.obj.pw, new.pwAt = j.obj.pwAt
  PROVE  /\ JobFits(p, j) /\ j \in JobType /\ j.stage = "write" /\ j # Idle
         /\ j.stage \in StageOf(j.op)
         /\ row' \in RowType /\ row'.pw = row.pw /\ row'.pwAt = row.pwAt
         /\ j.obj.secret = row.secret /\ j.obj.enabled = row.enabled
         /\ row'.secret = new.secret /\ row'.enabled = new.enabled
         /\ rowLock = None /\ totpLock = p /\ totpLock' = None
         /\ UNCHANGED <<required, rowLock, clock, challenge, sessions>>
<1>1. At(p, "write")
  BY DEF Write
<1>2. j # Idle /\ j.stage = "write"
  BY <1>1 DEF At, Idle
<1>3. JobFits(p, j) /\ j \in JobType /\ j.stage \in StageOf(j.op)
  BY <1>2, AtFits
<1>4. totpLock = p /\ j.obj.secret = row.secret /\ j.obj.enabled = row.enabled
  BY <1>2, <1>3 DEF JobFits
<1>5. /\ rowLock = None /\ row' = Flush(j.obj, new) /\ totpLock' = None
      /\ UNCHANGED <<required, rowLock, clock, challenge, sessions>>
  BY <1>4 DEF Write
<1>6. j.obj \in RowType /\ row \in RowType
  BY <1>3 DEF JobType, IInv, World
<1>7. /\ row' \in RowType /\ row'.pw = row.pw /\ row'.pwAt = row.pwAt
      /\ row'.secret = new.secret /\ row'.enabled = new.enabled
  BY <1>4, <1>5, <1>6, FlushType DEF Flushed
<1>. QED  BY <1>2, <1>3, <1>4, <1>5, <1>7

LEMMA WriteKeeps ==
  ASSUME IInv, NEW p \in Proc, NEW j, j = job[p], NEW new \in RowType, Write(p, new),
         new.pw = j.obj.pw, new.pwAt = j.obj.pwAt,
         NEW r, job' = [job EXCEPT ![p] = r], JobFits(p, r)',
         made' \in 0..MaxSecret, misses' \in 0..Threshold, ActiveFactorShown'
  PROVE  IInv'
<1>1. /\ row' \in RowType /\ row'.pw = row.pw /\ row'.pwAt = row.pwAt
      /\ rowLock = None /\ totpLock = p /\ totpLock' = None
      /\ UNCHANGED <<required, rowLock, clock, challenge, sessions>>
  BY Written
<1>2. World' /\ SessionsNext
  BY <1>1 DEF IInv, World, SessionsNext, Kept
<1>3. LocksNext(p, r) /\ rowLock' # p
  BY <1>1, NoneAssumption DEF LocksNext
<1>4. clock <= clock'
  BY <1>1, BoundTypes DEF IInv, World, Time
<1>. QED  BY <1>1, <1>2, <1>3, <1>4, OrdinaryStep

LEMMA WriteEnrollKeeps == ASSUME IInv, NEW p \in Proc, WriteEnroll(p) PROVE IInv'
<1>1. PICK j : j = job[p]
  OBVIOUS
<1>2. PICK new : new = [j.obj EXCEPT !.secret = made + 1, !.enabled = FALSE, !.last = 0]
  OBVIOUS
<1>3. /\ j.op = "enroll" /\ Write(p, new) /\ made' = made + 1 /\ made < MaxSecret
      /\ job' = [job EXCEPT ![p] = Idle]
      /\ spent' = spent /\ misses' = misses
  BY <1>1, <1>2 DEF WriteEnroll, Done, Serve, ghosts
<1>4. j # Idle /\ j \in JobType
  <2>1. At(p, "write")
    BY <1>3 DEF Write
  <2>. QED  BY <1>1, <2>1, AtFits DEF At, Idle
<1>5. made' \in 0..MaxSecret /\ misses' \in 0..Threshold
  BY <1>3, BoundTypes DEF IInv, World
<1>6. new \in RowType /\ new.pw = j.obj.pw /\ new.pwAt = j.obj.pwAt /\ ~new.enabled
  <2>1. made + 1 \in 0..MaxSecret /\ 0 \in 0..MaxCounter /\ j.obj \in RowType
    BY <1>3, <1>4, <1>5, BoundTypes DEF JobType
  <2>. QED  BY <1>2, <2>1 DEF RowType
<1>7. row'.enabled = FALSE
  BY <1>1, <1>3, <1>6, Written DEF RowType
<1>8. ActiveFactorShown'
  BY <1>7 DEF ActiveFactorShown
<1>9. JobFits(p, Idle)'
  BY DEF JobFits
<1>. QED  BY <1>1, <1>3, <1>5, <1>6, <1>8, <1>9, WriteKeeps

\* A factor becomes active with a code of the very secret that is stored.
LEMMA WriteConfirmKeeps == ASSUME IInv, NEW p \in Proc, WriteConfirm(p) PROVE IInv'
<1>1. PICK j : j = job[p]
  OBVIOUS
<1>2. PICK new : new = [j.obj EXCEPT !.enabled = TRUE, !.last = j.code[2], !.totpAt = j.stamp]
  OBVIOUS
<1>3. /\ j.op \in {"confirm", "own"} /\ j.code[2] # 0 /\ Write(p, new)
      /\ spent' = spent \cup {j.code} /\ made' = made /\ misses' = misses
  BY <1>1, <1>2 DEF WriteConfirm
<1>4. j # Idle /\ j \in JobType
  <2>1. At(p, "write")
    BY <1>3 DEF Write
  <2>. QED  BY <1>1, <2>1, AtFits DEF At, Idle
<1>5. /\ new \in RowType /\ new.pw = j.obj.pw /\ new.pwAt = j.obj.pwAt
      /\ new.enabled = TRUE /\ new.secret = j.obj.secret
  <2>1. j.code[2] \in 0..MaxCounter /\ j.stamp \in 0..MaxClock /\ j.obj \in RowType
    BY <1>4 DEF JobType, Code, Time
  <2>. QED  BY <1>2, <2>1 DEF RowType
<1>6. /\ JobFits(p, j) /\ j.stage = "write" /\ j.stage \in StageOf(j.op)
      /\ j.obj.secret = row.secret /\ row'.secret = row.secret /\ row'.enabled = TRUE
      /\ clock' = clock
  BY <1>1, <1>3, <1>5, Written
<1>7. ActiveFactorShown'
  <2>1. j.code[1] = row'.secret
    BY <1>3, <1>4, <1>6 DEF JobFits, ConfirmFits
  <2>2. j.code[2] \in Counter /\ j.code = <<j.code[1], j.code[2]>>
    BY <1>3, <1>4, BoundTypes DEF JobType, Code, Counter
  <2>3. <<row'.secret, j.code[2]>> \in spent'
    BY <1>3, <2>1, <2>2
  <2>. QED  BY <2>2, <2>3 DEF ActiveFactorShown
<1>8. made' \in 0..MaxSecret /\ misses' \in 0..Threshold
  BY <1>3 DEF IInv, World
<1>9. CASE job' = [job EXCEPT ![p] = Idle]
  <2>1. JobFits(p, Idle)'
    BY DEF JobFits
  <2>. QED  BY <1>1, <1>3, <1>5, <1>7, <1>8, <1>9, <2>1, WriteKeeps
<1>10. CASE j.op = "confirm"
  <2>1. PICK r : r = [j EXCEPT !.obj = new, !.stage = "finish"]
    OBVIOUS
  <2>2. job' = [job EXCEPT ![p] = r]
    BY <1>1, <1>2, <1>10, <2>1 DEF WriteConfirm, Serve
  <2>3. /\ r \in JobType /\ r.op = j.op /\ r.stage = "finish" /\ r.at = j.at
        /\ r.stamp = j.stamp /\ r.gen = j.gen
    BY <1>4, <1>5, <2>1 DEF JobType
  <2>4. JobFits(p, r)'
    BY <1>4, <1>6, <1>10, <2>3 DEF JobFits, ConfirmFits, StageOf
  <2>. QED  BY <1>1, <1>3, <1>5, <1>7, <1>8, <2>2, <2>4, WriteKeeps
<1>. QED  BY <1>1, <1>3, <1>9, <1>10 DEF WriteConfirm, Done, Serve

LEMMA WriteMissKeeps == ASSUME IInv, NEW p \in Proc, WriteMiss(p) PROVE IInv'
<1>1. PICK j : j = job[p]
  OBVIOUS
<1>2. PICK new : new = Missed(j.obj)
  OBVIOUS
<1>3. /\ Write(p, new) /\ misses' = OneMore(misses) /\ made' = made /\ spent' = spent
      /\ job' = [job EXCEPT ![p] = Idle]
  BY <1>1, <1>2 DEF WriteMiss, Done, Serve
<1>4. j # Idle /\ j \in JobType
  <2>1. At(p, "write")
    BY <1>3 DEF Write
  <2>. QED  BY <1>1, <2>1, AtFits DEF At, Idle
<1>5. /\ new \in RowType /\ new.pw = j.obj.pw /\ new.pwAt = j.obj.pwAt
      /\ new.enabled = j.obj.enabled /\ new.secret = j.obj.secret
  BY <1>2, <1>4, MissedType DEF JobType
<1>6. row'.secret = row.secret /\ row'.enabled = row.enabled
  BY <1>1, <1>3, <1>5, Written
<1>7. ActiveFactorShown'
  BY <1>3, <1>6, FactorStillShown DEF IInv
<1>8. made' \in 0..MaxSecret /\ misses' \in 0..Threshold
  BY <1>3, MissesTypes DEF IInv, World
<1>9. JobFits(p, Idle)'
  BY DEF JobFits
<1>. QED  BY <1>1, <1>3, <1>5, <1>7, <1>8, <1>9, WriteKeeps

LEMMA WriteUpdateKeeps == ASSUME IInv, NEW p \in Proc, WriteUpdate(p) PROVE IInv'
<1>1. PICK j : j = job[p]
  OBVIOUS
<1>2. /\ job' = [job EXCEPT ![p] = Idle] /\ At(p, "write")
      /\ made' = made /\ spent' = spent /\ misses' = misses
  BY DEF WriteUpdate, Write, Done, Serve, ghosts
<1>3. j # Idle /\ j \in JobType /\ j.stage = "write" /\ JobFits(p, j)
  BY <1>1, <1>2, AtFits DEF At, Idle
<1>4. made' \in 0..MaxSecret /\ misses' \in 0..Threshold
  BY <1>2 DEF IInv, World
<1>5. JobFits(p, Idle)'
  BY DEF JobFits
<1>6. ASSUME NEW new,
             \/ j.op = "reset" /\ new = [j.obj EXCEPT !.enabled = FALSE, !.secret = 0,
                                                       !.last = 0, !.totpAt = j.stamp]
             \/ j.op = "revoke" /\ \E a \in BOOLEAN :
                                     new = [j.obj EXCEPT !.active = a, !.epoch = @ + 1],
             Write(p, new)
      PROVE  IInv'
  <2>1. /\ new \in RowType /\ new.pw = j.obj.pw /\ new.pwAt = j.obj.pwAt
        /\ ~new.enabled \/ (new.enabled = j.obj.enabled /\ new.secret = j.obj.secret)
    <3>1. CASE j.op = "reset"
      <4>1. /\ j.stamp \in 0..MaxClock /\ j.obj \in RowType
            /\ 0 \in 0..MaxSecret /\ 0 \in 0..MaxCounter
        BY <1>3, BoundTypes DEF JobType, Time
      <4>2. new = [j.obj EXCEPT !.enabled = FALSE, !.secret = 0, !.last = 0,
                                !.totpAt = j.stamp]
        BY <1>6, <3>1
      <4>. QED  BY <4>1, <4>2 DEF RowType
    <3>2. CASE j.op = "revoke"
      <4>1. j.obj \in RowType /\ j.obj.epoch \in 0..MaxEpoch /\ j.obj.epoch < MaxEpoch
        BY <1>3, <3>2 DEF JobType, RowType, JobFits
      <4>2. j.obj.epoch + 1 \in 0..MaxEpoch
        BY <4>1, BoundTypes
      <4>. QED  BY <1>6, <3>2, <4>1, <4>2 DEF RowType
    <3>. QED  BY <1>6, <3>1, <3>2
  <2>2. /\ row'.secret = new.secret /\ row'.enabled = new.enabled
        /\ j.obj.secret = row.secret /\ j.obj.enabled = row.enabled
    <3>1. Write(p, new)
      BY <1>6
    <3>. QED  BY <1>1, <2>1, <3>1, Written
  <2>3. ActiveFactorShown'
    <3>1. CASE ~new.enabled
      BY <2>2, <3>1 DEF ActiveFactorShown
    <3>2. CASE new.enabled = j.obj.enabled /\ new.secret = j.obj.secret
      BY <1>2, <2>2, <3>2, FactorStillShown DEF IInv
    <3>. QED  BY <2>1, <3>1, <3>2
  <2>. QED  BY <1>1, <1>2, <1>4, <1>5, <1>6, <2>1, <2>3, WriteKeeps
<1>. QED  BY <1>1, <1>6 DEF WriteUpdate

-----------------------------------------------------------------------------
(* Password changes: the time stamp is read under the row lock, and larger  *)
(* than that of every login so far.                                         *)
LEMMA BeginPasswordKeeps ==
  ASSUME IInv, NEW p \in Proc, job[p] = Idle, BeginPassword(p), rowLock = None, rowLock' = p
  PROVE  IInv'
<1>1. PICK r : r = [Job("password", "commit", 0, 0, None) EXCEPT !.stamp = clock']
  OBVIOUS
<1>2. /\ job' = [job EXCEPT ![p] = r]
      /\ row.pw < MaxPw
      /\ UNCHANGED <<required, row, totpLock, made, challenge, sessions, spent, misses>>
  BY <1>1 DEF BeginPassword, Serve, ghosts
<1>3. clock \in Nat /\ clock' \in Time /\ clock < clock' /\ clock <= clock'
  BY Ticks, BoundTypes DEF BeginPassword, IInv, World, Time
<1>4. totpLock # p
  BY IdleHoldsNothing
<1>5. /\ r \in JobType /\ r.op = "password" /\ r.stage = "commit" /\ r.at = 0
      /\ r.stamp = clock' /\ r # Idle
  <2>1. /\ 0 \in Time /\ 0 \in Pw /\ row \in RowType /\ None \in Gen /\ NoCode \in Code
    BY CodeTypes, BoundTypes DEF IInv, World, Time, Pw, Gen
  <2>2. r = [op |-> "password", stage |-> "commit", obj |-> row, at |-> 0, pw |-> 0,
             gen |-> None, code |-> NoCode, stamp |-> clock']
    BY <1>1 DEF Job
  <2>. QED  BY <1>3, <2>1, <2>2 DEF JobType, AllOps, Idle
<1>6. JobFits(p, r)'
  BY <1>2, <1>3, <1>5, BoundTypes DEF JobFits, ConfirmFits, StageOf, Time
<1>7. World'
  <2>1. challenge' = None \/ (challenge' \in ChallengeType /\ challenge'.at <= clock')
    <3>1. challenge \in ChallengeType => challenge.at \in Nat
      BY BoundTypes DEF ChallengeType, Time
    <3>. QED  BY <1>2, <1>3, <3>1, BoundTypes DEF IInv, World, Time
  <2>. QED  BY <1>2, <1>3, <2>1 DEF IInv, World
<1>8. LocksNext(p, r) /\ WritesCovered(p)
  BY <1>2, <1>4, <1>5 DEF LocksNext, WritesCovered
<1>9. RestsKept
  <2>1. job'[p] = r
    BY <1>2 DEF IInv, JobsFit
  <2>2. ASSUME NEW at \in Time, NEW pw \in Pw, at <= clock, Rests(at, pw) PROVE Rests(at, pw)'
    <3>1. at < clock'
      BY <1>3, <2>2, BoundTypes DEF Time
    <3>. QED  BY <1>2, <1>5, <2>1, <2>2, <3>1 DEF Rests
  <2>. QED  BY <2>2 DEF RestsKept
<1>10. SessionsNext /\ ActiveFactorShown'
  BY <1>2 DEF IInv, SessionsNext, Kept, ActiveFactorShown
<1>. QED  BY <1>2, <1>3, <1>6, <1>7, <1>8, <1>9, <1>10, StepKeeps

LEMMA SetPasswordKeeps == ASSUME IInv, NEW p \in Proc, SetPassword(p) PROVE IInv'
BY BeginPasswordKeeps DEF SetPassword, May

LEMMA ChangePasswordKeeps == ASSUME IInv, NEW p \in Proc, ChangePassword(p) PROVE IInv'
BY BeginPasswordKeeps DEF ChangePassword, May, ProvePassword

\* Whatever rests on the old password is older than the stamp.
LEMMA CommitPasswordKeeps == ASSUME IInv, NEW p \in Proc, CommitPassword(p) PROVE IInv'
<1>1. PICK j : j = job[p]
  OBVIOUS
<1>2. PICK new : new = Cleared(row)
  OBVIOUS
<1>3. /\ j # Idle /\ j.stage = "commit" /\ job' = [job EXCEPT ![p] = Idle]
      /\ row' = [new EXCEPT !.pw = @ + 1, !.pwAt = j.stamp]
      /\ rowLock' = None /\ misses' = 0
      /\ UNCHANGED <<required, totpLock, clock, made, challenge, sessions, spent>>
  <2>1. At(p, "commit")
    BY DEF CommitPassword
  <2>. QED  BY <1>1, <1>2, <2>1 DEF CommitPassword, At, Done, Serve, Idle
<1>4. /\ JobFits(p, j) /\ j \in JobType /\ totpLock # p
      /\ rowLock = p /\ row.pw < MaxPw
  <2>1. JobFits(p, j) /\ j \in JobType /\ totpLock # p
    BY <1>1, <1>3, AtFits
  <2>. QED  BY <1>3, <2>1 DEF JobFits
<1>5. /\ row' \in RowType /\ row'.pwAt = j.stamp
      /\ row'.secret = row.secret /\ row'.enabled = row.enabled
  <2>1. row \in RowType /\ new \in RowType /\ new.pw = row.pw
        /\ new.secret = row.secret /\ new.enabled = row.enabled
    BY <1>2, ClearedType DEF IInv, World
  <2>2. new.pw + 1 \in Pw /\ j.stamp \in 0..MaxClock
    BY <1>4, <2>1, BoundTypes DEF Pw, RowType, JobType, Time
  <2>. QED  BY <1>3, <2>1, <2>2 DEF RowType
<1>6. misses' \in 0..Threshold
  BY <1>3, MissesTypes DEF IInv
<1>7. World'
  BY <1>3, <1>5, <1>6 DEF IInv, World
<1>8. clock <= clock'
  BY <1>3, BoundTypes DEF IInv, World, Time
<1>9. LocksNext(p, Idle) /\ WritesCovered(p)
  BY <1>3, <1>4, <1>5 DEF LocksNext, WritesCovered
<1>10. RestsKept
  BY <1>1, <1>3, <1>4, <1>5, NoneAssumption DEF RestsKept, Rests
<1>11. SessionsNext /\ ActiveFactorShown'
  <2>1. SessionsNext
    BY <1>3, SameSessions DEF IInv
  <2>. QED  BY <1>3, <1>5, <2>1, FactorStillShown DEF IInv
<1>12. JobFits(p, Idle)'
  BY DEF JobFits
<1>. QED  BY <1>3, <1>7, <1>8, <1>9, <1>10, <1>11, <1>12, StepKeeps

LEMMA AbortKeeps == ASSUME IInv, NEW p \in Proc, Abort(p) PROVE IInv'
<1>1. /\ job' = [job EXCEPT ![p] = Idle]
      /\ rowLock' = IF rowLock = p THEN None ELSE rowLock
      /\ totpLock' = IF totpLock = p THEN None ELSE totpLock
      /\ UNCHANGED <<required, row, clock, made, challenge, sessions, spent, misses>>
  BY DEF Abort, Done, Serve, ghosts
<1>2. World' /\ SessionsNext /\ ActiveFactorShown'
  BY <1>1 DEF IInv, World, SessionsNext, Kept, ActiveFactorShown
<1>3. clock <= clock'
  BY <1>1, BoundTypes DEF IInv, World, Time
<1>4. LocksNext(p, Idle) /\ rowLock' # p
  BY <1>1, NoneAssumption DEF LocksNext
<1>5. JobFits(p, Idle)'
  BY DEF JobFits
<1>. QED  BY <1>1, <1>2, <1>3, <1>4, <1>5, OrdinaryStep

\* Nobody's step: of the row, password and factor stay.
LEMMA NobodysStep ==
  ASSUME IInv, row' \in RowType, row'.pw = row.pw, row'.pwAt = row.pwAt,
         row'.secret = row.secret, row'.enabled = row.enabled,
         UNCHANGED <<required, rowLock, totpLock, clock, made, job, challenge, sessions,
                     spent, misses>>
  PROVE  IInv'
<1>1. World'
  BY DEF IInv, World
<1>2. \A at, pw : Rests(at, pw) => Rests(at, pw)'
  BY DEF Rests
<1>3. JobsFit'
  <2>1. ASSUME NEW q \in Proc, NEW j \in {job'[q]} PROVE JobFits(q, j)'
    <3>1. JobFits(q, j)
      BY <2>1 DEF IInv, JobsFit
    <3>. QED  BY <1>2, <3>1 DEF JobFits
  <2>. QED  BY <2>1 DEF IInv, JobsFit
<1>4. LocksHeld'
  BY DEF IInv, LocksHeld
<1>5. SessionsFit'
  <2>1. Kept' = Kept
    BY DEF Kept
  <2>2. ASSUME NEW s \in Kept PROVE SessionFits(s)'
    BY <1>2, <2>2 DEF IInv, SessionsFit, SessionFits
  <2>. QED  BY <2>1, <2>2 DEF SessionsFit
<1>6. ActiveFactorShown'
  BY FactorStillShown DEF IInv
<1>. QED  BY <1>1, <1>3, <1>4, <1>5, <1>6 DEF IInv

LEMMA LockoutExpiresKeeps == ASSUME IInv, LockoutExpires PROVE IInv'
<1>1. /\ row' = [row EXCEPT !.locked = "expired"] /\ row \in RowType
      /\ UNCHANGED <<required, rowLock, totpLock, clock, made, job, challenge, sessions,
                     spent, misses>>
  BY DEF LockoutExpires, ghosts, IInv, World
<1>2. /\ row' \in RowType /\ row'.pw = row.pw /\ row'.pwAt = row.pwAt
      /\ row'.secret = row.secret /\ row'.enabled = row.enabled
  BY <1>1 DEF RowType, Locked
<1>. QED  BY <1>1, <1>2, NobodysStep

-----------------------------------------------------------------------------
LEMMA InitEstablishes == Init => IInv
<1>. SUFFICES ASSUME Init PROVE IInv
  OBVIOUS
<1>1. PICK e \in BOOLEAN :
        row = [pw |-> 0, pwAt |-> 1, active |-> TRUE, epoch |-> 0,
               enabled |-> e, secret |-> IF e THEN 1 ELSE 0,
               last |-> IF e THEN 1 ELSE 0, totpAt |-> IF e THEN 1 ELSE 0,
               failed |-> 0, locked |-> "no"]
  BY DEF Init
<1>2. row \in RowType /\ row.enabled = e /\ (e => row.secret = 1)
  <2>1. /\ 0 \in Pw /\ 1 \in 0..MaxClock /\ 0 \in 0..MaxClock /\ 0 \in 0..MaxEpoch
        /\ 0 \in 0..MaxSecret /\ 1 \in 0..MaxSecret
        /\ 0 \in 0..MaxCounter /\ 1 \in 0..MaxCounter /\ 0 \in 0..Threshold
    BY BoundTypes DEF Pw
  <2>. QED  BY <1>1, <2>1 DEF RowType, Locked
<1>3. World
  BY <1>2, OpsAssumption, BoundTypes DEF Init, World, Time
<1>4. JobsFit
  BY DEF Init, JobsFit, JobFits
<1>5. LocksHeld /\ SessionsFit
  BY DEF Init, LocksHeld, SessionsFit, Kept
<1>6. ActiveFactorShown
  <2>1. 1 \in Counter
    BY BoundTypes DEF Counter
  <2>. QED  BY <1>2, <2>1 DEF Init, ActiveFactorShown
<1>. QED  BY <1>3, <1>4, <1>5, <1>6 DEF IInv

LEMMA StepPreserves == IInv /\ [Next]_vars => IInv'
<1>. SUFFICES ASSUME IInv, [Next]_vars PROVE IInv'
  OBVIOUS
<1>1. CASE LockoutExpires
  BY <1>1, LockoutExpiresKeeps
<1>2. ASSUME NEW p \in Proc,
             \/ StartLogin(p) \/ Authenticate(p) \/ IssueChallenge(p)
             \/ StartTotp(p) \/ VerifyCode(p) \/ MissCode(p) \/ Finish(p)
             \/ StartEnroll(p) \/ StartConfirm(p)
      PROVE  IInv'
  BY <1>2, StartLoginKeeps, AuthenticateKeeps, IssueChallengeKeeps, StartTotpKeeps,
     VerifyCodeKeeps, MissCodeKeeps, FinishKeeps, StartEnrollKeeps, StartConfirmKeeps
<1>3. ASSUME NEW p \in Proc,
             \/ WrongPassword(p) \/ StartOwnEnroll(p) \/ StartOwnConfirm(p)
             \/ StartUpdate(p) \/ EnterEnroll(p) \/ EnterConfirm(p) \/ EnterUpdate(p)
             \/ Stamp(p) \/ WriteEnroll(p) \/ WriteConfirm(p) \/ WriteMiss(p) \/ WriteUpdate(p)
      PROVE  IInv'
  BY <1>3, WrongPasswordKeeps, StartOwnEnrollKeeps, StartOwnConfirmKeeps, StartUpdateKeeps,
     EnterEnrollKeeps, EnterConfirmKeeps, EnterUpdateKeeps, StampKeeps, WriteEnrollKeeps,
     WriteConfirmKeeps, WriteMissKeeps, WriteUpdateKeeps
<1>4. ASSUME NEW p \in Proc,
             SetPassword(p) \/ ChangePassword(p) \/ CommitPassword(p) \/ Abort(p)
      PROVE  IInv'
  BY <1>4, SetPasswordKeeps, ChangePasswordKeeps, CommitPasswordKeeps, AbortKeeps
<1>5. CASE UNCHANGED vars
  BY <1>5, NobodysStep DEF vars, IInv, World
<1>. QED  BY <1>1, <1>2, <1>3, <1>4, <1>5 DEF Next

(* The inductive invariant: locks belong to requests in progress, what the  *)
(* holder of account-totp has read of the factor is still so, logins and    *)
(* sessions without a second step rest on the password in force or are      *)
(* older than its last change, and an active factor has been shown.         *)
THEOREM LoginInvariant == Spec => []IInv
<1>. QED  BY InitEstablishes, StepPreserves, PTL DEF Spec

(* Every part of the state is of its type, and a locked row and a held lock *)
(* belong to a request in progress.                                         *)
THEOREM TypeCorrect == Spec => []TypeOK
<1>1. IInv => TypeOK
  BY DEF IInv, World, LocksHeld, TypeOK, Time
<1>. QED  BY <1>1, LoginInvariant, PTL

(* A change of the password ends every session of a login by password alone *)
(* and every such login under way (set_password, change_password, login and *)
(* current_principal).                                                      *)
THEOREM PasswordEndsLogins == Spec => []DirectLoginsRestOnPassword
<1>1. IInv => DirectLoginsRestOnPassword
  <2>. SUFFICES ASSUME IInv, NEW i \in DOMAIN sessions, NEW s, s = sessions[i],
                       Accepted(s), s.gen = None
                PROVE  s.pw = row.pw
    BY DEF DirectLoginsRestOnPassword
  <2>1. s \in Kept
    BY DEF Kept
  <2>2. s \in SessionType /\ SessionFits(s)
    BY <2>1, KeptTyped DEF IInv, SessionsFit
  <2>3. s.at \in Nat /\ row.pwAt \in Nat /\ s.at >= row.pwAt
    BY <2>2, BoundTypes DEF SessionType, Time, Accepted, IInv, World, RowType
  <2>. QED  BY <2>2, <2>3 DEF SessionFits, Rests
<1>. QED  BY <1>1, LoginInvariant, PTL

(* An active second factor is one whose owner has shown a code of the       *)
(* secret that is stored, whatever enrolments, confirmations and resets run *)
(* at the same time (start_totp_enrollment, confirm_totp, update).          *)
THEOREM FactorShown == Spec => []ActiveFactorShown
<1>1. IInv => ActiveFactorShown
  BY DEF IInv
<1>. QED  BY <1>1, LoginInvariant, PTL

-----------------------------------------------------------------------------
(* Counting failures, where every attempt is counted under the row lock.    *)

LEMMA MissesStep ==
  ASSUME IInv, MissesCounted, NEW p \in Proc, NEW r, job' = [job EXCEPT ![p] = r],
         r # Idle /\ r.stage = "finish" => r.obj.locked = "no",
         misses' <= row'.failed, row'.failed = Threshold => row'.locked # "no"
  PROVE  MissesCounted'
<1>1. job'[p] = r /\ \A q \in Proc \ {p} : job'[q] = job[q]
  BY DEF IInv, JobsFit
<1>. QED  BY <1>1 DEF MissesCounted

LEMMA QuietMisses ==
  ASSUME IInv, MissesCounted, NEW p \in Proc, NEW r, job' = [job EXCEPT ![p] = r],
         r = Idle \/ r.stage # "finish", row' = row, misses' = misses
  PROVE  MissesCounted'
BY MissesStep DEF MissesCounted

LEMMA StartsMisses ==
  ASSUME IInv, MissesCounted, NEW p \in Proc,
         \/ StartLogin(p) \/ StartTotp(p) \/ StartEnroll(p) \/ StartConfirm(p)
         \/ StartOwnConfirm(p) \/ StartUpdate(p)
  PROVE  MissesCounted'
<1>1. row' = row /\ misses' = misses
  BY DEF StartLogin, StartTotp, StartEnroll, StartConfirm, StartOwnConfirm, StartUpdate, db, ghosts
<1>2. PICK op, stage, at, pw, gen :
        job' = [job EXCEPT ![p] = Job(op, stage, at, pw, gen)] /\ stage # "finish"
  BY DEF StartLogin, StartTotp, StartEnroll, StartConfirm, StartOwnConfirm, StartUpdate,
    FromChallenge, Serve
<1>3. PICK r : r = Job(op, stage, at, pw, gen)
  OBVIOUS
<1>4. r.stage # "finish"
  BY <1>2, <1>3 DEF Job
<1>. QED  BY <1>1, <1>2, <1>3, <1>4, QuietMisses

LEMMA EntersMisses ==
  ASSUME IInv, MissesCounted, NEW p \in Proc,
         EnterEnroll(p) \/ EnterConfirm(p) \/ EnterUpdate(p) \/ Stamp(p)
  PROVE  MissesCounted'
<1>1. PICK j : j = job[p]
  OBVIOUS
<1>2. row' = row /\ misses' = misses /\ (At(p, "lock") \/ At(p, "stamp"))
  BY DEF EnterEnroll, EnterConfirm, EnterUpdate, Enter, Stamp, db, ghosts
<1>3. j # Idle /\ j \in JobType
  BY <1>1, <1>2, AtFits DEF At, Idle
<1>4. CASE Stamp(p)
  <2>1. PICK r : r = [j EXCEPT !.stamp = clock', !.stage = "write"]
    OBVIOUS
  <2>2. r.stage = "write" /\ job' = [job EXCEPT ![p] = r]
    BY <1>1, <1>3, <1>4, <2>1 DEF Stamp, Serve, JobType
  <2>. QED  BY <1>2, <2>2, QuietMisses
<1>5. CASE \E stage, code : stage \in {"stamp", "write"} /\ Enter(p, stage, code)
  <2>1. PICK stage, code : stage \in {"stamp", "write"} /\ Enter(p, stage, code)
    BY <1>5
  <2>2. PICK r : r = [j EXCEPT !.obj = row, !.stage = stage, !.code = code]
    OBVIOUS
  <2>3. r.stage = stage /\ job' = [job EXCEPT ![p] = r]
    BY <1>1, <1>3, <2>1, <2>2 DEF Enter, Serve, JobType
  <2>. QED  BY <1>2, <2>1, <2>3, QuietMisses
<1>6. EnterConfirm(p) => \E stage, code : stage \in {"stamp", "write"} /\ Enter(p, stage, code)
  <2>1. SUFFICES ASSUME NEW c, Enter(p, IF c = 0 THEN "write" ELSE "stamp", <<row.secret, c>>)
                 PROVE  \E stage, code : stage \in {"stamp", "write"} /\ Enter(p, stage, code)
    BY DEF EnterConfirm
  <2>2. (IF c = 0 THEN "write" ELSE "stamp") \in {"stamp", "write"}
    OBVIOUS
  <2>. QED  BY <2>1, <2>2
<1>. QED  BY <1>4, <1>5, <1>6 DEF EnterEnroll, EnterUpdate

\* Unlocking after the time has passed begins a new count.
LEMMA UnlockedMisses ==
  ASSUME World, MissesCounted, NEW now, now = Unlocked(row), NEW n,
         n = IF row.locked = "expired" THEN 0 ELSE misses
  PROVE  /\ now \in RowType /\ n \in 0..Threshold /\ n <= now.failed
         /\ now.failed = Threshold => now.locked # "no"
         /\ OneMore(n) <= Missed(now).failed
         /\ Missed(now).failed = Threshold => Missed(now).locked # "no"
<1>1. row \in RowType /\ n \in 0..Threshold
  BY MissesTypes DEF World
<1>2. now \in RowType /\ now.failed \in 0..Threshold
  BY <1>1, UnlockedType DEF RowType
<1>3. n <= now.failed
  <2>1. CASE row.locked = "expired"
    BY <1>1, <2>1, UnlockedType
  <2>2. CASE row.locked # "expired"
    BY <1>1, <2>2, UnlockedType DEF MissesCounted
  <2>. QED  BY <2>1, <2>2
<1>4. now.failed = Threshold => now.locked # "no"
  BY <1>1, UnlockedType, BoundTypes DEF MissesCounted
<1>5. OneMore(n) <= Missed(now).failed
  BY <1>1, <1>2, <1>3, MissedType, BoundTypes DEF OneMore
<1>6. Missed(now).failed = Threshold => Missed(now).locked # "no"
  BY <1>2, MissedType
<1>. QED  BY <1>1, <1>2, <1>3, <1>4, <1>5, <1>6

LEMMA AuthenticateMisses ==
  ASSUME IInv, MissesCounted, NEW p \in Proc, Authenticate(p)
  PROVE  MissesCounted'
<1>1. PICK j : j = job[p]
  OBVIOUS
<1>2. PICK now : now = Unlocked(row)
  OBVIOUS
<1>3. PICK n : n = IF row.locked = "expired" THEN 0 ELSE misses
  OBVIOUS
<1>4. /\ now \in RowType /\ n <= now.failed
      /\ now.failed = Threshold => now.locked # "no"
      /\ OneMore(n) <= Missed(now).failed
      /\ Missed(now).failed = Threshold => Missed(now).locked # "no"
  BY <1>2, <1>3, UnlockedMisses DEF IInv
<1>5. At(p, "password")
  BY DEF Authenticate
<1>6. j # Idle /\ j \in JobType
  BY <1>1, <1>5, AtFits DEF At, Idle
<1>7. CASE j.pw # row.pw
  <2>1. row' = Missed(now) /\ misses' = OneMore(n) /\ job' = [job EXCEPT ![p] = Idle]
    BY <1>1, <1>2, <1>3, <1>7 DEF Authenticate, Done, Serve
  <2>. QED  BY <1>4, <2>1, MissesStep
<1>8. CASE j.pw = row.pw /\ job' = [job EXCEPT ![p] = Idle]
  <2>1. row' = now /\ misses' = n
    BY <1>1, <1>2, <1>3, <1>8 DEF Authenticate
  <2>. QED  BY <1>4, <1>8, <2>1, MissesStep
<1>9. CASE j.pw = row.pw /\ job' # [job EXCEPT ![p] = Idle]
  <2>1. row' = now /\ misses' = n /\ now.locked = "no"
    BY <1>1, <1>2, <1>3, <1>9 DEF Authenticate, Done, Serve
  <2>2. PICK next \in AfterPassword(now) :
          job' = [job EXCEPT ![p] = [j EXCEPT !.obj = now, !.stage = next]]
    BY <1>1, <1>2, <1>9 DEF Authenticate, Serve, Done
  <2>3. PICK r : r = [j EXCEPT !.obj = now, !.stage = next]
    OBVIOUS
  <2>4. r.obj = now
    BY <1>6, <2>3 DEF JobType
  <2>. QED  BY <1>4, <2>1, <2>2, <2>3, <2>4, MissesStep
<1>. QED  BY <1>7, <1>8, <1>9

LEMMA CodeMisses ==
  ASSUME IInv, MissesCounted, NEW p \in Proc, VerifyCode(p) \/ MissCode(p)
  PROVE  MissesCounted'
<1>1. PICK j : j = job[p]
  OBVIOUS
<1>2. At(p, "code")
  BY DEF VerifyCode, MissCode
<1>3. j # Idle /\ j \in JobType /\ row \in RowType /\ misses \in 0..Threshold
  BY <1>1, <1>2, AtFits DEF At, Idle, IInv, World
<1>4. CASE VerifyCode(p)
  <2>1. PICK c \in Counter :
          /\ row' = [Cleared(row) EXCEPT !.last = c]
          /\ job' = [job EXCEPT ![p] = [j EXCEPT !.obj = row', !.stage = "finish",
                                                 !.code = <<row.secret, c>>]]
    BY <1>1, <1>4 DEF VerifyCode, Serve
  <2>2. PICK new : new = Cleared(row)
    OBVIOUS
  <2>3. new \in RowType /\ new.failed = 0 /\ new.locked = "no"
    BY <1>3, <2>2, ClearedType
  <2>4. row'.failed = 0 /\ row'.locked = "no"
    BY <2>1, <2>2, <2>3 DEF RowType
  <2>5. PICK r : r = [j EXCEPT !.obj = row', !.stage = "finish", !.code = <<row.secret, c>>]
    OBVIOUS
  <2>6. r.obj = row'
    BY <1>3, <2>5 DEF JobType
  <2>7. misses' = 0
    BY <1>4 DEF VerifyCode
  <2>8. misses' <= row'.failed /\ row'.failed # Threshold
    BY <2>4, <2>7, BoundTypes
  <2>. QED  BY <2>1, <2>4, <2>5, <2>6, <2>8, MissesStep
<1>5. CASE MissCode(p)
  <2>1. /\ row' = Missed(row) /\ misses' = OneMore(misses)
        /\ job' = [job EXCEPT ![p] = Idle]
    BY <1>5 DEF MissCode, Done, Serve
  <2>2. misses <= row.failed /\ row.failed \in 0..Threshold
    BY <1>3 DEF MissesCounted, RowType
  <2>3. misses' <= row'.failed
    BY <1>3, <2>1, <2>2, MissedType, BoundTypes DEF OneMore
  <2>4. row'.failed = Threshold => row'.locked # "no"
    BY <1>3, <2>1, MissedType
  <2>. QED  BY <2>1, <2>3, <2>4, MissesStep
<1>. QED  BY <1>4, <1>5

\* A login that ends found the account unlocked: it writes the failures alone.
LEMMA FinishMisses ==
  ASSUME IInv, MissesCounted, NEW p \in Proc, Finish(p)
  PROVE  MissesCounted'
<1>1. PICK j : j = job[p]
  OBVIOUS
<1>2. At(p, "finish")
  BY DEF Finish
<1>3. /\ row' = Flush(j.obj, Cleared(j.obj)) /\ misses' = 0
      /\ job' = [job EXCEPT ![p] = Idle]
  BY <1>1 DEF Finish, Done, Serve
<1>4. j # Idle /\ j \in JobType /\ j.stage = "finish"
  BY <1>1, <1>2, AtFits DEF At, Idle
<1>5. j.obj.locked = "no" /\ j.obj \in RowType /\ row \in RowType
  BY <1>1, <1>4 DEF MissesCounted, JobType, IInv, World
<1>6. PICK new : new = Cleared(j.obj)
  OBVIOUS
<1>7. new \in RowType /\ new.locked = "no" /\ new.failed = 0
  BY <1>5, <1>6, ClearedType
<1>8. row'.locked = row.locked /\ row'.failed \in {0, row.failed}
  BY <1>3, <1>5, <1>6, <1>7, FlushType DEF Flushed
<1>9. misses' <= row'.failed /\ (row'.failed = Threshold => row'.locked # "no")
  BY <1>3, <1>5, <1>8, BoundTypes DEF MissesCounted, RowType
<1>. QED  BY <1>3, <1>9, MissesStep

LEMMA WritesMisses ==
  ASSUME IInv, MissesCounted, "confirm" \notin Ops, "own" \notin Ops, NEW p \in Proc,
         WriteEnroll(p) \/ WriteConfirm(p) \/ WriteMiss(p) \/ WriteUpdate(p)
  PROVE  MissesCounted'
<1>1. PICK j : j = job[p]
  OBVIOUS
<1>2. At(p, "write")
  BY DEF WriteEnroll, WriteConfirm, WriteMiss, WriteUpdate, Write
<1>3. j # Idle /\ j \in JobType /\ JobFits(p, j) /\ j.stage = "write"
  BY <1>1, <1>2, AtFits DEF At, Idle
<1>4. j.op \notin {"confirm", "own"} /\ j.obj \in RowType /\ row \in RowType
  BY <1>3 DEF JobFits, JobType, IInv, World
<1>5. WriteEnroll(p) \/ WriteUpdate(p)
  BY <1>1, <1>4 DEF WriteConfirm, WriteMiss
<1>6. misses' = misses /\ job' = [job EXCEPT ![p] = Idle]
  BY <1>5 DEF WriteEnroll, WriteUpdate, Done, Serve, ghosts
<1>7. ASSUME NEW new \in RowType, Write(p, new),
             new.failed = j.obj.failed, new.locked = j.obj.locked
      PROVE  MissesCounted'
  <2>1. row' = Flush(j.obj, new)
    BY <1>1, <1>7 DEF Write
  <2>2. row'.failed = row.failed /\ row'.locked = row.locked
    BY <1>4, <1>7, <2>1, FlushType DEF Flushed
  <2>3. misses' <= row'.failed /\ (row'.failed = Threshold => row'.locked # "no")
    BY <1>6, <2>2 DEF MissesCounted
  <2>. QED  BY <1>6, <2>3, MissesStep
<1>8. CASE WriteEnroll(p)
  <2>1. PICK new : new = [j.obj EXCEPT !.secret = made + 1, !.enabled = FALSE, !.last = 0]
    OBVIOUS
  <2>2. Write(p, new) /\ made < MaxSecret
    BY <1>1, <1>8, <2>1 DEF WriteEnroll
  <2>3. made + 1 \in 0..MaxSecret /\ 0 \in 0..MaxCounter
    BY <2>2, BoundTypes DEF IInv, World
  <2>4. new \in RowType /\ new.failed = j.obj.failed /\ new.locked = j.obj.locked
    BY <1>4, <2>1, <2>3 DEF RowType
  <2>. QED  BY <1>7, <2>2, <2>4
<1>9. CASE j.op = "reset" /\ WriteUpdate(p)
  <2>1. PICK new : new = [j.obj EXCEPT !.enabled = FALSE, !.secret = 0, !.last = 0,
                                       !.totpAt = j.stamp]
    OBVIOUS
  <2>2. Write(p, new)
    BY <1>1, <1>9, <2>1 DEF WriteUpdate
  <2>3. j.stamp \in 0..MaxClock /\ 0 \in 0..MaxSecret /\ 0 \in 0..MaxCounter
    BY <1>3, BoundTypes DEF JobType, Time
  <2>4. new \in RowType /\ new.failed = j.obj.failed /\ new.locked = j.obj.locked
    BY <1>4, <2>1, <2>3 DEF RowType
  <2>. QED  BY <1>7, <2>2, <2>4
<1>10. CASE j.op = "revoke" /\ WriteUpdate(p)
  <2>1. PICK a \in BOOLEAN : Write(p, [j.obj EXCEPT !.active = a, !.epoch = @ + 1])
    BY <1>1, <1>10 DEF WriteUpdate
  <2>2. PICK new : new = [j.obj EXCEPT !.active = a, !.epoch = @ + 1]
    OBVIOUS
  <2>3. j.obj.epoch + 1 \in 0..MaxEpoch
    BY <1>3, <1>4, <1>10, BoundTypes DEF JobFits, RowType
  <2>4. new \in RowType /\ new.failed = j.obj.failed /\ new.locked = j.obj.locked
    BY <1>4, <2>2, <2>3 DEF RowType
  <2>. QED  BY <1>7, <2>1, <2>2, <2>4
<1>. QED  BY <1>1, <1>5, <1>8, <1>9, <1>10 DEF WriteUpdate

LEMMA OthersMisses ==
  ASSUME IInv, MissesCounted, "own" \notin Ops, NEW p \in Proc,
         \/ IssueChallenge(p) \/ WrongPassword(p) \/ StartOwnEnroll(p)
         \/ SetPassword(p) \/ ChangePassword(p) \/ CommitPassword(p) \/ Abort(p)
  PROVE  MissesCounted'
<1>1. CASE IssueChallenge(p) \/ Abort(p)
  <2>1. row' = row /\ misses' = misses /\ job' = [job EXCEPT ![p] = Idle]
    BY <1>1 DEF IssueChallenge, Abort, Done, Serve, db, ghosts
  <2>. QED  BY <2>1, QuietMisses
<1>2. CASE WrongPassword(p)
  <2>1. /\ job' = job /\ row' = Missed(Unlocked(row))
        /\ misses' = OneMore(IF row.locked = "expired" THEN 0 ELSE misses)
    BY <1>2 DEF WrongPassword
  <2>2. PICK now : now = Unlocked(row)
    OBVIOUS
  <2>3. PICK n : n = IF row.locked = "expired" THEN 0 ELSE misses
    OBVIOUS
  <2>4. /\ misses' <= row'.failed
        /\ row'.failed = Threshold => row'.locked # "no"
    BY <2>1, <2>2, <2>3, UnlockedMisses DEF IInv
  <2>. QED  BY <2>1, <2>4 DEF MissesCounted
<1>3. CASE StartOwnEnroll(p)
  BY <1>3 DEF StartOwnEnroll, May
<1>4. CASE SetPassword(p) \/ ChangePassword(p)
  <2>1. /\ row' = row /\ misses' = misses
        /\ job' = [job EXCEPT ![p] = [Job("password", "commit", 0, 0, None) EXCEPT !.stamp = clock']]
    BY <1>4 DEF SetPassword, ChangePassword, BeginPassword, Serve, ghosts
  <2>2. PICK r : r = [Job("password", "commit", 0, 0, None) EXCEPT !.stamp = clock']
    OBVIOUS
  <2>3. r.stage # "finish"
    BY <2>2 DEF Job
  <2>. QED  BY <2>1, <2>2, <2>3, QuietMisses
<1>5. CASE CommitPassword(p)
  <2>1. PICK new : new = Cleared(row)
    OBVIOUS
  <2>2. /\ row' = [new EXCEPT !.pw = @ + 1, !.pwAt = job[p].stamp] /\ misses' = 0
        /\ job' = [job EXCEPT ![p] = Idle]
    BY <1>5, <2>1 DEF CommitPassword, Done, Serve
  <2>3. new \in RowType /\ new.failed = 0
    BY <2>1, ClearedType DEF IInv, World
  <2>4. row'.failed = 0
    BY <2>2, <2>3 DEF RowType
  <2>5. misses' <= row'.failed /\ row'.failed # Threshold
    BY <2>2, <2>4, BoundTypes
  <2>. QED  BY <2>2, <2>5, MissesStep
<1>. QED  BY <1>1, <1>2, <1>3, <1>4, <1>5

LEMMA NextMisses ==
  ASSUME IInv, MissesCounted, "confirm" \notin Ops, "own" \notin Ops, [Next]_vars
  PROVE  MissesCounted'
<1>1. CASE LockoutExpires
  <2>1. /\ row' = [row EXCEPT !.locked = "expired"] /\ row \in RowType
        /\ misses' = misses /\ job' = job
    BY <1>1 DEF LockoutExpires, ghosts, IInv, World
  <2>2. row'.failed = row.failed /\ row'.locked = "expired"
    BY <2>1 DEF RowType
  <2>. QED  BY <2>1, <2>2 DEF MissesCounted
<1>2. ASSUME NEW p \in Proc,
             \/ StartLogin(p) \/ Authenticate(p) \/ IssueChallenge(p)
             \/ StartTotp(p) \/ VerifyCode(p) \/ MissCode(p) \/ Finish(p)
             \/ StartEnroll(p) \/ StartConfirm(p)
      PROVE  MissesCounted'
  BY <1>2, StartsMisses, AuthenticateMisses, OthersMisses, CodeMisses, FinishMisses
<1>3. ASSUME NEW p \in Proc,
             \/ WrongPassword(p) \/ StartOwnEnroll(p) \/ StartOwnConfirm(p)
             \/ StartUpdate(p) \/ EnterEnroll(p) \/ EnterConfirm(p) \/ EnterUpdate(p)
             \/ Stamp(p) \/ WriteEnroll(p) \/ WriteConfirm(p) \/ WriteMiss(p) \/ WriteUpdate(p)
             \/ SetPassword(p) \/ ChangePassword(p) \/ CommitPassword(p) \/ Abort(p)
      PROVE  MissesCounted'
  BY <1>3, OthersMisses, StartsMisses, EntersMisses, WritesMisses
<1>4. CASE UNCHANGED vars
  BY <1>4 DEF vars, MissesCounted
<1>. QED  BY <1>1, <1>2, <1>3, <1>4 DEF Next

(* Threshold failed attempts without a complete login in between lock the   *)
(* account, whichever requests they are spread over and however the ends of *)
(* other logins fall between them (authenticate, verify_totp_code and       *)
(* clear_failures).  Confirmations of a factor are left out: confirm_totp   *)
(* counts on an object it has read without a row lock.                      *)
THEOREM EnoughMissesLock ==
  ASSUME "confirm" \notin Ops, "own" \notin Ops
  PROVE  Spec => []MissesLock
<1>1. Init => IInv /\ MissesCounted
  <2>1. Init => MissesCounted
    BY BoundTypes DEF Init, MissesCounted
  <2>. QED  BY <2>1, InitEstablishes
<1>2. (IInv /\ MissesCounted) /\ [Next]_vars => (IInv /\ MissesCounted)'
  BY NextMisses, StepPreserves
<1>3. IInv /\ MissesCounted => MissesLock
  BY BoundTypes DEF IInv, World, RowType, MissesCounted, MissesLock
<1>. QED  BY <1>1, <1>2, <1>3, PTL DEF Spec

-----------------------------------------------------------------------------
(* Codes, where no administrator resets a factor.                           *)

\* What a step may make of its own request, besides showing a code.
CodeFits(r) ==
  r # Idle =>
    /\ r.stage = "code" => row.enabled
    /\ r.stage = "challenge" /\ r.obj.enabled => row.enabled
    /\ r.stage \in {"stamp", "write"} /\ ~row.enabled => r.obj.last = row.last
    /\ r.stage = "password" => r.code = NoCode

(* Secret, counter and codes are kept, and one request moves on.            *)
LEMMA CodesKept ==
  ASSUME IInv, CodeInv, NEW p \in Proc, NEW r, job' = [job EXCEPT ![p] = r],
         row'.secret = row.secret, row'.last = row.last, row'.enabled = row.enabled,
         made' = made, spent' = spent,
         challenge' = challenge \/ (challenge' # None /\ challenge'.scope = "totp" => row.enabled),
         CodeFits(r)
  PROVE  FactorStays' /\ CounterPast'
<1>1. job'[p] = r /\ \A q \in Proc \ {p} : job'[q] = job[q]
  BY DEF IInv, JobsFit
<1>2. CounterPast'
  BY DEF CodeInv, CounterPast
<1>3. FactorStays'
  BY <1>1 DEF CodeInv, FactorStays, CodeFits
<1>. QED  BY <1>2, <1>3

LEMMA NoNewCode ==
  ASSUME IInv, CodeInv, NEW p \in Proc, NEW r, job' = [job EXCEPT ![p] = r],
         spent \subseteq spent', sessions' = sessions, CodeFits(r),
         r # Idle /\ r.stage = "finish" => r.code = NoCode
  PROVE  CodesApart'
<1>1. job'[p] = r /\ \A q \in Proc \ {p} : job'[q] = job[q]
  BY DEF IInv, JobsFit
<1>2. Showing' \subseteq Showing \ {p}
  BY <1>1 DEF Showing
<1>. QED  BY <1>1, <1>2 DEF CodeInv, CodesApart, CodeFits

LEMMA OrdinaryCodes ==
  ASSUME IInv, CodeInv, NEW p \in Proc, NEW r, job' = [job EXCEPT ![p] = r],
         row'.secret = row.secret, row'.last = row.last, row'.enabled = row.enabled,
         made' = made, spent' = spent, sessions' = sessions,
         challenge' = challenge \/ (challenge' # None /\ challenge'.scope = "totp" => row.enabled),
         CodeFits(r), r # Idle /\ r.stage = "finish" => r.code = NoCode
  PROVE  CodeInv'
BY CodesKept, NoNewCode DEF CodeInv

(* A code past the counter has not been accepted before.                    *)
LEMMA CodeIsNew ==
  ASSUME IInv, CodeInv, NEW c \in Nat, c > row.last
  PROVE  <<row.secret, c>> \notin spent
<1>1. row.last \in Nat
  BY BoundTypes DEF IInv, World, RowType
<1>2. <<row.secret, c>>[1] = row.secret /\ <<row.secret, c>>[2] = c
  OBVIOUS
<1>3. \A x \in spent : x[1] = row.secret => x[2] <= row.last
  BY DEF CodeInv, CounterPast
<1>. QED  BY <1>1, <1>2, <1>3

(* A new code of the stored secret is accepted and becomes its counter.     *)
LEMMA NewCode ==
  ASSUME IInv, CodeInv, NEW p \in Proc, NEW r, job' = [job EXCEPT ![p] = r],
         NEW c \in Nat, c > row.last, row.secret \in Nat,
         spent' = spent \cup {<<row.secret, c>>}, sessions' = sessions,
         row'.secret = row.secret, row'.last = c, row'.enabled, made' = made,
         challenge' = challenge,
         r = Idle \/ (r.stage = "finish" /\ r.code = <<row.secret, c>>)
  PROVE  CodeInv'
<1>1. job'[p] = r /\ \A q \in Proc \ {p} : job'[q] = job[q]
  BY DEF IInv, JobsFit
<1>2. FactorStays'
  BY <1>1 DEF CodeInv, FactorStays
<1>3. CounterPast'
  <2>1. row.last \in Nat /\ spent \subseteq Nat \X Nat
    BY BoundTypes DEF IInv, World, RowType, CodeInv, CounterPast
  <2>2. ASSUME NEW x \in spent'
        PROVE  x \in Nat \X Nat /\ x[1] <= made /\ (x[1] = row.secret => x[2] <= c)
    BY <2>1, <2>2 DEF CodeInv, CounterPast
  <2>. QED  BY <2>2 DEF CodeInv, CounterPast
<1>4. CodesApart'
  <2>1. <<row.secret, c>> \notin spent
    BY CodeIsNew
  <2>2. Showing' \subseteq (Showing \ {p}) \cup {p}
    BY <1>1 DEF Showing
  <2>3. \A q \in Showing' : q # p => job'[q] = job[q] /\ job[q].code \in spent
    BY <1>1, <2>2 DEF CodeInv, CodesApart
  <2>4. p \in Showing' => job'[p].code = <<row.secret, c>>
    BY <1>1 DEF Showing
  <2>5. \A i \in DOMAIN sessions : sessions[i].code # NoCode => sessions[i].code \in spent
    BY DEF CodeInv, CodesApart
  <2>6. <<row.secret, c>> # NoCode
    <3>1. c # 0
      BY BoundTypes DEF IInv, World, RowType
    <3>. QED  BY <3>1 DEF NoCode
  <2>7. \A q \in Proc : job'[q] # Idle /\ job'[q].stage = "password" => job'[q].code = NoCode
    BY <1>1 DEF CodeInv, CodesApart
  <2>8. \A q1, q2 \in Showing' : q1 # q2 => job'[q1].code # job'[q2].code
    BY <2>1, <2>2, <2>3, <2>4 DEF CodeInv, CodesApart
  <2>9. \A q \in Showing', i \in DOMAIN sessions : sessions[i].code # job'[q].code
    BY <2>1, <2>2, <2>3, <2>4, <2>5, <2>6 DEF CodeInv, CodesApart
  <2>10. \A q \in Showing' : job'[q].code \in spent'
    <3>1. SUFFICES ASSUME NEW q \in Showing' PROVE job'[q].code \in spent'
      OBVIOUS
    <3>2. CASE q = p
      <4>1. job'[q].code = <<row.secret, c>>
        BY <2>4, <3>1, <3>2
      <4>2. <<row.secret, c>> \in spent'
        OBVIOUS
      <4>. QED  BY <4>1, <4>2
    <3>3. CASE q # p
      BY <2>3, <3>1, <3>3
    <3>. QED  BY <3>2, <3>3
  <2>. QED  BY <2>5, <2>7, <2>8, <2>9, <2>10 DEF CodeInv, CodesApart
<1>. QED  BY <1>2, <1>3, <1>4 DEF CodeInv

LEMMA StartsCodes ==
  ASSUME IInv, CodeInv, NEW p \in Proc,
         \/ StartLogin(p) \/ StartTotp(p) \/ StartEnroll(p) \/ StartConfirm(p)
         \/ StartOwnConfirm(p) \/ StartUpdate(p)
  PROVE  CodeInv'
<1>1. /\ row' = row /\ made' = made /\ spent' = spent /\ sessions' = sessions
      /\ challenge' = challenge
  BY DEF StartLogin, StartTotp, StartEnroll, StartConfirm, StartOwnConfirm, StartUpdate, db, ghosts
<1>2. PICK op, stage, at, pw, gen :
        /\ job' = [job EXCEPT ![p] = Job(op, stage, at, pw, gen)]
        /\ stage = "code" => row.enabled
        /\ stage \in {"password", "code", "lock"}
  <2>1. StartTotp(p) => row.enabled
    BY DEF StartTotp, ChallengeAccepted, CodeInv, FactorStays
  <2>. QED
    BY <2>1 DEF StartLogin, StartTotp, StartEnroll, StartConfirm, StartOwnConfirm, StartUpdate,
      FromChallenge, Serve
<1>3. PICK r : r = Job(op, stage, at, pw, gen)
  OBVIOUS
<1>4. r.stage = stage /\ r.code = NoCode
  BY <1>3 DEF Job
<1>5. CodeFits(r)
  BY <1>2, <1>4 DEF CodeFits
<1>. QED  BY <1>1, <1>2, <1>3, <1>4, <1>5, OrdinaryCodes

LEMMA EntersCodes ==
  ASSUME IInv, CodeInv, NEW p \in Proc,
         EnterEnroll(p) \/ EnterConfirm(p) \/ EnterUpdate(p) \/ Stamp(p)
  PROVE  CodeInv'
<1>1. PICK j : j = job[p]
  OBVIOUS
<1>2. /\ row' = row /\ made' = made /\ spent' = spent /\ sessions' = sessions
      /\ challenge' = challenge
      /\ At(p, "lock") \/ At(p, "stamp")
  BY DEF EnterEnroll, EnterConfirm, EnterUpdate, Enter, Stamp, db, ghosts
<1>3. j # Idle /\ j \in JobType
  BY <1>1, <1>2, AtFits DEF At, Idle
<1>4. CASE Stamp(p)
  <2>1. PICK r : r = [j EXCEPT !.stamp = clock', !.stage = "write"]
    OBVIOUS
  <2>2. r.stage = "write" /\ r.obj = j.obj /\ job' = [job EXCEPT ![p] = r]
    BY <1>1, <1>3, <1>4, <2>1 DEF Stamp, Serve, JobType
  <2>3. j.stage = "stamp"
    BY <1>1, <1>4 DEF Stamp, At
  <2>4. CodeFits(r)
    BY <1>1, <1>3, <2>2, <2>3 DEF CodeFits, CodeInv, FactorStays
  <2>. QED  BY <1>2, <2>2, <2>4, OrdinaryCodes
<1>5. CASE \E stage, code : stage \in {"stamp", "write"} /\ Enter(p, stage, code)
  <2>1. PICK stage, code : stage \in {"stamp", "write"} /\ Enter(p, stage, code)
    BY <1>5
  <2>2. PICK r : r = [j EXCEPT !.obj = row, !.stage = stage, !.code = code]
    OBVIOUS
  <2>3. r.stage = stage /\ r.obj = row /\ job' = [job EXCEPT ![p] = r]
    BY <1>1, <1>3, <2>1, <2>2 DEF Enter, Serve, JobType
  <2>4. CodeFits(r)
    BY <2>1, <2>3 DEF CodeFits
  <2>. QED  BY <1>2, <2>1, <2>3, <2>4, OrdinaryCodes
<1>6. EnterConfirm(p) => \E stage, code : stage \in {"stamp", "write"} /\ Enter(p, stage, code)
  <2>1. SUFFICES ASSUME NEW c, Enter(p, IF c = 0 THEN "write" ELSE "stamp", <<row.secret, c>>)
                 PROVE  \E stage, code : stage \in {"stamp", "write"} /\ Enter(p, stage, code)
    BY DEF EnterConfirm
  <2>2. (IF c = 0 THEN "write" ELSE "stamp") \in {"stamp", "write"}
    OBVIOUS
  <2>. QED  BY <2>1, <2>2
<1>. QED  BY <1>4, <1>5, <1>6 DEF EnterEnroll, EnterUpdate

LEMMA AuthenticateCodes ==
  ASSUME IInv, CodeInv, NEW p \in Proc, Authenticate(p)
  PROVE  CodeInv'
<1>1. PICK j : j = job[p]
  OBVIOUS
<1>2. PICK now : now = Unlocked(row)
  OBVIOUS
<1>3. At(p, "password") /\ UNCHANGED <<made, challenge, sessions, spent>>
  <2>1. At(p, "password")
    BY DEF Authenticate
  <2>2. UNCHANGED <<made, challenge, sessions, spent>>
    BY DEF Authenticate
  <2>. QED  BY <2>1, <2>2
<1>4. j # Idle /\ j \in JobType /\ j.code = NoCode
  BY <1>1, <1>3, AtFits DEF At, Idle, CodeInv, CodesApart
<1>5. /\ now \in RowType /\ now.secret = row.secret /\ now.last = row.last
      /\ now.enabled = row.enabled
  BY <1>2, UnlockedType DEF IInv, World
<1>6. row'.secret = row.secret /\ row'.last = row.last /\ row'.enabled = row.enabled
  <2>1. row' = now \/ row' = Missed(now)
    BY <1>2 DEF Authenticate
  <2>. QED  BY <1>5, <2>1, MissedType
<1>7. CASE job' = [job EXCEPT ![p] = Idle]
  <2>1. CodeFits(Idle)
    BY DEF CodeFits
  <2>. QED  BY <1>3, <1>6, <1>7, <2>1, OrdinaryCodes
<1>8. CASE job' # [job EXCEPT ![p] = Idle]
  <2>1. PICK next \in AfterPassword(now) :
          job' = [job EXCEPT ![p] = [j EXCEPT !.obj = now, !.stage = next]]
    BY <1>1, <1>2, <1>8 DEF Authenticate, Serve, Done
  <2>2. PICK r : r = [j EXCEPT !.obj = now, !.stage = next]
    OBVIOUS
  <2>3. r.stage = next /\ r.obj = now /\ r.code = NoCode
    BY <1>4, <2>2 DEF JobType
  <2>4. CodeFits(r)
    BY <1>5, <2>1, <2>3 DEF CodeFits, AfterPassword
  <2>. QED  BY <1>3, <1>6, <2>1, <2>2, <2>3, <2>4, OrdinaryCodes
<1>. QED  BY <1>7, <1>8

LEMMA VerifyCodes ==
  ASSUME IInv, CodeInv, NEW p \in Proc, VerifyCode(p)
  PROVE  CodeInv'
<1>1. PICK j : j = job[p]
  OBVIOUS
<1>2. PICK c \in Counter :
        /\ c > row.last
        /\ row' = [Cleared(row) EXCEPT !.last = c]
        /\ spent' = spent \cup {<<row.secret, c>>}
        /\ job' = [job EXCEPT ![p] = [j EXCEPT !.obj = row', !.stage = "finish",
                                               !.code = <<row.secret, c>>]]
  BY <1>1 DEF VerifyCode, Serve
<1>3. PICK r : r = [j EXCEPT !.obj = row', !.stage = "finish", !.code = <<row.secret, c>>]
  OBVIOUS
<1>4. At(p, "code") /\ UNCHANGED <<made, challenge, sessions>>
  <2>1. UNCHANGED <<made, challenge, sessions>>
    BY DEF VerifyCode
  <2>. QED  BY <2>1 DEF VerifyCode
<1>5. j # Idle /\ j \in JobType /\ row.enabled
  BY <1>1, <1>4, AtFits DEF At, Idle, CodeInv, FactorStays
<1>6. r.stage = "finish" /\ r.code = <<row.secret, c>>
  BY <1>3, <1>5 DEF JobType
<1>7. row'.secret = row.secret /\ row'.last = c /\ row'.enabled = row.enabled
  <2>1. PICK new : new = Cleared(row)
    OBVIOUS
  <2>2. new \in RowType /\ new.secret = row.secret /\ new.enabled = row.enabled
    BY <2>1, ClearedType DEF IInv, World
  <2>. QED  BY <1>2, <2>1, <2>2 DEF RowType
<1>8. c \in Nat /\ row.secret \in Nat
  BY BoundTypes DEF IInv, World, RowType, Counter
<1>. QED  BY <1>2, <1>3, <1>4, <1>5, <1>6, <1>7, <1>8, NewCode

\* Row changes that have nothing to do with the factor.
LEMMA RowCodes ==
  ASSUME IInv, CodeInv, NEW p \in Proc,
         MissCode(p) \/ WrongPassword(p) \/ CommitPassword(p) \/ StartOwnEnroll(p)
  PROVE  CodeInv'
<1>1. row \in RowType /\ UNCHANGED <<made, challenge, sessions, spent>>
  BY DEF MissCode, WrongPassword, CommitPassword, StartOwnEnroll, IInv, World
<1>2. row'.secret = row.secret /\ row'.last = row.last /\ row'.enabled = row.enabled
  <2>1. CASE MissCode(p)
    BY <1>1, <2>1, MissedType DEF MissCode
  <2>2. CASE WrongPassword(p)
    <3>1. PICK now : now = Unlocked(row)
      OBVIOUS
    <3>2. /\ now \in RowType /\ now.secret = row.secret /\ now.last = row.last
          /\ now.enabled = row.enabled
      BY <1>1, <3>1, UnlockedType
    <3>. QED  BY <2>2, <3>1, <3>2, MissedType DEF WrongPassword
  <2>3. CASE CommitPassword(p)
    <3>1. PICK new : new = Cleared(row)
      OBVIOUS
    <3>2. row' = [new EXCEPT !.pw = @ + 1, !.pwAt = job[p].stamp]
      BY <2>3, <3>1 DEF CommitPassword
    <3>3. /\ new \in RowType /\ new.secret = row.secret /\ new.last = row.last
          /\ new.enabled = row.enabled
      BY <1>1, <3>1, ClearedType
    <3>. QED  BY <3>2, <3>3 DEF RowType
  <2>4. CASE StartOwnEnroll(p)
    BY <1>1, <2>4, ClearedType DEF StartOwnEnroll
  <2>. QED  BY <2>1, <2>2, <2>3, <2>4
<1>3. CASE StartOwnEnroll(p)
  <2>1. PICK r : r = Job("enroll", "lock", 0, row.pw, None)
    OBVIOUS
  <2>2. r.stage = "lock" /\ job' = [job EXCEPT ![p] = r]
    BY <1>3, <2>1 DEF StartOwnEnroll, Serve, Job
  <2>3. CodeFits(r)
    BY <2>2 DEF CodeFits
  <2>. QED  BY <1>1, <1>2, <2>2, <2>3, OrdinaryCodes
<1>4. CASE MissCode(p) \/ WrongPassword(p) \/ CommitPassword(p)
  <2>1. job' = [job EXCEPT ![p] = Idle]
    BY <1>4 DEF MissCode, WrongPassword, CommitPassword, Done, Serve, IInv, JobsFit
  <2>2. CodeFits(Idle)
    BY DEF CodeFits
  <2>. QED  BY <1>1, <1>2, <2>1, <2>2, OrdinaryCodes
<1>. QED  BY <1>3, <1>4

\* A login that ends takes its code into the session.
LEMMA FinishCodes ==
  ASSUME IInv, CodeInv, NEW p \in Proc, Finish(p)
  PROVE  CodeInv'
<1>1. PICK j : j = job[p]
  OBVIOUS
<1>2. At(p, "finish")
  BY DEF Finish
<1>3. /\ row' = Flush(j.obj, Cleared(j.obj)) /\ job' = [job EXCEPT ![p] = Idle]
      /\ UNCHANGED <<made, challenge, spent>>
  BY <1>1 DEF Finish, Done, Serve
<1>4. j # Idle /\ j \in JobType /\ j.stage = "finish"
  BY <1>1, <1>2, AtFits DEF At, Idle
<1>5. j.obj \in RowType /\ row \in RowType
  BY <1>4 DEF JobType, IInv, World
<1>6. row'.secret = row.secret /\ row'.last = row.last /\ row'.enabled = row.enabled
  <2>1. PICK new : new = Cleared(j.obj)
    OBVIOUS
  <2>2. /\ new \in RowType /\ new.secret = j.obj.secret /\ new.last = j.obj.last
        /\ new.enabled = j.obj.enabled
    BY <1>5, <2>1, ClearedType
  <2>. QED  BY <1>3, <1>5, <2>1, <2>2, FlushType DEF Flushed
<1>7. CodeFits(Idle)
  BY DEF CodeFits
<1>8. CASE sessions' = sessions
  BY <1>3, <1>6, <1>7, <1>8, OrdinaryCodes
<1>9. CASE sessions' # sessions
  <2>1. PICK s : s = [at |-> IF j.op = "confirm" THEN Later(j.at, j.stamp) ELSE j.at,
                      pw |-> j.pw, epoch |-> j.obj.epoch, gen |-> j.gen, code |-> j.code]
    OBVIOUS
  <2>2. sessions' = Append(sessions, s)
    BY <1>1, <1>9, <2>1 DEF Finish
  <2>3. s.code = j.code
    BY <2>1
  <2>4. FactorStays' /\ CounterPast'
    BY <1>3, <1>6, <1>7, CodesKept
  <2>5. Showing' \subseteq Showing \ {p} /\ \A q \in Proc \ {p} : job'[q] = job[q]
    BY <1>3 DEF Showing, IInv, JobsFit
  <2>6. j.code # NoCode => p \in Showing
    BY <1>1, <1>4 DEF Showing
  <2>7. \A i \in DOMAIN sessions' :
          \/ i \in DOMAIN sessions /\ sessions'[i] = sessions[i]
          \/ i \notin DOMAIN sessions /\ sessions'[i] = s
    BY <2>2 DEF IInv, World
  <2>8. j.code # NoCode =>
          j.code \in spent /\ \A i \in DOMAIN sessions : sessions[i].code # j.code
    BY <1>1, <2>6 DEF CodeInv, CodesApart
  <2>9. \A i \in DOMAIN sessions' : sessions'[i].code # NoCode => sessions'[i].code \in spent'
    BY <1>3, <2>3, <2>7, <2>8 DEF CodeInv, CodesApart
  <2>10. \A q \in Showing', i \in DOMAIN sessions' : sessions'[i].code # job'[q].code
    <3>1. SUFFICES ASSUME NEW q \in Showing', NEW i \in DOMAIN sessions'
                   PROVE  sessions'[i].code # job'[q].code
      OBVIOUS
    <3>2. q \in Showing /\ q # p /\ job'[q] = job[q] /\ job[q].code # NoCode
      BY <2>5 DEF Showing
    <3>3. CASE i \in DOMAIN sessions /\ sessions'[i] = sessions[i]
      BY <3>2, <3>3 DEF CodeInv, CodesApart
    <3>4. CASE sessions'[i] = s
      BY <1>1, <2>3, <2>6, <3>2, <3>4 DEF CodeInv, CodesApart
    <3>. QED  BY <2>7, <3>3, <3>4
  <2>11. ASSUME NEW i \in DOMAIN sessions', NEW k \in DOMAIN sessions',
                i # k, sessions'[i].code # NoCode
         PROVE  sessions'[i].code # sessions'[k].code
    <3>1. CASE i \in DOMAIN sessions /\ k \in DOMAIN sessions
      BY <2>7, <2>11, <3>1 DEF CodeInv, CodesApart
    <3>2. CASE i \notin DOMAIN sessions /\ k \in DOMAIN sessions
      BY <2>3, <2>7, <2>8, <2>11, <3>2
    <3>3. CASE i \in DOMAIN sessions /\ k \notin DOMAIN sessions
      BY <2>3, <2>7, <2>8, <2>11, <3>3
    <3>4. i \in DOMAIN sessions \/ k \in DOMAIN sessions
      BY <2>2, <2>11 DEF IInv, World
    <3>. QED  BY <3>1, <3>2, <3>3, <3>4
  <2>12. \A q \in Showing' : job'[q].code \in spent'
    BY <1>3, <2>5 DEF CodeInv, CodesApart
  <2>13. \A q1, q2 \in Showing' : q1 # q2 => job'[q1].code # job'[q2].code
    <3>1. \A q \in Showing' : q \in Showing /\ job'[q] = job[q]
      BY <2>5 DEF Showing
    <3>. QED  BY <3>1 DEF CodeInv, CodesApart
  <2>14. \A q \in Proc : job'[q] # Idle /\ job'[q].stage = "password" => job'[q].code = NoCode
    <3>1. job'[p] = Idle
      BY <1>3 DEF IInv, JobsFit
    <3>. QED  BY <2>5, <3>1 DEF CodeInv, CodesApart
  <2>15. CodesApart'
    BY <2>9, <2>10, <2>11, <2>12, <2>13, <2>14 DEF CodesApart
  <2>. QED  BY <2>4, <2>15 DEF CodeInv
<1>. QED  BY <1>8, <1>9

\* A new secret, with the counter from the beginning: no code of it is spent.
LEMMA WriteEnrollCodes ==
  ASSUME IInv, CodeInv, NEW p \in Proc, WriteEnroll(p)
  PROVE  CodeInv'
<1>1. PICK j : j = job[p]
  OBVIOUS
<1>2. PICK new : new = [j.obj EXCEPT !.secret = made + 1, !.enabled = FALSE, !.last = 0]
  OBVIOUS
<1>3. /\ j.op = "enroll" /\ Write(p, new) /\ made' = made + 1 /\ made < MaxSecret
      /\ job' = [job EXCEPT ![p] = Idle] /\ spent' = spent
  BY <1>1, <1>2 DEF WriteEnroll, Done, Serve, ghosts
<1>4. j # Idle /\ j \in JobType
  <2>1. At(p, "write")
    BY <1>3 DEF Write
  <2>. QED  BY <1>1, <2>1, AtFits DEF At, Idle
<1>5. new \in RowType /\ new.pw = j.obj.pw /\ new.pwAt = j.obj.pwAt /\ new.secret = made + 1
  <2>1. made + 1 \in 0..MaxSecret /\ 0 \in 0..MaxCounter /\ j.obj \in RowType
    BY <1>3, <1>4, BoundTypes DEF JobType, IInv, World
  <2>. QED  BY <1>2, <2>1 DEF RowType
<1>6. /\ JobFits(p, j) /\ j.stage = "write" /\ row'.secret = made + 1
      /\ j.obj.enabled = row.enabled /\ totpLock = p
      /\ challenge' = challenge /\ sessions' = sessions
  BY <1>1, <1>3, <1>5, Written
<1>7. ~row.enabled
  BY <1>3, <1>4, <1>6 DEF JobFits
<1>8. job'[p] = Idle /\ \A q \in Proc \ {p} : job'[q] = job[q]
  BY <1>3 DEF IInv, JobsFit
<1>9. FactorStays'
  <2>1. \A q \in Proc \ {p} : job[q] # Idle => job[q].stage \notin {"stamp", "write"}
    <3>1. SUFFICES ASSUME NEW q \in Proc \ {p}, NEW k, k = job[q], k # Idle
                   PROVE  k.stage \notin {"stamp", "write"}
      OBVIOUS
    <3>. QED  BY <1>6, <3>1, AtFits DEF JobFits
  <2>. QED  BY <1>6, <1>7, <1>8, <2>1 DEF CodeInv, FactorStays
<1>10. CounterPast'
  <2>1. \A x \in spent : x[1] \in Nat /\ x[1] <= made
    BY DEF CodeInv, CounterPast
  <2>2. \A x \in spent : x[1] <= made + 1 /\ x[1] # made + 1
    BY <2>1, BoundTypes DEF IInv, World
  <2>3. made + 1 <= made'
    BY <1>3, BoundTypes DEF IInv, World
  <2>. QED  BY <1>3, <1>6, <2>2, <2>3 DEF CodeInv, CounterPast
<1>11. CodesApart'
  <2>1. CodeFits(Idle)
    BY DEF CodeFits
  <2>. QED  BY <1>3, <1>6, <2>1, NoNewCode
<1>. QED  BY <1>9, <1>10, <1>11 DEF CodeInv

LEMMA WriteConfirmCodes ==
  ASSUME IInv, CodeInv, NEW p \in Proc, WriteConfirm(p)
  PROVE  CodeInv'
<1>1. PICK j : j = job[p]
  OBVIOUS
<1>2. PICK new : new = [j.obj EXCEPT !.enabled = TRUE, !.last = j.code[2], !.totpAt = j.stamp]
  OBVIOUS
<1>3. /\ j.op \in {"confirm", "own"} /\ j.code[2] # 0 /\ Write(p, new)
      /\ spent' = spent \cup {j.code} /\ made' = made
  BY <1>1, <1>2 DEF WriteConfirm
<1>4. j # Idle /\ j \in JobType
  <2>1. At(p, "write")
    BY <1>3 DEF Write
  <2>. QED  BY <1>1, <2>1, AtFits DEF At, Idle
<1>5. /\ new \in RowType /\ new.pw = j.obj.pw /\ new.pwAt = j.obj.pwAt
      /\ new.enabled = TRUE /\ new.last = j.code[2] /\ new.secret = j.obj.secret
  <2>1. j.code[2] \in 0..MaxCounter /\ j.stamp \in 0..MaxClock /\ j.obj \in RowType
    BY <1>4 DEF JobType, Code, Time
  <2>. QED  BY <1>2, <2>1 DEF RowType
<1>6. /\ JobFits(p, j) /\ j.stage = "write"
      /\ j.obj.secret = row.secret /\ row'.secret = row.secret /\ row'.enabled = TRUE
      /\ j.obj.enabled = row.enabled
      /\ challenge' = challenge /\ sessions' = sessions
  BY <1>1, <1>3, <1>5, Written
<1>7. /\ j.code[1] = row.secret /\ j.code[2] > j.obj.last /\ ~row.enabled
  BY <1>3, <1>4, <1>6 DEF JobFits, ConfirmFits
<1>8. PICK c : c = j.code[2]
  OBVIOUS
<1>9. /\ c \in Nat /\ row.secret \in Nat /\ j.code = <<row.secret, c>>
      /\ j.obj.last \in Nat /\ j.obj \in RowType /\ row \in RowType
  <2>1. j.code \in Code /\ j.obj \in RowType /\ row \in RowType
    BY <1>4 DEF JobType, IInv, World
  <2>2. j.code = <<j.code[1], j.code[2]>> /\ j.code[2] \in Nat
    BY <2>1, BoundTypes DEF Code
  <2>3. row.secret \in Nat /\ j.obj.last \in Nat
    BY <2>1, BoundTypes DEF RowType
  <2>. QED  BY <1>7, <1>8, <2>1, <2>2, <2>3
<1>10. j.obj.last = row.last
  BY <1>1, <1>4, <1>6, <1>7 DEF CodeInv, FactorStays
<1>11. row'.last = c
  <2>1. row' = Flush(j.obj, new)
    BY <1>1, <1>3 DEF Write
  <2>2. new.last = c /\ new.last # j.obj.last
    BY <1>5, <1>7, <1>8, <1>9
  <2>. QED  BY <1>5, <1>9, <2>1, <2>2, FlushType DEF Flushed
<1>12. c > row.last
  BY <1>7, <1>8, <1>10
<1>13. CASE job' = [job EXCEPT ![p] = Idle]
  BY <1>3, <1>6, <1>9, <1>11, <1>12, <1>13, NewCode
<1>14. CASE job' = [job EXCEPT ![p] = [j EXCEPT !.obj = new, !.stage = "finish"]]
  <2>1. PICK r : r = [j EXCEPT !.obj = new, !.stage = "finish"]
    OBVIOUS
  <2>2. r.stage = "finish" /\ r.code = <<row.secret, c>>
    BY <1>4, <1>9, <2>1 DEF JobType
  <2>. QED  BY <1>3, <1>6, <1>9, <1>11, <1>12, <1>14, <2>1, <2>2, NewCode
<1>. QED  BY <1>1, <1>2, <1>3, <1>13, <1>14 DEF WriteConfirm, Done, Serve

LEMMA WritesCodes ==
  ASSUME IInv, CodeInv, "reset" \notin Ops, NEW p \in Proc, WriteMiss(p) \/ WriteUpdate(p)
  PROVE  CodeInv'
<1>1. PICK j : j = job[p]
  OBVIOUS
<1>2. At(p, "write") /\ made' = made /\ spent' = spent /\ job' = [job EXCEPT ![p] = Idle]
  BY DEF WriteMiss, WriteUpdate, Write, Done, Serve, ghosts
<1>3. j # Idle /\ j \in JobType /\ JobFits(p, j) /\ j.stage = "write" /\ j.obj \in RowType
  BY <1>1, <1>2, AtFits DEF At, Idle, JobType
<1>4. PICK new : /\ Write(p, new)
                 /\ \/ new = Missed(j.obj)
                    \/ j.op = "revoke"
                       /\ \E a \in BOOLEAN : new = [j.obj EXCEPT !.active = a, !.epoch = @ + 1]
  <2>1. j.op # "reset"
    BY <1>3 DEF JobFits
  <2>. QED  BY <1>1, <2>1 DEF WriteMiss, WriteUpdate
<1>5. /\ new \in RowType /\ new.pw = j.obj.pw /\ new.pwAt = j.obj.pwAt
      /\ new.secret = j.obj.secret /\ new.last = j.obj.last /\ new.enabled = j.obj.enabled
  <2>1. CASE new = Missed(j.obj)
    BY <1>3, <2>1, MissedType
  <2>2. CASE j.op = "revoke"
             /\ \E a \in BOOLEAN : new = [j.obj EXCEPT !.active = a, !.epoch = @ + 1]
    <3>1. j.obj.epoch + 1 \in 0..MaxEpoch
      BY <1>3, <2>2, BoundTypes DEF JobFits, RowType
    <3>. QED  BY <1>3, <2>2, <3>1 DEF RowType
  <2>. QED  BY <1>4, <2>1, <2>2
<1>6. /\ row' = Flush(j.obj, new) /\ challenge' = challenge /\ sessions' = sessions
      /\ row \in RowType
  BY <1>1, <1>4 DEF Write, IInv, World
<1>7. row'.secret = row.secret /\ row'.last = row.last /\ row'.enabled = row.enabled
  BY <1>3, <1>5, <1>6, FlushType DEF Flushed
<1>8. CodeFits(Idle)
  BY DEF CodeFits
<1>. QED  BY <1>2, <1>6, <1>7, <1>8, OrdinaryCodes

LEMMA OthersCodes ==
  ASSUME IInv, CodeInv, NEW p \in Proc,
         IssueChallenge(p) \/ SetPassword(p) \/ ChangePassword(p) \/ Abort(p)
  PROVE  CodeInv'
<1>1. row' = row /\ UNCHANGED <<made, sessions, spent>>
  BY DEF IssueChallenge, SetPassword, ChangePassword, BeginPassword, Abort, db, ghosts
<1>2. CodeFits(Idle)
  BY DEF CodeFits
<1>3. CASE IssueChallenge(p)
  <2>1. PICK j : j = job[p]
    OBVIOUS
  <2>2. /\ j # Idle /\ j.stage = "challenge" /\ job' = [job EXCEPT ![p] = Idle]
    BY <1>3, <2>1 DEF IssueChallenge, At, Done, Serve, Idle
  <2>3. PICK new : new = [scope |-> IF j.obj.enabled THEN "totp" ELSE "totp_enroll",
                          at |-> clock', gen |-> j.obj.epoch, pw |-> j.pw]
    OBVIOUS
  <2>4. challenge' \in {challenge, new}
    BY <1>3, <2>1, <2>3 DEF IssueChallenge
  <2>5. j.obj.enabled => row.enabled
    BY <2>1, <2>2 DEF CodeInv, FactorStays
  <2>6. new.scope = "totp" => row.enabled
    BY <2>3, <2>5
  <2>. QED  BY <1>1, <1>2, <2>2, <2>4, <2>6, OrdinaryCodes
<1>4. CASE Abort(p)
  BY <1>1, <1>2, <1>4, OrdinaryCodes DEF Abort, Done, Serve
<1>5. CASE SetPassword(p) \/ ChangePassword(p)
  <2>1. PICK r : r = [Job("password", "commit", 0, 0, None) EXCEPT !.stamp = clock']
    OBVIOUS
  <2>2. job' = [job EXCEPT ![p] = r] /\ challenge' = challenge
    BY <1>5, <2>1 DEF SetPassword, ChangePassword, BeginPassword, Serve
  <2>3. r.stage = "commit"
    BY <2>1 DEF Job
  <2>4. CodeFits(r)
    BY <2>3 DEF CodeFits
  <2>. QED  BY <1>1, <2>2, <2>3, <2>4, OrdinaryCodes
<1>. QED  BY <1>3, <1>4, <1>5

LEMMA NextCodes ==
  ASSUME IInv, CodeInv, "reset" \notin Ops, [Next]_vars
  PROVE  CodeInv'
<1>1. ASSUME row'.secret = row.secret, row'.last = row.last, row'.enabled = row.enabled,
             UNCHANGED <<made, spent, sessions, challenge, job>>
      PROVE  CodeInv'
  BY <1>1 DEF CodeInv, FactorStays, CounterPast, CodesApart, Showing
<1>2. CASE LockoutExpires
  <2>1. /\ row' = [row EXCEPT !.locked = "expired"] /\ row \in RowType
        /\ UNCHANGED <<made, spent, sessions, challenge, job>>
    BY <1>2 DEF LockoutExpires, ghosts, IInv, World
  <2>2. row'.secret = row.secret /\ row'.last = row.last /\ row'.enabled = row.enabled
    BY <2>1 DEF RowType
  <2>. QED  BY <1>1, <2>1, <2>2
<1>3. ASSUME NEW p \in Proc,
             \/ StartLogin(p) \/ Authenticate(p) \/ IssueChallenge(p)
             \/ StartTotp(p) \/ VerifyCode(p) \/ MissCode(p) \/ Finish(p)
             \/ StartEnroll(p) \/ StartConfirm(p)
      PROVE  CodeInv'
  BY <1>3, StartsCodes, AuthenticateCodes, OthersCodes, VerifyCodes, RowCodes, FinishCodes
<1>4. ASSUME NEW p \in Proc,
             \/ WrongPassword(p) \/ StartOwnEnroll(p) \/ StartOwnConfirm(p)
             \/ StartUpdate(p) \/ EnterEnroll(p) \/ EnterConfirm(p) \/ EnterUpdate(p)
             \/ Stamp(p) \/ WriteEnroll(p) \/ WriteConfirm(p) \/ WriteMiss(p) \/ WriteUpdate(p)
             \/ SetPassword(p) \/ ChangePassword(p) \/ CommitPassword(p) \/ Abort(p)
      PROVE  CodeInv'
  BY <1>4, RowCodes, StartsCodes, EntersCodes, WriteEnrollCodes, WriteConfirmCodes,
     WritesCodes, OthersCodes
<1>5. CASE UNCHANGED vars
  BY <1>1, <1>5 DEF vars
<1>. QED  BY <1>2, <1>3, <1>4, <1>5 DEF Next

(* No code is used for two sessions in force, whichever logins, enrolments  *)
(* and confirmations run at the same time (verify_totp_code, confirm_totp). *)
(* Resets by an administrator are left out: a challenge made for the old    *)
(* factor could be redeemed with the secret being enrolled.                 *)
THEOREM CodesUsedOnce ==
  ASSUME "reset" \notin Ops
  PROVE  Spec => []CodeUsedOnce
<1>1. Init => IInv /\ CodeInv
  <2>1. SUFFICES ASSUME Init PROVE CodeInv
    BY InitEstablishes
  <2>2. PICK e \in BOOLEAN :
          row = [pw |-> 0, pwAt |-> 1, active |-> TRUE, epoch |-> 0,
                 enabled |-> e, secret |-> IF e THEN 1 ELSE 0,
                 last |-> IF e THEN 1 ELSE 0, totpAt |-> IF e THEN 1 ELSE 0,
                 failed |-> 0, locked |-> "no"]
    BY <2>1 DEF Init
  <2>3. /\ row.secret \in {0, 1} /\ (row.enabled => row.last = 1)
        /\ made = 1 /\ challenge = None /\ sessions = <<>>
        /\ \A p \in Proc : job[p] = Idle
        /\ spent = IF row.enabled THEN {<<1, 1>>} ELSE {}
    BY <2>1, <2>2 DEF Init
  <2>4. FactorStays /\ CodesApart
    BY <2>3 DEF FactorStays, CodesApart, Showing
  <2>5. CounterPast
    BY <2>3 DEF CounterPast
  <2>. QED  BY <2>4, <2>5 DEF CodeInv
<1>2. (IInv /\ CodeInv) /\ [Next]_vars => (IInv /\ CodeInv)'
  BY NextCodes, StepPreserves
<1>3. IInv /\ CodeInv => CodeUsedOnce
  BY DEF CodeInv, CodesApart, CodeUsedOnce
<1>. QED  BY <1>1, <1>2, <1>3, PTL DEF Spec


=============================================================================
