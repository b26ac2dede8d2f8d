---------------------------- MODULE LoginSessions ----------------------------
(***************************************************************************)
(* Logging in with a local account: services/accounts.py (password, second *)
(* factor, lockout, password changes), the endpoints of                    *)
(* api/v1/endpoints/auth.py and current_principal of api/deps.py.          *)
(*                                                                         *)
(* One account, many concurrent requests.  Checks of password and code run *)
(* under a row lock (get_by_username(lock=True), get_for_update) that      *)
(* lasts from the read to the commit: such a check is one step here.       *)
(* Enrolment, confirmation and update() hold the named lock                *)
(* account-totp:{id} instead (module NamedLock) and read, stamp and write  *)
(* in separate steps; their UPDATE waits for row locks, as every write.    *)
(*                                                                         *)
(* Every reading of the clock that ends up in a time stamp gives a new,    *)
(* larger value; 0 stands for NULL, for times, secrets and counters alike. *)
(* A lockout expires at any moment.  Codes of one secret are known by the  *)
(* counter of their time window.                                           *)
(***************************************************************************)
EXTENDS Integers, Sequences

CONSTANTS Proc, None,
          Ops,           \* the requests in use, see AllOps
          TotpSettings,  \* the values "required" may have
          Threshold,     \* LOCKOUT_THRESHOLD
          MaxClock, MaxPw, MaxSecret, MaxCounter, MaxEpoch, MaxSessions \* bounds

AllOps == {"login", "totp", "enroll", "confirm", "own", "reset", "revoke",
           "password", "change"}

ASSUME OpsAssumption   == Ops \subseteq AllOps /\ TotpSettings \subseteq BOOLEAN
ASSUME BoundAssumption ==
  /\ Threshold \in Nat \ {0}
  /\ \A b \in {MaxPw, MaxEpoch, MaxSessions} : b \in Nat
  /\ \A b \in {MaxClock, MaxSecret, MaxCounter} : b \in Nat \ {0}
ASSUME NoneAssumption  == None \notin Proc \cup Nat

Counter == 1..MaxCounter
Pw      == 0..MaxPw       \* versions of the password
NoCode  == <<0, 0>>

VARIABLES
  required,   \* require_totp_for_admin, and the role is administrator
  row,        \* the account's row in mgr_account, as committed
  rowLock,    \* the transaction holding the row, for password changes
  totpLock,   \* owner of account-totp:{id}
  clock,      \* the last time read
  made,       \* TOTP secrets generated so far
  job,        \* the request each process is serving
  challenge,  \* one challenge issued so far
  sessions,   \* the first MaxSessions sessions that are kept
  spent,      \* codes accepted so far, <<secret, counter>>
  misses      \* failed attempts since the last complete login

db     == <<required, row, rowLock, totpLock>>
ghosts == <<spent, misses>>
vars   == <<required, row, rowLock, totpLock, clock, made, job, challenge, sessions, spent, misses>>

Locked == {"no", "running", "expired"}

RowType == [pw : Pw, pwAt : 0..MaxClock, active : BOOLEAN, epoch : 0..MaxEpoch,
            enabled : BOOLEAN, secret : 0..MaxSecret, last : 0..MaxCounter,
            totpAt : 0..MaxClock, failed : 0..Threshold, locked : Locked]

Idle == [op |-> "idle"]

\* A request: operation, stage, the object in memory, time of the password check,
\* the password it rests on, the generation of its challenge, the code shown and
\* the time stamp it is about to write.
Job(op, stage, at, pw, gen) ==
  [op |-> op, stage |-> stage, obj |-> row, at |-> at, pw |-> pw, gen |-> gen,
   code |-> NoCode, stamp |-> 0]

At(p, stage)     == job[p].op # "idle" /\ job[p].stage = stage
May(p, op)       == op \in Ops /\ job[p] = Idle
Serve(p, newJob) == job' = [job EXCEPT ![p] = newJob]
Done(p)          == Serve(p, Idle)
Tick             == clock < MaxClock /\ clock' = clock + 1
Later(a, b)      == IF a < b THEN b ELSE a

\* current_principal: what a request with this session is checked against.
Accepted(s) ==
  /\ row.active
  /\ s.epoch = row.epoch
  /\ s.at >= row.pwAt /\ s.at >= row.totpAt
  /\ required => s.code # NoCode /\ row.enabled

LoggedIn == \E i \in DOMAIN sessions : Accepted(sessions[i])

\* _apply_lockout after a failed attempt: a running lock is not extended.
Missed(r) ==
  LET n == IF r.failed < Threshold THEN r.failed + 1 ELSE Threshold
  IN [r EXCEPT !.failed = n,
               !.locked = IF n = Threshold THEN "running" ELSE @]

OneMore(n)  == IF n < Threshold THEN n + 1 ELSE n
Cleared(r)  == [r EXCEPT !.failed = 0, !.locked = "no"]
Unlocked(r) == IF r.locked = "expired" THEN Cleared(r) ELSE r

\* The ORM writes the columns that differ from what it had read.
Flush(old, new) == [f \in DOMAIN row |-> IF new[f] = old[f] THEN row[f] ELSE new[f]]

-----------------------------------------------------------------------------
Init ==
  /\ required \in TotpSettings
  /\ row \in {[pw |-> 0, pwAt |-> 1, active |-> TRUE, epoch |-> 0,
               enabled |-> e, secret |-> IF e THEN 1 ELSE 0,
               last |-> IF e THEN 1 ELSE 0, totpAt |-> IF e THEN 1 ELSE 0,
               failed |-> 0, locked |-> "no"] : e \in BOOLEAN}
  /\ rowLock = None /\ totpLock = None
  /\ clock = 1
  /\ made = 1
  /\ job = [p \in Proc |-> Idle]
  /\ challenge = None
  /\ sessions = <<>>
  /\ spent = IF row.enabled THEN {<<1, 1>>} ELSE {}
  /\ misses = 0

-----------------------------------------------------------------------------
(* login(): verified_at is read before anything else.  gen = None: no       *)
(* challenge is involved.  op "login" brings the code along if it has one.  *)
StartLogin(p) ==
  /\ May(p, "login")
  /\ Tick
  /\ \E guess \in Pw : Serve(p, Job("login", "password", clock', guess, None))
  /\ UNCHANGED <<db, made, challenge, sessions, ghosts>>

\* What follows the password: code, challenge or the end of the login.
AfterPassword(r) ==
  IF r.enabled THEN {"code", "challenge"}
  ELSE IF required THEN {"challenge"} ELSE {"finish"}

\* Mutant of Authenticate: the password alone clears the failures.
AuthenticateResetting(p) ==
  /\ At(p, "password")
  /\ rowLock = None
  /\ LET now == Unlocked(row) IN
       IF job[p].pw # row.pw
       THEN /\ row' = Missed(now)
            /\ misses' = OneMore(IF row.locked = "expired" THEN 0 ELSE misses)
            /\ Done(p)
       ELSE /\ misses' = IF row.locked = "expired" THEN 0 ELSE misses
            /\ IF row.active /\ now.locked = "no"
               THEN /\ row' = Cleared(now)
                    /\ \E next \in AfterPassword(now) :
                         Serve(p, [job[p] EXCEPT !.obj = Cleared(now), !.stage = next])
               ELSE row' = now /\ Done(p)
  /\ UNCHANGED <<required, rowLock, totpLock, clock, made, challenge, sessions, spent>>

\* authenticate(reset_failures=False)
Authenticate(p) ==
  /\ At(p, "password")
  /\ rowLock = None
  /\ LET now == Unlocked(row) IN
       IF job[p].pw # row.pw
       THEN /\ row' = Missed(now)
            /\ misses' = OneMore(IF row.locked = "expired" THEN 0 ELSE misses)
            /\ Done(p)
       ELSE /\ row' = now
            /\ misses' = IF row.locked = "expired" THEN 0 ELSE misses
            /\ IF row.active /\ now.locked = "no"
               THEN \E next \in AfterPassword(now) :
                      Serve(p, [job[p] EXCEPT !.obj = now, !.stage = next])
               ELSE Done(p)
  /\ UNCHANGED <<required, rowLock, totpLock, clock, made, challenge, sessions, spent>>

(* challenge_for, enrollment_challenge_for: the token is stamped when it is *)
(* made, after the commit of authenticate.                                  *)
IssueChallenge(p) ==
  /\ At(p, "challenge")
  /\ Tick
  /\ challenge' \in {challenge,
       [scope |-> IF job[p].obj.enabled THEN "totp" ELSE "totp_enroll",
        at |-> clock', gen |-> job[p].obj.epoch, pw |-> job[p].pw]}
  /\ Done(p)
  /\ UNCHANGED <<db, made, sessions, ghosts>>

\* account_from_challenge, on the request's snapshot.
ChallengeAccepted(scope) ==
  /\ challenge # None
  /\ challenge.scope = scope
  /\ row.active
  /\ challenge.at >= row.pwAt
  /\ challenge.gen = row.epoch
  /\ row.locked # "running"

FromChallenge(p, op, stage) ==
  Serve(p, Job(op, stage, challenge.at, challenge.pw, challenge.gen))

StartTotp(p) ==
  /\ May(p, "totp")
  /\ ChallengeAccepted("totp")
  /\ FromChallenge(p, "totp", "code")
  /\ UNCHANGED <<db, clock, made, challenge, sessions, ghosts>>

\* Mutant of VerifyCode: a code is taken again in its window.
VerifyReplayed(p) ==
  /\ At(p, "code")
  /\ rowLock = None
  /\ row.secret # 0
  /\ \E c \in Counter :
        /\ row' = [Cleared(row) EXCEPT !.last = c]
        /\ spent' = spent \cup {<<row.secret, c>>}
        /\ Serve(p, [job[p] EXCEPT !.obj = row', !.stage = "finish",
                                   !.code = <<row.secret, c>>])
  /\ misses' = 0
  /\ UNCHANGED <<required, rowLock, totpLock, clock, made, challenge, sessions>>

(* verify_totp_code: the row is locked and read afresh; neither the lockout *)
(* nor the generation is looked at again.                                   *)
VerifyCode(p) ==
  /\ At(p, "code")
  /\ rowLock = None
  /\ row.secret # 0
  /\ \E c \in Counter :
        /\ c > row.last
        /\ row' = [Cleared(row) EXCEPT !.last = c]
        /\ spent' = spent \cup {<<row.secret, c>>}
        /\ Serve(p, [job[p] EXCEPT !.obj = row', !.stage = "finish",
                                   !.code = <<row.secret, c>>])
  /\ misses' = 0
  /\ UNCHANGED <<required, rowLock, totpLock, clock, made, challenge, sessions>>

\* A wrong code, or one of a window already used.
MissCode(p) ==
  /\ At(p, "code")
  /\ rowLock = None
  /\ row.secret # 0
  /\ row' = Missed(row)
  /\ misses' = OneMore(misses)
  /\ Done(p)
  /\ UNCHANGED <<required, rowLock, totpLock, clock, made, challenge, sessions, spent>>

(* clear_failures, mark_login and _issue_session: the token is made from    *)
(* the object in memory.                                                    *)
Finish(p) ==
  /\ At(p, "finish")
  /\ rowLock = None
  /\ LET j == job[p] IN
       /\ row' = Flush(j.obj, Cleared(j.obj))
       /\ \/ UNCHANGED sessions
          \/ /\ Len(sessions) < MaxSessions
             /\ sessions' = Append(sessions,
                  [at |-> IF j.op = "confirm" THEN Later(j.at, j.stamp) ELSE j.at,
                   pw |-> j.pw, epoch |-> j.obj.epoch, gen |-> j.gen, code |-> j.code])
  /\ misses' = 0
  /\ Done(p)
  /\ UNCHANGED <<required, rowLock, totpLock, clock, made, challenge, spent>>

-----------------------------------------------------------------------------
(* enroll_totp and confirm_totp with a challenge for the enrolment.         *)
StartEnroll(p) ==
  /\ May(p, "enroll")
  /\ ChallengeAccepted("totp_enroll")
  /\ FromChallenge(p, "enroll", "lock")
  /\ UNCHANGED <<db, clock, made, challenge, sessions, ghosts>>

StartConfirm(p) ==
  /\ May(p, "confirm")
  /\ ChallengeAccepted("totp_enroll")
  /\ FromChallenge(p, "confirm", "lock")
  /\ UNCHANGED <<db, clock, made, challenge, sessions, ghosts>>

\* The password of the owner of a session is asked for again, under the row lock.
ProvePassword(guess) ==
  /\ LoggedIn
  /\ rowLock = None
  /\ Unlocked(row).locked = "no"
  /\ guess = row.pw

\* verify_current_password and change_password with a wrong password.
WrongPassword(p) ==
  /\ job[p] = Idle
  /\ Ops \cap {"own", "change"} # {}
  /\ LoggedIn
  /\ rowLock = None
  /\ Unlocked(row).locked = "no"
  /\ row' = Missed(Unlocked(row))
  /\ misses' = OneMore(IF row.locked = "expired" THEN 0 ELSE misses)
  /\ UNCHANGED <<required, rowLock, totpLock, clock, made, job, challenge, sessions, spent>>

(* enroll_own_totp: verify_current_password, then the same enrolment.       *)
StartOwnEnroll(p) ==
  /\ May(p, "own")
  /\ ProvePassword(row.pw)
  /\ row' = Cleared(row)
  /\ misses' = 0
  /\ Serve(p, Job("enroll", "lock", 0, row.pw, None))
  /\ UNCHANGED <<required, rowLock, totpLock, clock, made, challenge, sessions, spent>>

(* confirm_own_totp: no challenge, hence no issued_at to compare.           *)
StartOwnConfirm(p) ==
  /\ May(p, "own")
  /\ LoggedIn
  /\ Serve(p, Job("own", "lock", 0, 0, None))
  /\ UNCHANGED <<db, clock, made, challenge, sessions, ghosts>>

(* update() by an administrator: reset_totp, or a change of role or status. *)
StartUpdate(p) ==
  /\ \E op \in {"reset", "revoke"} :
       May(p, op) /\ Serve(p, Job(op, "lock", 0, 0, None))
  /\ UNCHANGED <<db, clock, made, challenge, sessions, ghosts>>

\* Inside the named lock the object is read afresh.
Enter(p, stage, code) ==
  /\ At(p, "lock")
  /\ totpLock = None
  /\ totpLock' = p
  /\ Serve(p, [job[p] EXCEPT !.obj = row, !.stage = stage, !.code = code])
  /\ UNCHANGED <<required, row, rowLock, clock, made, challenge, sessions, ghosts>>

EnterUnlocked(p, stage, code) ==
  /\ At(p, "lock")
  /\ Serve(p, [job[p] EXCEPT !.obj = row, !.stage = stage, !.code = code])
  /\ UNCHANGED <<required, row, rowLock, totpLock, clock, made, challenge, sessions, ghosts>>

EnterEnroll(p) == job[p].op = "enroll" /\ ~row.enabled /\ Enter(p, "write", NoCode)

MayConfirm(j) ==
  /\ j.op = "own" \/ (j.op = "confirm" /\ j.at >= row.pwAt)
  /\ row.secret # 0
  /\ ~row.enabled

\* Mutant of EnterConfirm: no named lock.
EnterConfirmUnlocked(p) ==
  /\ MayConfirm(job[p])
  /\ \E c \in 0..MaxCounter :
       /\ c = 0 \/ c > row.last
       /\ EnterUnlocked(p, IF c = 0 THEN "write" ELSE "stamp", <<row.secret, c>>)

\* The code is checked against what was read; counter 0: wrong or used before.
EnterConfirm(p) ==
  /\ MayConfirm(job[p])
  /\ \E c \in 0..MaxCounter :
       /\ c = 0 \/ c > row.last
       /\ Enter(p, IF c = 0 THEN "write" ELSE "stamp", <<row.secret, c>>)

EnterUpdate(p) ==
  \/ job[p].op = "reset" /\ Enter(p, "stamp", NoCode)
  \/ job[p].op = "revoke" /\ row.epoch < MaxEpoch /\ Enter(p, "write", NoCode)

\* totp_changed_at = utcnow()
Stamp(p) ==
  /\ At(p, "stamp")
  /\ Tick
  /\ Serve(p, [job[p] EXCEPT !.stamp = clock', !.stage = "write"])
  /\ UNCHANGED <<db, made, challenge, sessions, ghosts>>

Write(p, new) ==
  /\ At(p, "write")
  /\ rowLock = None
  /\ row' = Flush(job[p].obj, new)
  /\ totpLock' = IF totpLock = p THEN None ELSE totpLock
  /\ UNCHANGED <<required, rowLock, clock, challenge, sessions>>

\* _start_totp_enrollment_locked
WriteEnroll(p) ==
  /\ job[p].op = "enroll"
  /\ made < MaxSecret
  /\ made' = made + 1
  /\ Write(p, [job[p].obj EXCEPT !.secret = made + 1, !.enabled = FALSE, !.last = 0])
  /\ Done(p)
  /\ UNCHANGED ghosts

\* _confirm_totp_locked
WriteConfirm(p) ==
  /\ job[p].op \in {"confirm", "own"}
  /\ job[p].code[2] # 0
  /\ LET j   == job[p]
         new == [j.obj EXCEPT !.enabled = TRUE, !.last = j.code[2], !.totpAt = j.stamp]
     IN /\ Write(p, new)
        /\ spent' = spent \cup {j.code}
        /\ IF j.op = "confirm"
           THEN Serve(p, [j EXCEPT !.obj = new, !.stage = "finish"])
           ELSE Done(p)
  /\ UNCHANGED <<made, misses>>

\* A failure while confirming is counted on the object that was read before.
WriteMiss(p) ==
  /\ job[p].op \in {"confirm", "own"}
  /\ job[p].code[2] = 0
  /\ Write(p, Missed(job[p].obj))
  /\ misses' = OneMore(misses)
  /\ Done(p)
  /\ UNCHANGED <<made, spent>>

\* _update_locked
WriteUpdate(p) ==
  /\ LET j == job[p] IN
       \/ /\ j.op = "reset"
          /\ Write(p, [j.obj EXCEPT !.enabled = FALSE, !.secret = 0, !.last = 0,
                                    !.totpAt = j.stamp])
       \/ /\ j.op = "revoke"
          /\ \E a \in BOOLEAN :
               Write(p, [j.obj EXCEPT !.active = a, !.epoch = @ + 1])
  /\ Done(p)
  /\ UNCHANGED <<made, ghosts>>

-----------------------------------------------------------------------------
(* set_password, and change_password once the current password is proved:  *)
(* the time is read under the row lock, before the commit.                  *)
BeginPassword(p) ==
  /\ row.pw < MaxPw
  /\ Tick
  /\ Serve(p, [Job("password", "commit", 0, 0, None) EXCEPT !.stamp = clock'])
  /\ UNCHANGED <<required, row, totpLock, made, challenge, sessions, ghosts>>

\* Mutant of SetPassword: the row is not locked.
SetPasswordUnlocked(p) ==
  /\ May(p, "password")
  /\ BeginPassword(p)
  /\ UNCHANGED rowLock

SetPassword(p) ==
  /\ May(p, "password")
  /\ rowLock = None /\ rowLock' = p
  /\ BeginPassword(p)

ChangePassword(p) ==
  /\ May(p, "change")
  /\ ProvePassword(row.pw)
  /\ rowLock' = p
  /\ BeginPassword(p)

CommitPassword(p) ==
  /\ At(p, "commit")
  /\ rowLock \in {p, None}
  /\ row' = [Cleared(row) EXCEPT !.pw = @ + 1, !.pwAt = job[p].stamp]
  /\ rowLock' = None
  /\ misses' = 0
  /\ Done(p)
  /\ UNCHANGED <<required, totpLock, clock, made, challenge, sessions, spent>>

-----------------------------------------------------------------------------
\* LOCKOUT_MINUTES have passed.
LockoutExpires ==
  /\ row.locked = "running"
  /\ row' = [row EXCEPT !.locked = "expired"]
  /\ UNCHANGED <<required, rowLock, totpLock, clock, made, job, challenge, sessions, ghosts>>

\* Mutant of Abort: the named lock is not released.
AbortKeepingLock(p) ==
  /\ job[p] # Idle
  /\ Done(p)
  /\ rowLock'  = IF rowLock = p THEN None ELSE rowLock
  /\ UNCHANGED <<required, row, totpLock, clock, made, challenge, sessions, ghosts>>

(* Any error, timeout or restart of the server: the transaction rolls back, *)
(* the locks go.                                                            *)
Abort(p) ==
  /\ job[p] # Idle
  /\ Done(p)
  /\ rowLock'  = IF rowLock = p THEN None ELSE rowLock
  /\ totpLock' = IF totpLock = p THEN None ELSE totpLock
  /\ UNCHANGED <<required, row, clock, made, challenge, sessions, ghosts>>

Next ==
  \/ LockoutExpires
  \/ \E p \in Proc :
       \/ StartLogin(p) \/ Authenticate(p) \/ IssueChallenge(p)
       \/ StartTotp(p) \/ VerifyCode(p) \/ MissCode(p) \/ Finish(p)
       \/ StartEnroll(p) \/ StartConfirm(p)
       \/ WrongPassword(p) \/ StartOwnEnroll(p) \/ StartOwnConfirm(p)
       \/ StartUpdate(p) \/ EnterEnroll(p) \/ EnterConfirm(p) \/ EnterUpdate(p)
       \/ Stamp(p) \/ WriteEnroll(p) \/ WriteConfirm(p) \/ WriteMiss(p) \/ WriteUpdate(p)
       \/ SetPassword(p) \/ ChangePassword(p) \/ CommitPassword(p)
       \/ Abort(p)

Spec == Init /\ [][Next]_vars

-----------------------------------------------------------------------------
(* Types; a locked row and a held lock belong to a request in progress.     *)
TypeOK ==
  /\ required \in BOOLEAN
  /\ row \in RowType
  /\ rowLock \in Proc \cup {None} /\ totpLock \in Proc \cup {None}
  /\ clock \in 0..MaxClock /\ made \in 0..MaxSecret
  /\ misses \in 0..Threshold
  /\ \A p \in {rowLock, totpLock} \ {None} : job[p] # Idle

(* A session that is accepted and came out of a login without a second step *)
(* rests on the password in force: a change of the password ends what was   *)
(* obtained with the old one, also a login under way ("eine                 *)
(* Passwortaenderung, die waehrend der Anmeldung festgeschrieben wird, muss *)
(* die entstehende Sitzung verwerfen", login).                              *)
DirectLoginsRestOnPassword ==
  \A i \in DOMAIN sessions :
    Accepted(sessions[i]) /\ sessions[i].gen = None => sessions[i].pw = row.pw

(* Threshold failed attempts without a complete login in between lock the   *)
(* account, whichever steps and requests they are spread over.              *)
MissesLock == misses = Threshold => row.locked # "no"

(* An active second factor has a secret, and one whose code the owner has   *)
(* shown ("TOTP aktiv, ohne Geheimnis" would make logging in impossible).   *)
ActiveFactorShown ==
  row.enabled => \E c \in Counter : <<row.secret, c>> \in spent

(* No two sessions in force rest on the same code.                          *)
CodeUsedOnce ==
  \A i, j \in DOMAIN sessions :
    /\ i # j
    /\ Accepted(sessions[i]) /\ Accepted(sessions[j])
    /\ sessions[i].code # NoCode
    => sessions[i].code # sessions[j].code

=============================================================================
