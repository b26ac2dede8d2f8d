--------------------------- MODULE AccountRegistry ---------------------------
(***************************************************************************)
(* The manager's accounts (table mgr_account) under concurrent requests:   *)
(* services/accounts.py and the OIDC callback of api/v1/endpoints/auth.py. *)
(*                                                                         *)
(* A request works on an ORM object read from its transaction's snapshot   *)
(* and writes back the columns it changed, computed from that object.      *)
(* update() holds the named lock account-totp:{id} (module NamedLock) and  *)
(* therefore reads a fresh snapshot; delete(), set_oidc_subject() and      *)
(* apply_mapped_role() hold no lock and work on what they read first.      *)
(*                                                                         *)
(* count_active_administrators(lock=True) is SELECT ... FOR UPDATE over a  *)
(* table without an index on role or is_active: it reads the committed     *)
(* state and locks every row until its transaction ends, see countLock.    *)
(*                                                                         *)
(* Roles other than administrator behave alike here; user names, mail and  *)
(* language are left out, a user name already taken is one of the errors   *)
(* Abort stands for.                                                       *)
(***************************************************************************)
EXTENDS Integers

CONSTANTS Proc,        \* requests served concurrently
          Account,     \* account ids; an id is never used twice
          Subject,     \* subjects of the identity provider
          Ops,         \* the operations in use
          MaxEpoch,    \* bound on session_epoch
          None

AllOps == {"create", "update", "delete", "link", "password", "login", "oidc"}

ASSUME OpsAssumption   == Ops \subseteq AllOps
ASSUME BoundAssumption == MaxEpoch \in Nat
ASSUME NoneAssumption  == None \notin Subject \cup Proc

Role == {"administrator", "operator"}

Row == [role : Role, active : BOOLEAN, epoch : Nat,
        subject : Subject \cup {None}, local : BOOLEAN]

Absent  == [state |-> "absent"]
Deleted == [state |-> "deleted"]

\* What a request asks for: the payload of PATCH /accounts/{id} (None: field not
\* sent), the role mapped from the claims, or the subject to link.
Input == [role : Role \cup {None}, active : BOOLEAN \cup {None},
          subject : Subject \cup {None}]

Session == [account : Account, role : Role, epoch : Nat,
            subject : Subject \cup {None}]

VARIABLES
  account,    \* the committed table
  job,        \* the request each process is serving
  countLock,  \* the transaction holding the rows of the administrator count
  nameLock,   \* owner of account-totp:{id}
  session     \* one session issued so far (any one: issuing may keep the old)

vars == <<account, job, countLock, nameLock, session>>

Idle == [op |-> "idle"]

NoInput == [role |-> None, active |-> None, subject |-> None]

\* A request: operation, account, stage, the object in memory and its input.
Job(op, a, stage, obj, input) ==
  [op |-> op, id |-> a, stage |-> stage, obj |-> obj, input |-> input]

Exists(a)        == account[a] \notin {Absent, Deleted}
IsAdmin(row)     == row.role = "administrator"
ActiveAdmin(a)   == Exists(a) /\ IsAdmin(account[a]) /\ account[a].active
\* The actor of an administrative request: an active administrator, for some
\* requests another account than the one they are about.
Authorised       == \E b \in Account : ActiveAdmin(b)
OtherActor(a)    == \E b \in Account \ {a} : ActiveAdmin(b)
SubjectFree(s,a) == \A b \in Account \ {a} : Exists(b) => account[b].subject # s

At(p, stage) == job[p].op # "idle" /\ job[p].stage = stage

Serve(p, newJob) == job' = [job EXCEPT ![p] = newJob]

\* The end of a request gives up its locks.
EndJob(p) ==
  /\ job' = [job EXCEPT ![p] = Idle]
  /\ countLock' = IF countLock = p THEN None ELSE countLock
  /\ nameLock' = [a \in Account |-> IF nameLock[a] = p THEN None ELSE nameLock[a]]

-----------------------------------------------------------------------------
(* The state after the first start: ensure_bootstrap_admin has seen to an   *)
(* active administrator, sessions are still to come.                        *)
Init ==
  /\ account \in [Account -> {Absent} \cup
        {row \in [role : Role, active : BOOLEAN, epoch : {0},
                  subject : Subject \cup {None}, local : BOOLEAN] :
           row.local \/ row.subject # None}]
  /\ \A a \in Account : Exists(a) /\ account[a].subject # None
        => SubjectFree(account[a].subject, a)
  /\ \E a \in Account : ActiveAdmin(a)
  /\ job = [p \in Proc |-> Idle]
  /\ countLock = None
  /\ nameLock = [a \in Account |-> None]
  /\ session = None

May(p, op) == op \in Ops /\ job[p] = Idle

Unbounded(a) == Exists(a) /\ account[a].epoch < MaxEpoch

-----------------------------------------------------------------------------
(* create(): inserts a row with a local password.                          *)
StartCreate(p) ==
  /\ May(p, "create") /\ Authorised
  /\ \E a \in Account, r \in Role :
        /\ account[a] = Absent
        /\ Serve(p, Job("create", a, "write",
                        [role |-> r, active |-> TRUE, epoch |-> 0,
                         subject |-> None, local |-> TRUE], NoInput))
  /\ UNCHANGED <<account, countLock, nameLock, session>>

(* update(): waits for account-totp:{id}, then reads the row afresh.        *)
StartUpdate(p) ==
  /\ May(p, "update") /\ Authorised
  /\ \E a \in Account, payload \in Input :
        /\ Unbounded(a)
        /\ payload.subject = None
        /\ Serve(p, Job("update", a, "lock", Absent, payload))
  /\ UNCHANGED <<account, countLock, nameLock, session>>

Demoting(row, payload) ==
  /\ IsAdmin(row)
  /\ payload.role \notin {None, "administrator"} \/ payload.active = FALSE

EnterUpdate(p) ==
  /\ At(p, "lock")
  /\ LET a == job[p].id IN
       /\ nameLock[a] = None
       /\ Exists(a)
       /\ nameLock' = [nameLock EXCEPT ![a] = p]
       /\ Serve(p, [job[p] EXCEPT
            !.obj = account[a],
            !.stage = IF Demoting(account[a], job[p].input) THEN "count" ELSE "write"])
  /\ UNCHANGED <<account, countLock, session>>

(* delete(): the row as the request's snapshot has it, fixed when the actor *)
(* was authenticated.                                                       *)
StartDelete(p) ==
  /\ May(p, "delete")
  /\ \E a \in Account :
        /\ Exists(a) /\ OtherActor(a)
        /\ Serve(p, Job("delete", a, IF IsAdmin(account[a]) THEN "count" ELSE "write",
                        account[a], NoInput))
  /\ UNCHANGED <<account, countLock, nameLock, session>>

\* Mutant of StartLink: the only way in may be unlinked.
StartLinkUnguarded(p) ==
  /\ May(p, "link") /\ Authorised
  /\ \E a \in Account, s \in Subject \cup {None} :
        /\ Unbounded(a)
        /\ Serve(p, Job("link", a, "write", account[a],
                        [NoInput EXCEPT !.subject = s]))
  /\ UNCHANGED <<account, countLock, nameLock, session>>

(* set_oidc_subject(): link, re-link or unlink (subject None).  Without a   *)
(* local password the link is the only way in and must stay.                *)
StartLink(p) ==
  /\ May(p, "link") /\ Authorised
  /\ \E a \in Account, s \in Subject \cup {None} :
        /\ Unbounded(a)
        /\ s # None \/ account[a].subject = None \/ account[a].local
        /\ Serve(p, Job("link", a, "write", account[a],
                        [NoInput EXCEPT !.subject = s]))
  /\ UNCHANGED <<account, countLock, nameLock, session>>

(* set_password() by an administrator: under the row lock, gives an account *)
(* from the identity provider a local password.                             *)
SetPassword(p) ==
  /\ May(p, "password")
  /\ countLock = None
  /\ \E a \in Account :
        /\ Exists(a) /\ OtherActor(a)
        /\ account' = [account EXCEPT ![a].local = TRUE]
  /\ UNCHANGED <<job, countLock, nameLock, session>>

(* authenticate() and the rest of a password login: the session is issued   *)
(* from the object read under the row lock, after the commits.              *)
StartLogin(p) ==
  /\ May(p, "login")
  /\ \E a \in Account :
        /\ countLock = None
        /\ Exists(a) /\ account[a].local /\ account[a].active
        /\ Serve(p, Job("login", a, "issue", account[a], NoInput))
  /\ UNCHANGED <<account, countLock, nameLock, session>>

(* oidc_callback(): an active account bound to the subject, its role taken  *)
(* over from the claims by apply_mapped_role().                             *)
StartOidc(p) ==
  /\ May(p, "oidc")
  /\ \E a \in Account, mapped \in Role :
        /\ Unbounded(a)
        /\ account[a].subject # None /\ account[a].active
        /\ Serve(p, Job("oidc", a,
             IF account[a].role = mapped THEN "issue"
             ELSE IF IsAdmin(account[a]) THEN "count" ELSE "write",
             account[a], [NoInput EXCEPT !.role = mapped]))
  /\ UNCHANGED <<account, countLock, nameLock, session>>

(* oidc_callback() for a subject nobody is bound to: a new account without  *)
(* a local password.                                                        *)
StartOidcNew(p) ==
  /\ May(p, "oidc")
  /\ \E a \in Account, mapped \in Role, s \in Subject :
        /\ account[a] = Absent
        /\ SubjectFree(s, a)
        /\ Serve(p, Job("oidc_new", a, "write",
                        [role |-> mapped, active |-> TRUE, epoch |-> 0,
                         subject |-> s, local |-> FALSE], NoInput))
  /\ UNCHANGED <<account, countLock, nameLock, session>>

-----------------------------------------------------------------------------
\* Mutant of CountAdministrators: the rows counted are not locked.
CountUnlocked(p) ==
  /\ At(p, "count")
  /\ \E b \in Account \ {job[p].id} : ActiveAdmin(b)
  /\ Serve(p, [job[p] EXCEPT !.stage = "write"])
  /\ UNCHANGED <<account, countLock, nameLock, session>>

(* count_active_administrators(exclude_id, lock=True) = 0 ends the request  *)
(* with error.last_administrator, see Abort.                                *)
CountAdministrators(p) ==
  /\ At(p, "count")
  /\ countLock = None
  /\ \E b \in Account \ {job[p].id} : ActiveAdmin(b)
  /\ countLock' = p
  /\ Serve(p, [job[p] EXCEPT !.stage = "write"])
  /\ UNCHANGED <<account, nameLock, session>>

Changed(new, old) == IF new # None /\ new # old THEN 1 ELSE 0

\* Mutant of EpochAfter: a change of status keeps the generation.
EpochKeptOnStatus(obj, payload) == obj.epoch + Changed(payload.role, obj.role)

\* One step of the generation per field of role and status that changes.
EpochAfter(obj, payload) ==
  obj.epoch + Changed(payload.role, obj.role) + Changed(payload.active, obj.active)

\* The ORM writes the columns whose value differs from the one it had read.
Flush(row, old, new) ==
  [row EXCEPT !.role    = IF new.role    = old.role    THEN @ ELSE new.role,
              !.active  = IF new.active  = old.active  THEN @ ELSE new.active,
              !.epoch   = IF new.epoch   = old.epoch   THEN @ ELSE new.epoch,
              !.subject = IF new.subject = old.subject THEN @ ELSE new.subject]

\* Mutant of Given: a field that was not sent is written as well.
GivenUnchecked(value, old) == value

Given(value, old) == IF value = None THEN old ELSE value

\* The object a request has changed in memory.
NewObject(j) ==
  CASE j.op = "update" ->
         [j.obj EXCEPT !.role = Given(j.input.role, @),
                       !.active = Given(j.input.active, @),
                       !.epoch = EpochAfter(j.obj, j.input)]
    [] j.op = "link" ->
         [j.obj EXCEPT !.subject = j.input.subject,
                       !.epoch = IF j.input.subject = j.obj.subject THEN @ ELSE @ + 1]
    [] j.op = "oidc" -> [j.obj EXCEPT !.role = j.input.role, !.epoch = @ + 1]

\* Every write waits for the rows locked by another request's count.
MayWrite(p) == At(p, "write") /\ countLock \in {None, p}

(* The commit of update, set_oidc_subject and apply_mapped_role.  A row     *)
(* that is gone or a subject taken meanwhile is an error, see Abort.        *)
CommitChange(p) ==
  /\ MayWrite(p)
  /\ job[p].op \in {"update", "link", "oidc"}
  /\ LET a   == job[p].id
         new == NewObject(job[p])
     IN /\ Exists(a)
        /\ new.subject = None \/ new.subject = job[p].obj.subject \/ SubjectFree(new.subject, a)
        /\ account' = [account EXCEPT ![a] = Flush(@, job[p].obj, new)]
        /\ IF job[p].op = "oidc"
           THEN /\ Serve(p, [job[p] EXCEPT !.obj = new, !.stage = "issue"])
                /\ countLock' = IF countLock = p THEN None ELSE countLock
                /\ UNCHANGED nameLock
           ELSE EndJob(p)
  /\ UNCHANGED session

CommitInsert(p) ==
  /\ MayWrite(p)
  /\ job[p].op \in {"create", "oidc_new"}
  /\ LET a == job[p].id IN
       /\ account[a] = Absent
       /\ job[p].obj.subject = None \/ SubjectFree(job[p].obj.subject, a)
       /\ account' = [account EXCEPT ![a] = job[p].obj]
  /\ IF job[p].op = "oidc_new"
     THEN Serve(p, [job[p] EXCEPT !.stage = "issue"]) /\ UNCHANGED <<countLock, nameLock>>
     ELSE EndJob(p)
  /\ UNCHANGED session

CommitDelete(p) ==
  /\ MayWrite(p)
  /\ job[p].op = "delete"
  /\ account' = [account EXCEPT ![job[p].id] = Deleted]
  /\ EndJob(p)
  /\ UNCHANGED session

(* mark_login() writes the row, then _issue_session() puts the role and the *)
(* generation of the object in memory into the token.                       *)
IssueSession(p) ==
  /\ At(p, "issue")
  /\ countLock \in {None, p}
  /\ Exists(job[p].id)
  /\ \/ session' = [account |-> job[p].id, role |-> job[p].obj.role,
                    epoch |-> job[p].obj.epoch,
                    subject |-> IF job[p].op = "login" THEN None
                                ELSE job[p].obj.subject]
     \/ UNCHANGED session
  /\ EndJob(p)
  /\ UNCHANGED account

(* Any error, timeout or restart of the server: the transaction rolls back, *)
(* the locks go.                                                            *)
Abort(p) ==
  /\ job[p] # Idle
  /\ EndJob(p)
  /\ UNCHANGED <<account, session>>

Next ==
  \E p \in Proc :
    \/ StartCreate(p) \/ StartUpdate(p) \/ StartDelete(p) \/ StartLink(p)
    \/ SetPassword(p) \/ StartLogin(p) \/ StartOidc(p) \/ StartOidcNew(p)
    \/ EnterUpdate(p) \/ CountAdministrators(p)
    \/ CommitChange(p) \/ CommitInsert(p) \/ CommitDelete(p)
    \/ IssueSession(p) \/ Abort(p)

Spec == Init /\ [][Next]_vars

-----------------------------------------------------------------------------
JobType ==
  {Idle} \cup
  [op : AllOps \cup {"oidc_new"}, id : Account,
   stage : {"lock", "count", "write", "issue"},
   obj : Row \cup {Absent}, input : Input]

(* Types; the row locks of a count and the named lock of an account belong  *)
(* to a request in progress, whichever way the requests end.                *)
TypeOK ==
  /\ account \in [Account -> Row \cup {Absent, Deleted}]
  /\ job \in [Proc -> JobType]
  /\ countLock \in Proc \cup {None}
  /\ nameLock \in [Account -> Proc \cup {None}]
  /\ session \in Session \cup {None}
  /\ \A p \in ({countLock} \cup {nameLock[a] : a \in Account}) \ {None} : job[p] # Idle

(* The manager never runs out of active administrators                      *)
(* (count_active_administrators: "die Instanz bliebe ohne einen einzigen    *)
(* zurueck").                                                               *)
AdministratorRemains == \E a \in Account : ActiveAdmin(a)

(* The request has counted the administrators and is about to take one away.*)
Counted(p) ==
  /\ At(p, "write")
  /\ \/ job[p].op \in {"delete", "oidc"} /\ IsAdmin(job[p].obj)
     \/ job[p].op = "update" /\ Demoting(job[p].obj, job[p].input)

(* The count a request relies on is still true when it writes: some other   *)
(* active administrator is left, whatever the other requests have committed *)
(* meanwhile ("die Zeilen werden gesperrt").                                *)
CountStillTrue ==
  \A p \in Proc : Counted(p) => \E b \in Account \ {job[p].id} : ActiveAdmin(b)

Accepted(s) ==
  /\ Exists(s.account)
  /\ account[s.account].active
  /\ account[s.account].role = s.role
  /\ account[s.account].epoch = s.epoch

(* A session that was refused once stays refused: taking a role away and    *)
(* giving it back, or locking and unlocking the account, does not bring old *)
(* tokens back to life (comment in _update_locked, MgrAccount.session_epoch).*)
NoRevival ==
  [][session # None /\ session' = session /\ ~Accepted(session)
       => ~Accepted(session)']_vars

(* Every account keeps a way in: a local password or an identity, and an    *)
(* identity leads to one account.                                           *)
EveryAccountReachable ==
  \A a \in Account : Exists(a) =>
    /\ account[a].local \/ account[a].subject # None
    /\ account[a].subject # None => SubjectFree(account[a].subject, a)

=============================================================================
