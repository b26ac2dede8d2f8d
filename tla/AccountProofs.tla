----------------------------- MODULE AccountProofs -----------------------------
(***************************************************************************)
(* What holds of AccountRegistry for any number of requests, accounts and  *)
(* identities and however often roles change.  Where a property needs      *)
(* some operations left out, the theorem says which: they are the ones     *)
(* that take no lock.                                                      *)
(***************************************************************************)
EXTENDS AccountRegistry, TLAPS

\* What a request in each operation has in memory.
JobShape ==
  \A p \in Proc : job[p].op # "idle" =>
    /\ job[p].stage # "lock" => job[p].obj \in Row
    /\ job[p].op \in Ops \/ (job[p].op = "oidc_new" /\ "oidc" \in Ops)
    /\ job[p].op = "oidc" => job[p].input.role \in Role
    /\ job[p].op \in {"create", "oidc_new"} =>
         job[p].stage # "lock" /\ (job[p].obj.local \/ job[p].obj.subject # None)
    /\ job[p].op \in {"link", "login", "delete", "oidc"} => job[p].stage # "lock"
    /\ job[p].stage = "issue" => job[p].op \in {"login", "oidc", "oidc_new"}

\* A request that relies on its count holds the rows it has counted.
CountHeld == \A p \in Proc : Counted(p) => countLock = p

\* Past its lock an update owns the name of the account.
NameHeld ==
  \A p \in Proc : job[p].op = "update" /\ job[p].stage # "lock" =>
    nameLock[job[p].id] = p /\ account[job[p].id] # Absent

\* What set_oidc_subject found about the password stays true: none is taken away.
LinkReads ==
  \A p \in Proc : job[p].op = "link" =>
    /\ account[job[p].id] # Absent
    /\ Exists(job[p].id) /\ job[p].obj.local => account[job[p].id].local
    /\ job[p].input.subject = None /\ job[p].obj.subject # None => job[p].obj.local

\* Role and status change under the named lock only, but for apply_mapped_role.
StatusRead ==
  "oidc" \notin Ops =>
    \A p \in Proc : job[p].op = "update" /\ job[p].stage # "lock" /\ Exists(job[p].id) =>
      /\ account[job[p].id].role = job[p].obj.role
      /\ account[job[p].id].active = job[p].obj.active

\* So does the generation, where set_oidc_subject is not in use either.
Locking == "link" \notin Ops /\ "oidc" \notin Ops

EpochRead ==
  Locking =>
    \A p \in Proc : job[p].op = "update" /\ job[p].stage # "lock" /\ Exists(job[p].id) =>
      account[job[p].id].epoch = job[p].obj.epoch

\* A token with this role and generation is of an account that exists or was
\* deleted, its generation is over or the account is still as the token says.
Issued(a, role, epoch) ==
  /\ account[a] # Absent
  /\ Exists(a) =>
       /\ epoch <= account[a].epoch
       /\ account[a].epoch = epoch => account[a].role = role /\ account[a].active

TokensIssued ==
  Locking =>
    /\ session # None => Issued(session.account, session.role, session.epoch)
    /\ \A p \in Proc : job[p].op = "login" =>
         Issued(job[p].id, job[p].obj.role, job[p].obj.epoch)

\* While no account is deleted and none gets its role from the provider.
AdministratorStays ==
  "delete" \notin Ops /\ "oidc" \notin Ops => AdministratorRemains

IInv ==
  /\ TypeOK /\ JobShape
  /\ CountHeld /\ CountStillTrue
  /\ NameHeld /\ LinkReads /\ EveryAccountReachable
  /\ StatusRead /\ EpochRead /\ TokensIssued
  /\ AdministratorStays

-----------------------------------------------------------------------------
Request ==
  [op : AllOps \cup {"oidc_new"}, id : Account,
   stage : {"lock", "count", "write", "issue"},
   obj : Row \cup {Absent}, input : Input]

(* A request in progress is a record with all its fields.                   *)
LEMMA RequestType ==
  ASSUME TypeOK, NEW p \in Proc
  PROVE  /\ job[p] # Idle <=> job[p].op # "idle"
         /\ job[p].op # "idle" => job[p] \in Request
<1>1. job[p] \in {Idle} \cup Request
  BY DEF TypeOK, JobType, Request
<1>. QED  BY <1>1 DEF Idle, Request, AllOps

(* A row is what is neither absent nor deleted.                             *)
LEMMA RowType ==
  ASSUME TypeOK, NEW a \in Account
  PROVE  /\ Exists(a) <=> account[a] \in Row
         /\ Exists(a) \/ account[a] = Absent \/ account[a] = Deleted
<1>1. Absent \notin Row /\ Deleted \notin Row
  BY DEF Absent, Deleted, Row
<1>. QED  BY <1>1 DEF TypeOK, Exists

-----------------------------------------------------------------------------
\* The job a request starts with.
Begun(j) ==
  /\ j \in Request
  /\ j.op \in Ops \/ (j.op = "oidc_new" /\ "oidc" \in Ops)
  /\ j.stage # "lock" => j.obj \in Row
  /\ j.op = "update" <=> j.stage = "lock"
  /\ j.op = "oidc" => j.input.role \in Role
  /\ j.stage = "issue" => j.op \in {"login", "oidc"}
  /\ j.op \in {"create", "oidc_new"} => j.obj.local \/ j.obj.subject # None
  /\ j.op \in {"delete", "oidc"} /\ j.stage = "write" => ~IsAdmin(j.obj)
  /\ j.op = "link" => /\ Exists(j.id) /\ j.obj = account[j.id]
                      /\ j.input.subject = None /\ j.obj.subject # None => j.obj.local
  /\ j.op = "login" => Exists(j.id) /\ j.obj = account[j.id] /\ j.obj.active

(* Every start is such a beginning and leaves the tables and locks alone.   *)
LEMMA StartBegins ==
  ASSUME TypeOK, NEW p \in Proc,
         StartCreate(p) \/ StartUpdate(p) \/ StartDelete(p) \/ StartLink(p)
           \/ StartLogin(p) \/ StartOidc(p) \/ StartOidcNew(p)
  PROVE  /\ job[p] = Idle /\ UNCHANGED <<account, countLock, nameLock, session>>
         /\ \E j : Begun(j) /\ job' = [job EXCEPT ![p] = j]
<1>0. NoInput \in Input
  BY DEF NoInput, Input
<1>. USE DEF May, Serve, Job, Begun, Request, AllOps, Role
<1>1. CASE StartCreate(p)
  BY <1>0, <1>1 DEF StartCreate, Row
<1>2. CASE StartUpdate(p)
  BY <1>2 DEF StartUpdate, Input
<1>3. CASE StartDelete(p)
  BY <1>0, <1>3, RowType DEF StartDelete
<1>4. CASE StartLink(p)
  <2>1. PICK a \in Account, s \in Subject \cup {None} :
          /\ Exists(a)
          /\ s # None \/ account[a].subject = None \/ account[a].local
          /\ job' = [job EXCEPT ![p] =
               Job("link", a, "write", account[a], [NoInput EXCEPT !.subject = s])]
    BY <1>4 DEF StartLink, Unbounded
  <2>2. account[a] \in Row
    BY <2>1, RowType
  <2>3. [NoInput EXCEPT !.subject = s] \in Input /\ [NoInput EXCEPT !.subject = s].subject = s
    BY DEF NoInput, Input
  <2>. QED  BY <1>4, <2>1, <2>2, <2>3 DEF StartLink
<1>5. CASE StartLogin(p)
  BY <1>0, <1>5, RowType DEF StartLogin
<1>6. CASE StartOidc(p)
  <2>1. PICK a \in Account, mapped \in Role :
          /\ Exists(a)
          /\ job' = [job EXCEPT ![p] = Job("oidc", a,
               IF account[a].role = mapped THEN "issue"
               ELSE IF IsAdmin(account[a]) THEN "count" ELSE "write",
               account[a], [NoInput EXCEPT !.role = mapped])]
    BY <1>6 DEF StartOidc, Unbounded
  <2>2. account[a] \in Row
    BY <2>1, RowType
  <2>3. [NoInput EXCEPT !.role = mapped] \in Input /\ [NoInput EXCEPT !.role = mapped].role = mapped
    BY DEF NoInput, Input
  <2>. QED  BY <1>6, <2>1, <2>2, <2>3 DEF StartOidc
<1>7. CASE StartOidcNew(p)
  BY <1>0, <1>7, NoneAssumption DEF StartOidcNew, Row
<1>. QED  BY <1>1, <1>2, <1>3, <1>4, <1>5, <1>6, <1>7

(* The invariant does not notice a request that starts.                     *)
LEMMA BeginningKeeps ==
  ASSUME IInv, NEW p \in Proc, NEW j, Begun(j), job[p] = Idle,
         job' = [job EXCEPT ![p] = j],
         UNCHANGED <<account, countLock, nameLock, session>>
  PROVE  IInv'
<1>. USE DEF IInv
<1>1. j.op # "idle" /\ j \in Request /\ j \in JobType /\ j # Idle
  BY OpsAssumption DEF Begun, Request, JobType, AllOps, Idle
<1>2. job'[p] = j /\ \A q \in Proc \ {p} : job'[q] = job[q]
  BY DEF TypeOK
<1>3. TypeOK'
  BY <1>1, <1>2 DEF TypeOK
<1>4. JobShape'
  BY <1>1, <1>2 DEF JobShape, Begun
<1>5. ~Counted(p)'
  BY <1>1, <1>2 DEF Counted, At, Begun
<1>6. CountHeld' /\ CountStillTrue'
  BY <1>2, <1>5 DEF CountHeld, CountStillTrue, Counted, At, ActiveAdmin, Exists
<1>7. NameHeld'
  BY <1>1, <1>2 DEF NameHeld, Begun
<1>8. LinkReads' /\ EveryAccountReachable'
  BY <1>1, <1>2 DEF LinkReads, Begun, Exists, EveryAccountReachable, SubjectFree
<1>9. StatusRead' /\ EpochRead'
  BY <1>1, <1>2 DEF StatusRead, EpochRead, Begun, Exists
<1>10. TokensIssued'
  <2>1. j.op = "login" => Issued(j.id, j.obj.role, j.obj.epoch)
    BY <1>1, RowType DEF Begun, Issued, Exists, Request, Row
  <2>. QED  BY <1>1, <1>2, <2>1 DEF TokensIssued, Issued, Exists
<1>11. AdministratorStays'
  BY DEF AdministratorStays, AdministratorRemains, ActiveAdmin, Exists
<1>. QED
  BY <1>3, <1>4, <1>6, <1>7, <1>8, <1>9, <1>10, <1>11

-----------------------------------------------------------------------------
(* A request that ends, with a session or without, takes nothing along that *)
(* another request relies on.                                               *)
LEMMA EndKeeps ==
  ASSUME IInv, NEW p \in Proc, EndJob(p), UNCHANGED account,
         \/ session' = session
         \/ /\ session' \in Session
            /\ Locking => Issued(session'.account, session'.role, session'.epoch)
  PROVE  IInv'
<1>. USE DEF IInv
<1>1. job'[p] = Idle /\ \A q \in Proc \ {p} : job'[q] = job[q]
  BY DEF TypeOK, EndJob
<1>2. Idle.op = "idle" /\ ~Counted(p)'
  BY <1>1 DEF Idle, Counted, At
<1>3. TypeOK'
  <2>1. session' \in Session \cup {None}
    BY DEF TypeOK
  <2>. QED  BY <1>1, <2>1 DEF TypeOK, EndJob, JobType
<1>4. JobShape'
  BY <1>1, <1>2 DEF JobShape
<1>5. CountHeld' /\ CountStillTrue'
  BY <1>1, <1>2 DEF CountHeld, CountStillTrue, Counted, At, ActiveAdmin, Exists, EndJob
<1>6. NameHeld'
  <2>1. SUFFICES ASSUME NEW q \in Proc, job'[q].op = "update", job'[q].stage # "lock"
                 PROVE  nameLock'[job'[q].id] = q /\ account'[job'[q].id] # Absent
    BY DEF NameHeld
  <2>2. q # p /\ job'[q] = job[q]
    BY <1>1, <1>2, <2>1
  <2>3. job[q].id \in Account
    BY <2>1, <2>2, RequestType DEF Request
  <2>. QED  BY <2>1, <2>2, <2>3 DEF NameHeld, EndJob
<1>7. LinkReads' /\ EveryAccountReachable'
  BY <1>1, <1>2 DEF LinkReads, Exists, EveryAccountReachable, SubjectFree
<1>8. StatusRead' /\ EpochRead'
  BY <1>1, <1>2 DEF StatusRead, EpochRead, Exists
<1>9. TokensIssued'
  BY <1>1, <1>2 DEF TokensIssued, Issued, Exists
<1>10. AdministratorStays'
  BY DEF AdministratorStays, AdministratorRemains, ActiveAdmin, Exists
<1>. QED
  BY <1>3, <1>4, <1>5, <1>6, <1>7, <1>8, <1>9, <1>10

LEMMA AbortKeeps ==
  ASSUME IInv, NEW p \in Proc, Abort(p)
  PROVE  IInv'
BY EndKeeps DEF Abort

(* The session has the role and generation of the object the login has read.*)
LEMMA IssueKeeps ==
  ASSUME IInv, NEW p \in Proc, IssueSession(p)
  PROVE  IInv'
<1>. USE DEF IInv
<1>1. /\ job[p].op # "idle" /\ job[p] \in Request /\ job[p].obj \in Row
      /\ EndJob(p) /\ UNCHANGED account
  BY RequestType DEF IssueSession, At, JobShape
<1>2. CASE session' = session
  BY <1>1, <1>2, EndKeeps
<1>3. CASE session' # session
  <2>1. session' = [account |-> job[p].id, role |-> job[p].obj.role,
                    epoch |-> job[p].obj.epoch,
                    subject |-> IF job[p].op = "login" THEN None ELSE job[p].obj.subject]
    BY <1>3 DEF IssueSession
  <2>2. session' \in Session
    BY <1>1, <2>1 DEF Request, Row, Session
  <2>3. Locking => Issued(session'.account, session'.role, session'.epoch)
    <3>1. job[p].op \in {"login", "oidc", "oidc_new"}
      BY <1>1 DEF IssueSession, At, JobShape
    <3>2. job[p].op \in Ops \/ (job[p].op = "oidc_new" /\ "oidc" \in Ops)
      BY <1>1 DEF JobShape
    <3>3. Locking => job[p].op = "login"
      BY <3>1, <3>2, OpsAssumption DEF Locking, AllOps
    <3>. QED  BY <2>1, <3>3 DEF TokensIssued
  <2>. QED  BY <1>1, <2>2, <2>3, EndKeeps
<1>. QED  BY <1>2, <1>3

-----------------------------------------------------------------------------
(* Entering the block of update: the object is the row as it is.            *)
LEMMA EnterKeeps ==
  ASSUME IInv, NEW p \in Proc, EnterUpdate(p)
  PROVE  IInv'
<1>. USE DEF IInv
<1>. DEFINE a == job[p].id
            j == [job[p] EXCEPT !.obj = account[a],
                    !.stage = IF Demoting(account[a], job[p].input) THEN "count" ELSE "write"]
<1>1. /\ job[p].op # "idle" /\ job[p].stage = "lock" /\ job[p] \in Request
      /\ Exists(a) /\ account[a] \in Row /\ a \in Account
      /\ nameLock[a] = None /\ nameLock' = [nameLock EXCEPT ![a] = p]
      /\ UNCHANGED <<account, countLock, session>>
  <2>1. job[p].op # "idle" /\ job[p].stage = "lock" /\ job[p] \in Request
    BY RequestType DEF EnterUpdate, At
  <2>2. a \in Account
    BY <2>1 DEF Request
  <2>. QED  BY <2>1, <2>2, RowType DEF EnterUpdate
<1>2. /\ job' = [job EXCEPT ![p] = j] /\ job'[p] = j
      /\ \A q \in Proc \ {p} : job'[q] = job[q]
  BY DEF EnterUpdate, Serve, TypeOK
<1>3. /\ j \in Request /\ j.obj = account[a] /\ j.op = job[p].op /\ j.id = a
      /\ j.input = job[p].input /\ j.stage \in {"count", "write"}
      /\ j.stage = "write" => ~Demoting(j.obj, j.input)
  BY <1>1 DEF Request
<1>. HIDE DEF j
<1>4. j \in JobType /\ j # Idle
  BY <1>1, <1>3 DEF Request, JobType, Idle
<1>5. TypeOK'
  BY <1>1, <1>2, <1>4 DEF TypeOK
<1>6. JobShape'
  BY <1>1, <1>2, <1>3 DEF JobShape
<1>7. ~Counted(p)'
  BY <1>1, <1>2, <1>3 DEF Counted, At, JobShape
<1>8. CountHeld' /\ CountStillTrue'
  BY <1>1, <1>2, <1>7 DEF CountHeld, CountStillTrue, Counted, At, ActiveAdmin, Exists
<1>9. NameHeld'
  <2>1. SUFFICES ASSUME NEW q \in Proc, job'[q].op = "update", job'[q].stage # "lock"
                 PROVE  nameLock'[job'[q].id] = q /\ account'[job'[q].id] # Absent
    BY DEF NameHeld
  <2>2. CASE q = p
    BY <1>1, <1>2, <1>3, <2>2 DEF Exists, TypeOK
  <2>3. CASE q # p
    <3>1. nameLock[job[q].id] = q /\ account[job[q].id] # Absent /\ job'[q] = job[q]
      BY <1>2, <2>1, <2>3 DEF NameHeld
    <3>2. job[q].id # a
      BY <1>1, <3>1, NoneAssumption
    <3>. QED  BY <1>1, <3>1, <3>2
  <2>. QED  BY <2>2, <2>3
<1>10. LinkReads' /\ EveryAccountReachable'
  BY <1>1, <1>2, <1>3 DEF LinkReads, Exists, EveryAccountReachable, SubjectFree, JobShape
<1>11. StatusRead' /\ EpochRead'
  BY <1>1, <1>2, <1>3 DEF StatusRead, EpochRead, Exists
<1>12. TokensIssued'
  BY <1>1, <1>2, <1>3 DEF TokensIssued, Issued, Exists, JobShape
<1>13. AdministratorStays'
  BY <1>1 DEF AdministratorStays, AdministratorRemains, ActiveAdmin, Exists
<1>. QED
  BY <1>5, <1>6, <1>8, <1>9, <1>10, <1>11, <1>12, <1>13

(* The count: no other request holds counted rows, and another active       *)
(* administrator has just been seen.                                        *)
LEMMA CountKeeps ==
  ASSUME IInv, NEW p \in Proc, CountAdministrators(p)
  PROVE  IInv'
<1>. USE DEF IInv
<1>. DEFINE j == [job[p] EXCEPT !.stage = "write"]
<1>1. /\ job[p].op # "idle" /\ job[p].stage = "count" /\ job[p] \in Request
      /\ countLock = None /\ countLock' = p
      /\ \E b \in Account \ {job[p].id} : ActiveAdmin(b)
      /\ UNCHANGED <<account, nameLock, session>>
  BY RequestType DEF CountAdministrators, At
<1>2. /\ job' = [job EXCEPT ![p] = j] /\ job'[p] = j
      /\ \A q \in Proc \ {p} : job'[q] = job[q]
  BY DEF CountAdministrators, Serve, TypeOK
<1>3. /\ j \in Request /\ j.obj = job[p].obj /\ j.op = job[p].op /\ j.id = job[p].id
      /\ j.input = job[p].input /\ j.stage = "write"
  BY <1>1 DEF Request
<1>. HIDE DEF j
<1>4. j \in JobType /\ j # Idle
  BY <1>1, <1>3 DEF Request, JobType, Idle
<1>5. TypeOK'
  BY <1>1, <1>2, <1>4 DEF TypeOK
<1>6. JobShape'
  BY <1>1, <1>2, <1>3 DEF JobShape
<1>7. \A q \in Proc \ {p} : ~Counted(q)'
  BY <1>1, <1>2, NoneAssumption DEF CountHeld, Counted, At
<1>8. CountHeld' /\ CountStillTrue'
  BY <1>1, <1>2, <1>3, <1>7 DEF CountHeld, CountStillTrue, ActiveAdmin, Exists
<1>9. NameHeld'
  BY <1>1, <1>2, <1>3 DEF NameHeld
<1>10. LinkReads' /\ EveryAccountReachable'
  BY <1>1, <1>2, <1>3 DEF LinkReads, Exists, EveryAccountReachable, SubjectFree
<1>11. StatusRead' /\ EpochRead'
  BY <1>1, <1>2, <1>3 DEF StatusRead, EpochRead, Exists
<1>12. TokensIssued'
  BY <1>1, <1>2, <1>3 DEF TokensIssued, Issued, Exists
<1>13. AdministratorStays'
  BY <1>1 DEF AdministratorStays, AdministratorRemains, ActiveAdmin, Exists
<1>. QED
  BY <1>5, <1>6, <1>8, <1>9, <1>10, <1>11, <1>12, <1>13

(* A local password takes no way in away and leaves role and status alone.  *)
LEMMA PasswordKeeps ==
  ASSUME IInv, NEW p \in Proc, SetPassword(p)
  PROVE  IInv'
<1>. USE DEF IInv
<1>1. PICK a \in Account : /\ Exists(a) /\ countLock = None
                           /\ account' = [account EXCEPT ![a].local = TRUE]
                           /\ UNCHANGED <<job, countLock, nameLock, session>>
  BY DEF SetPassword
<1>2. /\ account[a] \in Row /\ account'[a] \in Row
      /\ account'[a].role = account[a].role /\ account'[a].active = account[a].active
      /\ account'[a].epoch = account[a].epoch /\ account'[a].subject = account[a].subject
      /\ account'[a].local
      /\ \A b \in Account \ {a} : account'[b] = account[b]
  BY <1>1, RowType DEF TypeOK, Row
<1>3. /\ account'[a] # Absent /\ account'[a] # Deleted
      /\ account[a] # Absent /\ account[a] # Deleted
  BY <1>2 DEF Row, Absent, Deleted
<1>4. TypeOK'
  BY <1>1, <1>2 DEF TypeOK
<1>5. JobShape' /\ CountHeld'
  BY <1>1 DEF JobShape, CountHeld, Counted, At
<1>6. CountStillTrue'
  BY <1>1, NoneAssumption DEF CountStillTrue, CountHeld, Counted, At
<1>7. NameHeld'
  BY <1>1, <1>2, <1>3, RequestType DEF NameHeld, Request
<1>8. LinkReads'
  <2>1. SUFFICES ASSUME NEW q \in Proc, job[q].op = "link"
                 PROVE  /\ account'[job[q].id] # Absent
                        /\ (Exists(job[q].id) /\ job[q].obj.local => account[job[q].id].local)'
                        /\ job[q].input.subject = None /\ job[q].obj.subject # None => job[q].obj.local
    BY <1>1 DEF LinkReads
  <2>2. job[q].id \in Account
    BY <2>1, RequestType DEF Request
  <2>. QED  BY <1>1, <1>2, <1>3, <2>1, <2>2 DEF LinkReads, Exists
<1>9. EveryAccountReachable'
  BY <1>1, <1>2, <1>3 DEF EveryAccountReachable, SubjectFree, Exists
<1>10. StatusRead' /\ EpochRead'
  BY <1>1, <1>2, <1>3, RequestType DEF StatusRead, EpochRead, Exists, Request
<1>11. TokensIssued'
  <2>1. ASSUME NEW b \in Account, NEW r, NEW e, Issued(b, r, e) PROVE Issued(b, r, e)'
    BY <1>1, <1>2, <1>3, <2>1 DEF Issued, Exists
  <2>2. session # None => session.account \in Account
    BY DEF TypeOK, Session
  <2>3. \A q \in Proc : job[q].op = "login" => job[q].id \in Account
    BY RequestType DEF Request
  <2>. QED  BY <1>1, <2>1, <2>2, <2>3 DEF TokensIssued
<1>12. AdministratorStays'
  <2>1. ASSUME NEW b \in Account, ActiveAdmin(b) PROVE ActiveAdmin(b)'
    BY <1>1, <1>2, <1>3, <2>1 DEF ActiveAdmin, Exists, IsAdmin
  <2>. QED  BY <2>1 DEF AdministratorStays, AdministratorRemains
<1>. QED
  BY <1>4, <1>5, <1>6, <1>7, <1>8, <1>9, <1>10, <1>11, <1>12

-----------------------------------------------------------------------------
(* What a commit leaves of a job: nothing, or a login that has its object.  *)
JobOver(p) ==
  /\ job' = [job EXCEPT ![p] = job'[p]]
  /\ \A q \in Proc \ {p} : job'[q] = job[q] /\ job'[q].op = job[q].op
  /\ \/ EndJob(p) /\ job'[p] = Idle
     \/ /\ job'[p] \in Request /\ job'[p].stage = "issue" /\ job'[p].obj \in Row
        /\ job'[p].op \in {"oidc", "oidc_new"} /\ job'[p].op = job[p].op
        /\ job'[p].input = job[p].input
        /\ job'[p].obj.local \/ job'[p].obj.subject # None \/ job[p].op = "oidc"
        /\ countLock' \in {countLock, None} /\ nameLock' = nameLock

(* A commit waits for every count but its own.                              *)
LEMMA AloneWrites ==
  ASSUME CountHeld, NEW p \in Proc, MayWrite(p)
  PROVE  \A q \in Proc \ {p} : ~Counted(q)
BY NoneAssumption DEF CountHeld, MayWrite

(* The bookkeeping of a commit, whatever it writes.                         *)
LEMMA CommitBookkeeping ==
  ASSUME IInv, NEW p \in Proc, MayWrite(p), JobOver(p),
         account' \in [Account -> Row \cup {Absent, Deleted}],
         \A a \in Account : account[a] # Absent => account'[a] # Absent,
         UNCHANGED session
  PROVE  TypeOK' /\ JobShape' /\ CountHeld' /\ CountStillTrue' /\ NameHeld'
<1>. USE DEF IInv
<1>1. CASE EndJob(p) /\ job'[p] = Idle
  <2>1. TypeOK'
    BY <1>1 DEF TypeOK, JobOver, EndJob, JobType
  <2>2. JobShape' /\ ~Counted(p)'
    BY <1>1 DEF JobShape, JobOver, Counted, At, Idle
  <2>3. CountHeld' /\ CountStillTrue'
    BY <2>2, AloneWrites DEF CountHeld, CountStillTrue, JobOver, Counted, At
  <2>4. NameHeld'
    BY <1>1, RequestType DEF NameHeld, JobOver, EndJob, Idle, Request
  <2>. QED  BY <2>1, <2>2, <2>3, <2>4
<1>2. CASE ~(EndJob(p) /\ job'[p] = Idle)
  <2>0. /\ job'[p] \in Request /\ job'[p].stage = "issue" /\ job'[p].obj \in Row
        /\ job'[p].op \in {"oidc", "oidc_new"} /\ job'[p].op = job[p].op
        /\ job'[p].input = job[p].input
        /\ job'[p].obj.local \/ job'[p].obj.subject # None \/ job[p].op = "oidc"
        /\ countLock' \in {countLock, None} /\ nameLock' = nameLock
    BY <1>2 DEF JobOver
  <2>1. job'[p] \in JobType /\ job'[p] # Idle
    BY <2>0 DEF Request, JobType, Idle
  <2>2. TypeOK'
    <3>1. job' \in [Proc -> JobType]
      BY <2>1 DEF TypeOK, JobOver
    <3>2. \A q \in ({countLock'} \cup {nameLock'[a] : a \in Account}) \ {None} : job'[q] # Idle
      BY <2>0, <2>1 DEF TypeOK, JobOver
    <3>. QED  BY <2>0, <3>1, <3>2 DEF TypeOK
  <2>3. JobShape' /\ ~Counted(p)'
    BY <2>0 DEF JobShape, JobOver, Counted, At
  <2>4. CountHeld' /\ CountStillTrue'
    BY <2>3, AloneWrites DEF CountHeld, CountStillTrue, JobOver, Counted, At
  <2>5. NameHeld'
    BY <2>0, RequestType DEF NameHeld, JobOver, Request
  <2>. QED  BY <2>2, <2>3, <2>4, <2>5
<1>. QED  BY <1>1, <1>2

(* create and the new account of a first OIDC login.                        *)
LEMMA InsertKeeps ==
  ASSUME IInv, NEW p \in Proc, CommitInsert(p)
  PROVE  IInv'
<1>. USE DEF IInv
<1>. DEFINE a == job[p].id
            n == job[p].obj
<1>1. /\ MayWrite(p) /\ job[p].op \in {"create", "oidc_new"} /\ job[p] \in Request
      /\ a \in Account /\ n \in Row /\ account[a] = Absent
      /\ n.local \/ n.subject # None
      /\ n.subject = None \/ SubjectFree(n.subject, a)
      /\ account' = [account EXCEPT ![a] = n]
      /\ UNCHANGED session
  BY RequestType DEF CommitInsert, MayWrite, At, JobShape, Request
<1>2. account'[a] = n /\ \A b \in Account \ {a} : account'[b] = account[b]
  BY <1>1 DEF TypeOK
<1>3. n # Absent /\ n # Deleted /\ Absent # Deleted
  BY <1>1 DEF Absent, Deleted, Row
<1>4. JobOver(p)
  <2>1. CASE job[p].op = "oidc_new"
    <3>1. /\ job' = [job EXCEPT ![p] = [job[p] EXCEPT !.stage = "issue"]]
          /\ UNCHANGED <<countLock, nameLock>>
      BY <2>1 DEF CommitInsert, Serve
    <3>. QED  BY <1>1, <2>1, <3>1 DEF JobOver, Request, TypeOK
  <2>2. CASE job[p].op # "oidc_new"
    BY <2>2 DEF CommitInsert, EndJob, JobOver, TypeOK
  <2>. QED  BY <2>1, <2>2
<1>5. TypeOK' /\ JobShape' /\ CountHeld' /\ CountStillTrue' /\ NameHeld'
  <2>1. account' \in [Account -> Row \cup {Absent, Deleted}]
    BY <1>1 DEF TypeOK
  <2>2. \A b \in Account : account[b] # Absent => account'[b] # Absent
    BY <1>1, <1>2, <1>3
  <2>. QED  BY <1>1, <1>4, <2>1, <2>2, CommitBookkeeping
<1>6. \A q \in Proc : job'[q].op \in {"link", "update", "login"} =>
        /\ job'[q] = job[q] /\ job[q].id \in Account
  BY <1>1, <1>4, RequestType DEF JobOver, Idle, Request
<1>7. LinkReads'
  BY <1>1, <1>2, <1>3, <1>6 DEF LinkReads, Exists
<1>8. EveryAccountReachable'
  <2>1. SUFFICES ASSUME NEW b \in Account, Exists(b)'
                 PROVE  /\ account'[b].local \/ account'[b].subject # None
                        /\ account'[b].subject # None =>
                             \A c \in Account \ {b} : account'[c] \notin {Absent, Deleted}
                               => account'[c].subject # account'[b].subject
    BY DEF EveryAccountReachable, SubjectFree, Exists
  <2>. QED  BY <1>1, <1>2, <1>3, <2>1 DEF EveryAccountReachable, SubjectFree, Exists
<1>9. \A q \in Proc : job[q].op = "update" /\ job[q].stage # "lock" => job[q].id # a
  BY <1>1 DEF NameHeld
<1>10. StatusRead' /\ EpochRead'
  BY <1>1, <1>2, <1>6, <1>9 DEF StatusRead, EpochRead, Exists
<1>11. TokensIssued'
  <2>1. ASSUME NEW b \in Account, NEW r, NEW e, Issued(b, r, e) PROVE Issued(b, r, e)'
    BY <1>1, <1>2, <2>1 DEF Issued, Exists
  <2>2. session # None => session.account \in Account
    BY DEF TypeOK, Session
  <2>. QED  BY <1>1, <1>6, <2>1, <2>2 DEF TokensIssued
<1>12. AdministratorStays'
  <2>1. ASSUME NEW b \in Account, ActiveAdmin(b) PROVE ActiveAdmin(b)'
    BY <1>1, <1>2, <2>1 DEF ActiveAdmin, Exists, IsAdmin
  <2>. QED  BY <2>1 DEF AdministratorStays, AdministratorRemains
<1>. QED
  BY <1>5, <1>7, <1>8, <1>10, <1>11, <1>12

(* delete(): what relied on the row finds it gone.                          *)
LEMMA DeleteKeeps ==
  ASSUME IInv, NEW p \in Proc, CommitDelete(p)
  PROVE  IInv'
<1>. USE DEF IInv
<1>. DEFINE a == job[p].id
<1>1. /\ MayWrite(p) /\ job[p].op = "delete" /\ "delete" \in Ops
      /\ a \in Account /\ account' = [account EXCEPT ![a] = Deleted]
      /\ EndJob(p) /\ UNCHANGED session
  BY RequestType DEF CommitDelete, MayWrite, At, JobShape, Request
<1>2. account'[a] = Deleted /\ \A b \in Account \ {a} : account'[b] = account[b]
  BY <1>1 DEF TypeOK
<1>3. Absent # Deleted
  BY DEF Absent, Deleted
<1>4. JobOver(p)
  BY <1>1 DEF EndJob, JobOver, TypeOK
<1>5. TypeOK' /\ JobShape' /\ CountHeld' /\ CountStillTrue' /\ NameHeld'
  <2>1. account' \in [Account -> Row \cup {Absent, Deleted}]
    BY <1>1 DEF TypeOK
  <2>2. \A b \in Account : account[b] # Absent => account'[b] # Absent
    BY <1>2, <1>3
  <2>. QED  BY <1>1, <1>4, <2>1, <2>2, CommitBookkeeping
<1>6. \A q \in Proc : job'[q].op \in {"link", "update", "login"} =>
        /\ job'[q] = job[q] /\ job[q].id \in Account
  BY <1>1, <1>4, RequestType DEF JobOver, Idle, Request
<1>7. LinkReads' /\ EveryAccountReachable'
  BY <1>2, <1>3, <1>6 DEF LinkReads, Exists, EveryAccountReachable, SubjectFree
<1>8. StatusRead' /\ EpochRead'
  BY <1>2, <1>6 DEF StatusRead, EpochRead, Exists
<1>9. TokensIssued'
  <2>1. ASSUME NEW b \in Account, NEW r, NEW e, Issued(b, r, e) PROVE Issued(b, r, e)'
    BY <1>2, <1>3, <2>1 DEF Issued, Exists
  <2>2. session # None => session.account \in Account
    BY DEF TypeOK, Session
  <2>. QED  BY <1>1, <1>6, <2>1, <2>2 DEF TokensIssued
<1>10. AdministratorStays'
  BY <1>1 DEF AdministratorStays
<1>. QED
  BY <1>5, <1>7, <1>8, <1>9, <1>10

-----------------------------------------------------------------------------
(* The object a request has changed is a row.                               *)
LEMMA NewObjectType ==
  ASSUME NEW j \in Request, j.op \in {"update", "link", "oidc"}, j.obj \in Row,
         j.op = "oidc" => j.input.role \in Role
  PROVE  /\ NewObject(j) \in Row
         /\ j.op # "link" => NewObject(j).subject = j.obj.subject
         /\ j.op = "link" => /\ NewObject(j).subject = j.input.subject
                             /\ NewObject(j).role = j.obj.role
                             /\ NewObject(j).active = j.obj.active
         /\ j.op = "update" => /\ NewObject(j).role = Given(j.input.role, j.obj.role)
                               /\ NewObject(j).active = Given(j.input.active, j.obj.active)
                               /\ NewObject(j).epoch = EpochAfter(j.obj, j.input)
<1>1. CASE j.op = "update"
  <2>1. NewObject(j) = [j.obj EXCEPT !.role = Given(j.input.role, @),
                                     !.active = Given(j.input.active, @),
                                     !.epoch = EpochAfter(j.obj, j.input)]
    BY <1>1 DEF NewObject
  <2>2. /\ Given(j.input.role, j.obj.role) \in Role
        /\ Given(j.input.active, j.obj.active) \in BOOLEAN
        /\ EpochAfter(j.obj, j.input) \in Nat
    BY DEF Given, EpochAfter, Changed, Row, Request, Input
  <2>. QED  BY <1>1, <2>1, <2>2 DEF Row
<1>2. CASE j.op = "link"
  <2>. DEFINE e == IF j.input.subject = j.obj.subject THEN j.obj.epoch ELSE j.obj.epoch + 1
  <2>1. NewObject(j) = [j.obj EXCEPT !.subject = j.input.subject, !.epoch = e]
    BY <1>2 DEF NewObject
  <2>2. j.input.subject \in Subject \cup {None} /\ e \in Nat
    BY DEF Request, Input, Row
  <2>. HIDE DEF e
  <2>. QED  BY <1>2, <2>1, <2>2 DEF Row
<1>3. CASE j.op = "oidc"
  <2>. DEFINE e == j.obj.epoch + 1
  <2>1. NewObject(j) = [j.obj EXCEPT !.role = j.input.role, !.epoch = e]
    BY <1>3 DEF NewObject
  <2>2. e \in Nat
    BY DEF Row
  <2>. HIDE DEF e
  <2>. QED  BY <1>3, <2>1, <2>2 DEF Row
<1>. QED  BY <1>1, <1>2, <1>3

(* A row stays a row; what the request has not changed is as committed.     *)
LEMMA FlushType ==
  ASSUME NEW row \in Row, NEW old \in Row, NEW new \in Row
  PROVE  /\ Flush(row, old, new) \in Row
         /\ Flush(row, old, new).local = row.local
         /\ Flush(row, old, new).role    = IF new.role = old.role THEN row.role ELSE new.role
         /\ Flush(row, old, new).active  = IF new.active = old.active THEN row.active ELSE new.active
         /\ Flush(row, old, new).epoch   = IF new.epoch = old.epoch THEN row.epoch ELSE new.epoch
         /\ Flush(row, old, new).subject = IF new.subject = old.subject THEN row.subject ELSE new.subject
BY DEF Flush, Row

(* An update of an object that is the row raises the generation with every  *)
(* change of role or status.                                                *)
LEMMA UpdateRaises ==
  ASSUME NEW j \in Request, j.op = "update", j.obj \in Row, NEW row \in Row,
         row.role = j.obj.role, row.active = j.obj.active, row.epoch = j.obj.epoch
  PROVE  LET n == Flush(row, j.obj, NewObject(j))
         IN /\ n.epoch >= row.epoch
            /\ n.epoch = row.epoch => n.role = row.role /\ n.active = row.active
<1>. DEFINE new == NewObject(j)
            n == Flush(row, j.obj, new)
<1>1. /\ new \in Row
      /\ new.role = Given(j.input.role, j.obj.role)
      /\ new.active = Given(j.input.active, j.obj.active)
      /\ new.epoch = EpochAfter(j.obj, j.input)
  BY NewObjectType
<1>2. /\ n.role   = IF new.role = j.obj.role THEN row.role ELSE new.role
      /\ n.active = IF new.active = j.obj.active THEN row.active ELSE new.active
      /\ n.epoch  = IF new.epoch = j.obj.epoch THEN row.epoch ELSE new.epoch
  BY <1>1, FlushType
<1>. HIDE DEF new, n
<1>3. j.obj.epoch \in Nat
  BY DEF Row
<1>4. /\ new.role # j.obj.role => Changed(j.input.role, j.obj.role) = 1
      /\ new.active # j.obj.active => Changed(j.input.active, j.obj.active) = 1
      /\ Changed(j.input.role, j.obj.role) \in {0, 1}
      /\ Changed(j.input.active, j.obj.active) \in {0, 1}
  BY <1>1 DEF Given, Changed
<1>5. n.epoch >= row.epoch /\ (n.epoch = row.epoch => new.role = j.obj.role /\ new.active = j.obj.active)
  BY <1>1, <1>2, <1>3, <1>4 DEF EpochAfter
<1>. QED  BY <1>2, <1>5 DEF n, new

-----------------------------------------------------------------------------
(* What a commit of update, set_oidc_subject or apply_mapped_role does to   *)
(* the row, whatever was committed since the object was read.               *)
LEMMA ChangeWrites ==
  ASSUME IInv, NEW p \in Proc, CommitChange(p)
  PROVE  LET a == job[p].id
             n == Flush(account[a], job[p].obj, NewObject(job[p]))
         IN /\ MayWrite(p) /\ job[p] \in Request /\ job[p].obj \in Row
            /\ job[p].op \in {"update", "link", "oidc"} /\ job[p].op \in Ops
            /\ a \in Account /\ account[a] \in Row /\ Exists(a) /\ n \in Row
            /\ n.local = account[a].local
            /\ account' = [account EXCEPT ![a] = n] /\ UNCHANGED session
            /\ JobOver(p)
<1>. USE DEF IInv
<1>. DEFINE a == job[p].id
            new == NewObject(job[p])
            n == Flush(account[a], job[p].obj, new)
<1>1. /\ MayWrite(p) /\ job[p] \in Request /\ job[p].obj \in Row
      /\ job[p].op \in {"update", "link", "oidc"} /\ job[p].op \in Ops
      /\ job[p].op = "oidc" => job[p].input.role \in Role
  BY RequestType DEF CommitChange, MayWrite, At, JobShape
<1>2. /\ Exists(a) /\ a \in Account /\ account' = [account EXCEPT ![a] = n]
      /\ UNCHANGED session
  BY <1>1 DEF CommitChange, Request
<1>3. account[a] \in Row
  BY <1>2, RowType
<1>4. new \in Row
  BY <1>1, NewObjectType
<1>5. n \in Row /\ n.local = account[a].local
  BY <1>1, <1>3, <1>4, FlushType
<1>. HIDE DEF n, new
<1>6. JobOver(p)
  <2>1. CASE job[p].op = "oidc"
    <3>1. /\ job' = [job EXCEPT ![p] = [job[p] EXCEPT !.obj = new, !.stage = "issue"]]
          /\ countLock' = IF countLock = p THEN None ELSE countLock
          /\ UNCHANGED nameLock
      BY <2>1 DEF CommitChange, Serve, new
    <3>. QED  BY <1>1, <1>4, <2>1, <3>1 DEF JobOver, Request, TypeOK
  <2>2. CASE job[p].op # "oidc"
    BY <2>2 DEF CommitChange, EndJob, JobOver, TypeOK
  <2>. QED  BY <2>1, <2>2
<1>. QED  BY <1>1, <1>2, <1>3, <1>5, <1>6 DEF n, new

(* The commit keeps what the other requests rely on.                        *)
LEMMA ChangeKeeps ==
  ASSUME IInv, NEW p \in Proc, CommitChange(p)
  PROVE  IInv'
<1>. USE DEF IInv
<1>. DEFINE a == job[p].id
            j == job[p]
            row == account[a]
            new == NewObject(j)
            n == Flush(row, j.obj, new)
<1>1. /\ MayWrite(p) /\ j \in Request /\ j.obj \in Row
      /\ j.op \in {"update", "link", "oidc"} /\ j.op \in Ops
      /\ a \in Account /\ row \in Row /\ Exists(a) /\ n \in Row
      /\ n.local = row.local
      /\ account' = [account EXCEPT ![a] = n] /\ UNCHANGED session
      /\ JobOver(p)
  BY ChangeWrites
<1>2. j.stage # "lock" /\ (j.op = "oidc" => j.input.role \in Role)
  BY <1>1 DEF MayWrite, At, JobShape
<1>3. /\ new \in Row
      /\ j.op # "link" => new.subject = j.obj.subject
      /\ j.op = "link" => /\ new.subject = j.input.subject
                          /\ new.role = j.obj.role /\ new.active = j.obj.active
      /\ j.op = "update" => /\ new.role = Given(j.input.role, j.obj.role)
                            /\ new.active = Given(j.input.active, j.obj.active)
  BY <1>1, <1>2, NewObjectType
<1>4. /\ n.role    = IF new.role = j.obj.role THEN row.role ELSE new.role
      /\ n.active  = IF new.active = j.obj.active THEN row.active ELSE new.active
      /\ n.subject = IF new.subject = j.obj.subject THEN row.subject ELSE new.subject
  BY <1>1, <1>3, FlushType
<1>5. account'[a] = n /\ \A b \in Account \ {a} : account'[b] = account[b]
  BY <1>1 DEF TypeOK
<1>6. /\ n # Absent /\ n # Deleted /\ row # Absent /\ row # Deleted
  BY <1>1 DEF Absent, Deleted, Row
<1>7. TypeOK' /\ JobShape' /\ CountHeld' /\ CountStillTrue' /\ NameHeld'
  <2>1. account' \in [Account -> Row \cup {Absent, Deleted}]
    BY <1>1 DEF TypeOK
  <2>2. \A b \in Account : account[b] # Absent => account'[b] # Absent
    BY <1>5, <1>6
  <2>. QED  BY <1>1, <2>1, <2>2, CommitBookkeeping
<1>8. \A q \in Proc : job'[q].op \in {"link", "update", "login"} =>
        /\ q # p /\ job'[q] = job[q] /\ job[q].id \in Account
  BY <1>1, RequestType DEF JobOver, Idle, Request
<1>9. LinkReads'
  <2>1. SUFFICES ASSUME NEW q \in Proc, job'[q].op = "link"
                 PROVE  /\ account'[job[q].id] # Absent
                        /\ job[q].obj.local /\ account'[job[q].id] \notin {Absent, Deleted}
                             => account'[job[q].id].local
                        /\ job[q].input.subject = None /\ job[q].obj.subject # None => job[q].obj.local
    BY <1>8 DEF LinkReads, Exists
  <2>. HIDE DEF n
  <2>. QED  BY <1>1, <1>5, <1>6, <1>8, <2>1 DEF LinkReads, Exists
<1>10. EveryAccountReachable'
  <2>1. \/ n.subject = row.subject
        \/ n.subject = None /\ n.local
        \/ n.subject # None /\ SubjectFree(n.subject, a)
    <3>1. CASE new.subject = j.obj.subject
      BY <1>4, <3>1
    <3>2. CASE new.subject # j.obj.subject
      <4>1. n.subject = new.subject /\ j.op = "link" /\ new.subject = j.input.subject
        BY <1>3, <1>4, <3>2
      <4>2. new.subject = None \/ SubjectFree(new.subject, a)
        BY <3>2 DEF CommitChange
      <4>3. new.subject = None => row.local
        BY <1>1, <3>2, <4>1 DEF LinkReads
      <4>. QED  BY <1>1, <4>1, <4>2, <4>3
    <3>. QED  BY <3>1, <3>2
  <2>. HIDE DEF n
  <2>2. SUFFICES ASSUME NEW b \in Account, account'[b] \notin {Absent, Deleted}
                 PROVE  /\ account'[b].local \/ account'[b].subject # None
                        /\ account'[b].subject # None =>
                             \A c \in Account \ {b} : account'[c] \notin {Absent, Deleted}
                               => account'[c].subject # account'[b].subject
    BY DEF EveryAccountReachable, SubjectFree, Exists
  <2>. QED  BY <1>1, <1>5, <1>6, <2>1, <2>2 DEF EveryAccountReachable, SubjectFree, Exists
<1>11. StatusRead'
  <2>1. SUFFICES ASSUME "oidc" \notin Ops, NEW q \in Proc, job'[q].op = "update",
                        job'[q].stage # "lock", account'[job[q].id] \notin {Absent, Deleted}
                 PROVE  /\ account'[job[q].id].role = job[q].obj.role
                        /\ account'[job[q].id].active = job[q].obj.active
    BY <1>8 DEF StatusRead, Exists
  <2>2. CASE job[q].id = a
    <3>1. j.op # "update"
      BY <1>2, <1>8, <2>1, <2>2 DEF NameHeld
    <3>2. n.role = row.role /\ n.active = row.active
      BY <1>1, <1>3, <1>4, <2>1, <3>1
    <3>. QED  BY <1>1, <1>5, <1>8, <2>1, <2>2, <3>2 DEF StatusRead
  <2>3. CASE job[q].id # a
    BY <1>5, <1>8, <2>1, <2>3 DEF StatusRead, Exists
  <2>. QED  BY <2>2, <2>3
<1>12. Locking => j.op = "update"
  BY <1>1 DEF Locking
<1>13. EpochRead'
  <2>1. SUFFICES ASSUME Locking, NEW q \in Proc, job'[q].op = "update",
                        job'[q].stage # "lock", account'[job[q].id] \notin {Absent, Deleted}
                 PROVE  account'[job[q].id].epoch = job[q].obj.epoch
    BY <1>8 DEF EpochRead, Exists
  <2>2. job[q].id # a
    BY <1>2, <1>8, <1>12, <2>1 DEF NameHeld
  <2>. QED  BY <1>5, <1>8, <2>1, <2>2 DEF EpochRead, Exists
<1>14. TokensIssued'
  <2>1. SUFFICES ASSUME Locking PROVE TokensIssued'
    BY DEF TokensIssued
  <2>2. row.role = j.obj.role /\ row.active = j.obj.active /\ row.epoch = j.obj.epoch
    BY <1>1, <1>2, <1>12, <2>1 DEF StatusRead, EpochRead, Locking
  <2>3. n.epoch >= row.epoch /\ (n.epoch = row.epoch => n.role = row.role /\ n.active = row.active)
    BY <1>1, <1>12, <2>1, <2>2, UpdateRaises
  <2>4. n.epoch \in Nat /\ row.epoch \in Nat
    BY <1>1 DEF Row
  <2>. HIDE DEF n
  <2>5. ASSUME NEW b \in Account, NEW r, NEW e \in Nat, Issued(b, r, e) PROVE Issued(b, r, e)'
    <3>1. CASE b = a
      BY <1>1, <1>5, <1>6, <2>3, <2>4, <2>5, <3>1 DEF Issued, Exists
    <3>2. CASE b # a
      BY <1>5, <2>5, <3>2 DEF Issued, Exists
    <3>. QED  BY <3>1, <3>2
  <2>6. session # None => session.account \in Account /\ session.epoch \in Nat
    BY DEF TypeOK, Session
  <2>7. \A q \in Proc : job[q].op = "login" => job[q].obj.epoch \in Nat
    BY DEF JobShape, Row
  <2>. QED  BY <1>1, <1>8, <2>1, <2>5, <2>6, <2>7 DEF TokensIssued
<1>15. AdministratorStays'
  <2>1. SUFFICES ASSUME "delete" \notin Ops, "oidc" \notin Ops
                 PROVE  AdministratorRemains'
    BY DEF AdministratorStays
  <2>2. PICK b \in Account : ActiveAdmin(b)
    BY <2>1 DEF AdministratorStays, AdministratorRemains
  <2>3. ASSUME NEW c \in Account \ {a}, ActiveAdmin(c) PROVE ActiveAdmin(c)'
    BY <1>5, <2>3 DEF ActiveAdmin, Exists
  <2>4. CASE Counted(p)
    BY <2>3, <2>4 DEF CountStillTrue, AdministratorRemains
  <2>5. CASE ~Counted(p) /\ b = a
    <3>1. IsAdmin(row) /\ row.active
      BY <2>2, <2>5 DEF ActiveAdmin
    <3>2. n.role = row.role /\ n.active = row.active
      <4>1. CASE j.op = "link"
        BY <1>3, <1>4, <4>1
      <4>2. CASE j.op = "update"
        <5>1. row.role = j.obj.role /\ row.active = j.obj.active
          BY <1>1, <1>2, <2>1, <4>2 DEF StatusRead
        <5>2. ~Demoting(j.obj, j.input)
          BY <1>1, <2>5, <4>2 DEF Counted, MayWrite
        <5>3. new.role = j.obj.role
          BY <1>3, <3>1, <4>2, <5>1, <5>2 DEF Demoting, IsAdmin, Given
        <5>4. new.active = j.obj.active
          <6>1. j.input.active \in BOOLEAN \cup {None} /\ j.input.active # FALSE /\ j.obj.active
            BY <1>1, <3>1, <5>1, <5>2 DEF Demoting, IsAdmin, Request, Input
          <6>2. j.obj.active = TRUE
            BY <1>1, <6>1 DEF Row
          <6>. QED  BY <1>3, <4>2, <6>1, <6>2 DEF Given
        <5>. QED  BY <1>4, <5>3, <5>4
      <4>. QED  BY <1>1, <2>1, <4>1, <4>2
    <3>. HIDE DEF n
    <3>3. ActiveAdmin(b)'
      BY <1>5, <1>6, <2>5, <3>1, <3>2 DEF ActiveAdmin, Exists, IsAdmin
    <3>. QED  BY <3>3 DEF AdministratorRemains
  <2>6. CASE b # a
    BY <2>2, <2>3, <2>6 DEF AdministratorRemains
  <2>. QED  BY <2>4, <2>5, <2>6
<1>. QED
  BY <1>7, <1>9, <1>10, <1>11, <1>13, <1>14, <1>15

-----------------------------------------------------------------------------
LEMMA InitHolds == Init => IInv
<1>. SUFFICES ASSUME Init PROVE IInv
  OBVIOUS
<1>. USE DEF Init
<1>1. \A p \in Proc : job[p] = Idle /\ Idle.op = "idle"
  BY DEF Idle
<1>2. TypeOK
  <2>1. account \in [Account -> Row \cup {Absent, Deleted}]
    BY DEF Row
  <2>. QED  BY <2>1 DEF TypeOK, JobType
<1>3. JobShape /\ CountHeld /\ CountStillTrue /\ NameHeld /\ LinkReads
  BY <1>1 DEF JobShape, CountHeld, CountStillTrue, Counted, At, NameHeld, LinkReads
<1>4. EveryAccountReachable
  <2>1. \A a \in Account : Exists(a) => account[a].local \/ account[a].subject # None
    BY DEF Exists
  <2>. QED  BY <2>1 DEF EveryAccountReachable
<1>5. StatusRead /\ EpochRead /\ TokensIssued /\ AdministratorStays
  BY <1>1 DEF StatusRead, EpochRead, TokensIssued, AdministratorStays, AdministratorRemains
<1>. QED  BY <1>2, <1>3, <1>4, <1>5 DEF IInv

LEMMA StutterKeeps ==
  ASSUME IInv, UNCHANGED vars
  PROVE  IInv'
<1>. USE DEF IInv, vars
<1>1. TypeOK' /\ JobShape'
  BY DEF TypeOK, JobShape
<1>2. CountHeld' /\ CountStillTrue'
  BY DEF CountHeld, CountStillTrue, Counted, At, ActiveAdmin, Exists
<1>3. NameHeld' /\ LinkReads' /\ EveryAccountReachable'
  BY DEF NameHeld, LinkReads, EveryAccountReachable, SubjectFree, Exists
<1>4. StatusRead' /\ EpochRead' /\ TokensIssued'
  BY DEF StatusRead, EpochRead, TokensIssued, Issued, Exists
<1>5. AdministratorStays'
  BY DEF AdministratorStays, AdministratorRemains, ActiveAdmin, Exists
<1>. QED  BY <1>1, <1>2, <1>3, <1>4, <1>5

LEMMA StepKeeps == IInv /\ [Next]_vars => IInv'
<1>. SUFFICES ASSUME IInv, [Next]_vars PROVE IInv'
  OBVIOUS
<1>1. ASSUME NEW p \in Proc,
             StartCreate(p) \/ StartUpdate(p) \/ StartDelete(p) \/ StartLink(p)
               \/ StartLogin(p) \/ StartOidc(p) \/ StartOidcNew(p)
      PROVE  IInv'
  <2>1. TypeOK
    BY DEF IInv
  <2>2. /\ job[p] = Idle /\ UNCHANGED <<account, countLock, nameLock, session>>
        /\ \E j : Begun(j) /\ job' = [job EXCEPT ![p] = j]
    BY <1>1, <2>1, StartBegins
  <2>. QED  BY <2>2, BeginningKeeps
<1>2. ASSUME NEW p \in Proc,
             \/ SetPassword(p) \/ EnterUpdate(p) \/ CountAdministrators(p)
             \/ CommitChange(p) \/ CommitInsert(p) \/ CommitDelete(p)
             \/ IssueSession(p) \/ Abort(p)
      PROVE  IInv'
  BY <1>2, PasswordKeeps, EnterKeeps, CountKeeps, ChangeKeeps, InsertKeeps, DeleteKeeps,
     IssueKeeps, AbortKeeps
<1>3. CASE UNCHANGED vars
  BY <1>3, StutterKeeps
<1>. QED  BY <1>1, <1>2, <1>3 DEF Next

-----------------------------------------------------------------------------
(* What concurrent requests on accounts rely on stays true, see IInv.       *)
THEOREM AccountInvariant == Spec => []IInv
BY InitHolds, StepKeeps, PTL DEF Spec

(* Variables have their types and no lock outlives its request.             *)
THEOREM TypeCorrect == Spec => []TypeOK
<1>1. IInv => TypeOK
  BY DEF IInv
<1>. QED  BY <1>1, AccountInvariant, PTL

(* A count of administrators is true until the request that made it has     *)
(* committed, whichever operations run beside it.                           *)
THEOREM CountStaysTrue == Spec => []CountStillTrue
<1>1. IInv => CountStillTrue
  BY DEF IInv
<1>. QED  BY <1>1, AccountInvariant, PTL

(* No interleaving of links, passwords and first logins leaves an account   *)
(* without a way in or gives one identity two accounts.                     *)
THEOREM WayInRemains == Spec => []EveryAccountReachable
<1>1. IInv => EveryAccountReachable
  BY DEF IInv
<1>. QED  BY <1>1, AccountInvariant, PTL

(* An administrator remains as long as accounts are not deleted and roles   *)
(* not taken over from the identity provider: neither of the two takes the  *)
(* lock under which update() reads the account it changes.                  *)
THEOREM AdministratorNeverLost ==
  ASSUME "delete" \notin Ops, "oidc" \notin Ops
  PROVE  Spec => []AdministratorRemains
<1>1. IInv => AdministratorRemains
  BY DEF IInv, AdministratorStays
<1>. QED  BY <1>1, AccountInvariant, PTL

(* Generations grow and no id is used twice, where every change of role,    *)
(* status and generation is made under the account's lock.                  *)
LEMMA GenerationsGrow ==
  ASSUME IInv, Locking, [Next]_vars, NEW a \in Account, account[a] # Absent
  PROVE  IF Exists(a)
         THEN account'[a] = Deleted \/ account'[a].epoch >= account[a].epoch
         ELSE account'[a] = Deleted
<1>. USE DEF IInv
<1>0. /\ Exists(a) \/ account[a] = Deleted
      /\ Exists(a) => account[a] \in Row /\ account[a].epoch \in Nat
  BY RowType DEF Row
<1>1. CASE account' = account
  BY <1>0, <1>1
<1>2. CASE account' # account
  <2>1. PICK p \in Proc : SetPassword(p) \/ CommitChange(p) \/ CommitInsert(p) \/ CommitDelete(p)
    BY <1>2 DEF Next, vars, StartCreate, StartUpdate, StartDelete, StartLink, StartLogin,
         StartOidc, StartOidcNew, EnterUpdate, CountAdministrators, IssueSession, Abort
  <2>2. CASE SetPassword(p)
    BY <1>0, <2>2 DEF SetPassword, TypeOK, Exists, Row
  <2>3. CASE CommitInsert(p)
    <3>1. /\ job[p].id # a
          /\ account' = [account EXCEPT ![job[p].id] = job[p].obj]
      BY <2>3 DEF CommitInsert
    <3>. QED  BY <1>0, <3>1 DEF TypeOK
  <2>4. CASE CommitDelete(p)
    <3>1. account' = [account EXCEPT ![job[p].id] = Deleted]
      BY <2>4 DEF CommitDelete
    <3>. QED  BY <1>0, <3>1 DEF TypeOK
  <2>5. CASE CommitChange(p)
    <3>. DEFINE n == Flush(account[job[p].id], job[p].obj, NewObject(job[p]))
    <3>1. /\ MayWrite(p) /\ job[p] \in Request /\ job[p].obj \in Row
          /\ job[p].op \in {"update", "link", "oidc"} /\ job[p].op \in Ops
          /\ job[p].id \in Account /\ account[job[p].id] \in Row /\ Exists(job[p].id)
          /\ account' = [account EXCEPT ![job[p].id] = n]
      BY <2>5, ChangeWrites
    <3>2. job[p].op = "update" /\ job[p].stage # "lock"
      BY <3>1 DEF Locking, MayWrite, At
    <3>3. /\ account[job[p].id].role = job[p].obj.role
          /\ account[job[p].id].active = job[p].obj.active
          /\ account[job[p].id].epoch = job[p].obj.epoch
      BY <3>1, <3>2 DEF StatusRead, EpochRead, Locking
    <3>4. n.epoch >= account[job[p].id].epoch
      BY <3>1, <3>2, <3>3, UpdateRaises
    <3>. HIDE DEF n
    <3>5. CASE job[p].id = a
      BY <3>1, <3>4, <3>5 DEF TypeOK
    <3>6. CASE job[p].id # a
      BY <1>0, <3>1, <3>6 DEF TypeOK
    <3>. QED  BY <3>5, <3>6
  <2>. QED  BY <2>1, <2>2, <2>3, <2>4, <2>5
<1>. QED  BY <1>1, <1>2

(* A refused session stays refused, as long as set_oidc_subject and         *)
(* apply_mapped_role do not raise the generation of an object read earlier. *)
THEOREM RefusedForGood ==
  ASSUME Locking
  PROVE  Spec => NoRevival
<1>1. ASSUME IInv, [Next]_vars, session # None, session' = session, ~Accepted(session)
      PROVE  ~Accepted(session)'
  <2>. DEFINE a == session.account
  <2>1. a \in Account /\ session.epoch \in Nat
    BY <1>1 DEF IInv, TypeOK, Session
  <2>2. Issued(a, session.role, session.epoch)
    BY <1>1 DEF IInv, TokensIssued
  <2>3. IF Exists(a)
        THEN account'[a] = Deleted \/ account'[a].epoch >= account[a].epoch
        ELSE account'[a] = Deleted
    BY <1>1, <2>1, <2>2, GenerationsGrow DEF Issued
  <2>4. Exists(a) => account[a] \in Row /\ account[a].epoch \in Nat
    BY <1>1, <2>1, RowType DEF IInv, Row
  <2>5. Exists(a) => account[a].epoch > session.epoch
    BY <1>1, <2>1, <2>2, <2>4 DEF Issued, Accepted
  <2>6. SUFFICES ASSUME account'[a] \notin {Absent, Deleted}, account'[a].epoch = session.epoch
                 PROVE  FALSE
    BY <1>1 DEF Accepted, Exists
  <2>7. Exists(a) /\ account'[a].epoch >= account[a].epoch
    BY <2>3, <2>6
  <2>8. account'[a].epoch \in Nat
    <3>1. TypeOK'
      BY <1>1, StepKeeps DEF IInv
    <3>. QED  BY <2>1, <2>6, <3>1 DEF TypeOK, Row
  <2>. QED  BY <2>1, <2>4, <2>5, <2>6, <2>7, <2>8
<1>2. IInv /\ [Next]_vars
        => [session # None /\ session' = session /\ ~Accepted(session) => ~Accepted(session)']_vars
  BY <1>1
<1>. QED  BY <1>2, AccountInvariant, PTL DEF Spec, NoRevival

=============================================================================
