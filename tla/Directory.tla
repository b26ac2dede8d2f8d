------------------------------ MODULE Directory ------------------------------
(***************************************************************************)
(* RADIUS users and groups under concurrent requests: services/users.py,   *)
(* services/groups.py and the bulk and import paths that call them.        *)
(*                                                                         *)
(* radcheck, radreply, radusergroup, radgroupcheck and radgroupreply have  *)
(* neither foreign keys nor unique constraints.  A group exists as long as *)
(* it has an attribute or a membership, a user as long as it has a row of  *)
(* its own or a membership.  What keeps them consistent are the named      *)
(* locks (module NamedLock) that cover the checks and the commit: here a   *)
(* request enters its block when all its names are free, and reads a       *)
(* snapshot of its own there.  What it read before the lock, the groups of *)
(* a user it replaces or deletes, may be outdated by then.                 *)
(*                                                                         *)
(* Names stand for their folded form (core/identifiers.py), so renaming    *)
(* always is to another name.  A user's own rows (radcheck, radreply,      *)
(* mgr_subject) are one fact: every operation that writes one of them also *)
(* creates the mgr_subject row, and only delete() removes it.              *)
(***************************************************************************)
EXTENDS Integers, FiniteSets

CONSTANTS Proc,     \* requests served concurrently
          User, Group,
          Edits,    \* payloads of PATCH /groups/{name}, see Edit
          None

Table == {"check", "reply"}   \* radgroupcheck and radgroupreply
Pair  == User \X Group

\* A payload leaves a collection as it is, replaces it by some rows or by none.
Edit == [Table -> {"keep", "some", "none"}]

ASSUME EditsAssumption == Edits \subseteq Edit
ASSUME NamesAssumption == User \cap Group = {} /\ None \notin User \cup Group
ASSUME FiniteAssumption == IsFiniteSet(User) /\ IsFiniteSet(Group)

VARIABLES
  known,  \* users with rows of their own
  attrs,  \* the attribute collections each group has rows in
  rows,   \* how many radusergroup rows there are for a user and a group
  job     \* the request each process is serving

db   == <<known, attrs, rows>>
vars == <<known, attrs, rows, job>>

Idle == [stage |-> "idle"]

Groups(u)  == {g \in Group : rows[<<u, g>>] > 0}
Members(g) == {u \in User : rows[<<u, g>>] > 0}

\* exists_anywhere(name) or subjects.get(name)
UserExists(u)  == u \in known \/ Groups(u) # {}
GroupExists(g) == attrs[g] # {} \/ Members(g) # {}

(* guard_last_membership(): the group consists of this user's membership.   *)
LastMembership(g, u) == attrs[g] = {} /\ Members(g) = {u}

\* Legacy data: anything, duplicate memberships included.  Left out are users
\* who have nothing but memberships: they come and go with their groups, and
\* not through a request about them.
Init ==
  /\ known \in SUBSET User
  /\ attrs \in [Group -> SUBSET Table]
  /\ rows \in [Pair -> 0..2]
  /\ Cardinality({x \in Pair : rows[x] = 2}) <= 1
  /\ \A u \in User : Groups(u) # {} => u \in known
  /\ job = [p \in Proc |-> Idle]

-----------------------------------------------------------------------------
Locked == UNION {job[p].locks : p \in {q \in Proc : job[q].stage = "write"}}

\* Mutant of Enter: nothing is locked.
EnterUnlocked(p, op, req, locks, plan) ==
  /\ job' = [job EXCEPT ![p] =
       [stage |-> "write", op |-> op, req |-> req, locks |-> locks, plan |-> plan]]
  /\ UNCHANGED db

(* The request holds its locks and has passed its checks; "plan" is what it *)
(* keeps of what it has read.                                               *)
Enter(p, op, req, locks, plan) ==
  /\ locks \cap Locked = {}
  /\ job' = [job EXCEPT ![p] =
       [stage |-> "write", op |-> op, req |-> req, locks |-> locks, plan |-> plan]]
  /\ UNCHANGED db

Given(name) == {name} \ {None}

(* create(): a free name and existing groups.                               *)
StartCreate(p) ==
  /\ job[p] = Idle
  /\ \E u \in User, gs \in SUBSET Group :
        /\ ~UserExists(u)
        /\ \A g \in gs : GroupExists(g)
        /\ Enter(p, "create", [user |-> u, groups |-> gs], {u} \cup gs, {})

(* update(), import rows included: with a list of groups it looks up the    *)
(* memberships before it asks for the locks.                                *)
StartUpdate(p) ==
  /\ job[p] = Idle
  /\ \E u \in User, v \in User \cup {None}, gs \in SUBSET Group :
        /\ v # u
        /\ job' = [job EXCEPT ![p] =
             [stage |-> "lock", op |-> "update",
              req |-> [user |-> u, to |-> v, groups |-> gs],
              locks |-> {u} \cup Given(v) \cup gs \cup Groups(u)]]
  /\ UNCHANGED db

\* Mutant of MayReplace: memberships are given up without their group's lock.
MayReplaceUnchecked(u, gs, locks) ==
  /\ \A g \in gs : GroupExists(g)
  /\ \A g \in Groups(u) \ gs : ~LastMembership(g, u)

(* _set_memberships(): existing groups only, and no membership is given up  *)
(* that appeared after the locks were chosen or that a group consists of.   *)
MayReplace(u, gs, locks) ==
  /\ \A g \in gs : GroupExists(g)
  /\ \A g \in Groups(u) \ gs : g \in locks /\ ~LastMembership(g, u)

EnterUpdate(p) ==
  /\ job[p].stage = "lock" /\ job[p].op = "update"
  /\ LET r == job[p].req IN
       /\ UserExists(r.user)
       /\ r.to # None => ~UserExists(r.to)
       /\ MayReplace(r.user, r.groups, job[p].locks)
       /\ Enter(p, "update", r, job[p].locks, {})

(* update() without a list of groups, set_password(), set_disabled() and    *)
(* bulk expiry: only the user's names are locked.                           *)
StartTouch(p) ==
  /\ job[p] = Idle
  /\ \E u \in User, v \in User \cup {None} :
        /\ v # u
        /\ UserExists(u)
        /\ v # None => ~UserExists(v)
        /\ Enter(p, "touch", [user |-> u, to |-> v], {u} \cup Given(v), {})

(* delete(): the memberships are looked up before the locks as well.        *)
StartDelete(p) ==
  /\ job[p] = Idle
  /\ \E u \in User :
        job' = [job EXCEPT ![p] =
          [stage |-> "lock", op |-> "delete", req |-> [user |-> u],
           locks |-> {u} \cup Groups(u)]]
  /\ UNCHANGED db

(* _groups_vanishing_with(): the groups that go with the user are found for *)
(* the log, a membership without its lock is error.busy.                    *)
EnterDelete(p) ==
  /\ job[p].stage = "lock" /\ job[p].op = "delete"
  /\ LET u == job[p].req.user IN
       /\ UserExists(u)
       /\ Groups(u) \subseteq job[p].locks
       /\ Enter(p, "delete", job[p].req, job[p].locks,
                {g \in Groups(u) : LastMembership(g, u)})

StartGroupCreate(p) ==
  /\ job[p] = Idle
  /\ \E g \in Group, as \in (SUBSET Table) \ {{}} :
        /\ ~GroupExists(g)
        /\ Enter(p, "group_create", [group |-> g], {g}, as)

(* _write_attributes() writes both collections anew; one the payload leaves *)
(* out is written as it was read.                                           *)
After(edit, as) == {t \in Table : edit[t] = "some" \/ (edit[t] = "keep" /\ t \in as)}

\* Mutant of StartGroupUpdate: the group itself is not locked.
StartGroupUpdateUnlocked(p) ==
  /\ job[p] = Idle
  /\ \E g \in Group, h \in Group \cup {None}, edit \in Edits :
        /\ h # g
        /\ GroupExists(g)
        /\ h # None => ~GroupExists(h)
        /\ After(edit, attrs[g]) # {} \/ Members(g) # {}
        /\ Enter(p, "group_update", [group |-> g, to |-> h, edit |-> edit],
                 Given(h), After(edit, attrs[g]))

(* update() of a group: renames it and writes its attributes; a group that  *)
(* would be left without attribute and member is error.group_empty.         *)
StartGroupUpdate(p) ==
  /\ job[p] = Idle
  /\ \E g \in Group, h \in Group \cup {None}, edit \in Edits :
        /\ h # g
        /\ GroupExists(g)
        /\ h # None => ~GroupExists(h)
        /\ After(edit, attrs[g]) # {} \/ Members(g) # {}
        /\ Enter(p, "group_update", [group |-> g, to |-> h, edit |-> edit],
                 {g} \cup Given(h), After(edit, attrs[g]))

StartGroupDelete(p) ==
  /\ job[p] = Idle
  /\ \E g \in Group, force \in BOOLEAN :
        /\ GroupExists(g)
        /\ Members(g) = {} \/ force
        /\ Enter(p, "group_delete", [group |-> g], {g}, {})

\* Mutant of StartAdd: neither group nor users are locked.
StartAddUnlocked(p) ==
  /\ job[p] = Idle
  /\ \E g \in Group, us \in (SUBSET User) \ {{}} :
        /\ GroupExists(g)
        /\ \A u \in us : UserExists(u)
        /\ Enter(p, "add", [group |-> g], {}, us \ Members(g))

(* change_membership("add") and bulk "add_group": add_membership() inserts  *)
(* a row unless it has found one.                                           *)
StartAdd(p) ==
  /\ job[p] = Idle
  /\ \E g \in Group, us \in (SUBSET User) \ {{}} :
        /\ GroupExists(g)
        /\ \A u \in us : UserExists(u)
        /\ Enter(p, "add", [group |-> g], {g} \cup us, us \ Members(g))

(* change_membership("remove") and bulk "remove_group": user by user, the   *)
(* last one guarded.                                                        *)
StartRemove(p) ==
  /\ job[p] = Idle
  /\ \E g \in Group, us \in (SUBSET User) \ {{}} :
        /\ GroupExists(g)
        /\ attrs[g] # {} \/ ~(Members(g) \subseteq us)
        /\ Enter(p, "remove", [group |-> g], {g} \cup us, us)

-----------------------------------------------------------------------------
(* The statements of a commit act on the rows that are there then.          *)
Writing(p, op) == job[p].stage = "write" /\ job[p].op = op

Done(p) == job' = [job EXCEPT ![p] = Idle]

Moved(old, new) ==
  IF new = None THEN rows
  ELSE [x \in Pair |-> CASE x[1] = new -> rows[<<new, x[2]>>] + rows[<<old, x[2]>>]
                         [] x[1] = old -> 0
                         [] OTHER      -> rows[x]]

\* groups.set_memberships(): delete and insert, one row per group.
Replaced(table, u, gs) ==
  [x \in Pair |-> IF x[1] # u THEN table[x] ELSE IF x[2] \in gs THEN 1 ELSE 0]

Target(r, old) == IF r.to = None THEN old ELSE r.to

CommitCreate(p) ==
  /\ Writing(p, "create")
  /\ known' = known \cup {job[p].req.user}
  /\ rows' = Replaced(rows, job[p].req.user, job[p].req.groups)
  /\ UNCHANGED attrs
  /\ Done(p)

CommitUpdate(p) ==
  /\ Writing(p, "update")
  /\ LET r == job[p].req IN
       /\ known' = (known \ {r.user}) \cup {Target(r, r.user)}
       /\ rows' = Replaced(Moved(r.user, r.to), Target(r, r.user), r.groups)
  /\ UNCHANGED attrs
  /\ Done(p)

CommitTouch(p) ==
  /\ Writing(p, "touch")
  /\ LET r == job[p].req IN
       /\ known' = (known \ {r.user}) \cup {Target(r, r.user)}
       /\ rows' = Moved(r.user, r.to)
  /\ UNCHANGED attrs
  /\ Done(p)

CommitDelete(p) ==
  /\ Writing(p, "delete")
  /\ known' = known \ {job[p].req.user}
  /\ rows' = Replaced(rows, job[p].req.user, {})
  /\ UNCHANGED attrs
  /\ Done(p)

CommitGroupCreate(p) ==
  /\ Writing(p, "group_create")
  /\ attrs' = [attrs EXCEPT ![job[p].req.group] = job[p].plan]
  /\ UNCHANGED <<known, rows>>
  /\ Done(p)

CommitGroupUpdate(p) ==
  /\ Writing(p, "group_update")
  /\ LET old == job[p].req.group
         new == Target(job[p].req, old)
     IN /\ attrs' = [g \in Group |-> CASE g = new -> job[p].plan
                                       [] g = old /\ new # old -> {}
                                       [] OTHER -> attrs[g]]
        /\ rows' = IF new = old THEN rows
                   ELSE [x \in Pair |->
                           CASE x[2] = new -> rows[x] + rows[<<x[1], old>>]
                             [] x[2] = old -> 0
                             [] OTHER      -> rows[x]]
  /\ UNCHANGED known
  /\ Done(p)

CommitGroupDelete(p) ==
  /\ Writing(p, "group_delete")
  /\ attrs' = [attrs EXCEPT ![job[p].req.group] = {}]
  /\ rows' = [x \in Pair |-> IF x[2] = job[p].req.group THEN 0 ELSE rows[x]]
  /\ UNCHANGED known
  /\ Done(p)

CommitAdd(p) ==
  /\ Writing(p, "add")
  /\ rows' = [x \in Pair |->
       IF x[2] = job[p].req.group /\ x[1] \in job[p].plan THEN rows[x] + 1 ELSE rows[x]]
  /\ UNCHANGED <<known, attrs>>
  /\ Done(p)

CommitRemove(p) ==
  /\ Writing(p, "remove")
  /\ rows' = [x \in Pair |->
       IF x[2] = job[p].req.group /\ x[1] \in job[p].plan THEN 0 ELSE rows[x]]
  /\ UNCHANGED <<known, attrs>>
  /\ Done(p)

\* Any error, error.busy after the lock timeout included: nothing is written.
Abort(p) == job[p] # Idle /\ Done(p) /\ UNCHANGED db

Next ==
  \E p \in Proc :
    \/ StartCreate(p) \/ StartUpdate(p) \/ EnterUpdate(p) \/ StartTouch(p)
    \/ StartDelete(p) \/ EnterDelete(p)
    \/ StartGroupCreate(p) \/ StartGroupUpdate(p) \/ StartGroupDelete(p)
    \/ StartAdd(p) \/ StartRemove(p)
    \/ CommitCreate(p) \/ CommitUpdate(p) \/ CommitTouch(p) \/ CommitDelete(p)
    \/ CommitGroupCreate(p) \/ CommitGroupUpdate(p) \/ CommitGroupDelete(p)
    \/ CommitAdd(p) \/ CommitRemove(p)
    \/ Abort(p)

Spec == Init /\ [][Next]_vars

-----------------------------------------------------------------------------
Request ==
  [user : User] \cup [user : User, groups : SUBSET Group]
  \cup [user : User, to : User \cup {None}]
  \cup [user : User, to : User \cup {None}, groups : SUBSET Group]
  \cup [group : Group] \cup [group : Group, to : Group \cup {None}, edit : Edits]

TypeOK ==
  /\ known \subseteq User
  /\ attrs \in [Group -> SUBSET Table]
  /\ rows \in [Pair -> Nat]
  /\ \A p \in Proc :
       job[p] # Idle =>
         /\ job[p].req \in Request
         /\ job[p].locks \subseteq User \cup Group
         /\ job[p].stage \in {"lock", "write"}
  /\ \A p, q \in Proc :
       p # q /\ job[p].stage = "write" /\ job[q].stage = "write"
         => job[p].locks \cap job[q].locks = {}

\* The names whose life the audit entries of a commit begin, and those they
\* end; a rename does both.
Renames(j) == j.op \in {"update", "touch", "group_update"} /\ j.req.to # None

Came(j) ==
  CASE j.op = "create"       -> {j.req.user}
    [] j.op = "group_create" -> {j.req.group}
    [] Renames(j)            -> {j.req.to}
    [] OTHER                 -> {}

Went(j) ==
  CASE j.op = "delete"                        -> {j.req.user} \cup j.plan
    [] j.op = "group_delete"                  -> {j.req.group}
    [] Renames(j) /\ j.op = "group_update"    -> {j.req.group}
    [] Renames(j) /\ j.op # "group_update"    -> {j.req.user}
    [] OTHER                                  -> {}

Commits(p) == job[p].stage = "write" /\ job'[p] = Idle /\ db' # db

ExistingGroups == {g \in Group : GroupExists(g)}
ExistingUsers  == {u \in User : UserExists(u)}

(* Groups come and go exactly with the entries in the audit log: none that  *)
(* lives by its memberships alone disappears "ohne Bestaetigung und ohne    *)
(* group.delete" because its members left one by one in different requests, *)
(* none that was deleted is brought back by a late membership, and none is  *)
(* logged as gone that is still there.                                      *)
GroupsComeAndGoLogged ==
  [][\A p \in Proc : Commits(p) =>
       /\ ExistingGroups' \ ExistingGroups = Came(job[p]) \cap Group
       /\ ExistingGroups \ ExistingGroups' = Went(job[p]) \cap Group]_vars

(* The same for users.  No deleted user comes back as a "Phantom ohne       *)
(* Anmeldedaten" through a membership, a password or a lock written after   *)
(* the deletion, and none is lost.                                          *)
UsersComeAndGoLogged ==
  [][\A p \in Proc : Commits(p) =>
       /\ ExistingUsers' \ ExistingUsers = Came(job[p]) \cap User
       /\ ExistingUsers \ ExistingUsers' = Went(job[p]) \cap User]_vars

\* The rows there are beyond the first one of each membership.
Surplus == UNION {{x} \X (2..rows[x]) : x \in Pair}

(* The manager never adds a duplicate membership to those the legacy data   *)
(* has, though radusergroup knows no uniqueness (add_membership).           *)
NoNewDuplicates == [][Cardinality(Surplus') <= Cardinality(Surplus)]_vars

(* Two PATCH requests for one group do not overwrite one another: what a    *)
(* payload leaves out is after the commit what it was before (update: "zwei *)
(* gleichzeitige PATCH-Aufrufe wuerden sich sonst gegenseitig               *)
(* ueberschreiben").                                                        *)
UntouchedCollectionsKept ==
  [][\A p \in Proc, t \in Table :
       Commits(p) /\ job[p].op = "group_update" /\ job[p].req.edit[t] = "keep" =>
         LET old == job[p].req.group
         IN t \in attrs'[Target(job[p].req, old)] <=> t \in attrs[old]]_vars

=============================================================================
