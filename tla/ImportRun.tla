------------------------------ MODULE ImportRun ------------------------------
(***************************************************************************)
(* The CSV import of services/importexport.py, its preview, and the single *)
(* and bulk operations of services/users.py that run beside it.            *)
(*                                                                         *)
(* An import works its rows off one by one.  A row is looked at on the     *)
(* snapshot of the session; to write it, apply_row() or create() locks the *)
(* user and the groups concerned, takes a new snapshot, collects the       *)
(* changes in the transaction and commits, and only then the row is        *)
(* counted.  Each step may fail, and the process may die.  A preview       *)
(* (dry_run) stops after looking.  Other requests hold their locks over    *)
(* check and commit (modules NamedLock and Directory) and are one step     *)
(* each.                                                                   *)
(*                                                                         *)
(* db is what is committed: user[n], the memberships and, for each group,  *)
(* whether it has attributes and whether they contain Auth-Type Reject.    *)
(***************************************************************************)
EXTENDS UserRecord, Integers, Sequences, FiniteSetsExt

CONSTANTS Name, Group,
          Files,        \* the files that may be uploaded: kind, and a sequence of Row
          InitialDbs,   \* databases to start from
          PreviewLimit, \* PREVIEW_LIMIT
          MaxImports,   \* bound: uploads
          MaxOthers     \* bound: steps of other requests

\* form: the cells can be read ("fine"), one is out of range ("invalid"), or
\* the line has too many fields or no name ("unreadable").  A column that is not
\* in the file gives {}, a column that is there {value}.
Row ==
  [name: Name, form: {"fine", "invalid", "unreadable"}, password: BOOLEAN,
   ctype: CredentialType \cup {None},
   groups: {{}} \cup {{gs} : gs \in SUBSET Group},
   disabled: {{}, {TRUE}, {FALSE}}]

ASSUME FilesAssumption ==
  /\ PreviewLimit \in Nat \ {0}
  /\ \A f \in Files : f.kind \in {"user", "device"} /\ f.rows \in Seq(Row)

\* The tables: users, memberships and what the groups carry.
Database ==
  [user: [Name -> Record], member: SUBSET (Name \X Group),
   policy: [Group -> {None, "plain", "reject"}]]

ASSUME InitialDbsAssumption == InitialDbs \subseteq Database

VARIABLES
  db,      \* the committed tables
  job,     \* the import under way
  report,  \* its ImportReport
  promised,\* rows the last preview accepted, while db is as it has seen it
  bounds   \* how many uploads and other requests there were

vars == <<db, job, report, promised, bounds>>

Nothing == [name |-> None, user |-> Blank, groups |-> {}]
NoView  == <<>>

Idle == [stage |-> "idle", file |-> <<>>, kind |-> "user", dry |-> FALSE, line |-> 1,
         seen |-> {}, view |-> NoView, pending |-> Nothing, old |-> FALSE,
         locks |-> {}, cause |-> "", touched |-> {}]

EmptyReport == [total |-> 0, counted |-> 0, errors |-> 0, rows |-> <<>>, truncated |-> FALSE]

row == job.file[job.line]

MembersOf(d, g) == {n \in Name : <<n, g>> \in d.member}
GroupsOf(d, n)  == {g \in Group : <<n, g>> \in d.member}

(* exists_anywhere() or subjects.get()                                      *)
Exists(d, n)      == d.user[n] # Blank \/ GroupsOf(d, n) # {}
GroupExists(d, g) == d.policy[g] # None \/ MembersOf(d, g) # {}

(* guard_last_membership()                                                  *)
LastMembership(d, g, n) == d.policy[g] = None /\ MembersOf(d, g) = {n}

\* A group of the user carries Auth-Type Reject.
Inherited(d, groups) == \E g \in groups : d.policy[g] = "reject"

Init ==
  /\ db \in InitialDbs
  /\ job = Idle
  /\ report = EmptyReport
  /\ promised = [file |-> [kind |-> "user", rows |-> <<>>], lines |-> {}]
  /\ bounds = [imports |-> 0, others |-> 0]

\* What the preview has accepted is remembered until the tables change.
Remember ==
  promised' = IF db' = db THEN promised ELSE [promised EXCEPT !.lines = {}]

-----------------------------------------------------------------------------
\* Mutant of AddRow: errors beyond the limit are dropped like other rows.
AddRowFirst(rows, action) ==
  IF Len(rows) < PreviewLimit THEN Append(rows, action) ELSE rows

(* ImportReport.add_row(): at most PREVIEW_LIMIT rows are kept, and for an  *)
(* error the first row that is none makes room.                             *)
AddRow(rows, action) ==
  LET others == {i \in DOMAIN rows : rows[i] # "error"}
  IN IF Len(rows) < PreviewLimit THEN Append(rows, action)
     ELSE IF action = "error" /\ others # {} THEN [rows EXCEPT ![Min(others)] = action]
     ELSE rows

Reported(action) ==
  [report EXCEPT !.rows = AddRow(@, action),
                 !.truncated = @ \/ Len(report.rows) >= PreviewLimit,
                 !.errors = IF action = "error" THEN @ + 1 ELSE @,
                 !.counted = IF action = "error" THEN @ ELSE @ + 1]

(* Upload of a file, for a preview or for good.                             *)
Upload ==
  /\ job.stage = "idle"
  /\ bounds.imports < MaxImports
  /\ bounds' = [bounds EXCEPT !.imports = @ + 1]
  /\ \E f \in Files, dry \in BOOLEAN :
        /\ job' = [Idle EXCEPT !.stage = "row", !.file = f.rows, !.kind = f.kind, !.dry = dry]
        /\ promised' = IF dry THEN [file |-> f, lines |-> {}] ELSE promised
  /\ report' = EmptyReport
  /\ UNCHANGED db

\* The row names a record this file has named before.
Repeated == row.name \in job.seen

\* Mutant of LeavesLastMembership: the preview does not look at the memberships.
LeavesNothing(d) == FALSE

(* The guard of the last membership on what the row would give up.          *)
LeavesLastMembership(d) ==
  /\ row.groups # {}
  /\ \E g \in GroupsOf(d, row.name) \ UNION row.groups : LastMembership(d, g, row.name)

\* The line has the columns of the header and a name (_normalise_row).
Readable == row.form # "unreadable"

\* The cells keep to the schemas of the write (_payloads).
Fits == row.form = "fine"

\* A new user comes with a password (_parse_row); a device can do without.
PasswordThere(old) == old \/ job.kind = "device" \/ row.password

\* Only the credential type of a record changes (_write_row).
TypeAlone == job.old /\ row.ctype # None /\ ~row.password

(* The checks of import_csv() before the write.                             *)
Acceptable(d, old) ==
  /\ d.user[row.name].kind \in {None, job.kind}
  /\ Fits /\ PasswordThere(old)
  /\ old /\ row.ctype # None /\ ~row.password
       => ~PreviewNeedsPassword(d.user[row.name], row.ctype)
  /\ \A g \in UNION row.groups : GroupExists(d, g)
  /\ old => ~LeavesLastMembership(d)

(* One row up to the write.  The snapshot is the one of the transaction: a  *)
(* row accepted by a preview leaves it to the next one.                     *)
LookAt ==
  /\ job.stage = "row" /\ job.line <= Len(job.file)
  /\ LET d     == IF job.view = NoView THEN db ELSE job.view[1]
         old   == Exists(d, row.name)
         good  == Readable /\ ~Repeated /\ Acceptable(d, old)
     IN /\ job' = [job EXCEPT
             !.view  = <<d>>, !.old = old,
             !.seen  = IF Readable THEN @ \cup {row.name} ELSE @,
             !.stage = IF ~good THEN "failed" ELSE IF job.dry THEN "count" ELSE "lock",
             !.cause = IF good THEN "" ELSE "refused",
             !.locks = {row.name} \cup (UNION row.groups) \cup
                       IF old /\ row.groups # {} THEN GroupsOf(d, row.name) ELSE {}]
        /\ promised' = IF job.dry /\ good /\ d = db
                         THEN [promised EXCEPT !.lines = @ \cup {job.line}] ELSE promised
  /\ report' = [report EXCEPT !.total = @ + 1]
  /\ UNCHANGED <<db, bounds>>

-----------------------------------------------------------------------------
\* The type a new record gets: devices always have their password in clear text.
NewType ==
  IF job.kind = "device" THEN "cleartext"
  ELSE IF row.ctype = None THEN Default ELSE row.ctype

\* What create() writes first; a device without a password has its name as one.
FirstCredentials == Written(Blank, IF row.password THEN "new" ELSE "name", NewType)

(* apply_row() and create() have their locks: a new snapshot, the check     *)
(* that the record is still there or still missing, and the password.       *)
EnterLock ==
  /\ job.stage = "lock"
  /\ LET r == WithBareSubject(db.user[row.name], job.kind)
         u == IF ~job.old THEN FirstCredentials
              ELSE IF row.password THEN PasswordSet(r, row.ctype) ELSE r
         fresh == [job EXCEPT !.view = <<db>>, !.pending = Nothing]
     IN job' = IF Exists(db, row.name) # job.old
                 THEN [fresh EXCEPT !.stage = "failed", !.cause = "gone"]
                 ELSE [fresh EXCEPT !.stage = "update",
                         !.pending = [Nothing EXCEPT !.name = row.name, !.user = u]]
  /\ UNCHANGED <<db, report, promised, bounds>>

(* _set_memberships(): existing groups only, and no membership is given up  *)
(* that appeared after the locks were chosen or that a group consists of.   *)
MayReplace(d) ==
  /\ \A g \in UNION row.groups : GroupExists(d, g)
  /\ \A g \in GroupsOf(d, row.name) \ UNION row.groups :
        row.groups # {} => g \in job.locks /\ ~LastMembership(d, g, row.name)

(* The rest of _create_locked().                                            *)
Completed(r) ==
  [r EXCEPT !.kind = job.kind, !.ctype = NewType, !.reject = row.disabled = {TRUE}]

(* _update_locked(): the type without a password, then the memberships.     *)
Update ==
  /\ job.stage = "update"
  /\ LET r     == job.pending.user
         cause == IF TypeAlone /\ NeedsPassword(r, row.ctype) THEN "type"
                  ELSE IF ~MayReplace(job.view[1]) THEN "groups" ELSE ""
         u     == IF ~job.old THEN Completed(r)
                  ELSE IF TypeAlone /\ cause # "type" THEN TypeChanged(r, row.ctype) ELSE r
         next  == IF job.old /\ row.disabled # {} THEN "disable" ELSE "commit"
     IN job' = [job EXCEPT !.stage = IF cause = "" THEN next ELSE "failed", !.cause = cause,
                           !.pending.user = u,
                           !.pending.groups = IF cause = "" THEN row.groups ELSE {}]
  /\ UNCHANGED <<db, report, promised, bounds>>

\* The groups the user has within the transaction.
PendingGroups ==
  IF row.groups # {} THEN UNION row.groups ELSE GroupsOf(job.view[1], row.name)

(* _set_disabled_locked(), the last part of apply_row().  A block that      *)
(* comes from a group alone cannot be lifted here.                          *)
SetDisabled ==
  /\ job.stage = "disable"
  /\ LET r     == job.pending.user
         stuck == row.disabled = {FALSE} /\ ~r.reject /\ Inherited(job.view[1], PendingGroups)
     IN job' = [job EXCEPT
          !.stage = IF stuck THEN "failed" ELSE "commit",
          !.cause = IF stuck THEN "inherited" ELSE "",
          !.pending.user = IF stuck THEN r
                           ELSE IF row.disabled = {TRUE} THEN Disabled(r) ELSE Enabled(r)]
  /\ UNCHANGED <<db, report, promised, bounds>>

\* The tables after the changes of a transaction.
Installed(d, change) ==
  LET n == change.name
  IN IF n = None THEN d
     ELSE [d EXCEPT !.user[n] = change.user,
                    !.member = IF change.groups = {} THEN @
                               ELSE {x \in @ : x[1] # n} \cup ({n} \X UNION change.groups)]

Commit ==
  /\ job.stage = "commit"
  /\ db' = Installed(db, job.pending)
  /\ job' = [job EXCEPT !.stage = "count", !.pending = Nothing, !.view = NoView,
                        !.touched = @ \cup {row.name}]
  /\ Remember
  /\ UNCHANGED <<report, bounds>>

(* The database refuses a statement or the commit: a deadlock, a lock wait, *)
(* a lost connection.                                                       *)
Break ==
  /\ job.stage \in {"lock", "update", "disable", "commit"}
  /\ job' = [job EXCEPT !.stage = "failed", !.cause = "db"]
  /\ UNCHANGED <<db, report, promised, bounds>>

(* The commit went through, but create() fails to read the record back, or  *)
(* the lock connection is lost when the names are released.                 *)
BreakAfter ==
  /\ job.stage = "count" /\ ~job.dry
  /\ job' = [job EXCEPT !.stage = "failed", !.cause = "late"]
  /\ UNCHANGED <<db, report, promised, bounds>>

Count ==
  /\ job.stage = "count"
  /\ report' = Reported("done")
  /\ job' = [job EXCEPT !.stage = "row", !.line = @ + 1, !.cause = ""]
  /\ UNCHANGED <<db, promised, bounds>>

\* Mutant of RolledBack: a failed row stays in the transaction.
StaysPending(j) == j

(* session.rollback(), in apply_row() and again for every row in error.     *)
RolledBack(j) == [j EXCEPT !.pending = Nothing, !.view = NoView]

ReportError ==
  /\ job.stage = "failed"
  /\ report' = Reported("error")
  /\ job' = [RolledBack(job) EXCEPT !.stage = "row", !.line = @ + 1, !.cause = ""]
  /\ UNCHANGED <<db, promised, bounds>>

(* After the last row the import itself is logged and committed.            *)
Finish ==
  /\ job.stage = "row" /\ job.line > Len(job.file)
  /\ db' = IF job.dry THEN db ELSE Installed(db, job.pending)
  /\ job' = Idle
  /\ Remember
  /\ UNCHANGED <<report, bounds>>

(* The process dies; MariaDB drops what is not committed.                   *)
Crash ==
  /\ job.stage # "idle"
  /\ job' = Idle
  /\ UNCHANGED <<db, report, promised, bounds>>

-----------------------------------------------------------------------------
\* Another request's step on the names and groups given, which it has locked.
Other(names, d) ==
  /\ bounds.others < MaxOthers
  /\ bounds' = [bounds EXCEPT !.others = @ + 1]
  /\ job.stage \in {"update", "disable", "commit"} => names \cap job.locks = {}
  /\ db' = d
  /\ Remember
  /\ UNCHANGED <<job, report>>

Changed(n, r) == [db EXCEPT !.user[n] = r]

(* set_password(), update() of the type, set_disabled(), bulk set_expiry    *)
(* on an existing record.                                                   *)
OtherTouch ==
  \E n \in Name : LET r == db.user[n] IN
    /\ Exists(db, n)
    /\ \/ \E t \in CredentialType \cup {None} : Other({n}, Changed(n, PasswordSet(r, t)))
       \/ \E t \in CredentialType :
             /\ ~NeedsPassword(r, t)
             /\ Other({n}, Changed(n, TypeChanged(WithSubject(r), t)))
       \/ Other({n}, Changed(n, Disabled(r)))
       \/ /\ r.reject \/ ~Inherited(db, GroupsOf(db, n))
          /\ Other({n}, Changed(n, Enabled(r)))
       \/ Other({n}, Changed(n, WithBareSubject(r, "user")))

\* What create() writes; without a password there are only other attributes.
Created(kind, password, t, off) ==
  [IF password = None THEN Blank ELSE Written(Blank, password, t)
     EXCEPT !.kind = kind, !.ctype = t, !.reject = off]

(* UserService.create() with a type, groups and a lock of its own, and      *)
(* DeviceService.create(), whose password is the MAC if it is not given.    *)
OtherCreate ==
  \E n \in Name, groups \in SUBSET {g \in Group : GroupExists(db, g)},
     kind \in {"user", "device"}, password \in {"new", "name", None},
     t \in CredentialType, off \in BOOLEAN :
    /\ ~Exists(db, n)
    /\ kind = "user" => password # "name"
    /\ kind = "device" => password # None /\ t = "cleartext"
    /\ Other({n} \cup groups,
             [Changed(n, Created(kind, password, t, off))
                EXCEPT !.member = @ \cup ({n} \X groups)])

(* delete(): the memberships go with the user.                              *)
OtherDelete ==
  \E n \in Name :
    /\ Exists(db, n)
    /\ Other({n} \cup GroupsOf(db, n),
             [Changed(n, Blank) EXCEPT !.member = {x \in @ : x[1] # n}])

(* update() with a new name.                                                *)
OtherRename ==
  \E n, m \in Name :
    /\ Exists(db, n) /\ ~Exists(db, m)
    /\ Other({n, m},
         [db EXCEPT !.user[m] = Renamed(WithSubject(db.user[n])), !.user[n] = Blank,
                    !.member = {IF x[1] = n THEN <<m, x[2]>> ELSE x : x \in @}])

(* Bulk assign_group and remove_group.                                      *)
OtherMembership ==
  \E n \in Name, g \in Group :
    /\ GroupExists(db, g)
    /\ \/ /\ <<n, g>> \in db.member /\ ~LastMembership(db, g, n)
          /\ Other({n, g}, [db EXCEPT !.member = @ \ {<<n, g>>}])
       \/ /\ <<n, g>> \notin db.member /\ Exists(db, n)
          /\ Other({n, g}, [db EXCEPT !.member = @ \cup {<<n, g>>}])

(* Create, change or delete a group.                                        *)
OtherGroup ==
  \E g \in Group :
    \/ \E p \in {"plain", "reject"} :
          /\ db.policy[g] # p
          /\ Other({g}, [db EXCEPT !.policy[g] = p])
    \/ /\ GroupExists(db, g)
       /\ Other({g}, [db EXCEPT !.policy[g] = None, !.member = {x \in @ : x[2] # g}])

ImportStep ==
  \/ Upload \/ LookAt \/ EnterLock \/ Update \/ SetDisabled \/ Commit
  \/ Break \/ BreakAfter \/ Count \/ ReportError \/ Finish \/ Crash

OtherStep ==
  \/ OtherTouch \/ OtherCreate \/ OtherDelete \/ OtherRename \/ OtherMembership \/ OtherGroup

Next == ImportStep \/ OtherStep

Spec == Init /\ [][Next]_vars

-----------------------------------------------------------------------------
(* No sequence of imports, password and type changes, renamings and locks   *)
(* leaves two passwords at one user: whatever the authentication method     *)
(* looks at is the password that was set last (_write_credentials: "je nach *)
(* Authentifizierungsmethode gaelte weiterhin das alte Passwort").          *)
OnePassword == \A n \in Name : OneSecret(db.user[n])

(* A type once shown truly stays true, through rows that fail halfway as    *)
(* well: the metadata never report secrets that are not there.              *)
TypeStaysTrue ==
  [][\A n \in Name : TypeTrue(db.user[n]) /\ db'.user[n] # Blank => TypeTrue(db'.user[n])]_vars

(* Locking and unlocking, in any order, by any path and more than once,     *)
(* leaves the configured authentication methods of a user as they were      *)
(* (set_disabled: "Der uebrige Zustand bleibt unangetastet").               *)
MethodsKept ==
  [][\A n \in Name : db.user[n] # Blank /\ db'.user[n] # Blank
       => Configured(db'.user[n]) = Configured(db.user[n])]_vars

(* Rows do not mix: what an import commits concerns the row it is at and no *)
(* record twice, so nothing of a row in error is left and no later row of   *)
(* the file overwrites an earlier one.                                      *)
RowsStandAlone ==
  [][db' # db /\ bounds' = bounds =>
       /\ ~job.dry /\ job.line <= Len(job.file) /\ row.name \notin job.touched
       /\ db'.policy = db.policy
       /\ \A n \in Name \ {row.name} :
             db'.user[n] = db.user[n] /\ GroupsOf(db', n) = GroupsOf(db, n)]_vars

(* The report accounts for every row, and a cut report still shows as many  *)
(* errors as it has room for (add_row: "Behaelt Fehlerzeilen bevorzugt").   *)
ErrorsShown ==
  LET done == report.counted + report.errors
      kept == {i \in DOMAIN report.rows : report.rows[i] = "error"}
  IN /\ Cardinality(kept) = Min({report.errors, PreviewLimit})
     /\ Len(report.rows) = Min({done, PreviewLimit})
     /\ report.truncated = (done > PreviewLimit)
     /\ report.total - done \in {0, 1}

(* A row the preview has accepted is not refused by the import while the    *)
(* tables are as the preview has seen them (import_csv: "damit die Vorschau *)
(* nicht mehr meldet als der Import leistet"), but for two checks that only *)
(* the write makes: lifting a block that comes from a group, and a change   *)
(* to an NT hash where there is nothing to derive it from.                  *)
PreviewKept ==
  /\ job.stage = "failed" /\ ~job.dry /\ job.cause \notin {"db", "late"}
  /\ promised.file = [kind |-> job.kind, rows |-> job.file] /\ job.line \in promised.lines
  => \/ job.cause = "inherited" /\ row.disabled = {FALSE}
     \/ job.cause = "type" /\ row.ctype = "nt"
=============================================================================
