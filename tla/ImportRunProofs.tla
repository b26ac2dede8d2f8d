--------------------------- MODULE ImportRunProofs ---------------------------
(***************************************************************************)
(* What holds of ImportRun for every set of names, groups and methods, all *)
(* files, all databases to start from and any number of uploads and steps  *)
(* of other requests.                                                      *)
(***************************************************************************)
EXTENDS ImportRun, FiniteSetTheorems, SequenceTheorems, WellFoundedInduction, TLAPS

-----------------------------------------------------------------------------
(* The operators of UserRecord.  Keeps(r, u): the record u is what a change *)
(* may make of r - one password stays one password, a true type stays true, *)
(* and the authentication methods are as they were.                         *)
Keeps(r, u) ==
  /\ r.kind # None => u.kind # None
  /\ OneSecret(r) => OneSecret(u)
  /\ TypeTrue(r) => TypeTrue(u)
  /\ Configured(u) = Configured(r)

Secrets == UNION {[s -> Password] : s \in SUBSET Attribute}

(* A record may keep a function from attributes to passwords as secrets.    *)
LEMMA SecretsType ==
  ASSUME NEW s \in SUBSET Attribute, NEW f \in [s -> Password]
  PROVE  f \in Secrets
BY DEF Secrets

LEMMA SecretsOf ==
  ASSUME NEW f \in Secrets
  PROVE  DOMAIN f \in SUBSET Attribute /\ f \in [DOMAIN f -> Password]
BY DEF Secrets

LEMMA RecordFields ==
  ASSUME NEW r \in Record
  PROVE  /\ r.kind \in {None, "user", "device"} /\ r.ctype \in CredentialType
         /\ r.secrets \in Secrets /\ r.reject \in BOOLEAN
         /\ r.auth \in SUBSET Method /\ r.memory \in SUBSET Method
         /\ DOMAIN r.secrets \in SUBSET Attribute /\ r.secrets \in [DOMAIN r.secrets -> Password]
<1>1. r.secrets \in Secrets
  BY DEF Record, Secrets
<1>. QED  BY <1>1, SecretsOf DEF Record

LEMMA RecordIs ==
  ASSUME NEW kind \in {None, "user", "device"}, NEW ctype \in CredentialType,
         NEW secrets \in Secrets, NEW reject \in BOOLEAN,
         NEW auth \in SUBSET Method, NEW memory \in SUBSET Method
  PROVE  [kind |-> kind, ctype |-> ctype, secrets |-> secrets,
          reject |-> reject, auth |-> auth, memory |-> memory] \in Record
BY DEF Record, Secrets

(* Every credential type has its attributes, and no other type has them.    *)
LEMMA AttributesType ==
  ASSUME NEW t \in CredentialType
  PROVE  /\ Attributes(t) \in SUBSET Attribute /\ Attributes(t) # {}
         /\ "Cleartext-Password" \notin Attributes(t) <=> t = "nt"
         /\ t = "nt" => Attributes(t) = {"NT-Password"}
         /\ t = "cleartext" => Attributes(t) = {"Cleartext-Password"}
         /\ t = "both" => Attributes(t) = {"Cleartext-Password", "NT-Password"}
BY DEF CredentialType, Attributes, Attribute

LEMMA TypeOfSecretsType ==
  ASSUME NEW r PROVE TypeOfSecrets(r) \in CredentialType
<1>. DEFINE found == DOMAIN r.secrets \cap Attributes("both")
<1>1. CASE found = {}
  BY <1>1, DefaultAssumption DEF TypeOfSecrets
<1>2. CASE found # {}
  <2>1. \E t \in CredentialType : Attributes(t) = found
    BY <1>2 DEF Attributes, CredentialType
  <2>. QED  BY <1>2, <2>1 DEF TypeOfSecrets
<1>. QED  BY <1>1, <1>2

LEMMA BlankType ==
  Blank \in Record /\ OneSecret(Blank) /\ ~TypeTrue(Blank) /\ Configured(Blank) = {}
<1>1. NoSecrets \in [{} -> Password] /\ DOMAIN NoSecrets = {}
  BY DEF NoSecrets
<1>2. NoSecrets \in Secrets
  BY <1>1, SecretsType
<1>3. Blank \in Record
  BY <1>2, DefaultAssumption DEF Blank, Record, Secrets
<1>. QED  BY <1>1, <1>3 DEF Blank, OneSecret, TypeTrue, Configured

(* Writing one password under all attributes of a type.                     *)
LEMMA WrittenIs ==
  ASSUME NEW r \in Record, NEW p \in Password, NEW t \in CredentialType
  PROVE  /\ Written(r, p, t) \in Record
         /\ OneSecret(Written(r, p, t))
         /\ DOMAIN Written(r, p, t).secrets = Attributes(t)
         /\ Written(r, p, t).kind = r.kind /\ Written(r, p, t).ctype = r.ctype
         /\ Configured(Written(r, p, t)) = Configured(r)
<1>. DEFINE f == [a \in Attributes(t) |-> p]
<1>1. f \in Secrets
  BY AttributesType, SecretsType
<1>2. /\ r.kind \in {None, "user", "device"} /\ r.ctype \in CredentialType
      /\ r.reject \in BOOLEAN /\ r.auth \in SUBSET Method /\ r.memory \in SUBSET Method
  BY DEF Record
<1>3. Written(r, p, t) = [kind |-> r.kind, ctype |-> r.ctype, secrets |-> f,
                          reject |-> r.reject, auth |-> r.auth, memory |-> r.memory]
  BY DEF Written, Record
<1>4. \A a \in DOMAIN f : f[a] = p
  OBVIOUS
<1>. HIDE DEF f
<1>5. PICK w : w = Written(r, p, t)
  OBVIOUS
<1>6. w \in Record
  BY <1>1, <1>2, <1>3, <1>5 DEF Record, Secrets
<1>7. /\ w.secrets = f /\ w.kind = r.kind /\ w.ctype = r.ctype
      /\ w.auth = r.auth /\ w.memory = r.memory
  BY <1>3, <1>5
<1>8. OneSecret(w)
  BY <1>4, <1>7 DEF OneSecret
<1>9. DOMAIN f = Attributes(t)
  BY DEF f
<1>. QED  BY <1>5, <1>6, <1>7, <1>8, <1>9 DEF Configured

(* Two changes in a row keep what each of them keeps.                       *)
LEMMA KeepsTwice ==
  ASSUME NEW r, NEW u, NEW w, Keeps(r, u), Keeps(u, w)
  PROVE  Keeps(r, w)
BY DEF Keeps

(* Metadata that were missing are added.                                    *)
LEMMA WithSubjectKeeps ==
  ASSUME NEW r \in Record
  PROVE  /\ WithSubject(r) \in Record /\ Keeps(r, WithSubject(r))
         /\ WithSubject(r).kind # None /\ WithSubject(r).secrets = r.secrets
         /\ WithSubject(r).auth = r.auth /\ WithSubject(r).memory = r.memory
<1>1. CASE r.kind # None
  BY <1>1 DEF WithSubject, Keeps
<1>2. CASE r.kind = None
  <2>1. TypeOfSecrets(r) \in CredentialType
    BY TypeOfSecretsType
  <2>2. PICK w : w = [r EXCEPT !.kind = "user", !.ctype = TypeOfSecrets(r)]
    OBVIOUS
  <2>3. w \in Record
    BY <2>1, <2>2 DEF Record
  <2>4. w.kind = "user" /\ w.secrets = r.secrets /\ w.auth = r.auth /\ w.memory = r.memory
    BY <2>2 DEF Record
  <2>5. Keeps(r, w)
    BY <1>2, <2>4 DEF Keeps, OneSecret, TypeTrue, Configured
  <2>6. WithSubject(r) = w
    BY <1>2, <2>2 DEF WithSubject
  <2>. QED  BY <2>3, <2>4, <2>5, <2>6 DEF None
<1>. QED  BY <1>1, <1>2

LEMMA WithBareSubjectKeeps ==
  ASSUME NEW r \in Record, NEW kind \in {"user", "device"}
  PROVE  /\ WithBareSubject(r, kind) \in Record /\ Keeps(r, WithBareSubject(r, kind))
         /\ WithBareSubject(r, kind).kind # None /\ WithBareSubject(r, kind).secrets = r.secrets
<1>1. CASE r.kind # None
  BY <1>1 DEF WithBareSubject, Keeps
<1>2. CASE r.kind = None
  <2>1. PICK w : w = [r EXCEPT !.kind = kind, !.ctype = "both"]
    OBVIOUS
  <2>2. w \in Record
    BY <2>1 DEF Record, CredentialType
  <2>3. w.kind = kind /\ w.secrets = r.secrets /\ w.auth = r.auth /\ w.memory = r.memory
    BY <2>1 DEF Record
  <2>4. Keeps(r, w)
    BY <1>2, <2>3 DEF Keeps, OneSecret, TypeTrue, Configured
  <2>5. WithBareSubject(r, kind) = w
    BY <1>2, <2>1 DEF WithBareSubject
  <2>. QED  BY <2>2, <2>3, <2>4, <2>5 DEF None
<1>. QED  BY <1>1, <1>2

(* A new password: _set_password_locked.                                    *)
LEMMA PasswordSetKeeps ==
  ASSUME NEW r \in Record, NEW t \in CredentialType \cup {None}
  PROVE  PasswordSet(r, t) \in Record /\ Keeps(r, PasswordSet(r, t)) /\ OneSecret(PasswordSet(r, t))
<1>. DEFINE s == WithSubject(r)  type == IF t = None THEN s.ctype ELSE t
            v == Written(s, "new", type)
<1>1. s \in Record /\ Keeps(r, s) /\ s.kind # None
  BY WithSubjectKeeps
<1>2. type \in CredentialType
  BY <1>1, RecordFields
<1>. HIDE DEF s, type
<1>3. /\ v \in Record /\ OneSecret(v) /\ DOMAIN v.secrets = Attributes(type)
      /\ v.kind = s.kind /\ Configured(v) = Configured(s)
  BY <1>1, <1>2, WrittenIs DEF Password
<1>4. PasswordSet(r, t) = [v EXCEPT !.ctype = type]
  BY DEF PasswordSet, s, type
<1>. HIDE DEF v
<1>5. PICK w : w = [v EXCEPT !.ctype = type]
  OBVIOUS
<1>6. w \in Record
  BY <1>2, <1>3, <1>5 DEF Record
<1>7. /\ w.kind = v.kind /\ w.ctype = type /\ w.secrets = v.secrets
      /\ w.auth = v.auth /\ w.memory = v.memory
  BY <1>3, <1>5 DEF Record
<1>8. OneSecret(w) /\ TypeTrue(w) /\ Configured(w) = Configured(v)
  BY <1>1, <1>3, <1>7 DEF OneSecret, TypeTrue, Configured
<1>. QED  BY <1>1, <1>3, <1>4, <1>5, <1>6, <1>8 DEF Keeps

(* A new type on the secrets that are there: _change_credential_type.       *)
LEMMA TypeChangedKeeps ==
  ASSUME NEW r \in Record, r.kind # None, NEW t \in CredentialType, ~NeedsPassword(r, t)
  PROVE  TypeChanged(r, t) \in Record /\ Keeps(r, TypeChanged(r, t))
<1>. DEFINE source(a) == IF Has(r, "Cleartext-Password") THEN "Cleartext-Password" ELSE a
            f == [a \in Attributes(t) |-> r.secrets[source(a)]]
<1>1. \A a \in Attributes(t) : source(a) \in DOMAIN r.secrets
  <2>1. CASE Has(r, "Cleartext-Password")
    BY <2>1 DEF Has
  <2>2. CASE ~Has(r, "Cleartext-Password")
    <3>1. "Cleartext-Password" \notin Attributes(t) /\ Has(r, "NT-Password")
      BY <2>2 DEF NeedsPassword
    <3>2. Attributes(t) = {"NT-Password"}
      BY <3>1, AttributesType
    <3>. QED  BY <2>2, <3>1, <3>2 DEF Has
  <2>. QED  BY <2>1, <2>2
<1>2. \A a \in Attributes(t) : r.secrets[source(a)] \in Password
  BY <1>1, RecordFields
<1>. HIDE DEF source
<1>3. f \in Secrets
  BY <1>2, AttributesType, SecretsType
<1>4. DOMAIN f = Attributes(t) /\ \A a \in Attributes(t) : f[a] = r.secrets[source(a)]
  OBVIOUS
<1>5. TypeChanged(r, t) = [r EXCEPT !.ctype = t, !.secrets = f]
  BY DEF TypeChanged, source
<1>. HIDE DEF f
<1>6. PICK w : w = [r EXCEPT !.ctype = t, !.secrets = f]
  OBVIOUS
<1>7. w \in Record
  BY <1>3, <1>6 DEF Record, Secrets
<1>8. /\ w.kind = r.kind /\ w.ctype = t /\ w.secrets = f
      /\ w.auth = r.auth /\ w.memory = r.memory
  BY <1>6 DEF Record
<1>9. OneSecret(r) => OneSecret(w)
  BY <1>1, <1>4, <1>8 DEF OneSecret
<1>10. TypeTrue(w) /\ Configured(w) = Configured(r)
  BY <1>4, <1>8 DEF TypeTrue, Configured
<1>. QED  BY <1>5, <1>6, <1>7, <1>9, <1>10 DEF Keeps

(* The two directions of _set_disabled_locked.                              *)
LEMMA DisabledKeeps ==
  ASSUME NEW r \in Record
  PROVE  Disabled(r) \in Record /\ Keeps(r, Disabled(r))
<1>. DEFINE s == WithSubject(r)  m == IF r.auth = {} THEN s.memory ELSE r.auth
<1>1. s \in Record /\ Keeps(r, s) /\ s.auth = r.auth
  BY WithSubjectKeeps
<1>2. m \in SUBSET Method
  BY <1>1, RecordFields
<1>3. Disabled(r) = [s EXCEPT !.memory = m, !.auth = {}, !.reject = TRUE]
  BY DEF Disabled
<1>4. r.auth # {} => m = r.auth
  OBVIOUS
<1>5. r.auth = {} => m = s.memory
  OBVIOUS
<1>. HIDE DEF s, m
<1>6. PICK w : w = [s EXCEPT !.memory = m, !.auth = {}, !.reject = TRUE]
  OBVIOUS
<1>7. w \in Record
  BY <1>1, <1>2, <1>6 DEF Record
<1>8. /\ w.kind = s.kind /\ w.ctype = s.ctype /\ w.secrets = s.secrets
      /\ w.auth = {} /\ w.memory = m
  BY <1>1, <1>6 DEF Record
<1>9. Configured(w) = Configured(s)
  BY <1>1, <1>4, <1>5, <1>8 DEF Configured
<1>10. Keeps(s, w)
  BY <1>8, <1>9 DEF Keeps, OneSecret, TypeTrue
<1>. QED  BY <1>1, <1>3, <1>6, <1>7, <1>10, KeepsTwice

LEMMA EnabledKeeps ==
  ASSUME NEW r \in Record
  PROVE  Enabled(r) \in Record /\ Keeps(r, Enabled(r))
<1>. DEFINE s == WithSubject(r)  m == IF r.auth = {} THEN r.memory ELSE s.auth
<1>1. s \in Record /\ Keeps(r, s) /\ s.auth = r.auth /\ s.memory = r.memory
  BY WithSubjectKeeps
<1>2. m \in SUBSET Method
  BY <1>1, RecordFields
<1>3. Enabled(r) = [s EXCEPT !.auth = m, !.memory = {}, !.reject = FALSE]
  BY DEF Enabled
<1>4. r.auth # {} => m = r.auth
  BY <1>1
<1>5. r.auth = {} => m = r.memory
  OBVIOUS
<1>. HIDE DEF s, m
<1>6. PICK w : w = [s EXCEPT !.auth = m, !.memory = {}, !.reject = FALSE]
  OBVIOUS
<1>7. w \in Record
  BY <1>1, <1>2, <1>6 DEF Record
<1>8. /\ w.kind = s.kind /\ w.ctype = s.ctype /\ w.secrets = s.secrets
      /\ w.auth = m /\ w.memory = {}
  BY <1>1, <1>6 DEF Record
<1>9. Configured(w) = Configured(s)
  BY <1>1, <1>4, <1>5, <1>8 DEF Configured
<1>10. Keeps(s, w)
  BY <1>8, <1>9 DEF Keeps, OneSecret, TypeTrue
<1>. QED  BY <1>1, <1>3, <1>6, <1>7, <1>10, KeepsTwice

(* A new name: one password stays one password.                             *)
LEMMA RenamedIs ==
  ASSUME NEW r \in Record
  PROVE  Renamed(r) \in Record /\ (OneSecret(r) => OneSecret(Renamed(r)))
<1>1. CASE MacIsPassword(r)
  BY <1>1, WrittenIs, RecordFields DEF Renamed, Password
<1>2. CASE ~MacIsPassword(r)
  <2>. DEFINE f == [a \in DOMAIN r.secrets |->
                      IF r.secrets[a] = "name" THEN "old" ELSE r.secrets[a]]
  <2>1. DOMAIN r.secrets \in SUBSET Attribute /\ r.secrets \in [DOMAIN r.secrets -> Password]
    BY RecordFields
  <2>2. f \in [DOMAIN r.secrets -> Password]
    BY <2>1 DEF Password
  <2>3. f \in Secrets
    BY <2>1, <2>2, SecretsType
  <2>4. OneSecret(r) => \A a, b \in DOMAIN f : f[a] = f[b]
    BY DEF OneSecret
  <2>5. Renamed(r) = [r EXCEPT !.secrets = f]
    BY <1>2 DEF Renamed
  <2>. HIDE DEF f
  <2>6. PICK w : w = [r EXCEPT !.secrets = f]
    OBVIOUS
  <2>7. w \in Record /\ w.secrets = f
    BY <2>3, <2>6 DEF Record, Secrets
  <2>. QED  BY <2>4, <2>5, <2>6, <2>7 DEF OneSecret
<1>. QED  BY <1>1, <1>2

(* The rest of create(): kind, type and lock on secrets that are one.       *)
LEMMA CompletedIs ==
  ASSUME NEW r \in Record, OneSecret(r), NEW kind \in {"user", "device"},
         NEW t \in CredentialType, NEW reject \in BOOLEAN
  PROVE  LET w == [r EXCEPT !.kind = kind, !.ctype = t, !.reject = reject]
         IN w \in Record /\ OneSecret(w)
<1>1. PICK w : w = [r EXCEPT !.kind = kind, !.ctype = t, !.reject = reject]
  OBVIOUS
<1>2. w \in Record /\ w.secrets = r.secrets
  BY <1>1 DEF Record
<1>. QED  BY <1>1, <1>2 DEF OneSecret

-----------------------------------------------------------------------------
(* The invariant.  First the types.                                         *)
Stage == {"idle", "row", "lock", "update", "disable", "commit", "count", "failed"}
Cause == {"", "refused", "gone", "type", "groups", "inherited", "db", "late"}

Change == [name: Name \cup {None}, user: Record, groups: SUBSET SUBSET Group]

Job ==
  [stage: Stage, file: Seq(Row), kind: {"user", "device"}, dry: BOOLEAN, line: Nat \ {0},
   seen: SUBSET Name, view: Seq(Database), pending: Change, old: BOOLEAN,
   locks: SUBSET (Name \cup Group), cause: Cause, touched: SUBSET Name]

Report ==
  [total: Nat, counted: Nat, errors: Nat, rows: Seq({"done", "error"}), truncated: BOOLEAN]

TypeInv ==
  /\ db \in Database /\ job \in Job /\ report \in Report
  /\ promised = [file |-> promised.file, lines |-> promised.lines]
  /\ bounds \in [imports: Nat, others: Nat]

RowOf(j)  == j.file[j.line]
Writing   == {"update", "disable", "commit"}

\* Where an import is, and the names its file has named so far.
Progress(j) ==
  /\ j.stage \notin {"idle", "row"} => j.line <= Len(j.file)
  /\ j.stage \in {"lock"} \cup Writing => ~j.dry
  /\ j.stage \notin Writing \cup {"failed"} => j.pending = Nothing
  /\ j.dry => j.pending = Nothing
  /\ j.stage \in {"lock"} \cup Writing =>
       RowOf(j).name \in j.locks /\ RowOf(j).name \in j.seen \ j.touched
  /\ j.touched \subseteq j.seen

\* Between the locks and the commit the row's record is as the transaction has
\* found it, and what the transaction has made of it is a change that keeps it.
Holds(j, d) ==
  j.stage \in Writing =>
    LET n == RowOf(j).name IN
    /\ j.pending.name = n
    /\ j.old => Keeps(d.user[n], j.pending.user) /\ j.pending.user.kind # None
    /\ ~j.old => d.user[n] = Blank /\ OneSecret(j.pending.user)

\* The names of the readable lines up to the one the job is at.
Named(j) ==
  j.stage # "idle" =>
    \A n \in Name :
      n \in j.seen <=> \E i \in 1..Len(j.file) :
        /\ i < j.line \/ (i = j.line /\ j.stage # "row")
        /\ j.file[i].name = n /\ j.file[i].form # "unreadable"

IInv == TypeInv /\ Progress(job) /\ Holds(job, db) /\ Named(job)

-----------------------------------------------------------------------------
(* What a preview promises.                                                 *)
\* LookAt would accept the line of a file on the tables d.
Accepts(kind, r, d) ==
  LET old == Exists(d, r.name)
  IN /\ d.user[r.name].kind \in {None, kind}
     /\ r.form = "fine" /\ (old \/ kind = "device" \/ r.password)
     /\ old /\ r.ctype # None /\ ~r.password => ~PreviewNeedsPassword(d.user[r.name], r.ctype)
     /\ \A g \in UNION r.groups : GroupExists(d, g)
     /\ old /\ r.groups # {} =>
          \A g \in GroupsOf(d, r.name) \ UNION r.groups : ~LastMembership(d, g, r.name)

Acceptance(kind, file, l, d) ==
  /\ l \in 1..Len(file) /\ Accepts(kind, file[l], d)
  /\ \A i \in 1..Len(file) : i < l /\ file[i].form # "unreadable" => file[i].name # file[l].name

PromiseStands == \A l \in promised.lines : Acceptance(promised.file.kind, promised.file.rows, l, db)

\* A preview is about the file whose lines it promises; an import has no snapshot
\* of its own between two rows.
PreviewIs(j, file) ==
  /\ j.dry /\ j.stage # "idle" => file.kind = j.kind /\ file.rows = j.file
  /\ ~j.dry /\ j.stage \in {"idle", "row", "count"} => j.view = NoView

\* While the promise stands the import finds what the preview has found.
FindsPromised(j, p, d) ==
  ~j.dry /\ p.file = [kind |-> j.kind, rows |-> j.file] /\ j.line \in p.lines =>
    LET r == RowOf(j) IN
    /\ j.stage \in {"lock", "update"} =>
         /\ j.old = Exists(d, r.name)
         /\ j.old /\ r.groups # {} => GroupsOf(d, r.name) \subseteq j.locks
    /\ j.stage = "update" =>
         /\ j.view = <<d>>
         /\ j.old /\ ~r.password => j.pending.user.secrets = d.user[r.name].secrets

PromiseInv ==
  PromiseStands /\ PreviewIs(job, promised.file) /\ FindsPromised(job, promised, db) /\ PreviewKept

\* How far the report is behind.
Accounted ==
  /\ job.stage = "row" => report.total = report.counted + report.errors
  /\ job.stage \notin {"idle", "row"} => report.total = report.counted + report.errors + 1

ReportInv == Accounted /\ ErrorsShown

-----------------------------------------------------------------------------
(* The fields of the records of the state.                                  *)
LEMMA JobFields ==
  ASSUME NEW j \in Job
  PROVE  /\ j.stage \in Stage /\ j.file \in Seq(Row) /\ j.kind \in {"user", "device"}
         /\ j.dry \in BOOLEAN /\ j.line \in Nat /\ j.line > 0 /\ j.seen \in SUBSET Name
         /\ j.view \in Seq(Database) /\ j.pending \in Change /\ j.old \in BOOLEAN
         /\ j.locks \in SUBSET (Name \cup Group) /\ j.touched \in SUBSET Name
BY DEF Job

LEMMA RowFields ==
  ASSUME NEW r \in Row
  PROVE  /\ r.name \in Name /\ r.form \in {"fine", "invalid", "unreadable"}
         /\ r.password \in BOOLEAN /\ r.ctype \in CredentialType \cup {None}
         /\ r.groups \in SUBSET SUBSET Group /\ UNION r.groups \in SUBSET Group
         /\ r.groups = {} \/ \E gs \in SUBSET Group : r.groups = {gs}
         /\ r.disabled \in {{}, {TRUE}, {FALSE}}
BY DEF Row

LEMMA ChangeFields ==
  ASSUME NEW c \in Change
  PROVE  c.name \in Name \cup {None} /\ c.user \in Record /\ c.groups \in SUBSET SUBSET Group
BY DEF Change

LEMMA DatabaseFields ==
  ASSUME NEW d \in Database
  PROVE  /\ d.user \in [Name -> Record] /\ d.member \in SUBSET (Name \X Group)
         /\ d.policy \in [Group -> {None, "plain", "reject"}]
         /\ \A n \in Name : d.user[n] \in Record /\ GroupsOf(d, n) \in SUBSET Group
BY DEF Database, GroupsOf

LEMMA RowIs ==
  ASSUME NEW j \in Job, j.line <= Len(j.file)
  PROVE  RowOf(j) \in Row /\ j.line \in 1..Len(j.file)
BY JobFields DEF RowOf

LEMMA NothingType == Nothing \in Change /\ Nothing.name = None
BY BlankType DEF Nothing, Change

LEMMA IdleIs ==
  Idle \in Job /\ Progress(Idle) /\ Named(Idle) /\ \A d : Holds(Idle, d)
BY NothingType DEF Idle, Job, Stage, Cause, NoView, Progress, Named, Holds, Writing

(* Nobody is registered under a name that does not exist.                   *)
LEMMA NotThere ==
  ASSUME NEW d, NEW n, ~Exists(d, n)
  PROVE  d.user[n] = Blank /\ GroupsOf(d, n) = {}
BY DEF Exists

(* The invariant holds before the first upload.                             *)
LEMMA InitIInv == Init => IInv
<1>. SUFFICES ASSUME Init PROVE IInv
  OBVIOUS
<1>1. db \in Database
  BY InitialDbsAssumption DEF Init
<1>2. /\ job = Idle /\ report = EmptyReport /\ bounds = [imports |-> 0, others |-> 0]
      /\ promised = [file |-> [kind |-> "user", rows |-> <<>>], lines |-> {}]
  BY DEF Init
<1>3. TypeInv
  BY <1>1, <1>2, IdleIs DEF TypeInv, EmptyReport, Report
<1>. QED  BY <1>1, <1>2, <1>3, IdleIs DEF IInv

-----------------------------------------------------------------------------
(* The steps of the import keep the invariant.  What an action makes of the *)
(* job is shown for a job j of its own, then applied to job'.               *)
LEMMA JobStep ==
  ASSUME IInv, NEW j, job' = j, db' = db,
         j \in Job, Progress(j), Holds(j, db), Named(j),
         report' \in Report, bounds' \in [imports: Nat, others: Nat],
         promised' = [file |-> promised'.file, lines |-> promised'.lines]
  PROVE  IInv'
<1>1. TypeInv'
  BY DEF IInv, TypeInv
<1>2. Progress(job)' /\ Named(job)' /\ Holds(job, db)'
  BY DEF Progress, Named, Holds, RowOf
<1>. QED  BY <1>1, <1>2 DEF IInv

LEMMA UploadIInv == ASSUME IInv, Upload PROVE IInv'
<1>1. PICK f \in Files, dry \in BOOLEAN :
        /\ job' = [Idle EXCEPT !.stage = "row", !.file = f.rows, !.kind = f.kind, !.dry = dry]
        /\ promised' = IF dry THEN [file |-> f, lines |-> {}] ELSE promised
  BY DEF Upload
<1>2. PICK j : j = [Idle EXCEPT !.stage = "row", !.file = f.rows, !.kind = f.kind, !.dry = dry]
  OBVIOUS
<1>3. f.rows \in Seq(Row) /\ f.kind \in {"user", "device"}
  BY FilesAssumption
<1>4. j \in Job
  BY <1>2, <1>3, IdleIs DEF Job, Stage
<1>5. /\ j.stage = "row" /\ j.file = f.rows /\ j.line = 1 /\ j.seen = {} /\ j.touched = {}
      /\ j.pending = Nothing
  BY <1>2 DEF Idle
<1>6. Progress(j) /\ Holds(j, db)
  BY <1>5 DEF Progress, Holds, Writing
<1>7. Named(j)
  <2>1. \A i \in 1..Len(j.file) : ~(i < j.line)
    BY <1>3, <1>5
  <2>. QED  BY <1>5, <2>1 DEF Named
<1>8. report' \in Report /\ db' = db /\ bounds' \in [imports: Nat, others: Nat]
  BY DEF Upload, EmptyReport, Report, IInv, TypeInv
<1>9. promised' = [file |-> promised'.file, lines |-> promised'.lines]
  BY <1>1 DEF IInv, TypeInv
<1>. QED  BY <1>1, <1>2, <1>4, <1>6, <1>7, <1>8, <1>9, JobStep

LEMMA ViewType ==
  ASSUME IInv
  PROVE  (IF job.view = NoView THEN db ELSE job.view[1]) \in Database
<1>1. db \in Database /\ job.view \in Seq(Database)
  BY JobFields DEF IInv, TypeInv
<1>. QED  BY <1>1 DEF NoView

LEMMA LookAtIInv == ASSUME IInv, LookAt PROVE IInv'
<1>. DEFINE d == IF job.view = NoView THEN db ELSE job.view[1]
            old == Exists(d, row.name)
            good == Readable /\ ~Repeated /\ Acceptable(d, old)
            seen == IF Readable THEN job.seen \cup {row.name} ELSE job.seen
            stage == IF ~good THEN "failed" ELSE IF job.dry THEN "count" ELSE "lock"
            cause == IF good THEN "" ELSE "refused"
            locks == {row.name} \cup (UNION row.groups) \cup
                       IF old /\ row.groups # {} THEN GroupsOf(d, row.name) ELSE {}
<1>1. /\ job.stage = "row" /\ job.line <= Len(job.file) /\ job \in Job
      /\ Progress(job) /\ Named(job)
  BY DEF LookAt, IInv, TypeInv
<1>2. row = RowOf(job) /\ row \in Row /\ job.line \in 1..Len(job.file)
  BY <1>1, RowIs DEF row, RowOf
<1>3. d \in Database
  BY ViewType
<1>4. job' = [job EXCEPT !.view = <<d>>, !.old = old, !.seen = seen, !.stage = stage,
                         !.cause = cause, !.locks = locks]
  BY DEF LookAt
<1>5. /\ old \in BOOLEAN /\ seen \in SUBSET Name /\ stage \in {"failed", "count", "lock"}
      /\ cause \in Cause /\ locks \in SUBSET (Name \cup Group) /\ <<d>> \in Seq(Database)
  <2>1. old \in BOOLEAN
    BY DEF Exists
  <2>2. seen \in SUBSET Name
    BY <1>1, <1>2, JobFields, RowFields
  <2>3. locks \in SUBSET (Name \cup Group)
    <3>1. row.name \in Name /\ UNION row.groups \in SUBSET Group
      BY <1>2, RowFields
    <3>2. GroupsOf(d, row.name) \in SUBSET Group
      BY <1>3, <3>1, DatabaseFields
    <3>3. (IF old /\ row.groups # {} THEN GroupsOf(d, row.name) ELSE {}) \in SUBSET Group
      BY <3>2
    <3>4. \A B \in SUBSET Group : {row.name} \cup (UNION row.groups) \cup B \in SUBSET (Name \cup Group)
      BY <3>1
    <3>. QED  BY <3>3, <3>4
  <2>4. <<d>> \in Seq(Database)
    BY <1>3
  <2>5. stage \in {"failed", "count", "lock"} /\ cause \in Cause
    BY DEF Cause
  <2>. QED  BY <2>1, <2>2, <2>3, <2>4, <2>5
<1>6. /\ stage = "lock" => ~job.dry /\ Readable /\ ~Repeated
      /\ Readable => seen = job.seen \cup {row.name}
      /\ ~Readable => seen = job.seen
  OBVIOUS
<1>7. report' \in Report /\ db' = db /\ bounds' = bounds
  BY DEF LookAt, Report, IInv, TypeInv
<1>8. promised' = [file |-> promised'.file, lines |-> promised'.lines]
  BY DEF LookAt, IInv, TypeInv
<1>. HIDE DEF d, old, good, seen, stage, cause, locks
<1>9. PICK j : j = [job EXCEPT !.view = <<d>>, !.old = old, !.seen = seen, !.stage = stage,
                               !.cause = cause, !.locks = locks]
  OBVIOUS
<1>10. j \in Job
  BY <1>1, <1>5, <1>9 DEF Job, Stage
<1>11. /\ j.stage = stage /\ j.seen = seen /\ j.file = job.file /\ j.line = job.line
       /\ j.dry = job.dry /\ j.pending = job.pending /\ j.touched = job.touched
       /\ j.locks = locks
  BY <1>1, <1>9 DEF Job
<1>12. Progress(j)
  <2>1. job.pending = Nothing /\ job.touched \subseteq job.seen
    BY <1>1 DEF Progress, Writing
  <2>2. RowOf(j) = row
    BY <1>2, <1>11 DEF RowOf
  <2>3. job.touched \subseteq seen
    BY <1>6, <2>1
  <2>4. stage = "lock" => row.name \in seen \ job.touched
    BY <1>6, <2>1 DEF Repeated
  <2>5. row.name \in locks
    BY DEF locks
  <2>. QED  BY <1>1, <1>5, <1>6, <1>11, <2>1, <2>2, <2>3, <2>4, <2>5 DEF Progress, Writing
<1>13. Holds(j, db)
  BY <1>5, <1>11 DEF Holds, Writing
<1>14. Named(j)
  <2>. SUFFICES ASSUME NEW n \in Name
                PROVE  n \in seen <=> \E i \in 1..Len(job.file) :
                         /\ i < job.line \/ i = job.line
                         /\ job.file[i].name = n /\ job.file[i].form # "unreadable"
    BY <1>5, <1>11 DEF Named
  <2>1. n \in job.seen <=> \E i \in 1..Len(job.file) :
          /\ i < job.line /\ job.file[i].name = n /\ job.file[i].form # "unreadable"
    BY <1>1 DEF Named
  <2>2. n \in seen <=> n \in job.seen \/ (n = row.name /\ Readable)
    BY <1>6
  <2>3. (n = row.name /\ Readable) <=> (job.file[job.line].name = n /\ job.file[job.line].form # "unreadable")
    BY DEF row, Readable
  <2>. QED  BY <1>2, <2>1, <2>2, <2>3
<1>15. bounds' \in [imports: Nat, others: Nat]
  BY <1>7 DEF IInv, TypeInv
<1>. QED  BY <1>4, <1>7, <1>8, <1>9, <1>10, <1>12, <1>13, <1>14, <1>15, JobStep


(* The steps under the locks.                                               *)
LEMMA FirstCredentialsIs ==
  ASSUME NEW r \in Row, row = r, NEW kind \in {"user", "device"}, job.kind = kind
  PROVE  FirstCredentials \in Record /\ OneSecret(FirstCredentials) /\ NewType \in CredentialType
<1>1. NewType \in CredentialType
  BY RowFields, DefaultAssumption DEF NewType, CredentialType
<1>2. (IF row.password THEN "new" ELSE "name") \in Password
  BY DEF Password
<1>. QED  BY <1>1, <1>2, BlankType, WrittenIs DEF FirstCredentials

LEMMA EnterLockIInv == ASSUME IInv, EnterLock PROVE IInv'
<1>. DEFINE r == WithBareSubject(db.user[row.name], job.kind)
            u == IF ~job.old THEN FirstCredentials
                 ELSE IF row.password THEN PasswordSet(r, row.ctype) ELSE r
            gone == Exists(db, row.name) # job.old
            change == [Nothing EXCEPT !.name = row.name, !.user = u]
            pending == IF gone THEN Nothing ELSE change
            stage == IF gone THEN "failed" ELSE "update"
            cause == IF gone THEN "gone" ELSE job.cause
<1>1. /\ job.stage = "lock" /\ job \in Job /\ db \in Database
      /\ Progress(job) /\ Named(job) /\ job.cause \in Cause
  <2>1. job.stage = "lock" /\ job \in Job /\ db \in Database /\ Progress(job) /\ Named(job)
    BY DEF EnterLock, IInv, TypeInv
  <2>. QED  BY <2>1 DEF Job
<1>2. /\ row = RowOf(job) /\ row \in Row /\ job.line <= Len(job.file)
      /\ row.name \in Name /\ row.ctype \in CredentialType \cup {None}
      /\ row.password \in BOOLEAN /\ job.kind \in {"user", "device"}
  BY <1>1, RowIs, RowFields, JobFields DEF Progress, row, RowOf
<1>3. db.user[row.name] \in Record
  BY <1>1, <1>2, DatabaseFields
<1>4. /\ r \in Record /\ Keeps(db.user[row.name], r) /\ r.kind # None
      /\ r.secrets = db.user[row.name].secrets
  BY <1>2, <1>3, WithBareSubjectKeeps
<1>5. /\ u \in Record /\ (~job.old => OneSecret(u))
      /\ job.old => Keeps(db.user[row.name], u) /\ u.kind # None
  <2>. HIDE DEF r
  <2>2. CASE ~job.old
    BY <1>2, <2>2, FirstCredentialsIs
  <2>3. CASE job.old /\ row.password
    <3>1. u = PasswordSet(r, row.ctype)
      BY <2>3
    <3>. QED  BY <1>2, <1>4, <3>1, PasswordSetKeeps, KeepsTwice DEF Keeps
  <2>4. CASE job.old /\ ~row.password
    <3>1. u = r
      BY <2>4
    <3>. QED  BY <1>4, <2>4, <3>1
  <2>. QED  BY <1>1, <1>2, <2>2, <2>3, <2>4 DEF Job
<1>6. job' = [job EXCEPT !.view = <<db>>, !.pending = pending, !.stage = stage, !.cause = cause]
  <2>. HIDE DEF change, u, r
  <2>1. CASE gone
    BY <1>1, <2>1 DEF EnterLock, Job
  <2>2. CASE ~gone
    BY <1>1, <2>2 DEF EnterLock, Job, change, u, r
  <2>. QED  BY <2>1, <2>2
<1>. HIDE DEF u, r
<1>7. /\ pending \in Change /\ stage \in {"failed", "update"} /\ cause \in Cause
      /\ stage = "update" => ~gone /\ pending.name = row.name /\ pending.user = u
  BY <1>1, <1>2, <1>5, NothingType DEF Nothing, Change, Cause
<1>8. stage = "update" => Exists(db, row.name) = job.old
  OBVIOUS
<1>9. report' = report /\ db' = db /\ bounds' = bounds /\ promised' = promised
  BY DEF EnterLock
<1>. HIDE DEF pending, stage, cause, gone
<1>10. PICK j : j = [job EXCEPT !.view = <<db>>, !.pending = pending, !.stage = stage, !.cause = cause]
  OBVIOUS
<1>11. <<db>> \in Seq(Database)
  BY <1>1
<1>12. j \in Job
  BY <1>1, <1>7, <1>10, <1>11 DEF Job, Stage
<1>13. /\ j.stage = stage /\ j.pending = pending /\ j.seen = job.seen /\ j.file = job.file
       /\ j.line = job.line /\ j.dry = job.dry /\ j.touched = job.touched
       /\ j.old = job.old /\ j.locks = job.locks
  BY <1>1, <1>10 DEF Job
<1>14. RowOf(j) = row
  BY <1>2, <1>13 DEF RowOf
<1>15. Progress(j)
  BY <1>1, <1>2, <1>7, <1>13, <1>14 DEF Progress, Writing
<1>16. Named(j)
  BY <1>1, <1>7, <1>13 DEF Named
<1>17. Holds(j, db)
  <2>1. stage = "update" => (~job.old => db.user[row.name] = Blank)
    BY <1>8, NotThere
  <2>. QED  BY <1>5, <1>7, <1>13, <1>14, <2>1 DEF Holds, Writing
<1>. QED  BY <1>6, <1>9, <1>10, <1>12, <1>15, <1>16, <1>17, JobStep DEF IInv, TypeInv

(* A step within the transaction: what it makes of the record that is       *)
(* pending is again a change that keeps the record.                         *)
LEMMA WriteStep ==
  ASSUME IInv, job.stage \in Writing, db' = db, report' = report, bounds' = bounds,
         promised' = promised,
         NEW stage \in Writing \cup {"failed"}, NEW cause \in Cause, NEW change \in Change,
         change.name = job.pending.name,
         stage # "failed" => /\ job.old => Keeps(job.pending.user, change.user)
                             /\ ~job.old => OneSecret(change.user),
         job' = [job EXCEPT !.stage = stage, !.cause = cause, !.pending = change]
  PROVE  IInv'
<1>1. job \in Job /\ Progress(job) /\ Named(job) /\ Holds(job, db)
  BY DEF IInv, TypeInv
<1>2. PICK j : j = [job EXCEPT !.stage = stage, !.cause = cause, !.pending = change]
  OBVIOUS
<1>3. j \in Job
  BY <1>1, <1>2 DEF Job, Stage, Writing
<1>4. /\ j.stage = stage /\ j.pending = change /\ j.seen = job.seen /\ j.file = job.file
      /\ j.line = job.line /\ j.dry = job.dry /\ j.touched = job.touched
      /\ j.old = job.old /\ j.locks = job.locks
  BY <1>1, <1>2 DEF Job
<1>5. RowOf(j) = RowOf(job)
  BY <1>4 DEF RowOf
<1>6. Progress(j)
  BY <1>1, <1>4, <1>5 DEF Progress, Writing
<1>7. Named(j)
  BY <1>1, <1>4 DEF Named, Writing
<1>8. Holds(j, db)
  <2>1. job.old /\ stage # "failed" =>
          Keeps(db.user[RowOf(job).name], change.user) /\ change.user.kind # None
    BY <1>1, KeepsTwice DEF Holds, Keeps
  <2>. QED  BY <1>1, <1>4, <1>5, <2>1 DEF Holds, Writing
<1>. QED  BY <1>2, <1>3, <1>6, <1>7, <1>8, JobStep DEF IInv, TypeInv

(* What holds of a job between its locks and its commit.                    *)
LEMMA InTransaction ==
  ASSUME IInv, job.stage \in Writing
  PROVE  /\ job \in Job /\ row \in Row /\ row.name \in Name /\ job.line \in 1..Len(job.file)
         /\ job.kind \in {"user", "device"} /\ row.disabled \in {{}, {TRUE}, {FALSE}}
         /\ row.ctype \in CredentialType \cup {None} /\ row.groups \in SUBSET SUBSET Group
         /\ job.pending \in Change /\ job.pending.user \in Record
         /\ job.pending.name = row.name
         /\ job.old => Keeps(db.user[row.name], job.pending.user) /\ job.pending.user.kind # None
         /\ ~job.old => db.user[row.name] = Blank /\ OneSecret(job.pending.user)
         /\ row.name \in job.locks /\ row.name \in job.seen \ job.touched /\ ~job.dry
<1>1. job \in Job /\ Progress(job) /\ Holds(job, db)
  BY DEF IInv, TypeInv
<1>2. row = RowOf(job) /\ job.line <= Len(job.file)
  BY <1>1 DEF row, RowOf, Progress, Writing
<1>3. row \in Row /\ job.line \in 1..Len(job.file)
  BY <1>1, <1>2, RowIs
<1>4. /\ job.pending \in Change /\ job.kind \in {"user", "device"}
  BY <1>1, JobFields
<1>. QED  BY <1>1, <1>2, <1>3, <1>4, RowFields, ChangeFields DEF Holds, Progress

LEMMA UpdateIInv == ASSUME IInv, Update PROVE IInv'
<1>. DEFINE r == job.pending.user
            cause == IF TypeAlone /\ NeedsPassword(r, row.ctype) THEN "type"
                     ELSE IF ~MayReplace(job.view[1]) THEN "groups" ELSE ""
            u == IF ~job.old THEN Completed(r)
                 ELSE IF TypeAlone /\ cause # "type" THEN TypeChanged(r, row.ctype) ELSE r
            next == IF job.old /\ row.disabled # {} THEN "disable" ELSE "commit"
            stage == IF cause = "" THEN next ELSE "failed"
            groups == IF cause = "" THEN row.groups ELSE {}
            change == [job.pending EXCEPT !.user = u, !.groups = groups]
<1>1. job.stage \in Writing /\ job.stage = "update"
  BY DEF Update, Writing
<1>2. /\ job \in Job /\ job.pending \in Change /\ job.kind \in {"user", "device"} /\ row \in Row
      /\ row.name \in Name /\ row.groups \in SUBSET SUBSET Group
      /\ row.ctype \in CredentialType \cup {None}
      /\ r \in Record /\ (~job.old => OneSecret(r)) /\ job.old \in BOOLEAN
  BY <1>1, InTransaction, JobFields
<1>3. NewType \in CredentialType
  BY <1>2, FirstCredentialsIs
<1>4. /\ cause \in Cause
      /\ cause = "type" <=> TypeAlone /\ NeedsPassword(r, row.ctype)
  BY DEF Cause
<1>5. u \in Record /\ (~job.old => OneSecret(u)) /\ (job.old => Keeps(r, u))
  <2>1. CASE ~job.old
    <3>1. (row.disabled = {TRUE}) \in BOOLEAN
      OBVIOUS
    <3>2. Completed(r) \in Record /\ OneSecret(Completed(r))
      BY <1>2, <1>3, <2>1, <3>1, CompletedIs DEF Completed
    <3>. QED  BY <2>1, <3>2
  <2>2. CASE job.old /\ TypeAlone /\ cause # "type"
    <3>1. ~NeedsPassword(r, row.ctype) /\ row.ctype \in CredentialType
      BY <1>2, <1>4, <2>2 DEF TypeAlone
    <3>2. u = TypeChanged(r, row.ctype)
      BY <2>2
    <3>3. r.kind # None
      BY <1>1, <2>2, InTransaction
    <3>. QED  BY <1>2, <3>1, <3>2, <3>3, TypeChangedKeeps DEF Keeps
  <2>3. CASE job.old /\ ~(TypeAlone /\ cause # "type")
    <3>1. u = r
      BY <2>3
    <3>. QED  BY <1>2, <3>1 DEF Keeps
  <2>. QED  BY <2>1, <2>2, <2>3
<1>6. /\ job' = [job EXCEPT !.stage = stage, !.cause = cause, !.pending.user = u,
                            !.pending.groups = groups]
      /\ UNCHANGED <<db, report, promised, bounds>>
  BY DEF Update
<1>7. stage \in Writing \cup {"failed"} /\ groups \in SUBSET SUBSET Group
  BY <1>2 DEF Writing
<1>. HIDE DEF u, cause, stage, groups, next
<1>8. /\ change \in Change /\ change.user = u /\ change.name = job.pending.name
  BY <1>2, <1>5, <1>7 DEF Change
<1>9. job' = [job EXCEPT !.stage = stage, !.cause = cause, !.pending = change]
  BY <1>2, <1>6 DEF Job, Change
<1>10. stage # "failed" => /\ job.old => Keeps(r, change.user)
                           /\ ~job.old => OneSecret(change.user)
  BY <1>5, <1>8
<1>11. db' = db /\ report' = report /\ bounds' = bounds /\ promised' = promised
  BY <1>6
<1>. HIDE DEF change
<1>. QED  BY <1>1, <1>4, <1>7, <1>8, <1>9, <1>10, <1>11, WriteStep

LEMMA SetDisabledIInv == ASSUME IInv, SetDisabled PROVE IInv'
<1>. DEFINE r == job.pending.user
            stuck == row.disabled = {FALSE} /\ ~r.reject /\ Inherited(job.view[1], PendingGroups)
            u == IF stuck THEN r
                 ELSE IF row.disabled = {TRUE} THEN Disabled(r) ELSE Enabled(r)
            stage == IF stuck THEN "failed" ELSE "commit"
            cause == IF stuck THEN "inherited" ELSE ""
            change == [job.pending EXCEPT !.user = u]
<1>1. job.stage \in Writing
  BY DEF SetDisabled, Writing
<1>2. /\ job \in Job /\ job.pending \in Change /\ r \in Record
      /\ ~job.old => OneSecret(r)
  BY <1>1, InTransaction
<1>3. u \in Record /\ Keeps(r, u)
  <2>1. r \in Record /\ Keeps(r, r)
    BY <1>2 DEF Keeps
  <2>. QED  BY <2>1, DisabledKeeps, EnabledKeeps
<1>4. stage \in Writing \cup {"failed"} /\ cause \in Cause
  BY DEF Writing, Cause
<1>5. /\ job' = [job EXCEPT !.stage = stage, !.cause = cause, !.pending.user = u]
      /\ UNCHANGED <<db, report, promised, bounds>>
  BY DEF SetDisabled
<1>. HIDE DEF u, cause, stage, stuck
<1>6. /\ change \in Change /\ change.user = u /\ change.name = job.pending.name
  BY <1>2, <1>3 DEF Change
<1>7. job' = [job EXCEPT !.stage = stage, !.cause = cause, !.pending = change]
  BY <1>2, <1>5 DEF Job, Change
<1>8. stage # "failed" => /\ job.old => Keeps(r, change.user)
                          /\ ~job.old => OneSecret(change.user)
  BY <1>2, <1>3, <1>6 DEF Keeps
<1>9. db' = db /\ report' = report /\ bounds' = bounds /\ promised' = promised
  BY <1>5
<1>. HIDE DEF change
<1>. QED  BY <1>1, <1>4, <1>6, <1>7, <1>8, <1>9, WriteStep


(* A statement that fails, and an error found after the commit.             *)
LEMMA FailureIInv == ASSUME IInv, Break \/ BreakAfter PROVE IInv'
<1>1. PICK cause \in {"db", "late"} :
        /\ job' = [job EXCEPT !.stage = "failed", !.cause = cause]
        /\ UNCHANGED <<db, report, promised, bounds>>
        /\ job.stage \in {"lock", "count"} \cup Writing
  BY DEF Break, BreakAfter, Writing
<1>2. job \in Job /\ Progress(job) /\ Named(job) /\ Holds(job, db)
  BY DEF IInv, TypeInv
<1>3. PICK j : j = [job EXCEPT !.stage = "failed", !.cause = cause]
  OBVIOUS
<1>4. j \in Job
  BY <1>2, <1>3 DEF Job, Stage, Cause
<1>5. /\ j.stage = "failed" /\ j.pending = job.pending /\ j.seen = job.seen /\ j.file = job.file
      /\ j.line = job.line /\ j.dry = job.dry /\ j.touched = job.touched
  BY <1>2, <1>3 DEF Job
<1>6. Progress(j)
  BY <1>1, <1>2, <1>5 DEF Progress, Writing
<1>7. Named(j)
  BY <1>1, <1>2, <1>5 DEF Named, Writing
<1>8. Holds(j, db)
  BY <1>5 DEF Holds, Writing
<1>. QED  BY <1>1, <1>3, <1>4, <1>6, <1>7, <1>8, JobStep DEF IInv, TypeInv

(* The row is done with, counted or in error.                               *)
LEMMA ReportedType ==
  ASSUME report \in Report, NEW action \in {"done", "error"}
  PROVE  Reported(action) \in Report
<1>. DEFINE rows == AddRow(report.rows, action)
            truncated == report.truncated \/ Len(report.rows) >= PreviewLimit
            errors == IF action = "error" THEN report.errors + 1 ELSE report.errors
            counted == IF action = "error" THEN report.counted ELSE report.counted + 1
<1>1. report.rows \in Seq({"done", "error"})
  BY DEF Report
<1>2. rows \in Seq({"done", "error"})
  BY <1>1 DEF AddRow
<1>3. truncated \in BOOLEAN /\ errors \in Nat /\ counted \in Nat
  BY DEF Report
<1>4. Reported(action) = [report EXCEPT !.rows = rows, !.truncated = truncated,
                                        !.errors = errors, !.counted = counted]
  BY DEF Reported
<1>. HIDE DEF rows, truncated, errors, counted
<1>. QED  BY <1>2, <1>3, <1>4 DEF Report

LEMMA NextRow ==
  ASSUME IInv, db' = db, bounds' = bounds, promised' = promised, report' \in Report,
         job.stage \in {"count", "failed"},
         NEW view, job' = [job EXCEPT !.stage = "row", !.line = @ + 1, !.cause = "",
                                      !.pending = Nothing, !.view = view],
         view \in Seq(Database)
  PROVE  IInv'
<1>1. job \in Job /\ Progress(job) /\ Named(job)
  BY DEF IInv, TypeInv
<1>2. PICK j : j = [job EXCEPT !.stage = "row", !.line = @ + 1, !.cause = "",
                               !.pending = Nothing, !.view = view]
  OBVIOUS
<1>3. job.line \in Nat /\ job.line > 0 /\ job.line + 1 \in Nat \ {0} /\ Nothing \in Change
  BY <1>1, JobFields, NothingType
<1>4. j \in Job
  BY <1>1, <1>2, <1>3 DEF Job, Stage, Cause
<1>5. /\ j.stage = "row" /\ j.pending = Nothing /\ j.seen = job.seen /\ j.file = job.file
      /\ j.line = job.line + 1 /\ j.dry = job.dry /\ j.touched = job.touched
  BY <1>1, <1>2 DEF Job
<1>6. Progress(j) /\ Holds(j, db)
  BY <1>1, <1>5 DEF Progress, Holds, Writing
<1>7. Named(j)
  <2>1. \A i \in 1..Len(job.file) : i < job.line + 1 <=> i < job.line \/ i = job.line
    BY <1>3
  <2>. QED  BY <1>1, <1>5, <2>1 DEF Named
<1>. QED  BY <1>2, <1>4, <1>6, <1>7, JobStep DEF IInv, TypeInv


LEMMA CountIInv == ASSUME IInv, Count PROVE IInv'
<1>1. job \in Job /\ report \in Report /\ Progress(job)
  BY DEF IInv, TypeInv
<1>2. job.stage = "count" /\ job.pending = Nothing
  BY <1>1 DEF Count, Progress, Writing
<1>3. /\ job' = [job EXCEPT !.stage = "row", !.line = @ + 1, !.cause = ""]
      /\ report' = Reported("done") /\ db' = db /\ promised' = promised /\ bounds' = bounds
  BY DEF Count
<1>4. job' = [job EXCEPT !.stage = "row", !.line = @ + 1, !.cause = "",
                         !.pending = Nothing, !.view = job.view]
  BY <1>1, <1>2, <1>3 DEF Job
<1>5. job.view \in Seq(Database) /\ report' \in Report
  BY <1>1, <1>3, JobFields, ReportedType
<1>. QED  BY <1>2, <1>3, <1>4, <1>5, NextRow

LEMMA ReportErrorIInv == ASSUME IInv, ReportError PROVE IInv'
<1>1. job \in Job /\ report \in Report
  BY DEF IInv, TypeInv
<1>2. /\ job.stage = "failed"
      /\ job' = [RolledBack(job) EXCEPT !.stage = "row", !.line = @ + 1, !.cause = ""]
      /\ report' = Reported("error") /\ db' = db /\ promised' = promised /\ bounds' = bounds
  BY DEF ReportError
<1>3. job' = [job EXCEPT !.stage = "row", !.line = @ + 1, !.cause = "",
                         !.pending = Nothing, !.view = NoView]
  BY <1>1, <1>2 DEF RolledBack, Job
<1>4. NoView \in Seq(Database) /\ report' \in Report
  BY <1>1, <1>2, ReportedType DEF NoView
<1>. QED  BY <1>2, <1>3, <1>4, NextRow

(* The commit installs the change that is pending.                          *)
LEMMA InstalledIs ==
  ASSUME NEW d \in Database, NEW c \in Change
  PROVE  /\ Installed(d, c) \in Database
         /\ c.name = None => Installed(d, c) = d
         /\ c.name \in Name \ {None} =>
              /\ Installed(d, c).user = [d.user EXCEPT ![c.name] = c.user]
              /\ Installed(d, c).policy = d.policy
              /\ \A n \in Name \ {c.name} : GroupsOf(Installed(d, c), n) = GroupsOf(d, n)
<1>1. CASE c.name = None
  BY <1>1 DEF Installed
<1>2. CASE c.name # None
  <2>. DEFINE n == c.name
              user == [d.user EXCEPT ![n] = c.user]
              member == IF c.groups = {} THEN d.member
                        ELSE {x \in d.member : x[1] # n} \cup ({n} \X UNION c.groups)
  <2>1. n \in Name /\ c.user \in Record /\ c.groups \in SUBSET SUBSET Group
    BY <1>2, ChangeFields
  <2>2. user \in [Name -> Record] /\ member \in SUBSET (Name \X Group)
    BY <2>1, DatabaseFields
  <2>3. Installed(d, c) = [d EXCEPT !.user = user, !.member = member]
    BY <1>2 DEF Installed, Database
  <2>4. \A m \in Name \ {n} : {g \in Group : <<m, g>> \in member} = GroupsOf(d, m)
    BY <2>1 DEF GroupsOf
  <2>. HIDE DEF user, member
  <2>5. PICK w : w = [d EXCEPT !.user = user, !.member = member]
    OBVIOUS
  <2>6. w \in Database /\ w.user = user /\ w.member = member /\ w.policy = d.policy
    BY <2>2, <2>5 DEF Database
  <2>. QED  BY <1>2, <2>3, <2>4, <2>5, <2>6 DEF GroupsOf, user
<1>. QED  BY <1>1, <1>2


\* What a step may make of the record of a name.
Sound(r, u) == Keeps(r, u) \/ (r = Blank /\ (OnePassword => OneSecret(u))) \/ u = Blank

LEMMA SoundKeepsOnePassword ==
  ASSUME OnePassword, NEW r, NEW u, OneSecret(r), Sound(r, u)
  PROVE  OneSecret(u)
BY BlankType DEF Sound, Keeps

LEMMA CommitIs ==
  ASSUME IInv, Commit
  PROVE  /\ db' \in Database /\ job \in Job /\ db'.policy = db.policy
         /\ ~job.dry /\ job.line <= Len(job.file) /\ row.name \notin job.touched
         /\ row.name \in job.seen
         /\ \A n \in Name : Sound(db.user[n], db'.user[n])
         /\ \A n \in Name \ {row.name} :
               db'.user[n] = db.user[n] /\ GroupsOf(db', n) = GroupsOf(db, n)
<1>1. job.stage \in Writing /\ db' = Installed(db, job.pending) /\ db \in Database
  BY DEF Commit, Writing, IInv, TypeInv
<1>2. /\ job \in Job /\ row.name \in Name /\ job.line \in 1..Len(job.file)
      /\ job.pending \in Change /\ job.pending.name = row.name
      /\ job.old \in BOOLEAN
      /\ job.old => Keeps(db.user[row.name], job.pending.user)
      /\ ~job.old => db.user[row.name] = Blank /\ OneSecret(job.pending.user)
      /\ row.name \in job.seen \ job.touched /\ ~job.dry
  BY <1>1, InTransaction, JobFields
<1>3. \A n \in Name : Keeps(db.user[n], db.user[n])
  BY DEF Keeps
<1>4. CASE row.name = None
  <2>1. db' = db
    BY <1>1, <1>2, <1>4, InstalledIs
  <2>2. \A n \in Name : Sound(db.user[n], db'.user[n])
    BY <1>3, <2>1 DEF Sound
  <2>3. db'.policy = db.policy
        /\ \A n \in Name : db'.user[n] = db.user[n] /\ GroupsOf(db', n) = GroupsOf(db, n)
    BY <2>1
  <2>. QED  BY <1>1, <1>2, <2>1, <2>2, <2>3
<1>5. CASE row.name # None
  <2>1. /\ db'.user = [db.user EXCEPT ![row.name] = job.pending.user]
        /\ db'.policy = db.policy /\ db' \in Database
        /\ \A n \in Name \ {row.name} : GroupsOf(db', n) = GroupsOf(db, n)
    BY <1>1, <1>2, <1>5, InstalledIs
  <2>2. \A n \in Name : db'.user[n] = IF n = row.name THEN job.pending.user ELSE db.user[n]
    BY <1>1, <1>2, <2>1, DatabaseFields
  <2>3. Sound(db.user[row.name], job.pending.user)
    BY <1>2 DEF Sound
  <2>4. \A n \in Name : Sound(db.user[n], db'.user[n])
    BY <1>3, <2>2, <2>3 DEF Sound
  <2>. QED  BY <1>2, <2>1, <2>2, <2>4
<1>. QED  BY <1>4, <1>5

LEMMA CommitIInv == ASSUME IInv, Commit PROVE IInv'
<1>1. db' \in Database
  BY CommitIs
<1>2. /\ job.stage \in Writing /\ Progress(job) /\ Named(job) /\ job \in Job
      /\ row.name \in job.seen /\ row.name \in Name
  BY InTransaction DEF Commit, Writing, IInv
<1>3. /\ job' = [job EXCEPT !.stage = "count", !.pending = Nothing, !.view = NoView,
                            !.touched = @ \cup {row.name}]
      /\ report' = report /\ bounds' = bounds
      /\ promised' = IF db' = db THEN promised ELSE [promised EXCEPT !.lines = {}]
  BY DEF Commit, Remember
<1>4. PICK j : j = [job EXCEPT !.stage = "count", !.pending = Nothing, !.view = NoView,
                               !.touched = @ \cup {row.name}]
  OBVIOUS
<1>5. NoView \in Seq(Database) /\ Nothing \in Change /\ job.touched \cup {row.name} \in SUBSET Name
  BY <1>2, JobFields, NothingType DEF NoView
<1>6. j \in Job
  BY <1>2, <1>4, <1>5 DEF Job, Stage
<1>7. /\ j.stage = "count" /\ j.pending = Nothing /\ j.seen = job.seen /\ j.file = job.file
      /\ j.line = job.line /\ j.dry = job.dry /\ j.touched = job.touched \cup {row.name}
  BY <1>2, <1>4 DEF Job
<1>8. Progress(j) /\ \A d : Holds(j, d)
  BY <1>2, <1>7 DEF Progress, Holds, Writing
<1>9. Named(j)
  BY <1>2, <1>7 DEF Named, Writing
<1>10. promised' = [file |-> promised'.file, lines |-> promised'.lines]
  BY <1>3 DEF IInv, TypeInv
<1>11. TypeInv'
  BY <1>1, <1>3, <1>4, <1>6, <1>10 DEF IInv, TypeInv
<1>12. Progress(job)' /\ Named(job)' /\ Holds(job, db)'
  BY <1>3, <1>4, <1>8, <1>9 DEF Progress, Named, Holds, RowOf
<1>. QED  BY <1>1, <1>11, <1>12 DEF IInv

(* Between two rows nothing is pending that the last commit would install.  *)
LEMMA FinishIs == ASSUME IInv, Finish \/ Crash PROVE db' = db /\ promised' = promised
<1>1. Finish => job.pending = Nothing /\ db \in Database
  BY DEF Finish, IInv, TypeInv, Progress, Writing
<1>2. Finish => Installed(db, job.pending) = db
  BY <1>1, NothingType, InstalledIs
<1>. QED  BY <1>2 DEF Finish, Crash, Remember

LEMMA FinishIInv == ASSUME IInv, Finish \/ Crash PROVE IInv'
<1>1. db' = db /\ promised' = promised
  BY FinishIs
<1>2. job' = Idle /\ report' = report /\ bounds' = bounds
  BY DEF Finish, Crash
<1>. QED  BY <1>1, <1>2, IdleIs, JobStep DEF IInv, TypeInv

-----------------------------------------------------------------------------
(* The steps of other requests.                                             *)
LEMMA OtherIInv ==
  ASSUME IInv, NEW names, NEW d \in Database, Other(names, d),
         \A n \in Name : Sound(db.user[n], d.user[n]),
         \A n \in Name : n \notin names => d.user[n] = db.user[n]
  PROVE  IInv' /\ \A n \in Name : Sound(db.user[n], db'.user[n])
<1>1. /\ db' = d /\ job' = job /\ report' = report
      /\ bounds' = [bounds EXCEPT !.others = @ + 1]
      /\ promised' = IF db' = db THEN promised ELSE [promised EXCEPT !.lines = {}]
      /\ job.stage \in Writing => names \cap job.locks = {}
  BY DEF Other, Remember, Writing
<1>2. TypeInv'
  BY <1>1 DEF IInv, TypeInv
<1>4. Holds(job, d)
  <2>1. CASE job.stage \in Writing
    <3>1. row.name \in Name /\ row.name \in job.locks
      BY <2>1, InTransaction
    <3>2. d.user[row.name] = db.user[row.name]
      BY <1>1, <2>1, <3>1
    <3>. QED  BY <2>1, <3>2 DEF IInv, Holds, row, RowOf
  <2>2. CASE job.stage \notin Writing
    BY <2>2 DEF Holds
  <2>. QED  BY <2>1, <2>2
<1>5. Progress(job)' /\ Named(job)' /\ Holds(job, db)'
  BY <1>1, <1>4 DEF IInv, Progress, Named, Holds, RowOf
<1>. QED  BY <1>1, <1>2, <1>5 DEF IInv


LEMMA ChangedIs ==
  ASSUME db \in Database, NEW n \in Name, NEW r \in Record, Sound(db.user[n], r)
  PROVE  /\ Changed(n, r) \in Database
         /\ \A m \in Name : Sound(db.user[m], Changed(n, r).user[m])
         /\ \A m \in Name : m \notin {n} => Changed(n, r).user[m] = db.user[m]
         /\ Changed(n, r).user = [db.user EXCEPT ![n] = r]
         /\ Changed(n, r).member = db.member /\ Changed(n, r).policy = db.policy
<1>1. db.user \in [Name -> Record]
  BY DatabaseFields
<1>2. PICK user : user = [db.user EXCEPT ![n] = r]
  OBVIOUS
<1>3. /\ user \in [Name -> Record] /\ user[n] = r
      /\ \A m \in Name : m # n => user[m] = db.user[m]
  BY <1>1, <1>2
<1>4. PICK w : w = [db EXCEPT !.user = user]
  OBVIOUS
<1>5. w \in Database /\ w.user = user /\ w.member = db.member /\ w.policy = db.policy
  BY <1>3, <1>4 DEF Database
<1>6. Changed(n, r) = w
  BY <1>2, <1>4 DEF Changed, Database
<1>7. \A m \in Name : Sound(db.user[m], user[m])
  BY <1>3 DEF Sound, Keeps
<1>. QED  BY <1>2, <1>3, <1>5, <1>6, <1>7

LEMMA OtherTouchIInv ==
  ASSUME IInv, OtherTouch PROVE IInv' /\ \A n \in Name : Sound(db.user[n], db'.user[n])
<1>1. PICK n \in Name : LET r == db.user[n] IN
        /\ Exists(db, n)
        /\ \/ \E t \in CredentialType \cup {None} : Other({n}, Changed(n, PasswordSet(r, t)))
           \/ \E t \in CredentialType :
                 /\ ~NeedsPassword(r, t)
                 /\ Other({n}, Changed(n, TypeChanged(WithSubject(r), t)))
           \/ Other({n}, Changed(n, Disabled(r)))
           \/ /\ r.reject \/ ~Inherited(db, GroupsOf(db, n))
              /\ Other({n}, Changed(n, Enabled(r)))
           \/ Other({n}, Changed(n, WithBareSubject(r, "user")))
  BY DEF OtherTouch
<1>2. db \in Database /\ db.user[n] \in Record
  BY DatabaseFields DEF IInv, TypeInv
<1>3. ASSUME NEW u \in Record, Keeps(db.user[n], u), Other({n}, Changed(n, u))
      PROVE  IInv' /\ \A m \in Name : Sound(db.user[m], db'.user[m])
  <2>1. Sound(db.user[n], u)
    BY <1>3 DEF Sound
  <2>2. PICK d : d = Changed(n, u)
    OBVIOUS
  <2>3. /\ d \in Database /\ \A m \in Name : Sound(db.user[m], d.user[m])
        /\ \A m \in Name : m \notin {n} => d.user[m] = db.user[m]
    BY <1>2, <2>1, <2>2, ChangedIs
  <2>. QED  BY <1>3, <2>2, <2>3, OtherIInv
<1>4. ASSUME NEW t \in CredentialType, ~NeedsPassword(db.user[n], t)
      PROVE  TypeChanged(WithSubject(db.user[n]), t) \in Record
             /\ Keeps(db.user[n], TypeChanged(WithSubject(db.user[n]), t))
  <2>1. PICK s : s = WithSubject(db.user[n])
    OBVIOUS
  <2>2. s \in Record /\ Keeps(db.user[n], s) /\ s.kind # None /\ s.secrets = db.user[n].secrets
    BY <1>2, <2>1, WithSubjectKeeps
  <2>3. ~NeedsPassword(s, t)
    BY <1>4, <2>2 DEF NeedsPassword, Has
  <2>. QED  BY <1>2, <2>1, <2>2, <2>3, TypeChangedKeeps, KeepsTwice
<1>5. "user" \in {"user", "device"}
  OBVIOUS
<1>6. CASE \E t \in CredentialType \cup {None} : Other({n}, Changed(n, PasswordSet(db.user[n], t)))
  BY <1>2, <1>3, <1>6, PasswordSetKeeps
<1>7. CASE \E t \in CredentialType :
             /\ ~NeedsPassword(db.user[n], t)
             /\ Other({n}, Changed(n, TypeChanged(WithSubject(db.user[n]), t)))
  BY <1>3, <1>4, <1>7
<1>8. CASE Other({n}, Changed(n, Disabled(db.user[n])))
  BY <1>2, <1>3, <1>8, DisabledKeeps
<1>9. CASE Other({n}, Changed(n, Enabled(db.user[n])))
  BY <1>2, <1>3, <1>9, EnabledKeeps
<1>10. CASE Other({n}, Changed(n, WithBareSubject(db.user[n], "user")))
  BY <1>2, <1>3, <1>5, <1>10, WithBareSubjectKeeps
<1>. QED  BY <1>1, <1>6, <1>7, <1>8, <1>9, <1>10

(* A new record has one password or none.                                   *)
LEMMA CreatedIs ==
  ASSUME NEW kind \in {"user", "device"}, NEW password \in {"new", "name", None},
         NEW t \in CredentialType, NEW off \in BOOLEAN
  PROVE  /\ Created(kind, password, t, off) \in Record
         /\ OneSecret(Created(kind, password, t, off))
<1>1. PICK v : v = IF password = None THEN Blank ELSE Written(Blank, password, t)
  OBVIOUS
<1>2. v \in Record /\ OneSecret(v)
  <2>1. CASE password = None
    BY <1>1, <2>1, BlankType
  <2>2. CASE password # None
    <3>1. password \in Password
      BY <2>2 DEF Password
    <3>. QED  BY <1>1, <2>2, <3>1, BlankType, WrittenIs
  <2>. QED  BY <2>1, <2>2
<1>3. PICK w : w = [v EXCEPT !.kind = kind, !.ctype = t, !.reject = off]
  OBVIOUS
<1>4. w \in Record /\ w.secrets = v.secrets
  BY <1>2, <1>3 DEF Record
<1>5. Created(kind, password, t, off) = w
  BY <1>1, <1>3 DEF Created
<1>. QED  BY <1>2, <1>4, <1>5 DEF OneSecret

LEMMA OtherCreateIInv ==
  ASSUME IInv, OtherCreate PROVE IInv' /\ \A n \in Name : Sound(db.user[n], db'.user[n])
<1>1. PICK n \in Name, groups \in SUBSET Group, kind \in {"user", "device"},
           password \in {"new", "name", None}, t \in CredentialType, off \in BOOLEAN :
        /\ ~Exists(db, n)
        /\ Other({n} \cup groups,
                 [Changed(n, Created(kind, password, t, off))
                    EXCEPT !.member = @ \cup ({n} \X groups)])
  <2>1. PICK n \in Name, groups \in SUBSET {g \in Group : GroupExists(db, g)},
             kind \in {"user", "device"}, password \in {"new", "name", None},
             t \in CredentialType, off \in BOOLEAN :
          /\ ~Exists(db, n)
          /\ kind = "user" => password # "name"
          /\ kind = "device" => password # None /\ t = "cleartext"
          /\ Other({n} \cup groups,
                   [Changed(n, Created(kind, password, t, off))
                      EXCEPT !.member = @ \cup ({n} \X groups)])
    BY DEF OtherCreate
  <2>2. groups \in SUBSET Group
    OBVIOUS
  <2>. QED  BY <2>1, <2>2
<1>2. PICK w : w = Created(kind, password, t, off)
  OBVIOUS
<1>3. w \in Record /\ OneSecret(w)
  BY <1>2, CreatedIs
<1>4. db \in Database /\ db.user[n] = Blank
  BY <1>1, NotThere DEF IInv, TypeInv
<1>5. PICK c : c = Changed(n, w)
  OBVIOUS
<1>6. /\ c \in Database /\ \A m \in Name : Sound(db.user[m], c.user[m])
      /\ \A m \in Name : m \notin {n} => c.user[m] = db.user[m]
  BY <1>3, <1>4, <1>5, ChangedIs DEF Sound
<1>7. PICK d : d = [c EXCEPT !.member = @ \cup ({n} \X groups)]
  OBVIOUS
<1>8. d \in Database /\ d.user = c.user
  <2>1. c.member \cup ({n} \X groups) \in SUBSET (Name \X Group)
    BY <1>6, DatabaseFields
  <2>. QED  BY <1>6, <1>7, <2>1 DEF Database
<1>9. PICK names : names = {n} \cup groups
  OBVIOUS
<1>10. \A m \in Name : m \notin names => d.user[m] = db.user[m]
  BY <1>6, <1>8, <1>9
<1>11. Other(names, d)
  BY <1>1, <1>2, <1>5, <1>7, <1>9
<1>. QED  BY <1>6, <1>8, <1>10, <1>11, OtherIInv

\* The records stay as they are.
LEMMA SameUsers ==
  ASSUME IInv, NEW d \in Database, d.user = db.user
  PROVE  \A n \in Name : Sound(db.user[n], d.user[n]) /\ d.user[n] = db.user[n]
BY DEF Sound, Keeps

LEMMA OtherDeleteIInv ==
  ASSUME IInv, OtherDelete PROVE IInv' /\ \A n \in Name : Sound(db.user[n], db'.user[n])
<1>1. PICK n \in Name :
        Other({n} \cup GroupsOf(db, n),
              [Changed(n, Blank) EXCEPT !.member = {x \in @ : x[1] # n}])
  BY DEF OtherDelete
<1>2. PICK c : c = Changed(n, Blank)
  OBVIOUS
<1>3. /\ c \in Database /\ \A m \in Name : Sound(db.user[m], c.user[m])
      /\ \A m \in Name : m \notin {n} => c.user[m] = db.user[m]
  <2>1. db \in Database /\ Sound(db.user[n], Blank)
    BY DEF IInv, TypeInv, Sound
  <2>. QED  BY <1>2, <2>1, BlankType, ChangedIs
<1>4. PICK d : d = [c EXCEPT !.member = {x \in @ : x[1] # n}]
  OBVIOUS
<1>5. d \in Database /\ d.user = c.user
  <2>1. {x \in c.member : x[1] # n} \in SUBSET (Name \X Group)
    BY <1>3, DatabaseFields
  <2>. QED  BY <1>3, <1>4, <2>1 DEF Database
<1>6. PICK names : names = {n} \cup GroupsOf(db, n)
  OBVIOUS
<1>7. \A m \in Name : m \notin names => d.user[m] = db.user[m]
  BY <1>3, <1>5, <1>6
<1>8. Other(names, d)
  BY <1>1, <1>2, <1>4, <1>6
<1>. QED  BY <1>3, <1>5, <1>7, <1>8, OtherIInv

LEMMA OtherRenameIInv ==
  ASSUME IInv, OtherRename PROVE IInv' /\ \A n \in Name : Sound(db.user[n], db'.user[n])
<1>1. PICK n \in Name, m \in Name :
        /\ Exists(db, n) /\ ~Exists(db, m)
        /\ Other({n, m},
             [db EXCEPT !.user[m] = Renamed(WithSubject(db.user[n])), !.user[n] = Blank,
                        !.member = {IF x[1] = n THEN <<m, x[2]>> ELSE x : x \in @}])
  BY DEF OtherRename
<1>2. db \in Database /\ db.user[n] \in Record /\ db.user[m] = Blank
  BY <1>1, DatabaseFields, NotThere DEF IInv, TypeInv
<1>3. PICK r : r = Renamed(WithSubject(db.user[n]))
  OBVIOUS
<1>4. r \in Record /\ (OnePassword => OneSecret(r))
  <2>1. PICK s : s = WithSubject(db.user[n])
    OBVIOUS
  <2>2. s \in Record /\ (OnePassword => OneSecret(s))
    BY <1>2, <2>1, WithSubjectKeeps DEF Keeps, OnePassword
  <2>. QED  BY <1>3, <2>1, <2>2, RenamedIs
<1>5. PICK user : user = [db.user EXCEPT ![m] = r, ![n] = Blank]
  OBVIOUS
<1>6. PICK member : member = {IF x[1] = n THEN <<m, x[2]>> ELSE x : x \in db.member}
  OBVIOUS
<1>7. user \in [Name -> Record]
  BY <1>2, <1>4, <1>5, DatabaseFields, BlankType
<1>8. \A k \in Name : user[k] = IF k = n THEN Blank ELSE IF k = m THEN r ELSE db.user[k]
  BY <1>2, <1>5, DatabaseFields
<1>9. member \in SUBSET (Name \X Group)
  BY <1>2, <1>6, DatabaseFields
<1>10. PICK d : d = [db EXCEPT !.user = user, !.member = member]
  OBVIOUS
<1>11. d \in Database /\ d.user = user
  BY <1>2, <1>7, <1>9, <1>10 DEF Database
<1>12. Other({n, m}, d)
  BY <1>1, <1>2, <1>3, <1>5, <1>6, <1>10 DEF Database
<1>13. PICK names : names = {n, m}
  OBVIOUS
<1>14. /\ \A k \in Name : Sound(db.user[k], d.user[k])
       /\ \A k \in Name : k \notin names => d.user[k] = db.user[k]
  BY <1>2, <1>4, <1>8, <1>11, <1>13 DEF Sound, Keeps
<1>. QED  BY <1>11, <1>12, <1>13, <1>14, OtherIInv

LEMMA OtherMembershipIInv ==
  ASSUME IInv, OtherMembership PROVE IInv' /\ \A n \in Name : Sound(db.user[n], db'.user[n])
<1>1. PICK n \in Name, g \in Group, member \in SUBSET (Name \X Group) :
        Other({n, g}, [db EXCEPT !.member = member])
  <2>1. db.member \in SUBSET (Name \X Group)
    BY DatabaseFields DEF IInv, TypeInv
  <2>2. PICK n \in Name, g \in Group :
          \/ Other({n, g}, [db EXCEPT !.member = @ \ {<<n, g>>}])
          \/ Other({n, g}, [db EXCEPT !.member = @ \cup {<<n, g>>}])
    BY DEF OtherMembership
  <2>3. db.member \ {<<n, g>>} \in SUBSET (Name \X Group)
        /\ db.member \cup {<<n, g>>} \in SUBSET (Name \X Group)
    BY <2>1
  <2>. QED  BY <2>2, <2>3
<1>2. PICK d : d = [db EXCEPT !.member = member]
  OBVIOUS
<1>3. d \in Database /\ d.user = db.user
  BY <1>2 DEF Database, IInv, TypeInv
<1>4. PICK names : names = {n, g}
  OBVIOUS
<1>. QED  BY <1>1, <1>2, <1>3, <1>4, SameUsers, OtherIInv

LEMMA OtherGroupIInv ==
  ASSUME IInv, OtherGroup PROVE IInv' /\ \A n \in Name : Sound(db.user[n], db'.user[n])
<1>1. PICK g \in Group, member \in SUBSET (Name \X Group), p \in {None, "plain", "reject"} :
        Other({g}, [db EXCEPT !.policy[g] = p, !.member = member])
  <2>0. db \in Database
    BY DEF IInv, TypeInv
  <2>1. db.member \in SUBSET (Name \X Group)
    BY <2>0, DatabaseFields
  <2>2. PICK g \in Group :
          \/ \E p \in {"plain", "reject"} : Other({g}, [db EXCEPT !.policy[g] = p])
          \/ Other({g}, [db EXCEPT !.policy[g] = None, !.member = {x \in @ : x[2] # g}])
    BY DEF OtherGroup
  <2>3. {x \in db.member : x[2] # g} \in SUBSET (Name \X Group)
    BY <2>1
  <2>4. \A p : [db EXCEPT !.policy[g] = p, !.member = db.member] = [db EXCEPT !.policy[g] = p]
    BY <2>0 DEF Database
  <2>5. CASE \E p \in {"plain", "reject"} : Other({g}, [db EXCEPT !.policy[g] = p])
    <3>1. PICK p \in {"plain", "reject"} : Other({g}, [db EXCEPT !.policy[g] = p])
      BY <2>5
    <3>2. Other({g}, [db EXCEPT !.policy[g] = p, !.member = db.member])
      BY <2>4, <3>1
    <3>3. p \in {None, "plain", "reject"}
      OBVIOUS
    <3>. QED  BY <2>1, <3>2, <3>3
  <2>6. CASE Other({g}, [db EXCEPT !.policy[g] = None, !.member = {x \in @ : x[2] # g}])
    <3>1. PICK m : m = {x \in db.member : x[2] # g}
      OBVIOUS
    <3>2. Other({g}, [db EXCEPT !.policy[g] = None, !.member = m])
      BY <2>0, <2>6, <3>1 DEF Database
    <3>3. None \in {None, "plain", "reject"}
      OBVIOUS
    <3>. QED  BY <2>3, <3>1, <3>2, <3>3
  <2>. QED  BY <2>2, <2>5, <2>6
<1>2. PICK d : d = [db EXCEPT !.policy[g] = p, !.member = member]
  OBVIOUS
<1>3. d \in Database /\ d.user = db.user
  BY <1>2 DEF Database, IInv, TypeInv
<1>4. PICK names : names = {g}
  OBVIOUS
<1>. QED  BY <1>1, <1>2, <1>3, <1>4, SameUsers, OtherIInv


-----------------------------------------------------------------------------
(* Every step keeps the invariant and does to each record what a change may *)
(* do.                                                                      *)
LEMMA ImportSteps ==
  ASSUME IInv, ImportStep
  PROVE  IInv' /\ \A n \in Name : Sound(db.user[n], db'.user[n])
<1>1. CASE Commit
  BY <1>1, CommitIInv, CommitIs
<1>2. CASE ~Commit
  <2>1. IInv'
    BY <1>2, UploadIInv, LookAtIInv, EnterLockIInv, UpdateIInv, SetDisabledIInv, FailureIInv,
       CountIInv, ReportErrorIInv, FinishIInv DEF ImportStep
  <2>2. db' = db
    BY <1>2, FinishIs
    DEF ImportStep, Upload, LookAt, EnterLock, Update, SetDisabled, Break, BreakAfter,
        Count, ReportError
  <2>. QED  BY <2>1, <2>2 DEF Sound, Keeps
<1>. QED  BY <1>1, <1>2

LEMMA StepPreserves ==
  ASSUME IInv, [Next]_vars
  PROVE  IInv' /\ \A n \in Name : Sound(db.user[n], db'.user[n])
<1>1. CASE ImportStep
  BY <1>1, ImportSteps
<1>2. CASE OtherStep
  BY <1>2, OtherTouchIInv, OtherCreateIInv, OtherDeleteIInv, OtherRenameIInv,
     OtherMembershipIInv, OtherGroupIInv DEF OtherStep
<1>3. CASE UNCHANGED vars
  <2>1. db' = db /\ job' = job /\ report' = report /\ promised' = promised /\ bounds' = bounds
    BY <1>3 DEF vars
  <2>. QED  BY <2>1 DEF IInv, TypeInv, Progress, Holds, Named, RowOf, Sound, Keeps
<1>. QED  BY <1>1, <1>2, <1>3 DEF Next

(* The invariant holds throughout.                                          *)
THEOREM ImportInvariant == Spec => []IInv
BY InitIInv, StepPreserves, PTL DEF Spec

(* Whatever the database to start from: no step of an import or of another  *)
(* request makes the first user with two passwords.                         *)
THEOREM NoSecondPassword == Spec => [][OnePassword => OnePassword']_vars
<1>1. ASSUME IInv, [Next]_vars, OnePassword PROVE OnePassword'
  <2>1. \A n \in Name : Sound(db.user[n], db'.user[n])
    BY <1>1, StepPreserves
  <2>. QED  BY <1>1, <2>1, SoundKeepsOnePassword DEF OnePassword
<1>2. IInv /\ [Next]_vars => [OnePassword => OnePassword']_vars
  BY <1>1
<1>. QED  BY <1>2, ImportInvariant, PTL DEF Spec

(* Where the database to start from has no user with two passwords, there   *)
(* never is one: for all names, files and numbers of steps.                 *)
THEOREM PasswordsAgree ==
  ASSUME \A d \in InitialDbs, n \in Name : OneSecret(d.user[n])
  PROVE  Spec => []OnePassword
<1>1. Init => OnePassword
  BY DEF Init, OnePassword
<1>2. OnePassword /\ [OnePassword => OnePassword']_vars => OnePassword'
  BY DEF vars, OnePassword
<1>. QED  BY <1>1, <1>2, NoSecondPassword, PTL DEF Spec

(* A type that is true stays true, whatever import and requests do to the   *)
(* record and wherever a row fails.                                         *)
THEOREM TypesStayTrue == Spec => TypeStaysTrue
<1>1. IInv /\ [Next]_vars =>
        [\A n \in Name : TypeTrue(db.user[n]) /\ db'.user[n] # Blank => TypeTrue(db'.user[n])]_vars
  BY StepPreserves, BlankType DEF Sound, Keeps
<1>. QED  BY <1>1, ImportInvariant, PTL DEF Spec, TypeStaysTrue

(* The authentication methods of a record outlast every lock and unlock.    *)
THEOREM LocksKeepMethods == Spec => MethodsKept
<1>1. IInv /\ [Next]_vars =>
        [\A n \in Name : db.user[n] # Blank /\ db'.user[n] # Blank
           => Configured(db'.user[n]) = Configured(db.user[n])]_vars
  BY StepPreserves DEF Sound, Keeps
<1>. QED  BY <1>1, ImportInvariant, PTL DEF Spec, MethodsKept

(* What an import commits is the row it is at, once per record.             *)
THEOREM RowsDoNotMix == Spec => RowsStandAlone
<1>1. IInv /\ [Next]_vars =>
        [db' # db /\ bounds' = bounds =>
           /\ ~job.dry /\ job.line <= Len(job.file) /\ row.name \notin job.touched
           /\ db'.policy = db.policy
           /\ \A n \in Name \ {row.name} :
                 db'.user[n] = db.user[n] /\ GroupsOf(db', n) = GroupsOf(db, n)]_vars
  <2>. SUFFICES ASSUME IInv, Next, db' # db, bounds' = bounds
                PROVE  Commit
    BY CommitIs DEF vars
  <2>1. ~OtherStep
    <3>1. bounds.others \in Nat
      BY DEF IInv, TypeInv
    <3>2. \A names, d : ~Other(names, d)
      BY <3>1 DEF Other, IInv, TypeInv
    <3>. QED
      BY <3>2 DEF OtherStep, OtherTouch, OtherCreate, OtherDelete, OtherRename,
                  OtherMembership, OtherGroup
  <2>. QED
    BY <2>1, FinishIs
    DEF Next, ImportStep, Upload, LookAt, EnterLock, Update, SetDisabled, Break, BreakAfter,
        Count, ReportError
<1>. QED  BY <1>1, ImportInvariant, PTL DEF Spec, RowsStandAlone


-----------------------------------------------------------------------------
(* The report.                                                              *)
LEMMA LeastNatural ==
  ASSUME NEW T \in SUBSET Nat, T # {}
  PROVE  Min(T) \in T
<1>1. PICK n \in T : \A m \in T : ~ (<<m, n>> \in OpToRel(<, Nat))
  BY NatLessThanWellFounded, WFMin, Zenon
<1>2. \A m \in T : ~ (m < n)
  BY <1>1 DEF OpToRel
<1>3. \A m \in T : n <= m
  BY <1>2
<1>. QED  BY <1>3 DEF Min

LEMMA MinOfTwo ==
  ASSUME NEW a \in Nat, NEW b \in Nat
  PROVE  Min({a, b}) = IF a <= b THEN a ELSE b
BY DEF Min

Action == {"done", "error"}

ErrorsIn(rows) == {i \in DOMAIN rows : rows[i] = "error"}

(* Errors among the rows shown: as many as all rows only if there are no    *)
(* others.                                                                  *)
LEMMA ErrorsBounded ==
  ASSUME NEW rows \in Seq(Action)
  PROVE  /\ IsFiniteSet(ErrorsIn(rows)) /\ Cardinality(ErrorsIn(rows)) \in Nat
         /\ Cardinality(ErrorsIn(rows)) <= Len(rows)
         /\ {i \in DOMAIN rows : rows[i] # "error"} = {} => Cardinality(ErrorsIn(rows)) = Len(rows)
         /\ {i \in DOMAIN rows : rows[i] # "error"} # {} => Cardinality(ErrorsIn(rows)) < Len(rows)
<1>. DEFINE E == ErrorsIn(rows)  others == {i \in DOMAIN rows : rows[i] # "error"}
<1>1. Len(rows) \in Nat /\ DOMAIN rows = 1..Len(rows)
  OBVIOUS
<1>2. IsFiniteSet(1..Len(rows)) /\ Cardinality(1..Len(rows)) = Len(rows)
  BY <1>1, FS_Interval
<1>3. E \subseteq 1..Len(rows)
  BY <1>1 DEF ErrorsIn
<1>4. IsFiniteSet(E) /\ Cardinality(E) <= Len(rows) /\ (Cardinality(E) = Len(rows) => E = 1..Len(rows))
  BY <1>2, <1>3, FS_Subset
<1>5. Cardinality(E) \in Nat
  BY <1>4, FS_CardinalityType
<1>6. others = {} <=> E = 1..Len(rows)
  BY <1>1 DEF ErrorsIn
<1>. HIDE DEF E
<1>7. others = {} => Cardinality(E) = Len(rows)
  BY <1>2, <1>6
<1>8. others # {} => Cardinality(E) < Len(rows)
  BY <1>1, <1>4, <1>5, <1>6
<1>. QED  BY <1>4, <1>5, <1>7, <1>8 DEF E

(* One more row in the report.                                              *)
LEMMA AddRowIs ==
  ASSUME NEW rows \in Seq(Action), NEW action \in Action
  PROVE  LET new == AddRow(rows, action)
             n   == Cardinality(ErrorsIn(rows))
             m   == Cardinality(ErrorsIn(new))
         IN /\ new \in Seq(Action)
            /\ Len(new) = IF Len(rows) < PreviewLimit THEN Len(rows) + 1 ELSE Len(rows)
            /\ action = "done" => m = n
            /\ action = "error" =>
                 m = IF Len(rows) < PreviewLimit \/ n < Len(rows) THEN n + 1 ELSE n
<1>. DEFINE others == {i \in DOMAIN rows : rows[i] # "error"}
            n == Cardinality(ErrorsIn(rows))
<1>0. Len(rows) \in Nat /\ DOMAIN rows = 1..Len(rows) /\ PreviewLimit \in Nat
  BY FilesAssumption
<1>5. AddRow(rows, action) =
        IF Len(rows) < PreviewLimit THEN Append(rows, action)
        ELSE IF action = "error" /\ others # {} THEN [rows EXCEPT ![Min(others)] = action]
        ELSE rows
  BY DEF AddRow
<1>6. others \in SUBSET Nat /\ \A i \in others : i \in 1..Len(rows) /\ rows[i] # "error"
  BY <1>0
<1>1. /\ IsFiniteSet(ErrorsIn(rows)) /\ n \in Nat /\ n <= Len(rows)
      /\ others = {} => n = Len(rows)
      /\ others # {} => n < Len(rows)
  BY ErrorsBounded
<1>. HIDE DEF others
<1>2. CASE Len(rows) < PreviewLimit
  <2>1. PICK new : new = Append(rows, action)
    OBVIOUS
  <2>2. /\ new \in Seq(Action) /\ Len(new) = Len(rows) + 1 /\ DOMAIN new = 1..(Len(rows) + 1)
        /\ \A i \in 1..Len(rows) : new[i] = rows[i]
        /\ new[Len(rows) + 1] = action
    BY <1>0, <2>1
  <2>3. action = "done" => ErrorsIn(new) = ErrorsIn(rows)
    BY <1>0, <2>2 DEF ErrorsIn
  <2>4. action = "error" => ErrorsIn(new) = ErrorsIn(rows) \cup {Len(rows) + 1}
    BY <1>0, <2>2 DEF ErrorsIn
  <2>5. Len(rows) + 1 \notin ErrorsIn(rows)
    BY <1>0 DEF ErrorsIn
  <2>6. action = "error" => Cardinality(ErrorsIn(new)) = n + 1
    BY <1>1, <2>4, <2>5, FS_AddElement
  <2>7. AddRow(rows, action) = new
    BY <1>2, <1>5, <2>1
  <2>. QED  BY <1>2, <2>2, <2>3, <2>6, <2>7
<1>3. CASE Len(rows) >= PreviewLimit /\ action = "error" /\ others # {}
  <2>1. Min(others) \in others
    BY <1>3, <1>6, LeastNatural
  <2>2. PICK k \in 1..Len(rows) : k = Min(others) /\ rows[k] # "error"
    BY <1>6, <2>1
  <2>3. PICK new : new = [rows EXCEPT ![k] = action]
    OBVIOUS
  <2>4. /\ new \in Seq(Action) /\ Len(new) = Len(rows) /\ DOMAIN new = 1..Len(rows)
        /\ new[k] = action /\ \A i \in 1..Len(rows) : i # k => new[i] = rows[i]
    BY <1>0, <2>3
  <2>5. ErrorsIn(new) = ErrorsIn(rows) \cup {k} /\ k \notin ErrorsIn(rows)
    BY <1>0, <1>3, <2>2, <2>4 DEF ErrorsIn
  <2>6. Cardinality(ErrorsIn(new)) = n + 1
    BY <1>1, <2>5, FS_AddElement
  <2>7. AddRow(rows, action) = new
    BY <1>0, <1>3, <1>5, <2>2, <2>3
  <2>. QED  BY <1>0, <1>1, <1>3, <2>4, <2>6, <2>7
<1>4. CASE Len(rows) >= PreviewLimit /\ ~(action = "error" /\ others # {})
  <2>1. ~(Len(rows) < PreviewLimit)
    BY <1>0, <1>4
  <2>2. action = "error" => n = Len(rows)
    BY <1>1, <1>4
  <2>3. AddRow(rows, action) = rows
    BY <1>4, <1>5, <2>1, Zenon
  <2>. QED  BY <2>1, <2>2, <2>3
<1>. QED  BY <1>0, <1>2, <1>3, <1>4


\* ErrorsShown of a report.
Shown(r) ==
  LET done == r.counted + r.errors
  IN /\ Cardinality(ErrorsIn(r.rows)) = Min({r.errors, PreviewLimit})
     /\ Len(r.rows) = Min({done, PreviewLimit})
     /\ r.truncated = (done > PreviewLimit)
     /\ r.total - done \in {0, 1}

LEMMA ShownIs ==
  ASSUME NEW r \in Report
  PROVE  Shown(r) <=>
           LET done == r.counted + r.errors IN
           /\ Cardinality(ErrorsIn(r.rows)) =
                IF r.errors <= PreviewLimit THEN r.errors ELSE PreviewLimit
           /\ Len(r.rows) = IF done <= PreviewLimit THEN done ELSE PreviewLimit
           /\ r.truncated = (done > PreviewLimit)
           /\ r.total - done \in {0, 1}
<1>1. /\ r.counted \in Nat /\ r.errors \in Nat /\ r.counted + r.errors \in Nat
      /\ PreviewLimit \in Nat
  BY FilesAssumption DEF Report
<1>2. /\ Min({r.errors, PreviewLimit}) =
           IF r.errors <= PreviewLimit THEN r.errors ELSE PreviewLimit
      /\ Min({r.counted + r.errors, PreviewLimit}) =
           IF r.counted + r.errors <= PreviewLimit THEN r.counted + r.errors ELSE PreviewLimit
  BY <1>1, MinOfTwo
<1>. QED  BY <1>2 DEF Shown

(* A row that is added keeps the account.                                   *)
LEMMA ReportedShows ==
  ASSUME report \in Report, ErrorsShown, NEW action \in Action,
         report.total = report.counted + report.errors + 1, report' = Reported(action)
  PROVE  ErrorsShown' /\ report'.total = report'.counted + report'.errors
<1>. DEFINE rows == AddRow(report.rows, action)
            done == report.counted + report.errors
            n == Cardinality(ErrorsIn(report.rows))
            m == Cardinality(ErrorsIn(rows))
            truncated == report.truncated \/ Len(report.rows) >= PreviewLimit
            errors == IF action = "error" THEN report.errors + 1 ELSE report.errors
            counted == IF action = "error" THEN report.counted ELSE report.counted + 1
<1>1. /\ report.rows \in Seq(Action) /\ Len(report.rows) \in Nat /\ report.total \in Nat
      /\ report.counted \in Nat /\ report.errors \in Nat /\ PreviewLimit \in Nat \ {0}
      /\ report.truncated \in BOOLEAN
  BY FilesAssumption DEF Report, Action
<1>2. report' \in Report
  BY ReportedType DEF Action
<1>3. /\ report'.rows = rows /\ report'.truncated = truncated /\ report'.errors = errors
      /\ report'.counted = counted /\ report'.total = report.total
  BY DEF Reported, Report
<1>4. /\ n = IF report.errors <= PreviewLimit THEN report.errors ELSE PreviewLimit
      /\ Len(report.rows) = IF done <= PreviewLimit THEN done ELSE PreviewLimit
      /\ report.truncated = (done > PreviewLimit)
  <2>1. Shown(report)
    BY DEF ErrorsShown, Shown, ErrorsIn
  <2>. QED  BY <2>1, ShownIs
<1>5. n \in Nat
  BY <1>1, ErrorsBounded
<1>6. /\ Len(rows) = IF Len(report.rows) < PreviewLimit THEN Len(report.rows) + 1
                     ELSE Len(report.rows)
      /\ action = "done" => m = n
      /\ action = "error" =>
           m = IF Len(report.rows) < PreviewLimit \/ n < Len(report.rows) THEN n + 1 ELSE n
  BY <1>1, AddRowIs
<1>7. errors \in Nat /\ counted \in Nat /\ counted + errors = done + 1
  BY <1>1
<1>8. action = "error" => errors = report.errors + 1
  OBVIOUS
<1>9. action = "done" => errors = report.errors
  OBVIOUS
<1>. HIDE DEF rows, n, m, errors, counted
<1>10. Len(rows) = IF counted + errors <= PreviewLimit THEN counted + errors ELSE PreviewLimit
  BY <1>1, <1>4, <1>6, <1>7
<1>11. m = IF errors <= PreviewLimit THEN errors ELSE PreviewLimit
  <2>1. CASE action = "done"
    BY <1>4, <1>6, <1>9, <2>1
  <2>2. CASE action = "error"
    <3>1. report.errors <= done
      BY <1>1
    <3>. QED  BY <1>1, <1>4, <1>5, <1>6, <1>8, <2>2, <3>1
  <2>. QED  BY <2>1, <2>2 DEF Action
<1>12. truncated = (counted + errors > PreviewLimit)
  <2>1. report.truncated <=> done > PreviewLimit
    BY <1>4
  <2>2. Len(report.rows) >= PreviewLimit <=> done >= PreviewLimit
    BY <1>1, <1>4
  <2>3. truncated <=> counted + errors > PreviewLimit
    BY <1>1, <1>7, <2>1, <2>2
  <2>. QED  BY <1>1, <2>3
<1>13. report.total = counted + errors
  BY <1>1, <1>7
<1>14. report'.total - (counted + errors) = 0
  BY <1>1, <1>3, <1>7, <1>13
<1>15. ErrorsShown'
  <2>0. PICK r : r = report'
    OBVIOUS
  <2>1. /\ Cardinality(ErrorsIn(r.rows)) = IF r.errors <= PreviewLimit THEN r.errors ELSE PreviewLimit
        /\ Len(r.rows) = IF r.counted + r.errors <= PreviewLimit THEN r.counted + r.errors
                         ELSE PreviewLimit
        /\ r.truncated = (r.counted + r.errors > PreviewLimit)
        /\ r.total - (r.counted + r.errors) \in {0, 1}
    BY <1>3, <1>10, <1>11, <1>12, <1>14, <2>0 DEF m
  <2>2. Shown(r)
    BY <1>2, <2>0, <2>1, ShownIs
  <2>. QED  BY <2>0, <2>2 DEF ErrorsShown, Shown, ErrorsIn
<1>. QED  BY <1>3, <1>13, <1>15


LEMMA EmptyReportIs ==
  /\ EmptyReport \in Report /\ Shown(EmptyReport)
  /\ EmptyReport.total = EmptyReport.counted + EmptyReport.errors
<1>1. PICK r : r = EmptyReport
  OBVIOUS
<1>2. /\ r.total = 0 /\ r.counted = 0 /\ r.errors = 0 /\ r.rows = <<>> /\ r.truncated = FALSE
      /\ r \in Report
  BY <1>1 DEF EmptyReport, Report
<1>3. Cardinality(ErrorsIn(<<>>)) = 0 /\ Len(<<>>) = 0
  BY FS_EmptySet DEF ErrorsIn
<1>4. Cardinality(ErrorsIn(r.rows)) = 0 /\ Len(r.rows) = 0
  BY <1>2, <1>3
<1>5. PreviewLimit \in Nat \ {0}
  BY FilesAssumption
<1>6. /\ r.counted + r.errors = 0 /\ r.total - (r.counted + r.errors) = 0
      /\ r.errors <= PreviewLimit /\ r.counted + r.errors <= PreviewLimit
      /\ ~(r.counted + r.errors > PreviewLimit) /\ ~r.truncated
  BY <1>2, <1>5
<1>7. r.truncated = (r.counted + r.errors > PreviewLimit)
  <2>1. (0 > PreviewLimit) = FALSE
    BY <1>5
  <2>. QED  BY <1>2, <1>6, <2>1
<1>8. Shown(r)
  BY <1>2, <1>4, <1>6, <1>7, ShownIs
<1>. QED  BY <1>1, <1>2, <1>8

LEMMA ReportStep == ASSUME IInv, ReportInv, [Next]_vars PROVE ReportInv'
<1>0. job \in Job /\ report \in Report /\ PreviewLimit \in Nat \ {0}
  BY FilesAssumption DEF IInv, TypeInv
<1>1. CASE Upload
  <2>1. report' = EmptyReport
    BY <1>1 DEF Upload
  <2>2. job'.stage = "row"
    BY <1>1 DEF Upload, Idle
  <2>3. ErrorsShown'
    BY <2>1, EmptyReportIs DEF ErrorsShown, Shown, ErrorsIn
  <2>. QED  BY <2>1, <2>2, <2>3, EmptyReportIs DEF ReportInv, Accounted
<1>2. CASE LookAt
  <2>1. report' = [report EXCEPT !.total = @ + 1] /\ job.stage = "row"
    BY <1>2 DEF LookAt
  <2>2. job'.stage \in {"failed", "count", "lock"}
    BY <1>0, <1>2 DEF LookAt, Job
  <2>3. report.total = report.counted + report.errors
    BY <2>1 DEF ReportInv, Accounted
  <2>4. /\ report'.total = report.total + 1 /\ report'.counted = report.counted
        /\ report'.errors = report.errors /\ report'.rows = report.rows
        /\ report'.truncated = report.truncated
        /\ report.counted \in Nat /\ report.errors \in Nat
    BY <1>0, <2>1 DEF Report
  <2>5. report'.total - (report'.counted + report'.errors) \in {0, 1}
    BY <2>3, <2>4
  <2>6. ErrorsShown'
    BY <2>4, <2>5 DEF ReportInv, ErrorsShown
  <2>. QED  BY <2>2, <2>3, <2>4, <2>6 DEF ReportInv, Accounted
<1>3. CASE Count \/ ReportError
  <2>1. PICK action \in Action : report' = Reported(action)
    BY <1>3 DEF Count, ReportError, Action
  <2>2. job.stage \in {"count", "failed"} /\ job'.stage = "row"
    BY <1>0, <1>3 DEF Count, ReportError, Job, RolledBack
  <2>3. ErrorsShown' /\ report'.total = report'.counted + report'.errors
    BY <1>0, <2>1, <2>2, ReportedShows DEF ReportInv, Accounted
  <2>. QED  BY <2>2, <2>3 DEF ReportInv, Accounted
<1>4. ASSUME report' = report,
             \/ job'.stage \in {"idle"} \cup {job.stage}
             \/ job.stage \notin {"idle", "row"} /\ job'.stage \notin {"idle", "row"}
      PROVE  ReportInv'
  BY <1>4 DEF ReportInv, Accounted, ErrorsShown
<1>5. CASE EnterLock \/ Update \/ SetDisabled
  <2>1. report' = report /\ job.stage \in {"lock", "update", "disable"}
    BY <1>5 DEF EnterLock, Update, SetDisabled
  <2>2. job'.stage \in {"failed", "update", "disable", "commit"}
    BY <1>0, <1>5 DEF EnterLock, Update, SetDisabled, Job
  <2>. QED  BY <1>4, <2>1, <2>2
<1>6. CASE Commit \/ Break \/ BreakAfter
  <2>1. report' = report /\ job.stage \in {"lock", "count"} \cup Writing
    BY <1>6 DEF Commit, Break, BreakAfter, Writing
  <2>2. job'.stage \in {"failed", "count"}
    BY <1>0, <1>6 DEF Commit, Break, BreakAfter, Job
  <2>. QED  BY <1>4, <2>1, <2>2 DEF Writing
<1>7. CASE Finish \/ Crash
  <2>1. report' = report /\ job' = Idle
    BY <1>7 DEF Finish, Crash
  <2>2. job'.stage = "idle"
    BY <2>1 DEF Idle
  <2>. QED  BY <1>4, <2>1, <2>2
<1>8. CASE OtherStep
  <2>1. \E names, d : Other(names, d)
    BY <1>8 DEF OtherStep, OtherTouch, OtherCreate, OtherDelete, OtherRename,
                OtherMembership, OtherGroup
  <2>. QED  BY <1>4, <2>1 DEF Other
<1>9. CASE UNCHANGED vars
  BY <1>4, <1>9 DEF vars
<1>. QED  BY <1>1, <1>2, <1>3, <1>5, <1>6, <1>7, <1>8, <1>9 DEF Next, ImportStep

(* For all files and limits: the report accounts for every row, and a cut   *)
(* one shows as many errors as it has room for.                             *)
THEOREM ReportShowsErrors == Spec => []ErrorsShown
<1>1. Init => ReportInv
  <2>. SUFFICES ASSUME Init PROVE ReportInv
    OBVIOUS
  <2>1. report = EmptyReport /\ job = Idle
    BY DEF Init
  <2>2. job.stage = "idle"
    BY <2>1 DEF Idle
  <2>. QED
    BY <2>1, <2>2, EmptyReportIs DEF ReportInv, Accounted, ErrorsShown, Shown, ErrorsIn
<1>2. ReportInv => ErrorsShown
  BY DEF ReportInv
<1>. QED  BY <1>1, <1>2, ReportStep, ImportInvariant, PTL DEF Spec

-----------------------------------------------------------------------------
(* The promise of a preview.                                                *)
(* What LookAt asks of a row and the tables.                                *)
LEMMA AcceptableIs ==
  ASSUME NEW d, NEW r, row = r, NEW kind, job.kind = kind
  PROVE  Readable /\ Acceptable(d, Exists(d, row.name)) <=> Accepts(kind, r, d)
<1>1. LeavesLastMembership(d) <=>
        r.groups # {} /\ \E g \in GroupsOf(d, r.name) \ UNION r.groups : LastMembership(d, g, r.name)
  BY DEF LeavesLastMembership
<1>2. Fits <=> r.form = "fine"
  BY DEF Fits
<1>3. PasswordThere(Exists(d, r.name)) <=> (Exists(d, r.name) \/ kind = "device" \/ r.password)
  BY DEF PasswordThere
<1>4. r.form = "fine" => Readable
  BY DEF Readable
<1>. QED  BY <1>1, <1>2, <1>3, <1>4 DEF Acceptable, Accepts


\* PreviewKept of a job and a promise.
Redeemed(j, p) ==
  /\ j.stage = "failed" /\ ~j.dry /\ j.cause \notin {"db", "late"}
  /\ p.file = [kind |-> j.kind, rows |-> j.file] /\ j.line \in p.lines
  => \/ j.cause = "inherited" /\ RowOf(j).disabled = {FALSE}
     \/ j.cause = "type" /\ RowOf(j).ctype = "nt"

LEMMA PromiseIs ==
  ASSUME NEW j, NEW p, NEW d, job' = j, promised' = p, db' = d,
         \A l \in p.lines : Acceptance(p.file.kind, p.file.rows, l, d),
         PreviewIs(j, p.file), FindsPromised(j, p, d), Redeemed(j, p)
  PROVE  PromiseInv'
<1>1. PromiseStands'
  BY DEF PromiseStands
<1>2. PreviewIs(job, promised.file)' /\ PreviewKept'
  BY DEF PreviewIs, Redeemed, PreviewKept, RowOf, row
<1>3. FindsPromised(job, promised, db)'
  BY DEF FindsPromised, RowOf, Exists, GroupsOf
<1>. QED  BY <1>1, <1>2, <1>3 DEF PromiseInv

\* The job at hand is what a preview has promised.
Promised(j) ==
  ~j.dry /\ promised.file = [kind |-> j.kind, rows |-> j.file] /\ j.line \in promised.lines

(* The row at hand is then one that LookAt accepts.                         *)
LEMMA PromisedIs ==
  ASSUME IInv, PromiseInv, Promised(job)
  PROVE  /\ Accepts(job.kind, row, db) /\ job.line \in 1..Len(job.file)
         /\ Readable /\ Acceptable(db, Exists(db, row.name))
         /\ job.stage = "row" => ~Repeated
<1>1. Acceptance(job.kind, job.file, job.line, db)
  BY DEF PromiseInv, PromiseStands, Promised
<1>2. /\ Accepts(job.kind, row, db) /\ job.line \in 1..Len(job.file)
      /\ \A i \in 1..Len(job.file) :
           i < job.line /\ job.file[i].form # "unreadable" => job.file[i].name # row.name
  BY <1>1 DEF Acceptance, row
<1>3. Readable /\ Acceptable(db, Exists(db, row.name))
  BY <1>2, AcceptableIs
<1>4. job \in Job /\ row \in Row /\ row.name \in Name
  <2>1. job \in Job
    BY DEF IInv, TypeInv
  <2>2. job.line <= Len(job.file)
    <3>1. job.file \in Seq(Row)
      BY <2>1, JobFields
    <3>. QED  BY <1>2, <3>1
  <2>. QED  BY <2>1, <2>2, RowIs, RowFields DEF row, RowOf
<1>5. ASSUME job.stage = "row" PROVE ~Repeated
  BY <1>2, <1>4, <1>5 DEF Repeated, IInv, Named
<1>. QED  BY <1>2, <1>3, <1>5

(* A step that only moves the job on keeps the promise where it does not    *)
(* come to a lock or an update and fails for no reason of its own.          *)
LEMMA QuietStep ==
  ASSUME PromiseInv, NEW j, job' = j, NEW p, promised' = p, NEW d, db' = d,
         (p = promised /\ d = db) \/ p.lines = {},
         PreviewIs(j, p.file), j.stage \notin {"lock", "update"},
         j.stage = "failed" => j.cause \in {"db", "late"}
  PROVE  PromiseInv'
<1>1. \A l \in p.lines : Acceptance(p.file.kind, p.file.rows, l, d)
  BY DEF PromiseInv, PromiseStands
<1>2. FindsPromised(j, p, d) /\ Redeemed(j, p)
  BY DEF FindsPromised, Redeemed
<1>. QED  BY <1>1, <1>2, PromiseIs

(* A step under the locks: the tables and the promise stay as they are.     *)
LEMMA LockedStep ==
  ASSUME PromiseInv, NEW j, job' = j, promised' = promised, db' = db, ~j.dry,
         j.stage \in {"update", "disable", "commit", "failed"},
         j.stage = "update" => FindsPromised(j, promised, db),
         Redeemed(j, promised)
  PROVE  PromiseInv'
<1>1. \A l \in promised.lines : Acceptance(promised.file.kind, promised.file.rows, l, db)
  BY DEF PromiseInv, PromiseStands
<1>2. PreviewIs(j, promised.file)
  BY DEF PreviewIs
<1>3. FindsPromised(j, promised, db)
  BY DEF FindsPromised
<1>. QED  BY <1>1, <1>2, <1>3, PromiseIs

(* What Remember leaves of the promise.                                     *)
LEMMA Remembered ==
  ASSUME IInv, Remember
  PROVE  /\ (promised' = promised /\ db' = db) \/ promised'.lines = {}
         /\ promised'.file = promised.file
<1>1. promised = [file |-> promised.file, lines |-> promised.lines]
  BY DEF IInv, TypeInv
<1>2. CASE db' = db
  BY <1>2 DEF Remember
<1>3. CASE db' # db
  <2>1. promised' = [promised EXCEPT !.lines = {}]
    BY <1>3 DEF Remember
  <2>2. promised' = [file |-> promised.file, lines |-> {}]
    BY <1>1, <2>1
  <2>. QED  BY <2>2
<1>. QED  BY <1>2, <1>3

LEMMA UploadPromise == ASSUME IInv, PromiseInv, Upload PROVE PromiseInv'
<1>1. PICK f \in Files, dry \in BOOLEAN :
        /\ job' = [Idle EXCEPT !.stage = "row", !.file = f.rows, !.kind = f.kind, !.dry = dry]
        /\ promised' = IF dry THEN [file |-> f, lines |-> {}] ELSE promised
  BY DEF Upload
<1>2. PICK j : j = [Idle EXCEPT !.stage = "row", !.file = f.rows, !.kind = f.kind, !.dry = dry]
  OBVIOUS
<1>3. /\ j.stage = "row" /\ j.file = f.rows /\ j.kind = f.kind /\ j.dry = dry
      /\ j.view = NoView
  BY <1>2 DEF Idle
<1>4. PICK p : p = IF dry THEN [file |-> f, lines |-> {}] ELSE promised
  OBVIOUS
<1>5. db' = db /\ job' = j /\ promised' = p
  BY <1>1, <1>2, <1>4 DEF Upload
<1>6. p = promised \/ p.lines = {}
  BY <1>4
<1>7. PreviewIs(j, p.file)
  BY <1>3, <1>4 DEF PreviewIs
<1>. QED  BY <1>3, <1>5, <1>6, <1>7, QuietStep

(* Steps that end a row or the import, or in which the database fails.      *)
LEMMA MovesOnPromise ==
  ASSUME IInv, PromiseInv,
         Commit \/ Break \/ BreakAfter \/ Count \/ ReportError \/ Finish \/ Crash
  PROVE  PromiseInv'
<1>1. job \in Job /\ Progress(job) /\ PreviewIs(job, promised.file)
  BY DEF IInv, TypeInv, PromiseInv
<1>2. CASE Commit
  <2>1. PICK j : j = [job EXCEPT !.stage = "count", !.pending = Nothing, !.view = NoView,
                                 !.touched = @ \cup {row.name}]
    OBVIOUS
  <2>2. job' = j /\ Remember /\ job.stage = "commit"
    BY <1>2, <2>1 DEF Commit
  <2>3. j.stage = "count" /\ j.view = NoView /\ j.dry = job.dry
    BY <1>1, <2>1 DEF Job
  <2>4. ~job.dry
    BY <1>1, <2>2 DEF Progress, Writing
  <2>5. PreviewIs(j, promised'.file)
    BY <2>3, <2>4 DEF PreviewIs
  <2>. QED  BY <2>2, <2>3, <2>5, Remembered, QuietStep
<1>3. CASE Break \/ BreakAfter
  <2>1. PICK cause \in {"db", "late"} : job' = [job EXCEPT !.stage = "failed", !.cause = cause]
    BY <1>3 DEF Break, BreakAfter
  <2>2. PICK j : j = [job EXCEPT !.stage = "failed", !.cause = cause]
    OBVIOUS
  <2>3. j.stage = "failed" /\ j.cause = cause /\ j.dry = job.dry
    BY <1>1, <2>2 DEF Job
  <2>4. ~job.dry
    BY <1>1, <1>3 DEF Progress, Writing, Break, BreakAfter
  <2>5. PreviewIs(j, promised.file)
    BY <2>3, <2>4 DEF PreviewIs
  <2>6. db' = db /\ promised' = promised
    BY <1>3 DEF Break, BreakAfter
  <2>. QED  BY <2>1, <2>2, <2>3, <2>5, <2>6, QuietStep
<1>4. CASE Count \/ ReportError
  <2>1. PICK j : j = job'
    OBVIOUS
  <2>2. /\ j.stage = "row" /\ j.dry = job.dry /\ j.kind = job.kind /\ j.file = job.file
        /\ ~j.dry => j.view = NoView
    <3>1. CASE Count
      <4>1. j = [job EXCEPT !.stage = "row", !.line = @ + 1, !.cause = ""] /\ job.stage = "count"
        BY <2>1, <3>1 DEF Count
      <4>2. /\ j.stage = "row" /\ j.dry = job.dry /\ j.kind = job.kind /\ j.file = job.file
            /\ j.view = job.view
        BY <1>1, <4>1 DEF Job
      <4>. QED  BY <1>1, <4>1, <4>2 DEF PreviewIs
    <3>2. CASE ReportError
      <4>1. j = [[job EXCEPT !.pending = Nothing, !.view = NoView]
                    EXCEPT !.stage = "row", !.line = @ + 1, !.cause = ""]
        BY <2>1, <3>2 DEF ReportError, RolledBack
      <4>. QED  BY <1>1, <4>1 DEF Job
    <3>. QED  BY <1>4, <3>1, <3>2
  <2>3. job.stage \in {"count", "failed"} /\ db' = db /\ promised' = promised
    BY <1>4 DEF Count, ReportError
  <2>4. PreviewIs(j, promised.file)
    BY <1>1, <2>2, <2>3 DEF PreviewIs
  <2>. QED  BY <2>1, <2>2, <2>3, <2>4, QuietStep
<1>5. CASE Finish \/ Crash
  <2>1. job' = Idle /\ db' = db /\ promised' = promised
    BY <1>5, FinishIs DEF Finish, Crash
  <2>2. Idle.stage = "idle" /\ ~Idle.dry /\ Idle.view = NoView
    BY DEF Idle
  <2>3. PreviewIs(Idle, promised.file)
    BY <2>2 DEF PreviewIs
  <2>. QED  BY <2>1, <2>2, <2>3, QuietStep
<1>. QED  BY <1>2, <1>3, <1>4, <1>5

(* Another request's step: either it leaves the tables as they are, or      *)
(* nothing is promised any more.                                            *)
LEMMA OtherPromise ==
  ASSUME IInv, PromiseInv, NEW names, NEW d, Other(names, d)
  PROVE  PromiseInv'
<1>1. job' = job /\ Remember
  BY DEF Other
<1>2. CASE promised' = promised /\ db' = db
  <2>1. \A l \in promised.lines : Acceptance(promised.file.kind, promised.file.rows, l, db)
    BY DEF PromiseInv, PromiseStands
  <2>2. Redeemed(job, promised)
    BY DEF PromiseInv, PreviewKept, Redeemed, row, RowOf
  <2>. QED  BY <1>1, <1>2, <2>1, <2>2, PromiseIs DEF PromiseInv
<1>3. CASE promised'.lines = {}
  <2>1. PICK p : p = promised'
    OBVIOUS
  <2>2. PreviewIs(job, p.file)
    BY <1>1, <2>1, Remembered DEF PromiseInv
  <2>3. FindsPromised(job, p, db') /\ Redeemed(job, p)
    BY <1>3, <2>1 DEF FindsPromised, Redeemed
  <2>4. \A l \in p.lines : Acceptance(p.file.kind, p.file.rows, l, db')
    BY <1>3, <2>1
  <2>. QED  BY <1>1, <2>1, <2>2, <2>3, <2>4, PromiseIs
<1>. QED  BY <1>1, <1>2, <1>3, Remembered


(* Looking at a row: a preview promises it, and an import that was promised *)
(* it accepts it and locks the groups the preview has seen.                 *)
LEMMA LookAtPromise == ASSUME IInv, PromiseInv, LookAt PROVE PromiseInv'
<1>. DEFINE d == IF job.view = NoView THEN db ELSE job.view[1]
            old == Exists(d, row.name)
            good == Readable /\ ~Repeated /\ Acceptable(d, old)
            seen == IF Readable THEN job.seen \cup {row.name} ELSE job.seen
            stage == IF ~good THEN "failed" ELSE IF job.dry THEN "count" ELSE "lock"
            cause == IF good THEN "" ELSE "refused"
            locks == {row.name} \cup (UNION row.groups) \cup
                       IF old /\ row.groups # {} THEN GroupsOf(d, row.name) ELSE {}
            accepted == job.dry /\ good /\ d = db
            p == IF accepted THEN [promised EXCEPT !.lines = @ \cup {job.line}] ELSE promised
<1>1. /\ job.stage = "row" /\ job.line <= Len(job.file) /\ job \in Job /\ Named(job)
      /\ PreviewIs(job, promised.file) /\ db' = db
  BY DEF LookAt, IInv, TypeInv, PromiseInv
<1>2. row = RowOf(job) /\ row \in Row /\ row.name \in Name /\ job.line \in 1..Len(job.file)
  BY <1>1, RowIs, RowFields DEF row, RowOf
<1>3. /\ job' = [job EXCEPT !.view = <<d>>, !.old = old, !.seen = seen, !.stage = stage,
                            !.cause = cause, !.locks = locks]
      /\ promised' = p
  BY DEF LookAt
<1>4. p.file = promised.file /\ p.lines = promised.lines \cup (IF accepted THEN {job.line} ELSE {})
  <2>1. promised = [file |-> promised.file, lines |-> promised.lines]
    BY DEF IInv, TypeInv
  <2>2. CASE accepted
    <3>1. p = [file |-> promised.file, lines |-> promised.lines \cup {job.line}]
      BY <2>1, <2>2
    <3>. QED  BY <2>2, <3>1
  <2>3. CASE ~accepted
    BY <2>3
  <2>. QED  BY <2>2, <2>3
<1>5. ~job.dry /\ Promised(job) => d = db /\ good
  <2>. SUFFICES ASSUME ~job.dry, Promised(job) PROVE d = db /\ good
    OBVIOUS
  <2>1. d = db
    BY <1>1 DEF PreviewIs
  <2>2. Readable /\ Acceptable(db, Exists(db, row.name)) /\ ~Repeated
    BY <1>1, PromisedIs
  <2>. QED  BY <2>1, <2>2
<1>6. accepted => Acceptance(promised.file.kind, promised.file.rows, job.line, db)
  <2>. SUFFICES ASSUME accepted
                PROVE  Acceptance(promised.file.kind, promised.file.rows, job.line, db)
    OBVIOUS
  <2>1. promised.file.kind = job.kind /\ promised.file.rows = job.file
    BY <1>1 DEF PreviewIs
  <2>2. Readable /\ Acceptable(db, Exists(db, row.name)) /\ row.name \notin job.seen
    BY DEF Repeated
  <2>3. Accepts(job.kind, row, db)
    BY <2>2, AcceptableIs
  <2>4. \A i \in 1..Len(job.file) :
          i < job.line /\ job.file[i].form # "unreadable" => job.file[i].name # row.name
    BY <1>1, <1>2, <2>2 DEF Named
  <2>. QED  BY <1>2, <2>1, <2>3, <2>4 DEF Acceptance, RowOf
<1>7. /\ stage \in {"failed", "count", "lock"} /\ (good => stage # "failed")
      /\ stage = "lock" => ~job.dry
      /\ stage = "count" => job.dry
      /\ old = Exists(d, row.name)
      /\ old /\ row.groups # {} => GroupsOf(d, row.name) \subseteq locks
  OBVIOUS
<1>. HIDE DEF d, old, good, seen, stage, cause, locks, accepted, p
<1>8. PICK j : j = [job EXCEPT !.view = <<d>>, !.old = old, !.seen = seen, !.stage = stage,
                               !.cause = cause, !.locks = locks]
  OBVIOUS
<1>9. /\ j.stage = stage /\ j.file = job.file /\ j.line = job.line /\ j.kind = job.kind
      /\ j.dry = job.dry /\ j.old = old /\ j.locks = locks
  BY <1>1, <1>8 DEF Job
<1>10. \A l \in p.lines : Acceptance(p.file.kind, p.file.rows, l, db)
  <2>1. \A l \in promised.lines : Acceptance(promised.file.kind, promised.file.rows, l, db)
    BY DEF PromiseInv, PromiseStands
  <2>. QED  BY <1>4, <1>6, <2>1
<1>11. PreviewIs(j, p.file)
  BY <1>1, <1>4, <1>7, <1>9 DEF PreviewIs
<1>12. ~j.dry /\ p.file = [kind |-> j.kind, rows |-> j.file] /\ j.line \in p.lines
         => Promised(job) /\ ~job.dry
  BY <1>4, <1>9 DEF Promised, accepted
<1>13. FindsPromised(j, p, db)
  <2>1. RowOf(j) = row
    BY <1>2, <1>9 DEF RowOf
  <2>. QED  BY <1>5, <1>7, <1>9, <1>12, <2>1 DEF FindsPromised
<1>14. Redeemed(j, p)
  BY <1>5, <1>7, <1>9, <1>12 DEF Redeemed
<1>. QED  BY <1>1, <1>3, <1>8, <1>10, <1>11, <1>13, <1>14, PromiseIs

(* Under the locks a promised row finds the record it was promised on.      *)
LEMMA EnterLockPromise == ASSUME IInv, PromiseInv, EnterLock PROVE PromiseInv'
<1>. DEFINE r == WithBareSubject(db.user[row.name], job.kind)
            u == IF ~job.old THEN FirstCredentials
                 ELSE IF row.password THEN PasswordSet(r, row.ctype) ELSE r
            gone == Exists(db, row.name) # job.old
            change == [Nothing EXCEPT !.name = row.name, !.user = u]
<1>1. /\ job.stage = "lock" /\ job \in Job /\ db \in Database /\ Progress(job)
      /\ FindsPromised(job, promised, db)
  BY DEF EnterLock, IInv, TypeInv, PromiseInv
<1>2. /\ row = RowOf(job) /\ row.name \in Name /\ job.kind \in {"user", "device"} /\ ~job.dry
  BY <1>1, RowIs, RowFields, JobFields DEF Progress, row, RowOf
<1>3. r.secrets = db.user[row.name].secrets
  BY <1>1, <1>2, DatabaseFields, WithBareSubjectKeeps
<1>4. job.old /\ ~row.password => u.secrets = db.user[row.name].secrets
  BY <1>3
<1>5. /\ gone => job' = [job EXCEPT !.view = <<db>>, !.pending = Nothing,
                                    !.stage = "failed", !.cause = "gone"]
      /\ ~gone => job' = [job EXCEPT !.view = <<db>>, !.pending = change, !.stage = "update"]
  <2>. HIDE DEF change, u, r
  <2>1. CASE gone
    BY <1>1, <2>1 DEF EnterLock, Job
  <2>2. CASE ~gone
    BY <1>1, <2>2 DEF EnterLock, Job, change, u, r
  <2>. QED  BY <2>1, <2>2
<1>6. change.user = u
  BY DEF Nothing
<1>7. Promised(job) => ~gone
  BY <1>1, <1>2 DEF Promised, FindsPromised
<1>8. promised' = promised /\ db' = db
  BY DEF EnterLock
<1>. HIDE DEF u, r, gone, change
<1>9. PICK j : /\ gone => j = [job EXCEPT !.view = <<db>>, !.pending = Nothing,
                                         !.stage = "failed", !.cause = "gone"]
               /\ ~gone => j = [job EXCEPT !.view = <<db>>, !.pending = change, !.stage = "update"]
  BY <1>5
<1>10. /\ j.file = job.file /\ j.line = job.line /\ j.kind = job.kind /\ j.dry = job.dry
       /\ j.old = job.old /\ j.locks = job.locks /\ j.view = <<db>>
       /\ gone => j.stage = "failed"
       /\ ~gone => j.stage = "update" /\ j.pending = change
  <2>1. CASE gone
    BY <1>1, <1>9, <2>1 DEF Job
  <2>2. CASE ~gone
    BY <1>1, <1>9, <2>2 DEF Job
  <2>. QED  BY <2>1, <2>2
<1>11. RowOf(j) = row /\ (Promised(j) <=> Promised(job))
  BY <1>2, <1>10 DEF RowOf, Promised
<1>12. FindsPromised(j, promised, db)
  <2>. SUFFICES ASSUME Promised(j) PROVE FindsPromised(j, promised, db)
    BY DEF FindsPromised, Promised
  <2>1. /\ job.old = Exists(db, row.name)
        /\ job.old /\ row.groups # {} => GroupsOf(db, row.name) \subseteq job.locks
    BY <1>1, <1>2, <1>11 DEF FindsPromised, Promised
  <2>. QED  BY <1>4, <1>6, <1>7, <1>10, <1>11, <2>1 DEF FindsPromised
<1>13. Redeemed(j, promised)
  BY <1>7, <1>10, <1>11 DEF Redeemed, Promised
<1>14. job' = j
  BY <1>5, <1>9
<1>. QED  BY <1>2, <1>8, <1>10, <1>12, <1>13, <1>14, LockedStep

(* The two refusals of _update_locked: a promised row meets neither, but    *)
(* for the type "nt" on secrets it cannot be derived from.                  *)
LEMMA UpdatePromise == ASSUME IInv, PromiseInv, Update PROVE PromiseInv'
<1>. DEFINE r == job.pending.user
            cause == IF TypeAlone /\ NeedsPassword(r, row.ctype) THEN "type"
                     ELSE IF ~MayReplace(job.view[1]) THEN "groups" ELSE ""
            u == IF ~job.old THEN Completed(r)
                 ELSE IF TypeAlone /\ cause # "type" THEN TypeChanged(r, row.ctype) ELSE r
            next == IF job.old /\ row.disabled # {} THEN "disable" ELSE "commit"
            stage == IF cause = "" THEN next ELSE "failed"
            groups == IF cause = "" THEN row.groups ELSE {}
            change == [job.pending EXCEPT !.user = u, !.groups = groups]
<1>1. job.stage = "update" /\ job.stage \in Writing
  BY DEF Update, Writing
<1>2. /\ job \in Job /\ job.pending \in Change /\ ~job.dry /\ row = RowOf(job)
      /\ row.ctype \in CredentialType \cup {None}
      /\ FindsPromised(job, promised, db)
  BY <1>1, InTransaction DEF PromiseInv, row, RowOf
<1>3. ASSUME Promised(job)
      PROVE  /\ job.view = <<db>> /\ job.old = Exists(db, row.name)
             /\ job.old /\ row.groups # {} => GroupsOf(db, row.name) \subseteq job.locks
             /\ job.old /\ ~row.password => r.secrets = db.user[row.name].secrets
             /\ Accepts(job.kind, row, db)
  BY <1>1, <1>2, <1>3, PromisedIs DEF FindsPromised, Promised
<1>4. ASSUME Promised(job), TypeAlone, NeedsPassword(r, row.ctype)
      PROVE  row.ctype = "nt"
  <2>1. job.old /\ row.ctype # None /\ ~row.password /\ row.ctype \in CredentialType
    BY <1>2, <1>4 DEF TypeAlone
  <2>2. ~PreviewNeedsPassword(db.user[row.name], row.ctype)
    BY <1>3, <1>4, <2>1 DEF Accepts
  <2>3. "Cleartext-Password" \notin Attributes(row.ctype)
    BY <1>3, <1>4, <2>1, <2>2 DEF PreviewNeedsPassword, NeedsPassword, Has
  <2>. QED  BY <2>1, <2>3, AttributesType
<1>5. ASSUME Promised(job) PROVE MayReplace(job.view[1])
  <2>1. job.view[1] = db
    BY <1>3, <1>5
  <2>2. \A g \in UNION row.groups : GroupExists(db, g)
    BY <1>3, <1>5 DEF Accepts
  <2>3. ASSUME NEW g \in GroupsOf(db, row.name) \ UNION row.groups, row.groups # {}
        PROVE  g \in job.locks /\ ~LastMembership(db, g, row.name)
    <3>1. Exists(db, row.name)
      BY <2>3 DEF Exists
    <3>. QED  BY <1>3, <1>5, <2>3, <3>1 DEF Accepts
  <2>. QED  BY <2>1, <2>2, <2>3 DEF MayReplace
<1>6. /\ job' = [job EXCEPT !.stage = stage, !.cause = cause, !.pending.user = u,
                            !.pending.groups = groups]
      /\ promised' = promised /\ db' = db
  BY DEF Update
<1>7. /\ stage \in {"disable", "commit", "failed"}
      /\ stage = "failed" => cause # ""
      /\ Promised(job) /\ cause # "" => cause = "type" /\ row.ctype = "nt"
  BY <1>4, <1>5
<1>. HIDE DEF u, cause, stage, groups, next
<1>8. job' = [job EXCEPT !.stage = stage, !.cause = cause, !.pending = change]
  BY <1>2, <1>6 DEF Job, Change
<1>. HIDE DEF change
<1>9. PICK j : j = [job EXCEPT !.stage = stage, !.cause = cause, !.pending = change]
  OBVIOUS
<1>10. /\ j.stage = stage /\ j.cause = cause /\ j.file = job.file /\ j.line = job.line
       /\ j.kind = job.kind /\ j.dry = job.dry
  BY <1>2, <1>9 DEF Job
<1>11. Redeemed(j, promised)
  <2>1. RowOf(j) = row /\ (Promised(j) <=> Promised(job))
    BY <1>2, <1>10 DEF RowOf, Promised
  <2>. QED  BY <1>7, <1>10, <2>1 DEF Redeemed, Promised
<1>. QED  BY <1>2, <1>6, <1>7, <1>8, <1>9, <1>10, <1>11, LockedStep

LEMMA SetDisabledPromise == ASSUME IInv, PromiseInv, SetDisabled PROVE PromiseInv'
<1>. DEFINE r == job.pending.user
            stuck == row.disabled = {FALSE} /\ ~r.reject /\ Inherited(job.view[1], PendingGroups)
            u == IF stuck THEN r
                 ELSE IF row.disabled = {TRUE} THEN Disabled(r) ELSE Enabled(r)
            stage == IF stuck THEN "failed" ELSE "commit"
            cause == IF stuck THEN "inherited" ELSE ""
            change == [job.pending EXCEPT !.user = u]
<1>1. job.stage \in Writing
  BY DEF SetDisabled, Writing
<1>2. job \in Job /\ job.pending \in Change /\ ~job.dry /\ row = RowOf(job)
  BY <1>1, InTransaction DEF row, RowOf
<1>3. /\ job' = [job EXCEPT !.stage = stage, !.cause = cause, !.pending.user = u]
      /\ promised' = promised /\ db' = db
  BY DEF SetDisabled
<1>4. /\ stage \in {"commit", "failed"}
      /\ stage = "failed" => cause = "inherited" /\ row.disabled = {FALSE}
  OBVIOUS
<1>. HIDE DEF u, cause, stage, stuck
<1>5. job' = [job EXCEPT !.stage = stage, !.cause = cause, !.pending = change]
  BY <1>2, <1>3 DEF Job, Change
<1>. HIDE DEF change
<1>6. PICK j : j = [job EXCEPT !.stage = stage, !.cause = cause, !.pending = change]
  OBVIOUS
<1>7. /\ j.stage = stage /\ j.cause = cause /\ j.file = job.file /\ j.line = job.line
      /\ j.dry = job.dry
  BY <1>2, <1>6 DEF Job
<1>8. Redeemed(j, promised)
  BY <1>2, <1>4, <1>7 DEF Redeemed, RowOf
<1>. QED  BY <1>2, <1>3, <1>4, <1>5, <1>6, <1>7, <1>8, LockedStep

LEMMA PromiseStep == ASSUME IInv, PromiseInv, [Next]_vars PROVE PromiseInv'
<1>1. CASE UNCHANGED vars
  <2>1. job' = job /\ promised' = promised /\ db' = db
    BY <1>1 DEF vars
  <2>2. \A l \in promised.lines : Acceptance(promised.file.kind, promised.file.rows, l, db)
    BY DEF PromiseInv, PromiseStands
  <2>3. Redeemed(job, promised)
    BY DEF PromiseInv, PreviewKept, Redeemed, row, RowOf
  <2>. QED  BY <2>1, <2>2, <2>3, PromiseIs DEF PromiseInv
<1>2. CASE OtherStep
  <2>1. \E names, d : Other(names, d)
    BY <1>2 DEF OtherStep, OtherTouch, OtherCreate, OtherDelete, OtherRename,
                OtherMembership, OtherGroup
  <2>. QED  BY <2>1, OtherPromise
<1>. QED
  BY <1>1, <1>2, UploadPromise, LookAtPromise, EnterLockPromise, UpdatePromise,
     SetDisabledPromise, MovesOnPromise DEF Next, ImportStep

(* For all files and tables: an import refuses no row that a preview has    *)
(* accepted on the same tables, but for the two checks only the write makes.*)
THEOREM PreviewKeepsPromise == Spec => []PreviewKept
<1>1. Init => PromiseInv
  <2>. SUFFICES ASSUME Init PROVE PromiseInv
    OBVIOUS
  <2>1. job = Idle /\ promised.lines = {}
    BY DEF Init
  <2>2. Idle.stage = "idle" /\ ~Idle.dry /\ Idle.view = NoView
    BY DEF Idle
  <2>. QED
    BY <2>1, <2>2 DEF PromiseInv, PromiseStands, PreviewIs, FindsPromised, PreviewKept
<1>2. PromiseInv => PreviewKept
  BY DEF PromiseInv
<1>. QED  BY <1>1, <1>2, PromiseStep, ImportInvariant, PTL DEF Spec
=============================================================================
