# A formal model of freeradiusManager

freeradiusManager is the web application (FastAPI, SQLAlchemy async, MariaDB)
that administers a FreeRADIUS database: users, devices, groups, NAS clients,
live sessions, and its own accounts. This directory holds TLA+ models of its
backend, TLC configurations that check them on small instances, and proofs that
the TLA+ proof system checks for every instance. Paths below are relative to
`backend/app/` unless they say otherwise.

```
tlc -workers 2 -config MCDirectory.cfg MCDirectory.tla     # one run
tlapm NamedLockProofs.tla                                  # one set of proofs
```

`PROJECT.json` lists the runs, the mutants, the source lines behind every
definition, the findings, the hazards of the code and the theorems.

## 1 The system

One process (or several) runs one asyncio event loop. Every HTTP request has its
own database session (`core/db.py: get_session`), and every `await` on the
database lets other requests go on. MariaDB runs at REPEATABLE READ: the first
read of a transaction fixes what later plain reads see; `SELECT ... FOR UPDATE`
and writes see the committed state. The RADIUS tables are shared with
FreeRADIUS and have neither unique constraints nor foreign keys. So the hard part
of this program is check-then-write by concurrent requests.

| Component | State | Operations | Interacts with | Hard |
|---|---|---|---|---|
| Named locks and pools (`core/locking.py`, `core/db.py`) | MariaDB's GET_LOCK table, two connection pools, each request's snapshot | `named_lock`: connect, GET_LOCK in sorted order, drop the snapshot, block, release | all writing services | stale snapshots, lock order, timeouts, pools that run dry, errors in the block |
| Account registry (`services/accounts.py`, OIDC callback in `api/v1/endpoints/auth.py`) | `mgr_account`: role, status, generation, identity, password | create, update, delete, link/unlink, role mapping, new OIDC account | locks, row locks of the count, sessions | last administrator, generation of sessions, lost updates |
| Login, second factor, sessions (`services/accounts.py`, `endpoints/auth.py`, `api/deps.py`, `core/security.py`) | lockout counters, TOTP secret and last counter, time stamps; challenges and sessions are signed tokens | login, challenge, code, enrolment, confirmation, reset, password change, acceptance | row locks, `account-totp:{id}`, limiter | requests that overlap a change of password or factor, replays, lockouts spread over requests |
| Rate limiter (`core/ratelimit.py`) | deques of times per key, time of the last sweep | check, reset, clear | login, TOTP, CoA endpoints | window boundary, lazy removal, growth |
| Users and groups (`services/users.py`, `services/groups.py`) | `radcheck`, `radreply`, `radusergroup`, `radgroupcheck`, `radgroupreply`, `mgr_subject` | create, update, rename, delete, password, disable, membership changes | locks, audit log | existence without keys: phantoms, vanishing groups, duplicates, lost updates |
| Import, preview, bulk (`services/importexport.py`) | none of their own; the session's transaction and the report | rows and names one by one through the user service, a commit each; a preview checks the same without writing | users, devices, groups | a row that fails half-way, stale classification, preview against import, a cut report |
| Logout, revocation, refresh (`core/security.py`, `api/deps.py`, `repositories/mgr/session_revocations.py`) | `mgr_session_revocation`; tokens at the clients | sign-in, renewal by an answer, logout, is_revoked, purge | login, retention worker | answers under way at a logout, purge against the absolute end |
| NAS registry (`services/nas.py`) | `nas`, `mgr_nas_extra` | create, update, rename, delete, target of a CoA | `nas:{id}` locks, CoA | names without lock, two tables joined by name |
| CoA (`services/coa.py`) | none; the NAS keeps the session | resolve, send, retry, log | NAS, accounting rows, registry, limiter | lost and late answers, retries, a session that ends meanwhile |
| OIDC protocol (`services/oidc.py`) | caches of metadata and keys | start, exchange, verification, key reload | account registry | key rotation, answers that overtake each other |
| Devices (`services/devices.py`, `core/mac.py`) | users with MAC names | resolve, create, update, delete | users | several spellings of one address |
| Audit, retention worker (`services/audit.py`) | `mgr_audit` | log, purge | all | redaction; purging by setting |
| Settings, attribute rules, masking, listing, diagnosis, statistics, HTTP boundary, schemas, migrations, frontend | — | reads, pure functions, wiring | — | — |

What makes them correct: a check made inside a named lock is true when its block
commits, no request waits for ever, no lock is left behind (locks); an active
administrator remains and every account keeps a way in, a session refused once
stays refused (registry); a session in force rests on the password in force, a
factor that is active was shown, a code serves once, failures lock the account
(login); never more than the limit in a window, and keys are forgotten (limiter);
users and groups come and go exactly with their log entries, no duplicates, no
lost edits (directory); a session ends by its idle and its absolute end, and one
that was logged out stays out (revocation); one NAS name, one set of CoA settings
that follows its NAS (NAS); a logged success took place, and an
attempt is logged once, sent or not (CoA); a rotation of keys refuses nobody, withdrawn keys expire (OIDC); one
password per user, a true type, rows that do not mix, a preview that keeps its
word (import).

## 2 Modules

| Module | Role |
|---|---|
| `NamedLock` | the locks over both pools |
| `NamedLockProofs` | its theorems |
| `AccountRegistry`, `AccountProofs` | accounts under concurrent administration and OIDC logins; its theorems |
| `LoginSessions`, `LoginProofs` | one account: login, factor, lockout, password, sessions; its theorems |
| `SlidingWindow` | what a rate limit promises (abstract, NFR-1) |
| `RateLimiter`, `RateLimiterProofs` | the implementation; its theorems and the refinement |
| `Directory`, `DirectoryProofs` | users, groups, memberships; its theorems |
| `SessionLifetime` | tokens, renewal, logout and purge |
| `OidcLogin` | the callback beside a provider that rotates keys |
| `SessionProofs` | theorems about both; it extends both, so their names differ (`Spec`, `OidcSpec`) |
| `NasRegistry` | NAS and their CoA settings |
| `CoaExchange`, `CoaProofs` | a CoA over a lossy network, composed with `NasRegistry`; theorems about both |
| `UserRecord` | one user's record as operators: secrets, type, lock, metadata |
| `ImportRun`, `ImportRunProofs` | preview and import row by row on `UserRecord`, beside other requests; its theorems |
| `MC...` | instances for TLC |

Operators commented "Mutant of X" are changed versions of X, each the way a
plausible bug in the code would change it. Nothing in a specification uses them;
with X replaced by its mutant a property of the run fails, which shows that the
property says something about X.

### NamedLock

`pc[p]` is where a request stands in `named_lock`; `owner` is MariaDB's table of
locks, `tx` whether the request holds a query connection with an open snapshot,
`missed` which keys others have committed since. `Request` .. `Return` follow
the context manager line by line: `Connect`/`LockPoolTimeout` (the pool),
`GetLock`/`GetLockTimeout` (the loop), `Enter` (the rollback), `Commit`/`Raise`
(the block), `ReleaseKey`/`Return` (the finally). `Fold` maps spellings to keys:
what `_lock_key` computes is abstracted to which names share a key.

The blocks of the services all have the shape check - write - commit. `Commit`
stands for any of them, writing exactly the rows its keys stand for; what they
check and write is `Directory`'s, `AccountRegistry`'s and `LoginSessions`' matter.
Those modules do not instantiate `NamedLock`: they rely on what is proved here
(exclusion until the commit, a fresh snapshot inside) and model a lock as a
variable or a set of names held.

`connect()` to the query pool before the block (the first read of a request) may
simply wait in the model; inside the block its timeout is an error.

### AccountRegistry

`account` is the committed table; `job[p]` the request a process serves, with the
ORM object it has read (`obj`), its stage and its input. A commit writes the
columns that differ between the object as read and as changed (`Flush`), which is
what SQLAlchemy does with `expire_on_commit=False`. `countLock` stands for the
rows `count_active_administrators(lock=True)` locks: role and is_active have no
index, so InnoDB locks every row, and every write waits. `session` keeps one
session issued so far, any one, with the role and generation in its token.

### LoginSessions

`row` is the account's row; `rowLock` the row lock across the two steps of a
password change (its time stamp is taken before the commit); `totpLock` the named
lock. Reads, checks and writes under a row lock are one step (`Authenticate`,
`VerifyCode`, `WrongPassword`), everything else is split where the code awaits.
Every reading of the clock that ends up in a stamp gives a new value, so that the
order of stamps is the order of readings. `spent` and `misses` are history.

### RateLimiter

The deque of a key is the part of `log[k]` from `first[k]` on. Popping moves
`first`, and the history stays, so the promise can count over it. `Check` is one
step: there is one event loop, and the limiter has a lock of its own.

### Directory

A request chooses its locks (`Start...`), enters the block when they are free and
its checks hold on a fresh snapshot, keeps what it has to remember in `plan`, and
commits in a later step, when its statements act on the rows as they are then.
`update()` and `delete()` read the memberships before the locks, so they have a
stage of their own. Names stand for their folded form. `Init` is any legacy data,
a duplicate membership included, but for users who have nothing but memberships:
these come and go with a group that is deleted, without an entry of their own,
and the statement about users would have to name them as an exception.

### SessionLifetime

A token is its session and its expiry; `tokens[s]` are all that clients were ever
given, so a copied cookie or a second tab is a request that shows an old one. A
request decodes its token at one time and reads the database at a later one
(`Arrive`, then `Admit`/`Refuse` or `LogoutLook`); the renewed token waits in
`req[p].fresh` until the answer goes out (`Respond`), whatever has happened
meanwhile. A logout is read - insert - commit with the primary key in between
(`LogoutFail`). `Purge` is one round of the retention worker. Dates have the unit
of the clock; that JWT and database truncate to seconds lies below it.

### OidcLogin

A callback gets a token signed with the key of the moment (`Exchange`), verifies
it with the cached keys if they are young enough (`VerifyCached`) or loads them
(`Fetch`, `Store`), and reloads once by force when the token does not verify. The
answer of the provider and its arrival in the cache are two steps, so a late
answer may replace a newer one. `Rotate` and `Withdraw` are the provider's. Time
does not pass between an answer and what follows it: the unit of the clock is
longer than the ten seconds httpx waits, so "withdrawn key expires" is exact up
to that delay.

### NasRegistry and CoaExchange

An operation reads on its snapshot (`Begin...`: is the name free, are there
settings of that name) and commits later. A secret is the id of the NAS it was
entered for, so the model can tell whose it is. `Clashes` and `Obstructed` are the
unique constraint `uq_mgr_nas_extra_nasname`: it is what keeps names of NAS
unique, although `nas` itself has no constraint and `create()` takes no lock
(`nas.py:80`).

`CoaExchange` extends it. `Dispatch` resolves session and target; `Resend`,
`NoAnswer` and `Receive` are pyrad in its thread; `Finish` is the log entry with
its commit, also of what was not sent for want of a target. A change of VLAN that
names none ends as `invalid`, without an entry. `packets[r]` counts copies on the
way, `replies[r]` answers on the way; `Serve`, `Lose`, `Leave` and `AccountStop` are NAS, network, user and
accounting. A NAS may remember packets or not, and may answer with the wrong kind
of acknowledgement. The client and its socket live as long as one call of
`_send_blocking`: an answer that comes later reaches nobody.

### UserRecord and ImportRun

`UserRecord` has one operator per function of `services/users.py` that changes
password attributes, the credential type, `Auth-Type` rows or the metadata.
Passwords are "old", "new" or "name" (a device whose password is its MAC), which
is what the functions distinguish; whether a value is the cleartext or the hash
follows from the attribute.

`ImportRun` is the row loop. A row goes through the stages row - lock - update -
disable - commit - count, or fails at any of them; `job.pending` is what the
transaction holds, `job.view` its snapshot. `Break` is any error of the database,
`BreakAfter` one after the commit (`create()` reads the record back; releasing the
locks may fail), `Crash` the end of the process. The operations of other requests,
with their locks, are one step each: how they interleave inside is `Directory`'s
matter. `promised` remembers what a preview has accepted as long as no table
changes.

## 3 Runs and what they show

The longest runs (`nas_coa`, `import`, `oidc`) take two to three minutes with two
workers, the others less.

| Run | Properties | Instance |
|---|---|---|
| `named_lock` | types and pool sizes, `FreshCheck`, `NoWaitCycle`, `NoLeakedLock`, `EveryBlockEnds` | 3 requests, 3 names under 2 keys, 2 + 2 connections |
| `accounts_all` | types, `CountStillTrue`, `EveryAccountReachable` | 2 requests, 2 accounts, 1 identity, all operations |
| `accounts_updates` | `AdministratorRemains`, `NoRevival` | the same without delete, link and OIDC, generation up to 2 |
| `login_password` | types, `DirectLoginsRestOnPassword`, `MissesLock`, `CodeUsedOnce` | 2 requests, threshold 2, one password change, 2 time windows, 2 sessions |
| `login_factor` | `ActiveFactorShown` | 2 requests, 3 secrets (up to two enrolments), 2 time windows, 1 session |
| `rate_limiter` | `WindowBound`, `KeysForgotten`, `DecidesAsPromised` (refinement of `SlidingWindow`) | 2 keys, limit 2, window 2, 7 ticks |
| `sessions` | `TokensAge`, `LoggedOutStaysOut`, `RevocationsForgotten` | 1 session, 3 requests, idle time 2, absolute end 3, 6 ticks |
| `oidc` | `RotationRefusesNobody`, `WithdrawnKeyExpires` | 3 callbacks, 3 keys, lifetime 2, 5 ticks |
| `nas_coa` | types and secrets, `NamesUnique`, `SettingsFollow`, `SuccessMeansDone`, `HiddenOnlyByLoss`, `EveryAttemptLogged` | 2 NAS, an address and a network around it, 2 administrators, 1 CoA request with 2 attempts |
| `import` | `OnePassword`, `TypeStaysTrue`, `MethodsKept`, `RowsStandAlone`, `ErrorsShown`, `PreviewKept` | 2 uploads of 6 files with 2 to 3 rows, 20 legacy databases of 2 users and 1 group, 1 operation of another request |
| `directory` | types and exclusion, `GroupsComeAndGoLogged`, `UsersComeAndGoLogged`, `NoNewDuplicates`, `UntouchedCollectionsKept` | 2 requests, 2 users, 2 groups, 4 kinds of PATCH |

**Bounds.** Every race in this code is between a check of one request and a
commit of another, so two concurrent requests are enough to see it; a third one
is needed only where requests wait in a chain or share pools, which is
`NamedLock`. There, two connections for three requests make both pools run dry.
Two accounts make "the other administrator" and "the last one"; two groups make
a rename and lock sets of different shapes; two users make the last and the
next-to-last member. `MaxEpoch`, `MaxClock`, `MaxSecret`, `MaxCounter`,
`MaxSessions` and `MaxTime` bound counters that only grow; they are large enough
for two changes of role, for a password change and a factor change within one
login, and for three windows of the limiter. The edits of `MCEdits` clear one
collection, fill one, clear both or leave both.

The sessions run has one session because sessions share nothing; its three requests
are enough for an answer under way while another request logs out or renews, and for
two logouts of one session.
Two callbacks overtake each other in the cache and the third one meets what they
left; the third key makes the first a withdrawn one while the second is in use.
One CoA request suffices since requests meet only at the session, whose end
`Leave` brings about as well; two administrators on two ids and two names give
every order of create, rename and delete. `PREVIEW_LIMIT` is 2, so that a file of
three rows is cut and an error has a row to replace. The files of an import hold
each kind of cell at least once; previews and imports of the same and of
different files follow each other.

**Fairness.** `NamedLock` assumes weak fairness of a request's own steps
(`LockStep`): the event loop runs every coroutine on, and every wait - pool,
GET_LOCK - ends by its timeout if not by success. Clients owe nothing: beginning,
reading before the lock and asking for a lock are not fair. `SessionLifetime`
assumes that time goes on and that the retention worker runs again and again
(`WF(Purge)`): `retention_worker` is a loop that survives errors of a round.
`CoaExchange` assumes that a request's own steps go on (`Work`): pyrad's socket
has a timeout, its attempts are counted, and the coroutine resumes. Network, NAS
and administrators owe nothing. The other modules state safety only.

**Deadlock** is checked where a request can always go on (`named_lock`,
`rate_limiter`, `directory`). The other runs may stop at the bounds of generation,
clock, uploads or packets, and their configurations say so.

### A disagreement between the code and what it says of itself

`accounts_delete` ends in a violation: "The last active administrator cannot be
removed" (`i18n/en.json:42`). `delete()` looks at a role read before any lock. An
operator promoted meanwhile is deleted without a count.

### Where a property is narrower than one might expect

Some promises of the comments do not hold in every interleaving. No run states
them; the properties beside them are narrower, and this is where.

* `DirectLoginsRestOnPassword` leaves logins through a challenge out. A challenge
  is stamped when it is made, after the password check has committed. And
  `confirm_totp` checks `password_changed_at` under a lock that `set_password`
  does not take: a change that commits between the check and the stamp
  (`accounts.py:435`) is hidden by `totp_changed_at`, against
  `accounts.py:380-382`.
* A revocation devalues the challenge (`accounts.py:251-253`) only up to its being
  read: one committed between that and the check of the code is taken over into
  the new session (`accounts.py:254`).
* `NoRevival` is checked without links and role mappings. `set_oidc_subject`
  (`accounts.py:618`) and `apply_mapped_role` raise `session_epoch` on objects
  read without a lock; two increments may fall together, and a session of the
  identity survives its unlinking, against `accounts.py:615-617`.
* `MissesLock` is checked without confirmations. `confirm_totp` counts a wrong
  code on an object read without a row lock, so a concurrent failure can be lost.
* `CodeUsedOnce` is checked and proved without resets by an administrator. A login
  whose object in memory still shows the old factor gets a challenge `totp`;
  `verify_totp_code` looks at the secret (`accounts.py:277`), not at
  `totp_enabled`, and so takes a code of the secret that is being enrolled, while
  `confirm_totp`, which has read the counter before, takes the same one. Both
  sessions are in force, against the comment at `accounts.py:281-284`. It takes a
  reset, an enrolment and a confirmation between the password check of a login
  and its challenge (TLC finds it with a bound of 7 on the clock).
* `FreshCheck` assumes that the lock connection outlives the block. If it breaks,
  MariaDB drops the locks while the block goes on; nothing in the code notices.
* `LoggedOutStaysOut` excepts a request that decoded its token before the absolute
  end and waited for the database until after it, while the purge deleted the row.
* `HiddenOnlyByLoss` says how a disconnect that took place can be logged as a
  refusal: the copy sent again finds the session gone. No retry can tell the two
  apart.
* `EveryAttemptLogged` leaves one case out. "Auch der nicht abgeschickte Versuch
  gehoert ins Protokoll" (`coa.py:77`; `docs/UMSETZUNG.md:362-363`) holds for a NAS
  without CoA; a change of VLAN that names no VLAN (`vlan` is optional,
  `schemas/nas.py:116`) is refused at `coa.py:105-107`, after session and target
  were found, and leaves no entry. The model ends such a request as `invalid`.
  Requests that find no open session, or several, are outside the model; they are
  refused before there is a session to log.
* `TypeStaysTrue` speaks of types that were true before. Legacy users without
  metadata get the column's default `both` from `apply_row` (`users.py:653`) and
  the bulk expiry (`importexport.py:910`), which call `subjects.ensure` and not
  `_ensure_subject`, whatever their secrets are (compare `users.py:760-765`).
* `PreviewKept` excepts two checks that only the write makes: unlocking a user who
  is blocked by a group, and the change to `nt` with nothing to derive it from.
  A preview does not know what earlier rows of the same file will do, either.
* A row counts as an error if its commit went through and what follows fails
  (`BreakAfter`); `RowsStandAlone` therefore speaks of commits, not of reports.
* A row is told to be of the right kind (user or device) before the locks and not
  again under them; `RowsStandAlone` and `OnePassword` do not depend on it.
* The network search for a CoA (`nas.py:278`) looks at enabled networks only, so a
  narrower network without CoA does not hide a wider one with it; the comment at
  `nas.py:291` can be read either way, and `ByNetwork` follows the code.

## 4 Proofs

| Theorem | For all |
|---|---|
| `TypeCorrect`, `InductiveInvariant`, `ChecksStayFresh`, `NoLockIsLeaked`, `NoDeadlock` (`NamedLockProofs`) | finite sets of requests, names, foldings into natural numbers, pool sizes |
| `InductiveInvariant`, `NeverMoreThanLimit`, `MemoryBounded`, `LimiterKeepsPromise` (`RateLimiterProofs`) | keys, positive limits and windows, bounds on the clock |
| `SessionInvariant`, `TokensEnd`, `LogoutIsFinal` (`SessionProofs`) | sets of sessions and requests, positive idle and absolute times |
| `OidcInvariant`, `NobodyRefusedForRotation`, `WithdrawnKeysEnd` (`SessionProofs`) | sets of callbacks and keys, positive lifetimes of the cache |
| `RegistryInvariant`, `RegistryTypeCorrect`, `OneNameOneNas`, `SettingsStay` (`CoaProofs`) | sets of NAS, names, requests, legacy rows |
| `ExchangeInvariant`, `SuccessIsTrue`, `RefusalHidesOnlyLoss` (`CoaProofs`) | sets of requests and sessions, any number of attempts |
| `AccountInvariant`, `TypeCorrect`, `CountStaysTrue`, `WayInRemains` (`AccountProofs`) | sets of accounts, identities and requests, every operation |
| `AdministratorNeverLost` (`AccountProofs`) | the same without `delete` and `oidc` |
| `RefusedForGood` (`AccountProofs`) | the same without `link` and `oidc` |
| `DirectoryInvariant`, `TypeCorrect`, `GroupsLogged`, `UsersLogged`, `CollectionsKept`, `DuplicatesInherited` (`DirectoryProofs`) | sets of users, groups and requests, any edits, any legacy rows |
| `DuplicatesNeverGrow` (`DirectoryProofs`) | the same; users and groups are finitely many (`FiniteAssumption`) |
| `LoginInvariant`, `TypeCorrect`, `PasswordEndsLogins`, `FactorShown` (`LoginProofs`) | sets of requests, any threshold and bounds, every operation |
| `EnoughMissesLock` (`LoginProofs`) | the same without `confirm` and `own` |
| `CodesUsedOnce` (`LoginProofs`) | the same without `reset` |
| `ImportInvariant`, `NoSecondPassword`, `TypesStayTrue`, `LocksKeepMethods`, `RowsDoNotMix`, `ReportShowsErrors`, `PreviewKeepsPromise` (`ImportRunProofs`) | sets of names, groups and methods, any files and databases, any positive report limit, any number of uploads and other requests |
| `PasswordsAgree` (`ImportRunProofs`) | the same, from databases in which no user has two passwords |

Assumptions are those stated in the modules the proofs extend, nothing else. A
theorem "without" some operations has that as its only hypothesis (such as
`"reset" \notin Ops`); it is the set the property's run leaves out too or a
smaller one, and section 3 says which lock the code does not take there.

*NamedLock.* `FreshCheck` is not inductive alone. A commit of q adds `want[q]` to
what p has missed, so we need that two requests in their blocks have no key in
common: `BlockHoldsKeys` says a block holds all its keys (the loop ran to its
end), and one key has one owner (`BlocksExclude`). `NoLeakedLock` ties owners to
requests. `SortedHolding` says keys held sort before keys to come; it gives
`NoDeadlock`: take from a supposed set of waiting requests the one that waits for
the largest key. The request that holds it waits for a larger one
(`WaitedKeyGrows`), and keys are bounded, which contradicts `LeastNatural`
applied to the distance from the bound. Pool sizes need the two lemmas on
cardinalities (`PoolGrows`, `PoolShrinks`).

*RateLimiter.* The invariant adds that times are appended in order
(`LogInOrder`), that what has left a deque has expired and stays so
(`DroppedExpired`), and what the last sweep has left behind (`SweptRecently`). The
refinement needs one fact: after popping, the deque holds exactly the attempts
of the last window (`DequeIsRecent`), so its length is the count that
`SlidingWindow` decides on.

*SessionLifetime.* `TokensAge` is inductive with the order of times (`Ageing`).
Logouts need `Remembered`: a revocation is stamped with its session's absolute
end, so once the purge may take it no token of the session decodes any more; and a
logout that found a row can rely on it until then.

*OidcLogin.* `KeysFresh` says that neither an answer in hand nor the cache holds a
key that was withdrawn before it; with the age of the cache this bounds the use
of a withdrawn key. `KeyKnown` says that a forced reload comes after the token,
so its answer holds the token's key unless that was withdrawn.

*NasRegistry.* `NameGuarded` is the heart: a name that was free when a request
chose it had no settings then (`SettingsFollow`), and whoever takes it meanwhile
leaves settings behind, which the request's insert runs into. `OwnRow` says what
the lock of the id gives.

*CoaExchange.* `Trace` counts: what the NAS has carried out has used up a copy.
`Late` says of a refused request that either two copies were used up or the
session is over and nothing will be carried out any more. The registry's invariant
is kept because CoA changes none of its variables (`RegistryBeside`).

*AccountRegistry.* `CountHeld` says that a request which relies on its count holds
`countLock`, for which every other write waits, so what was counted is still true.
`NameHeld` and `StatusRead` say that past `account:{name}` an update sees role and
status as they are, since all who change them hold that name - except
`apply_mapped_role`, which is why `oidc` is left out of `AdministratorNeverLost`;
`delete` is left out because it decides on a stale role (the finding of section
3). `LinkReads` keeps a way in: what `set_oidc_subject` found about the password
stays, since none is ever taken away. `TokensIssued` gives `NoRevival`: a token's
generation is at most its account's, and at the same generation role and status
are those of the token (`EpochRead` needs every writer of the generation under
the named lock, which links and role mappings are not).

*Directory.* The heart is `StillTrue`: what a request has checked in its block -
the user exists, a group has attributes or other members - is true until it
commits. It follows from `Exclusive` (names locked by two requests are disjoint)
and from what a commit leaves alone: `Frame(L)` says that outside the locked names
`L` attributes, users and memberships stay, that the users in `L` remain members
of another's group as a whole, and that no commit puts another's user into a group
of its own. Each of the commits is shown to be framed by its locks
(`CommitKeeps`), and every check of a disjoint request survives a framed commit
(`CheckStaysTrue`). What came and went by the statements is then computed from the
checks and compared with the log (`CommitsLogged`).

*LoginSessions.* `Rests(at, pw)` says of a login or session that its password is
the one in force or its time before the last change, and that it is older than the
stamp of a change about to be committed: the stamp is read under the row lock
after every time stamp so far, and logins check the password while no change holds
the row. `JobFits` says that between entering `account-totp:{id}` and writing a
request has secret and state of the factor as they are in the row, since only
holders of that lock change them, and that the code it is about to accept is of
that secret. For `MissesLock`, `MissesCounted` says that the row counts at least
the failures since the last complete login, and that a login about to end found the
account unlocked, so that its late `clear_failures` cannot lift a lockout. For
`CodeUsedOnce`, `CounterPast` says the counter is past every code accepted for the
stored secret, and `FactorStays` that whoever shows a code at the login meets an
active factor, so a secret being enrolled is confirmed by one request at a time.

What came and went of duplicate rows: `Inherited` gives every membership with several
rows after a step one with at least as many before it, and no two the same one; so
the rows beyond the first (`Surplus`) after the step inject into those before it,
and cardinalities of finite sets do the rest (`SurplusInherited`).

*UserRecord.* A lemma per operator says what it does to the properties: the result
is a record, and `Keeps` what the record was - one password stays one, a true
type stays true, the configured methods stay, locked or not (`CompletedIs`,
`TypeChangedKeeps`, `WithSubjectKeeps` and their like). `KeepsTwice` composes them.

*ImportRun.* `Holds` speaks of the time between the locks of a row and its commit: the
name is locked and no one else changes it, so what the transaction has made of the
record keeps the record that is still in the database, or makes a new user where
there still is none. `Progress` and `Named` tie the row, the names seen and the
locks together; two rows of one upload cannot have one name. Each commit, of the
import or of another request, is then `Sound` for every name, from which
`NoSecondPassword`, `TypesStayTrue` and `LocksKeepMethods` follow. The theorems start
from any databases: that nobody has two passwords at the start is the hypothesis of
`PasswordsAgree` alone, and what the code promises by itself is that no step gives
the first user a second one. `ReportShowsErrors` counts: one more row
is one more error shown as long as there is room or another row to drop (`AddRowIs`),
and at most the row at hand is missing from the report (`Accounted`). For `PreviewKept`,
`PromiseInv` says what a preview has accepted is accepted by the very checks of the
import as long as no table changes (`PromiseStands`), and that a write which redeems
it finds under its locks and on its snapshot what the preview found (`FindsPromised`,
`Redeemed`).

**What the proofs changed in the models.** `CASE` with guards that overlap is a choice in
TLA+, which TLC resolves by order and a proof may not; these are chains of `IF` now.
`NoNewDuplicates` counted rows with a fold, about which nothing can be proved without
induction over data; it is a cardinality now. The databases an import starts from
had been assumed free of double passwords; that assumption turned out to be needed
for one theorem only and is gone from the module.

**Only model-checked.** Liveness is beyond the prover: `EveryBlockEnds`,
`RevocationsForgotten`, `EveryAttemptLogged`. Every other property of a passing run is
the statement of a theorem.

## 5 Not modelled, and why

Further attributes, VLANs, expiry dates and their formats (the properties tell
apart which rows exist, and of values only passwords, types and locks); user
names, mail and language of accounts; hashing, signing and encryption (a token is
a record nobody forges); the syntax of CSV and the export - the group cell escapes
the whole cell (`_safe`) but unescapes every piece (`importexport.py:217`), so a
group name like `'=x` does not come back as it went out, against
`importexport.py:335-341`; several processes sharing one limiter or one cache of
keys (the code says both count per process); state, nonce and PKCE of the OIDC
start (compared once, with no state on the server); FreeRADIUS itself, which only
reads the tables and appends accounting rows. Settings, attribute rules, masking,
search and pagination, the authentication log, statistics, schemas, the HTTP
boundary, migrations and the frontend are reads, pure functions or wiring.

## 6 Plan

Done: the eight groups of modules above with their runs, and proofs of every safety
and action property these runs check.

Models that may follow: pure operators against reference definitions on bounded
inputs (`fold` and `is_case_variant`, MAC normalisation, group lists of the CSV,
masking and unmasking of attributes, keyset pagination).
