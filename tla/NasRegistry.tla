----------------------------- MODULE NasRegistry -----------------------------
(***************************************************************************)
(* services/nas.py: the NAS clients (FreeRADIUS' table nas, whose names    *)
(* are not unique) and the settings the manager keeps beside them under    *)
(* the same name (mgr_nas_extra, whose names are).                         *)
(*                                                                         *)
(* An operation reads on its snapshot (Begin...) and commits later.        *)
(* Changing and deleting a NAS hold the named lock of its id, so that only *)
(* operations on other ids, and creations, come in between.                *)
(***************************************************************************)
EXTENDS Integers, FiniteSets

CONSTANTS Id,      \* nas.id, never used twice
          Name,    \* nas.nasname: addresses and networks
          Legacy,  \* ids that FreeRADIUS' administrator has entered himself
          Proc,    \* requests to the NAS endpoints under way at a time
          None

ASSUME NameAssumption == None \notin Id \cup Name /\ Legacy \subseteq Id

VARIABLES
  nas,    \* the name of each NAS, None without a row
  spent,  \* ids that have been given out
  extra,  \* settings of each name, None without a row
  op      \* the operation of each request

nasVars == <<nas, spent, extra, op>>

\* A secret is remembered by the NAS it was entered for.
Settings == [enabled : BOOLEAN, secret : Id \cup {None}]
Blank    == [enabled |-> FALSE, secret |-> None]

ASSUME SettingsAssumption == None \notin Settings

NoOp == [kind |-> "none", id |-> None, name |-> None, seen |-> FALSE]

Taken(n) == \E i \in Id : nas[i] = n

NasInit ==
  /\ nas \in [Id -> Name \cup {None}]
  /\ \A i \in Id : nas[i] # None => i \in Legacy /\ \A j \in Id \ {i} : nas[j] # nas[i]
  /\ spent = {i \in Id : nas[i] # None}
  /\ extra = [n \in Name |-> None]
  /\ op = [p \in Proc |-> NoOp]

\* p is idle and holds the lock of id i; a new id is nobody else's.
Free(p, i) == op[p] = NoOp /\ \A q \in Proc : op[q].id # i

Begin(p, kind, i, n) ==
  /\ op' = [op EXCEPT ![p] = [kind |-> kind, id |-> i, name |-> n, seen |-> extra[n] # None]]
  /\ UNCHANGED <<nas, spent, extra>>

-----------------------------------------------------------------------------
(* create: the name must be free on the snapshot.                           *)
BeginCreate(p, i, n) ==
  /\ Free(p, i) /\ i \notin spent
  /\ ~Taken(n)
  /\ Begin(p, "create", i, n)

\* What the schema lets through: a switched-on CoA brings its secret.
Created(i) == {Blank, [enabled |-> FALSE, secret |-> i], [enabled |-> TRUE, secret |-> i]}

\* Mutant of Clashes: the row that is in the way is overwritten.
ClashesNever(p, n) == FALSE

\* upsert inserts what the snapshot does not hold: the unique name may object.
Clashes(p, n) == ~op[p].seen /\ extra[n] # None

Over(i, old, new) ==
  IF old = None THEN new
  ELSE [new EXCEPT !.secret = IF @ = None THEN old.secret ELSE @]

Create(p) ==
  LET i == op[p].id  n == op[p].name IN
  /\ op[p].kind = "create"
  /\ ~Clashes(p, n)
  /\ \E s \in Created(i) : extra' = [extra EXCEPT ![n] = Over(i, @, s)]
  /\ nas' = [nas EXCEPT ![i] = n]
  /\ spent' = spent \cup {i}
  /\ op' = [op EXCEPT ![p] = NoOp]

-----------------------------------------------------------------------------
(* update, under the lock: a new name must be free on the snapshot.         *)
BeginUpdate(p, i, n) ==
  /\ Free(p, i) /\ nas[i] # None
  /\ n # nas[i] => ~Taken(n)
  /\ Begin(p, "update", i, n)

\* Payloads: enabled and secret, None where not sent; clear forbids enabling.
Change(i) ==
  {c \in [enabled : BOOLEAN \cup {None}, secret : {None, i}, clear : BOOLEAN] :
     c.clear => c.enabled # TRUE}

\* Mutant of Changed: the secret goes, the switch stays.
ChangedSwitchStays(s, c) ==
  [enabled |-> IF c.enabled = None THEN s.enabled ELSE c.enabled,
   secret  |-> IF c.clear THEN None ELSE IF c.secret = None THEN s.secret ELSE c.secret]

\* upsert, and what clear_coa_secret does after it.
Changed(s, c) ==
  IF c.clear THEN Blank
  ELSE [enabled |-> IF c.enabled = None THEN s.enabled ELSE c.enabled,
        secret  |-> IF c.secret = None THEN s.secret ELSE c.secret]

\* Mutant of Renamed: the settings stay behind under the old name.
RenamedNot(old, new) == extra

\* extra.rename
Renamed(old, new) ==
  IF old = new \/ extra[old] = None THEN extra
  ELSE [extra EXCEPT ![new] = extra[old], ![old] = None]

(* A row of settings under the new name is in the way of the renamed row,   *)
(* or of the one that a NAS without settings gets.                          *)
Obstructed(p, old, new) ==
  IF old # new /\ extra[old] # None THEN extra[new] # None ELSE Clashes(p, new)

EnableAllowed(c, s) == c.enabled = TRUE /\ c.secret = None => s # None /\ s.secret # None

Update(p) ==
  LET i == op[p].id  old == nas[i]  new == op[p].name IN
  /\ op[p].kind = "update"
  /\ ~Obstructed(p, old, new)
  /\ \E c \in Change(i) :
       LET s == Renamed(old, new)[new] IN
       /\ EnableAllowed(c, s)
       /\ extra' = [Renamed(old, new) EXCEPT ![new] = Changed(IF s = None THEN Blank ELSE s, c)]
  /\ nas' = [nas EXCEPT ![i] = new]
  /\ op' = [op EXCEPT ![p] = NoOp]
  /\ UNCHANGED spent

-----------------------------------------------------------------------------
(* delete, under the lock: the row by its id, the settings by the name.     *)
BeginDelete(p, i) ==
  /\ Free(p, i) /\ nas[i] # None
  /\ Begin(p, "delete", i, nas[i])

Delete(p) ==
  /\ op[p].kind = "delete"
  /\ nas'   = [nas EXCEPT ![op[p].id] = None]
  /\ extra' = [extra EXCEPT ![op[p].name] = None]
  /\ op' = [op EXCEPT ![p] = NoOp]
  /\ UNCHANGED spent

(* A conflict, a missing secret, a clash of unique names: rolled back.      *)
GiveUp(p) ==
  /\ op[p] # NoOp
  /\ op' = [op EXCEPT ![p] = NoOp]
  /\ UNCHANGED <<nas, spent, extra>>

NasStep(p) ==
  \/ \E i \in Id : BeginDelete(p, i) \/ (\E n \in Name : BeginCreate(p, i, n) \/ BeginUpdate(p, i, n))
  \/ Create(p) \/ Update(p) \/ Delete(p) \/ GiveUp(p)

NasNext == \E p \in Proc : NasStep(p)

NasSpec == NasInit /\ [][NasNext]_nasVars

-----------------------------------------------------------------------------
(* Types; and CoA is never switched on without a secret, whatever order it  *)
(* is enabled, cleared and entered again in.                                *)
NasTypeOK ==
  /\ nas \in [Id -> Name \cup {None}]
  /\ spent \subseteq Id
  /\ extra \in [Name -> Settings \cup {None}]
  /\ op \in [Proc -> [kind : {"none", "create", "update", "delete"}, id : Id \cup {None},
                      name : Name \cup {None}, seen : BOOLEAN]]
  /\ \A n \in Name : extra[n] # None /\ extra[n].enabled => extra[n].secret # None

(* "error.nas_exists": no two NAS have one name, although creating looks    *)
(* without a lock, renaming locks the id and the table nas has no unique    *)
(* constraint - the one on the settings' names is what protects it.         *)
NamesUnique == \A i, j \in Id : nas[i] # None /\ nas[i] = nas[j] => i = j

(* Settings never outlive or change their NAS: every row belongs to a NAS   *)
(* of that name, and a CoA secret was entered for it - after renaming,      *)
(* deleting and creating again under the same name in any order.            *)
SettingsFollow ==
  \A n \in Name : extra[n] # None =>
    \E i \in Id : nas[i] = n /\ extra[n].secret \in {i, None}

=============================================================================
