----------------------------- MODULE UserRecord ------------------------------
(***************************************************************************)
(* What the manager keeps about one RADIUS user or device, and how the     *)
(* operations of services/users.py change it.                              *)
(*                                                                         *)
(* A record stands for the user's rows in radcheck and mgr_subject:        *)
(*   kind     mgr_subject.subject_type, "none" without a row there         *)
(*   ctype    mgr_subject.credential_type                                  *)
(*   secrets  the password attributes in radcheck, and whose password      *)
(*            each holds: the one from before, a newly set one or, for     *)
(*            devices, the name itself                                     *)
(*   reject   whether there is an Auth-Type row with Reject                *)
(*   auth     the values of the other Auth-Type rows                       *)
(*   memory   disabled_state: the Auth-Type values a lock has replaced     *)
(* Reply attributes, the VLAN, the expiry date and the descriptive fields  *)
(* are assignments without a condition and left out.                       *)
(***************************************************************************)
EXTENDS TLC

CONSTANTS Method,   \* values of Auth-Type other than Reject
          Default   \* setting default_credential_type

None == "none"

CredentialType == {"cleartext", "nt", "both"}
Attribute      == {"Cleartext-Password", "NT-Password", "Crypt-Password"}
Password       == {"old", "new", "name"}

ASSUME DefaultAssumption == Default \in CredentialType

Record ==
  [kind: {None, "user", "device"}, ctype: CredentialType,
   secrets: UNION {[s -> Password] : s \in SUBSET Attribute},
   reject: BOOLEAN, auth: SUBSET Method, memory: SUBSET Method]

NoSecrets == [a \in {} |-> "old"]

\* A name without rows.
Blank == [kind |-> None, ctype |-> Default, secrets |-> NoSecrets,
          reject |-> FALSE, auth |-> {}, memory |-> {}]

Has(r, a) == a \in DOMAIN r.secrets

(* CREDENTIAL_ATTRIBUTES                                                    *)
Attributes(t) == CASE t = "cleartext" -> {"Cleartext-Password"}
                   [] t = "nt"        -> {"NT-Password"}
                   [] t = "both"      -> {"Cleartext-Password", "NT-Password"}

\* The type the attributes of a record without metadata amount to.
TypeOfSecrets(r) ==
  LET found == DOMAIN r.secrets \cap Attributes("both")
  IN IF found = {} THEN Default ELSE CHOOSE t \in CredentialType : Attributes(t) = found

(* _ensure_subject(): new metadata take over the type of the secrets.       *)
WithSubject(r) ==
  IF r.kind # None THEN r ELSE [r EXCEPT !.kind = "user", !.ctype = TypeOfSecrets(r)]

(* SubjectRepository.ensure(): new metadata have the column's default.      *)
WithBareSubject(r, kind) ==
  IF r.kind # None THEN r ELSE [r EXCEPT !.kind = kind, !.ctype = "both"]

\* Mutant of Written: attributes outside the type stay.
WrittenBeside(r, password, t) ==
  [r EXCEPT !.secrets = [a \in Attributes(t) |-> password] @@ @]

(* _write_credentials(): all password attributes outside the type go, those *)
(* of the type hold the one password.                                       *)
Written(r, password, t) == [r EXCEPT !.secrets = [a \in Attributes(t) |-> password]]

(* _set_password_locked(): without a type of its own the payload keeps the  *)
(* one in the metadata.                                                     *)
PasswordSet(r, t) ==
  LET s    == WithSubject(r)
      type == IF t = None THEN s.ctype ELSE t
  IN [Written(s, "new", type) EXCEPT !.ctype = type]

(* check_credential_change(): what the preview of an import checks.         *)
PreviewNeedsPassword(r, t) ==
  "Cleartext-Password" \in Attributes(t) /\ ~Has(r, "Cleartext-Password")

(* The two refusals of _change_credential_type().                           *)
NeedsPassword(r, t) ==
  /\ ~Has(r, "Cleartext-Password")
  /\ "Cleartext-Password" \in Attributes(t) \/ ~Has(r, "NT-Password")

\* Mutant of TypeChanged: a type without clear text leaves the clear text there.
TypeChangedOnly(r, t) == [r EXCEPT !.ctype = t]

(* _change_credential_type(): the NT hash is derived from the clear text    *)
(* where there is one; what the type does not provide for goes.             *)
TypeChanged(r, t) ==
  LET source(a) == IF Has(r, "Cleartext-Password") THEN "Cleartext-Password" ELSE a
  IN [r EXCEPT !.ctype = t, !.secrets = [a \in Attributes(t) |-> r.secrets[source(a)]]]

\* Mutant of Disabled: a second lock forgets what the first one remembered.
DisabledAnew(r) ==
  [WithSubject(r) EXCEPT !.memory = r.auth, !.auth = {}, !.reject = TRUE]

(* _set_disabled_locked(TRUE): a lock remembers the Auth-Type rows it       *)
(* replaces; a second one finds none and leaves the memory alone.           *)
Disabled(r) ==
  [WithSubject(r) EXCEPT !.memory = IF r.auth = {} THEN @ ELSE r.auth,
                         !.auth = {}, !.reject = TRUE]

(* _set_disabled_locked(FALSE): only the Reject rows go; what the lock      *)
(* replaced comes back where nothing else is left.                          *)
Enabled(r) ==
  [WithSubject(r) EXCEPT !.auth = IF r.auth = {} THEN r.memory ELSE @,
                         !.memory = {}, !.reject = FALSE]

(* _rename(): a device whose password is its name gets the new name as its  *)
(* password; any other record keeps its password, whatever it was.          *)
MacIsPassword(r) ==
  /\ r.kind = "device"
  /\ LET a == IF Has(r, "Cleartext-Password") THEN "Cleartext-Password" ELSE "NT-Password"
     IN Has(r, a) /\ r.secrets[a] = "name"

Renamed(r) ==
  IF MacIsPassword(r) THEN Written(r, "name", r.ctype)
  ELSE [r EXCEPT !.secrets =
          [a \in DOMAIN r.secrets |->
             IF r.secrets[a] = "name" THEN "old" ELSE r.secrets[a]]]

-----------------------------------------------------------------------------
\* What the properties speak about.

\* All secrets of the user are one password.
OneSecret(r) == \A a, b \in DOMAIN r.secrets : r.secrets[a] = r.secrets[b]

\* The type shown for the user is the one its secrets have.
TypeTrue(r) == r.kind # None /\ DOMAIN r.secrets = Attributes(r.ctype)

\* The Auth-Type values configured for the user, locked or not.
Configured(r) == IF r.auth = {} THEN r.memory ELSE r.auth
=============================================================================
