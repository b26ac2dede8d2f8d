----------------------------- MODULE MCImportRun -----------------------------
(* ImportRun for TLC.                                                       *)
EXTENDS ImportRun

CONSTANTS n1, n2, g1, pap

\* Legacy records: without metadata, with a foreign hash, locked beside a method,
\* and a device whose name is its password.
NtOnly  == [Blank EXCEPT !.secrets = "NT-Password" :> "old", !.auth = {pap}]
Crypt   == [Blank EXCEPT !.kind = "user", !.secrets = "Crypt-Password" :> "old"]
Plain   == [Written(Blank, "old", "both") EXCEPT !.kind = "user", !.ctype = "both"]
Beside  == [Plain EXCEPT !.auth = {pap}, !.reject = TRUE]
Device  == [Written(Blank, "name", "cleartext") EXCEPT !.kind = "device", !.ctype = "cleartext"]

\* The group has attributes or consists of its members.
MCInitialDbs ==
  {[user |-> (n1 :> u) @@ (n2 :> Plain), member |-> x[1], policy |-> g1 :> x[2]] :
     u \in {Blank, NtOnly, Crypt, Beside, Device},
     x \in {<<{}, "reject">>, <<{<<n1, g1>>}, None>>} \cup
           {<<{<<n1, g1>>, <<n2, g1>>}, p>> : p \in {None, "reject"}}}

Line(n, password, ctype, groups, disabled) ==
  [name |-> n, form |-> "fine", password |-> password, ctype |-> ctype,
   groups |-> groups, disabled |-> disabled]

Bad(form) == [Line(n1, FALSE, None, {}, {}) EXCEPT !.form = form]

\* Passwords, types, memberships and locks of a record and its neighbour; names
\* twice; lines in error after more lines than the report keeps.
UserFiles ==
  {<<Line(n1, TRUE, None, {{g1}}, {TRUE}), Line(n2, TRUE, "nt", {}, {})>>,
   <<Line(n1, FALSE, "nt", {}, {FALSE}), Line(n1, TRUE, None, {}, {})>>,
   <<Line(n1, FALSE, "both", {{}}, {}), Line(n2, FALSE, None, {{}}, {FALSE})>>,
   <<Line(n2, TRUE, None, {{g1}}, {}), Line(n1, TRUE, "cleartext", {}, {}),
     Bad("unreadable")>>,
   <<Bad("invalid"), Line(n1, TRUE, None, {}, {})>>}

MCFiles ==
  [kind: {"user"}, rows: UserFiles] \cup
  [kind: {"device"}, rows: {<<Line(n1, FALSE, None, {}, {FALSE}), Line(n2, FALSE, None, {}, {})>>}]
=============================================================================
