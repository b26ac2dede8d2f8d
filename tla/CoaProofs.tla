------------------------------ MODULE CoaProofs ------------------------------
(***************************************************************************)
(* What the log says of a CoA is true, and the registry keeps its order    *)
(* beside it: for any number of requests, sessions, attempts and NAS.      *)
(***************************************************************************)
EXTENDS CoaExchange, SequenceTheorems, TLAPS

(* The registry of NAS.                                                     *)

\* A request that works on a NAS has its id to itself, and the row is there -
\* or, for a new one, is not yet.
OwnRow ==
  /\ \A i \in Id : nas[i] # None => i \in spent
  /\ \A p \in Proc : op[p].kind # "none" =>
       /\ op[p].id \in Id /\ op[p].name \in Name
       /\ op[p].kind = "create" => op[p].id \notin spent
       /\ op[p].kind \in {"update", "delete"} => nas[op[p].id] # None
       /\ op[p].kind = "delete" => op[p].name = nas[op[p].id]
  /\ \A p, q \in Proc :
       op[p].kind # "none" /\ op[q].kind # "none" /\ p # q => op[p].id # op[q].id

\* A name that was free when a request chose it has no settings on the request's
\* snapshot; whoever takes it meanwhile leaves settings that are in the way.
NameGuarded ==
  \A p \in Proc :
    op[p].kind = "create" \/ (op[p].kind = "update" /\ op[p].name # nas[op[p].id]) =>
      /\ ~op[p].seen
      /\ \A i \in Id : nas[i] = op[p].name => extra[op[p].name] # None

IInv == NasTypeOK /\ NamesUnique /\ SettingsFollow /\ OwnRow /\ NameGuarded

-----------------------------------------------------------------------------
(* The invariant holds for what FreeRADIUS' administrator has entered.      *)
LEMMA NasInitEstablishes == NasInit => IInv
BY NameAssumption
DEF NasInit, IInv, NasTypeOK, NamesUnique, SettingsFollow, OwnRow, NameGuarded, NoOp, Settings

(* Every step of the registry keeps the invariant.                          *)
LEMMA NasStepPreserves == IInv /\ [NasNext]_nasVars => IInv'
<1>. SUFFICES ASSUME IInv, [NasNext]_nasVars PROVE IInv'
  OBVIOUS
<1>. USE NameAssumption DEF IInv
<1>1. ASSUME NEW p \in Proc, NEW i \in Id, BeginDelete(p, i) PROVE IInv'
  <2>1. NasTypeOK'
    BY <1>1 DEF BeginDelete, Begin, Free, NoOp, NasTypeOK, OwnRow, Settings
  <2>2. NamesUnique'
    BY <1>1 DEF BeginDelete, Begin, Free, NoOp, NamesUnique, NasTypeOK, OwnRow, SettingsFollow, NameGuarded
  <2>3. SettingsFollow'
    BY <1>1 DEF BeginDelete, Begin, Free, NoOp, SettingsFollow, NasTypeOK, OwnRow, NameGuarded, NamesUnique
  <2>4. OwnRow'
    BY <1>1 DEF BeginDelete, Begin, Free, NoOp, OwnRow, NasTypeOK, SettingsFollow, NameGuarded, NamesUnique
  <2>5. NameGuarded'
    BY <1>1 DEF BeginDelete, Begin, Free, NoOp, NameGuarded, NasTypeOK, OwnRow, SettingsFollow, NamesUnique
  <2>. QED  BY <2>1, <2>2, <2>3, <2>4, <2>5
<1>2. ASSUME NEW p \in Proc, NEW i \in Id, NEW n \in Name, BeginCreate(p, i, n) PROVE IInv'
  <2>1. NasTypeOK'
    BY <1>2 DEF BeginCreate, Begin, Free, Taken, NoOp, NasTypeOK, OwnRow, Settings
  <2>2. NamesUnique'
    BY <1>2 DEF BeginCreate, Begin, Free, Taken, NoOp, NamesUnique, NasTypeOK, OwnRow, SettingsFollow, NameGuarded
  <2>3. SettingsFollow'
    BY <1>2 DEF BeginCreate, Begin, Free, Taken, NoOp, SettingsFollow, NasTypeOK, OwnRow, NameGuarded, NamesUnique
  <2>4. OwnRow'
    BY <1>2 DEF BeginCreate, Begin, Free, Taken, NoOp, OwnRow, NasTypeOK, SettingsFollow, NameGuarded, NamesUnique
  <2>5. NameGuarded'
    BY <1>2 DEF BeginCreate, Begin, Free, Taken, NoOp, NameGuarded, NasTypeOK, OwnRow, SettingsFollow, NamesUnique
  <2>. QED  BY <2>1, <2>2, <2>3, <2>4, <2>5
<1>3. ASSUME NEW p \in Proc, NEW i \in Id, NEW n \in Name, BeginUpdate(p, i, n) PROVE IInv'
  <2>1. NasTypeOK'
    BY <1>3 DEF BeginUpdate, Begin, Free, Taken, NoOp, NasTypeOK, OwnRow, Settings
  <2>2. NamesUnique'
    BY <1>3 DEF BeginUpdate, Begin, Free, Taken, NoOp, NamesUnique, NasTypeOK, OwnRow, SettingsFollow, NameGuarded
  <2>3. SettingsFollow'
    BY <1>3 DEF BeginUpdate, Begin, Free, Taken, NoOp, SettingsFollow, NasTypeOK, OwnRow, NameGuarded, NamesUnique
  <2>4. OwnRow'
    BY <1>3 DEF BeginUpdate, Begin, Free, Taken, NoOp, OwnRow, NasTypeOK, SettingsFollow, NameGuarded, NamesUnique
  <2>5. NameGuarded'
    BY <1>3 DEF BeginUpdate, Begin, Free, Taken, NoOp, NameGuarded, NasTypeOK, OwnRow, SettingsFollow, NamesUnique
  <2>. QED  BY <2>1, <2>2, <2>3, <2>4, <2>5
<1>4. ASSUME NEW p \in Proc, Create(p) PROVE IInv'
  <2>. DEFINE i == op[p].id  n == op[p].name
  <2>1. /\ i \in Id /\ n \in Name /\ i \notin spent /\ nas[i] = None
        /\ \A q \in Proc \ {p} : op[q].kind # "none" => op[q].id # i
    BY <1>4 DEF Create, OwnRow
  <2>2. extra[n] = None /\ \A j \in Id : nas[j] # n
    BY <1>4, <2>1 DEF Create, Clashes, NameGuarded
  <2>3. PICK s \in Created(i) : extra' = [extra EXCEPT ![n] = s]
    BY <1>4, <2>2 DEF Create, Over
  <2>4. s \in Settings /\ s # None /\ s.secret \in {i, None} /\ (s.enabled => s.secret # None)
    <3>1. i # None
      BY <2>1
    <3>2. s \in Settings /\ s.secret \in {i, None} /\ (s.enabled => s.secret # None)
      <4>1. /\ Blank \in Settings /\ Blank.secret = None /\ ~Blank.enabled
            /\ \A e \in BOOLEAN : LET r == [enabled |-> e, secret |-> i] IN
                 r \in Settings /\ r.secret = i
        BY <2>1 DEF Blank, Settings
      <4>. QED  BY <3>1, <4>1 DEF Created
    <3>. QED  BY <3>2, SettingsAssumption
  <2>5. /\ nas' = [nas EXCEPT ![i] = n] /\ spent' = spent \cup {i}
        /\ op' = [op EXCEPT ![p] = NoOp]
    BY <1>4 DEF Create
  <2>. HIDE DEF i, n
  <2>6. NasTypeOK'
    BY <2>1, <2>3, <2>4, <2>5 DEF NasTypeOK, NoOp
  <2>7. NamesUnique'
    BY <2>1, <2>2, <2>5 DEF NasTypeOK, NamesUnique
  <2>8. SettingsFollow'
    BY <2>1, <2>2, <2>3, <2>4, <2>5 DEF NasTypeOK, SettingsFollow
  <2>9. OwnRow'
    BY <2>1, <2>5 DEF NasTypeOK, OwnRow, NoOp
  <2>10. NameGuarded'
    BY <2>1, <2>2, <2>3, <2>4, <2>5 DEF NasTypeOK, OwnRow, NameGuarded, NoOp
  <2>. QED  BY <2>6, <2>7, <2>8, <2>9, <2>10
<1>5. ASSUME NEW p \in Proc, Update(p) PROVE IInv'
  <2>. DEFINE i == op[p].id  old == nas[i]  new == op[p].name
  <2>1. /\ i \in Id /\ new \in Name /\ old \in Name /\ op[p].kind = "update" /\ i \in spent
        /\ \A q \in Proc \ {p} : op[q].kind # "none" => op[q].id # i
    BY <1>5 DEF Update, OwnRow, NasTypeOK
  <2>2. old # new => extra[new] = None /\ \A j \in Id : nas[j] # new
    BY <1>5, <2>1 DEF Update, Obstructed, Clashes, NameGuarded
  <2>3. \A j \in Id \ {i} : nas[j] # new
    BY <2>1, <2>2 DEF NamesUnique
  <2>4. Renamed(old, new)[new] = extra[old]
    BY <2>1, <2>2 DEF Renamed, NasTypeOK
  <2>5. PICK c \in Change(i) :
          /\ EnableAllowed(c, extra[old])
          /\ extra' = [Renamed(old, new) EXCEPT
                         ![new] = Changed(IF extra[old] = None THEN Blank ELSE extra[old], c)]
    BY <1>5, <2>4 DEF Update
  <2>. DEFINE t == Changed(IF extra[old] = None THEN Blank ELSE extra[old], c)
  <2>6. extra' = [m \in Name |-> IF m = new THEN t ELSE IF m = old THEN None ELSE extra[m]]
    BY <2>1, <2>2, <2>5 DEF Renamed, NasTypeOK
  <2>7. extra[old] # None =>
          /\ extra[old] \in Settings /\ extra[old].secret \in {i, None}
          /\ extra[old].enabled => extra[old].secret # None
    BY <2>1 DEF NasTypeOK, SettingsFollow, NamesUnique
  <2>8. t \in Settings /\ t # None /\ t.secret \in {i, None} /\ (t.enabled => t.secret # None)
    <3>1. i # None
      BY <2>1
    <3>. DEFINE r == IF extra[old] = None THEN Blank ELSE extra[old]
    <3>2. r \in Settings /\ r.secret \in {i, None} /\ (r.enabled => r.secret # None)
      BY <2>7 DEF Blank, Settings
    <3>3. c.enabled \in BOOLEAN \cup {None} /\ c.secret \in {i, None}
      BY DEF Change
    <3>4. c.enabled = TRUE /\ c.secret = None => r.secret # None
      BY <2>5 DEF EnableAllowed
    <3>5. CASE c.clear
      <4>1. t = Blank
        BY <3>5 DEF Changed
      <4>2. Blank \in Settings /\ Blank.secret = None /\ ~Blank.enabled
        BY DEF Blank, Settings
      <4>. QED  BY <4>1, <4>2, SettingsAssumption
    <3>6. CASE ~c.clear
      <4>1. t = [enabled |-> IF c.enabled = None THEN r.enabled ELSE c.enabled,
                 secret  |-> IF c.secret = None THEN r.secret ELSE c.secret]
        BY <3>6 DEF Changed
      <4>. HIDE DEF r, t
      <4>2. t \in Settings /\ t.secret \in {i, None}
        BY <2>1, <3>2, <3>3, <4>1 DEF Settings
      <4>3. t.enabled => t.secret # None
        BY <3>1, <3>2, <3>3, <3>4, <4>1
      <4>. QED  BY <4>2, <4>3, SettingsAssumption
    <3>. QED  BY <3>5, <3>6
  <2>9. /\ nas' = [nas EXCEPT ![i] = new] /\ spent' = spent
        /\ op' = [op EXCEPT ![p] = NoOp]
    BY <1>5 DEF Update
  <2>. HIDE DEF t, i, new
  <2>10. NasTypeOK'
    BY <2>1, <2>6, <2>8, <2>9 DEF NasTypeOK, NoOp
  <2>11. NamesUnique'
    BY <2>1, <2>3, <2>9 DEF NasTypeOK, NamesUnique
  <2>12. SettingsFollow'
    BY <2>1, <2>6, <2>8, <2>9 DEF NasTypeOK, NamesUnique, SettingsFollow
  <2>13. OwnRow'
    BY <2>1, <2>9 DEF NasTypeOK, OwnRow, NoOp
  <2>14. NameGuarded'
    BY <2>1, <2>6, <2>8, <2>9 DEF NasTypeOK, NamesUnique, OwnRow, NameGuarded, NoOp
  <2>. QED  BY <2>10, <2>11, <2>12, <2>13, <2>14
<1>6. ASSUME NEW p \in Proc, Delete(p) PROVE IInv'
  <2>1. NasTypeOK'
    BY <1>6 DEF Delete, NoOp, NasTypeOK, OwnRow, Settings
  <2>2. NamesUnique'
    BY <1>6 DEF Delete, NoOp, NamesUnique, NasTypeOK, OwnRow, SettingsFollow, NameGuarded
  <2>3. SettingsFollow'
    BY <1>6 DEF Delete, NoOp, SettingsFollow, NasTypeOK, OwnRow, NameGuarded, NamesUnique
  <2>4. OwnRow'
    BY <1>6 DEF Delete, NoOp, OwnRow, NasTypeOK, SettingsFollow, NameGuarded, NamesUnique
  <2>5. NameGuarded'
    BY <1>6 DEF Delete, NoOp, NameGuarded, NasTypeOK, OwnRow, SettingsFollow, NamesUnique
  <2>. QED  BY <2>1, <2>2, <2>3, <2>4, <2>5
<1>7. ASSUME NEW p \in Proc, GiveUp(p) PROVE IInv'
  <2>1. NasTypeOK'
    BY <1>7 DEF GiveUp, NoOp, NasTypeOK, OwnRow, Settings
  <2>2. NamesUnique'
    BY <1>7 DEF GiveUp, NoOp, NamesUnique, NasTypeOK, OwnRow, SettingsFollow, NameGuarded
  <2>3. SettingsFollow'
    BY <1>7 DEF GiveUp, NoOp, SettingsFollow, NasTypeOK, OwnRow, NameGuarded, NamesUnique
  <2>4. OwnRow'
    BY <1>7 DEF GiveUp, NoOp, OwnRow, NasTypeOK, SettingsFollow, NameGuarded, NamesUnique
  <2>5. NameGuarded'
    BY <1>7 DEF GiveUp, NoOp, NameGuarded, NasTypeOK, OwnRow, SettingsFollow, NamesUnique
  <2>. QED  BY <2>1, <2>2, <2>3, <2>4, <2>5
<1>8. CASE UNCHANGED nasVars
  BY <1>8 DEF nasVars, NasTypeOK, NamesUnique, SettingsFollow, OwnRow, NameGuarded
<1>. QED  BY <1>1, <1>2, <1>3, <1>4, <1>5, <1>6, <1>7, <1>8 DEF NasNext, NasStep

(* For any number of NAS, names and requests: the registry alone keeps its  *)
(* invariant; what it is worth beside a CoA is stated further down.         *)
THEOREM RegistryInvariant == NasSpec => []IInv
BY NasInitEstablishes, NasStepPreserves, PTL DEF NasSpec

-----------------------------------------------------------------------------
(* The CoA exchange.                                                        *)

\* What answers and entries say.
Word == {"DisconnectACK", "CoAACK", "NAK", "timeout", "error",
         "success", "unexpected", "unconfigured"}

CoaState ==
  [pc : {"idle", "waiting", "decided", "invalid", "over", "lost"}, sess : Session \cup {None},
   action : Action \cup {None}, sent : Nat, code : Word \cup {None}]

CoaTypeInv ==
  /\ alive   \in [Session -> BOOLEAN]
  /\ coa     \in [Req -> CoaState]
  /\ packets \in [Req -> Nat]
  /\ replies \in [Req -> SUBSET Word]
  /\ done    \in [Req -> BOOLEAN]
  /\ log     \in [Req -> Seq(Word)]

Entries(r) == {log[r][i] : i \in DOMAIN log[r]}

\* A request that was not sent has left no trace; one that is under way has its
\* session, and what the NAS has carried out has used up a copy of the packet.
Trace ==
  \A r \in Req :
    /\ coa[r].pc = "idle" => packets[r] = 0 /\ replies[r] = {} /\ ~done[r] /\ log[r] = <<>>
    /\ packets[r] > 0 \/ coa[r].pc \in {"waiting", "decided"} =>
         coa[r].sess \in Session /\ coa[r].action \in Action
    /\ packets[r] <= coa[r].sent
    /\ done[r] => packets[r] + 1 <= coa[r].sent

\* The request has got this answer, or may still get it.
Answered(r, code) == code \in replies[r] \/ (coa[r].pc = "decided" /\ coa[r].code = code)

\* Only what was carried out is acknowledged with the code of its kind.
AckTrue ==
  /\ \A r \in Req : coa[r].action \in Action /\ Answered(r, Ack[coa[r].action]) => done[r]
  /\ SuccessMeansDone

\* A request that was carried out and is answered with NAK was sent twice; one
\* that was not will not be, for its session is over.
Late(r) == IF done[r] THEN packets[r] + 2 <= coa[r].sent
           ELSE coa[r].sess \in Session /\ ~alive[coa[r].sess]

NakTrue ==
  /\ \A r \in Req : Answered(r, "NAK") => Late(r)
  /\ \A r \in Req : "NAK" \in Entries(r) => Late(r)

CoaInv == CoaTypeInv /\ Trace /\ AckTrue /\ NakTrue

-----------------------------------------------------------------------------
(* The invariant holds before the first request.                            *)
LEMMA CoaInitEstablishes == Init => CoaInv
BY DEF Init, NoCoa, CoaInv, CoaTypeInv, CoaState, Trace, AckTrue, NakTrue, SuccessMeansDone,
       Answered, Entries

(* The two acknowledgements are told apart.                                 *)
LEMMA AcksDiffer ==
  /\ \A a \in Action : Ack[a] \in Word /\ Ack[a] \notin {"NAK", "timeout", "error", "unconfigured"}
  /\ \A a, b \in Action : Ack[a] = Ack[b] => a = b
<1>1. /\ Ack["disconnect"] = "DisconnectACK" /\ Ack["coa"] = "CoAACK"
      /\ Action = {"disconnect", "coa"}
  BY DEF Ack, Action
<1>2. "DisconnectACK" \in Word /\ "CoAACK" \in Word
  BY DEF Word
<1>3. /\ "DisconnectACK" \notin {"NAK", "timeout", "error", "unconfigured"}
      /\ "CoAACK" \notin {"NAK", "timeout", "error", "unconfigured"}
  OBVIOUS
<1>4. "DisconnectACK" # "CoAACK"
  OBVIOUS
<1>5. \A a \in Action : Ack[a] \in Word /\ Ack[a] \notin {"NAK", "timeout", "error", "unconfigured"}
  BY <1>1, <1>2, <1>3
<1>6. \A a, b \in Action : Ack[a] = Ack[b] => a = b
  BY <1>1, <1>4
<1>. QED  BY <1>5, <1>6

(* The words used are words.                                                *)
LEMMA WordsKnown ==
  {"NAK", "timeout", "error", "success", "unexpected", "unconfigured"} \subseteq Word
BY DEF Word

(* An entry is added at the end.                                            *)
LEMMA EntryAdded ==
  ASSUME NEW s \in Seq(Word), NEW e \in Word
  PROVE  /\ Append(s, e) \in Seq(Word)
         /\ {Append(s, e)[i] : i \in DOMAIN Append(s, e)} = {s[i] : i \in DOMAIN s} \cup {e}
<1>1. /\ Append(s, e) \in Seq(Word) /\ Len(s) \in Nat /\ DOMAIN s = 1..Len(s)
      /\ DOMAIN Append(s, e) = 1..Len(s) + 1
      /\ \A i \in 1..Len(s) : Append(s, e)[i] = s[i]
      /\ Append(s, e)[Len(s) + 1] = e
  <2>1. /\ Append(s, e) \in Seq(Word) /\ Len(Append(s, e)) = Len(s) + 1
        /\ \A i \in 1..Len(s) : Append(s, e)[i] = s[i]
        /\ Append(s, e)[Len(s) + 1] = e
    BY AppendProperties
  <2>2. Len(s) \in Nat /\ DOMAIN s = 1..Len(s)
    OBVIOUS
  <2>3. DOMAIN Append(s, e) = 1..Len(s) + 1
    BY <2>1
  <2>. QED  BY <2>1, <2>2, <2>3
<1>2. \A i \in 1..Len(s) + 1 : i \in 1..Len(s) \/ i = Len(s) + 1
  BY <1>1
<1>3. \A i \in 1..Len(s) : i \in 1..Len(s) + 1
  BY <1>1
<1>4. Len(s) + 1 \in 1..Len(s) + 1
  BY <1>1
<1>. QED  BY <1>1, <1>2, <1>3, <1>4

(* Every step keeps the invariant.                                          *)
LEMMA CoaStepPreserves == CoaInv /\ [Next]_vars => CoaInv'
<1>. SUFFICES ASSUME CoaInv, [Next]_vars PROVE CoaInv'
  OBVIOUS
<1>. USE DEF CoaInv
<1>1. ASSUME NEW r \in Req, Resend(r) PROVE CoaInv'
  <2>1. CoaTypeInv'
    <3>1. [coa[r] EXCEPT !.sent = @ + 1] \in CoaState
      <4>1. coa[r] \in CoaState
        BY DEF CoaTypeInv
      <4>. QED  BY <4>1 DEF CoaState
    <3>. QED  BY <1>1, <3>1 DEF Resend, CoaTypeInv
  <2>2. Trace'
    BY <1>1, AcksDiffer DEF Resend, Trace, CoaTypeInv, CoaState
  <2>3. AckTrue'
    BY <1>1, AcksDiffer DEF Resend, AckTrue, CoaTypeInv, CoaState, Trace, Answered, SuccessMeansDone, Entries, Word
  <2>4. NakTrue'
    BY <1>1, AcksDiffer DEF Resend, NakTrue, CoaTypeInv, CoaState, Trace, Answered, Late, Entries, Word
  <2>. QED  BY <2>1, <2>2, <2>3, <2>4
<1>2. ASSUME NEW r \in Req, NoAnswer(r) PROVE CoaInv'
  <2>1. CoaTypeInv'
    <3>1. \A code \in {"timeout", "error"} : [coa[r] EXCEPT !.pc = "decided", !.code = code] \in CoaState
      BY <1>2, WordsKnown DEF NoAnswer, CoaTypeInv, CoaState
    <3>. QED  BY <1>2, <3>1 DEF NoAnswer, CoaTypeInv
  <2>2. Trace'
    BY <1>2, AcksDiffer DEF NoAnswer, Trace, CoaTypeInv, CoaState
  <2>3. AckTrue'
    BY <1>2, AcksDiffer DEF NoAnswer, AckTrue, CoaTypeInv, CoaState, Trace, Answered, SuccessMeansDone, Entries, Word
  <2>4. NakTrue'
    BY <1>2, AcksDiffer DEF NoAnswer, NakTrue, CoaTypeInv, CoaState, Trace, Answered, Late, Entries, Word
  <2>. QED  BY <2>1, <2>2, <2>3, <2>4
<1>3. ASSUME NEW r \in Req, Receive(r) PROVE CoaInv'
  <2>1. CoaTypeInv'
    <3>1. \A code \in replies[r] : [coa[r] EXCEPT !.pc = "decided", !.code = code] \in CoaState
      <4>1. coa[r] \in CoaState /\ \A code \in replies[r] : code \in Word
        BY DEF CoaTypeInv
      <4>. QED  BY <4>1 DEF CoaState
    <3>2. PICK code \in replies[r] :
            /\ coa' = [coa EXCEPT ![r].pc = "decided", ![r].code = code]
            /\ replies' = [replies EXCEPT ![r] = {}]
      BY <1>3 DEF Receive
    <3>. QED  BY <1>3, <3>1, <3>2 DEF Receive, CoaTypeInv
  <2>2. Trace'
    BY <1>3, AcksDiffer DEF Receive, Trace, CoaTypeInv, CoaState
  <2>3. AckTrue'
    BY <1>3, AcksDiffer DEF Receive, AckTrue, CoaTypeInv, CoaState, Trace, Answered, SuccessMeansDone, Entries, Word
  <2>4. NakTrue'
    BY <1>3, AcksDiffer DEF Receive, NakTrue, CoaTypeInv, CoaState, Trace, Answered, Late, Entries, Word
  <2>. QED  BY <2>1, <2>2, <2>3, <2>4
<1>4. ASSUME NEW r \in Req, Finish(r) PROVE CoaInv'
  <2>1. CoaTypeInv'
    <3>1. Result(r) \in Word
      BY <1>4, WordsKnown DEF Finish, Result, Confirms, CoaTypeInv, CoaState
    <3>2. log' \in [Req -> Seq(Word)]
      BY <1>4, <3>1, EntryAdded DEF Finish, Report, Logged, CoaTypeInv
    <3>3. [coa[r] EXCEPT !.pc = "over"] \in CoaState
      BY DEF CoaTypeInv, CoaState
    <3>. QED  BY <1>4, <3>2, <3>3 DEF Finish, CoaTypeInv
  <2>2. Trace'
    BY <1>4, AcksDiffer DEF Finish, Report, Logged, Result, Confirms, Trace, CoaTypeInv, CoaState
  <2>3. AckTrue'
    BY <1>4, AcksDiffer DEF Finish, Report, Logged, Result, Confirms, AckTrue, CoaTypeInv, CoaState, Trace, Answered, SuccessMeansDone, Entries, Word
  <2>4. NakTrue'
    BY <1>4, AcksDiffer DEF Finish, Report, Logged, Result, Confirms, NakTrue, CoaTypeInv, CoaState, Trace, Answered, Late, Entries, Word
  <2>. QED  BY <2>1, <2>2, <2>3, <2>4
<1>5. ASSUME NEW r \in Req, Serve(r) PROVE CoaInv'
  <2>. DEFINE s == coa[r].sess  act == coa[r].action
  <2>1. /\ s \in Session /\ act \in Action /\ Ack[act] \in Word /\ "NAK" \in Word
        /\ \A a \in Action : Ack[a] \in Word /\ Ack[a] # "NAK"
        /\ packets[r] \in Nat /\ packets[r] > 0 /\ coa[r].sent \in Nat /\ packets[r] <= coa[r].sent
    BY <1>5, AcksDiffer, WordsKnown DEF Serve, Trace, CoaTypeInv, CoaState
  <2>2. /\ packets' = [packets EXCEPT ![r] = @ - 1]
        /\ UNCHANGED <<coa, log>>
    BY <1>5 DEF Serve
  <2>3. CASE /\ alive[s] /\ Answers(r, Ack[act])
             /\ done' = [done EXCEPT ![r] = TRUE]
             /\ alive' = [alive EXCEPT ![s] = act # "disconnect"]
    <3>1. CoaTypeInv'
      BY <2>1, <2>2, <2>3 DEF Answers, CoaTypeInv
    <3>2. Trace'
      BY <2>1, <2>2, <2>3 DEF Answers, Trace, CoaTypeInv, CoaState
    <3>3. AckTrue'
      BY <2>1, <2>2, <2>3, AcksDiffer DEF Answers, AckTrue, CoaTypeInv, Answered, SuccessMeansDone
    <3>4. NakTrue'
      <4>1. ASSUME NEW q \in Req, Late(q) PROVE Late(q)'
        <5>1. CASE q = r
          BY <4>1, <5>1, <2>1, <2>2, <2>3 DEF Answers, Late, CoaTypeInv, CoaState
        <5>2. CASE q # r
          BY <4>1, <5>2, <2>1, <2>2, <2>3 DEF Answers, Late, CoaTypeInv, CoaState
        <5>. QED  BY <5>1, <5>2
      <4>2. \A q \in Req : Answered(q, "NAK")' => Answered(q, "NAK")
        BY <2>1, <2>2, <2>3 DEF Answers, Answered, CoaTypeInv
      <4>. QED  BY <4>1, <4>2, <2>2 DEF NakTrue, Entries
    <3>. QED  BY <3>1, <3>2, <3>3, <3>4
  <2>4. ASSUME NEW code \in Word, Answers(r, code),
               code = "NAK" => ~alive[s],
               code # "NAK" => \A a \in Action : code = Ack[a] => done[r] \/ a # act,
               UNCHANGED <<done, alive>>
        PROVE  CoaInv'
    <3>1. CoaTypeInv'
      BY <2>1, <2>2, <2>4 DEF Answers, CoaTypeInv
    <3>2. Trace'
      BY <2>1, <2>2, <2>4 DEF Answers, Trace, CoaTypeInv, CoaState
    <3>3. AckTrue'
      BY <2>1, <2>2, <2>4 DEF Answers, AckTrue, CoaTypeInv, Answered, SuccessMeansDone
    <3>4. NakTrue'
      <4>1. ASSUME NEW q \in Req, Late(q) PROVE Late(q)'
        BY <4>1, <2>1, <2>2, <2>4 DEF Answers, Late, CoaTypeInv, CoaState
      <4>2. code = "NAK" => Late(r)'
        BY <2>1, <2>2, <2>4 DEF Answers, Late, Trace, CoaTypeInv, CoaState
      <4>3. \A q \in Req : Answered(q, "NAK")' => Answered(q, "NAK") \/ (q = r /\ code = "NAK")
        BY <2>2, <2>4 DEF Answers, Answered, CoaTypeInv
      <4>. QED  BY <4>1, <4>2, <4>3, <2>2 DEF NakTrue, Entries
    <3>. QED  BY <3>1, <3>2, <3>3, <3>4
  <2>5. CASE ~alive[s] /\ Answers(r, "NAK") /\ UNCHANGED <<done, alive>>
    BY <2>1, <2>4, <2>5
  <2>6. CASE done[r] /\ Answers(r, Ack[act]) /\ UNCHANGED <<done, alive>>
    BY <2>1, <2>4, <2>6
  <2>7. CASE /\ \E a \in Action \ {act} : Answers(r, Ack[a])
             /\ UNCHANGED <<done, alive>>
    <3>1. PICK a \in Action \ {act} : Answers(r, Ack[a])
      BY <2>7
    <3>2. /\ Ack[a] \in Word /\ Ack[a] # "NAK"
          /\ \A b \in Action : Ack[a] = Ack[b] => done[r] \/ b # act
      BY <2>1, AcksDiffer
    <3>. HIDE DEF act
    <3>. QED  BY <2>4, <2>7, <3>1, <3>2
  <2>. QED  BY <1>5, <2>3, <2>5, <2>6, <2>7 DEF Serve
<1>6. ASSUME NEW r \in Req, Lose(r) PROVE CoaInv'
  <2>1. UNCHANGED <<alive, coa, done, log>>
    BY <1>6 DEF Lose
  <2>2. CASE packets[r] > 0 /\ packets' = [packets EXCEPT ![r] = @ - 1] /\ UNCHANGED replies
    <3>1. CoaTypeInv'
      BY <2>1, <2>2 DEF CoaTypeInv
    <3>2. Trace'
      BY <2>1, <2>2 DEF Trace, CoaTypeInv, CoaState
    <3>3. AckTrue'
      BY <2>1, <2>2 DEF AckTrue, Answered, SuccessMeansDone
    <3>4. NakTrue'
      BY <2>1, <2>2 DEF NakTrue, Answered, Late, Entries, CoaTypeInv, CoaState
    <3>. QED  BY <3>1, <3>2, <3>3, <3>4
  <2>3. ASSUME NEW code \in replies[r], replies' = [replies EXCEPT ![r] = @ \ {code}],
               UNCHANGED packets
        PROVE  CoaInv'
    <3>1. CoaTypeInv'
      BY <2>1, <2>3 DEF CoaTypeInv
    <3>2. Trace'
      BY <2>1, <2>3 DEF Trace, CoaTypeInv
    <3>3. AckTrue'
      BY <2>1, <2>3 DEF AckTrue, Answered, SuccessMeansDone, CoaTypeInv
    <3>4. NakTrue'
      BY <2>1, <2>3 DEF NakTrue, Answered, Late, Entries, CoaTypeInv
    <3>. QED  BY <3>1, <3>2, <3>3, <3>4
  <2>. QED  BY <1>6, <2>2, <2>3 DEF Lose
<1>7. ASSUME NEW r \in Req, NEW s \in Session, NEW a \in Action, NEW vlan \in BOOLEAN,
             Dispatch(r, s, a, vlan)
      PROVE  CoaInv'
  <2>1. /\ coa[r].pc = "idle" /\ packets[r] = 0 /\ replies[r] = {} /\ ~done[r] /\ log[r] = <<>>
        /\ coa[r].sent = 0 /\ coa[r].code = None
        /\ UNCHANGED <<alive, replies, done, log>>
    BY <1>7 DEF Dispatch, NoCoa, Trace
  <2>2. \A q \in Req : Entries(q)' = Entries(q)
    BY <2>1 DEF Entries
  <2>3. Entries(r) = {}
    BY <2>1 DEF Entries
  <2>4. ASSUME NEW x \in CoaState, coa' = [coa EXCEPT ![r] = x],
               x.sess = s, x.action = a, x.pc # "idle",
               x.pc = "decided" => x.code = "unconfigured",
               \/ x.sent = 0 /\ UNCHANGED packets
               \/ x.sent = 1 /\ packets' = [packets EXCEPT ![r] = 1]
        PROVE  CoaInv'
    <3>1. CoaTypeInv'
      <4>1. packets' \in [Req -> Nat]
        <5>1. packets \in [Req -> Nat] /\ [packets EXCEPT ![r] = 1] \in [Req -> Nat]
          BY DEF CoaTypeInv
        <5>2. packets' \in {packets, [packets EXCEPT ![r] = 1]}
          BY <2>4
        <5>. QED  BY <5>1, <5>2
      <4>2. coa' \in [Req -> CoaState]
        BY <2>4 DEF CoaTypeInv
      <4>. QED  BY <2>1, <4>1, <4>2 DEF CoaTypeInv
    <3>2. /\ coa'[r] = x
          /\ \A q \in Req \ {r} : coa'[q] = coa[q] /\ packets'[q] = packets[q]
          /\ packets'[r] <= x.sent
      BY <2>1, <2>4 DEF CoaTypeInv
    <3>3. Trace'
      BY <2>1, <2>4, <3>2 DEF Trace
    <3>4. AckTrue'
      <4>1. \A b \in Action : Ack[b] # "unconfigured"
        BY AcksDiffer
      <4>2. ASSUME NEW q \in Req, coa'[q].action \in Action, Answered(q, Ack[coa[q].action])'
            PROVE  done[q]
        <5>1. CASE q = r
          BY <2>1, <2>4, <3>2, <4>1, <4>2, <5>1 DEF Answered
        <5>2. CASE q # r
          BY <2>1, <3>2, <4>2, <5>2 DEF Answered, AckTrue
        <5>. QED  BY <5>1, <5>2
      <4>3. SuccessMeansDone'
        BY <2>1 DEF AckTrue, SuccessMeansDone
      <4>. QED  BY <2>1, <4>2, <4>3 DEF AckTrue
    <3>5. NakTrue'
      <4>1. \A q \in Req \ {r} : Late(q) => Late(q)'
        BY <2>1, <3>2 DEF Late
      <4>2. ~Answered(r, "NAK")'
        BY <2>1, <2>4, <3>2 DEF Answered
      <4>3. \A q \in Req \ {r} : Answered(q, "NAK")' => Answered(q, "NAK")
        BY <2>1, <3>2 DEF Answered
      <4>. QED  BY <2>2, <2>3, <4>1, <4>2, <4>3 DEF NakTrue
    <3>. QED  BY <3>1, <3>3, <3>4, <3>5
  <2>. DEFINE opened == [NoCoa EXCEPT !.sess = s, !.action = a]
              known  == [opened EXCEPT !.pc = "decided", !.code = "unconfigured"]
              failed == [opened EXCEPT !.pc = "invalid"]
              first  == [opened EXCEPT !.pc = "waiting", !.sent = 1]
  <2>5. /\ known \in CoaState /\ known.sess = s /\ known.action = a /\ known.sent = 0
        /\ known.pc = "decided" /\ known.code = "unconfigured"
    BY WordsKnown DEF NoCoa, CoaState
  <2>6. /\ failed \in CoaState /\ failed.sess = s /\ failed.action = a /\ failed.sent = 0
        /\ failed.pc = "invalid"
    BY DEF NoCoa, CoaState
  <2>7. /\ first \in CoaState /\ first.sess = s /\ first.action = a /\ first.sent = 1
        /\ first.pc = "waiting"
    BY DEF NoCoa, CoaState
  <2>8. \/ coa' = [coa EXCEPT ![r] = known] /\ UNCHANGED packets
        \/ coa' = [coa EXCEPT ![r] = failed] /\ UNCHANGED packets
        \/ coa' = [coa EXCEPT ![r] = first] /\ packets' = [packets EXCEPT ![r] = 1]
    BY <1>7 DEF Dispatch
  <2>. HIDE DEF known, failed, first
  <2>9. CASE coa' = [coa EXCEPT ![r] = known] /\ UNCHANGED packets
    BY <2>4, <2>5, <2>9
  <2>10. CASE coa' = [coa EXCEPT ![r] = failed] /\ UNCHANGED packets
    BY <2>4, <2>6, <2>10
  <2>11. CASE coa' = [coa EXCEPT ![r] = first] /\ packets' = [packets EXCEPT ![r] = 1]
    BY <2>4, <2>7, <2>11
  <2>. QED  BY <2>8, <2>9, <2>10, <2>11
<1>8. ASSUME NEW s \in Session, Leave(s) PROVE CoaInv'
  <2>1. CoaTypeInv'
    BY <1>8, AcksDiffer DEF Leave, CoaTypeInv, CoaState, Word
  <2>2. Trace'
    BY <1>8, AcksDiffer DEF Leave, Trace, CoaTypeInv, CoaState
  <2>3. AckTrue'
    BY <1>8, AcksDiffer DEF Leave, AckTrue, CoaTypeInv, CoaState, Trace, Answered, SuccessMeansDone, Entries, Word
  <2>4. NakTrue'
    BY <1>8, AcksDiffer DEF Leave, NakTrue, CoaTypeInv, CoaState, Trace, Answered, Late, Entries, Word
  <2>. QED  BY <2>1, <2>2, <2>3, <2>4
<1>9. ASSUME NEW s \in Session, AccountStop(s) PROVE CoaInv'
  <2>1. CoaTypeInv'
    BY <1>9, AcksDiffer DEF AccountStop, CoaTypeInv, CoaState, Word
  <2>2. Trace'
    BY <1>9, AcksDiffer DEF AccountStop, Trace, CoaTypeInv, CoaState
  <2>3. AckTrue'
    BY <1>9, AcksDiffer DEF AccountStop, AckTrue, CoaTypeInv, CoaState, Trace, Answered, SuccessMeansDone, Entries, Word
  <2>4. NakTrue'
    BY <1>9, AcksDiffer DEF AccountStop, NakTrue, CoaTypeInv, CoaState, Trace, Answered, Late, Entries, Word
  <2>. QED  BY <2>1, <2>2, <2>3, <2>4
<1>10. ASSUME Crash PROVE CoaInv'
  <2>1. CoaTypeInv'
    <3>1. \A r \in Req : [coa[r] EXCEPT !.pc = "lost"] \in CoaState
      BY DEF CoaTypeInv, CoaState
    <3>. QED  BY <1>10, <3>1 DEF Crash, CoaTypeInv
  <2>2. Trace'
    BY <1>10, AcksDiffer DEF Crash, Trace, CoaTypeInv, CoaState
  <2>3. AckTrue'
    BY <1>10, AcksDiffer DEF Crash, AckTrue, CoaTypeInv, CoaState, Trace, Answered, SuccessMeansDone, Entries, Word
  <2>4. NakTrue'
    BY <1>10, AcksDiffer DEF Crash, NakTrue, CoaTypeInv, CoaState, Trace, Answered, Late, Entries, Word
  <2>. QED  BY <2>1, <2>2, <2>3, <2>4
<1>11. CASE UNCHANGED coaVars
  BY <1>11 DEF coaVars, CoaTypeInv, Trace, AckTrue, NakTrue, SuccessMeansDone, Answered, Late, Entries
<1>. QED  BY <1>1, <1>2, <1>3, <1>4, <1>5, <1>6, <1>7, <1>8, <1>9, <1>10, <1>11 DEF Next, Work, Registry, vars

(* The registry takes no notice of CoA requests, so its invariant holds     *)
(* beside them.                                                             *)
LEMMA RegistryBeside == IInv /\ [Next]_vars => IInv'
<1>. SUFFICES ASSUME IInv, [Next]_vars PROVE IInv'
  OBVIOUS
<1>1. [NasNext]_nasVars
  BY DEF Next, Work, Registry, Resend, NoAnswer, Receive, Finish, Serve, Lose, Dispatch, Leave,
         AccountStop, Crash, vars
<1>. QED  BY <1>1, NasStepPreserves

(* The registry's invariant holds throughout, beside any CoA requests.      *)
THEOREM RegistryKept == Spec => []IInv
<1>1. Init => IInv
  BY NasInitEstablishes DEF Init
<1>. QED  BY <1>1, RegistryBeside, PTL DEF Spec

(* For any number of NAS, names and requests: CoA is never switched on      *)
(* without a secret.                                                        *)
THEOREM RegistryTypeCorrect == Spec => []NasTypeOK
<1>1. IInv => NasTypeOK
  BY DEF IInv
<1>. QED  BY <1>1, RegistryKept, PTL

(* For any number of NAS, names and requests: no two NAS have one name.     *)
THEOREM OneNameOneNas == Spec => []NamesUnique
<1>1. IInv => NamesUnique
  BY DEF IInv
<1>. QED  BY <1>1, RegistryKept, PTL

(* For any number of NAS, names and requests: settings belong to a NAS of   *)
(* their name, and their secret was entered for it.                         *)
THEOREM SettingsStay == Spec => []SettingsFollow
<1>1. IInv => SettingsFollow
  BY DEF IInv
<1>. QED  BY <1>1, RegistryKept, PTL

(* For any number of requests, sessions and attempts: the invariant of the  *)
(* exchange holds throughout.                                               *)
THEOREM ExchangeInvariant == Spec => []CoaInv
BY CoaInitEstablishes, CoaStepPreserves, PTL DEF Spec

(* For any number of requests, sessions and attempts: a logged success was  *)
(* carried out by the NAS.                                                  *)
THEOREM SuccessIsTrue == Spec => []SuccessMeansDone
<1>1. CoaInv => SuccessMeansDone
  BY DEF CoaInv, AckTrue
<1>. QED  BY <1>1, ExchangeInvariant, PTL

(* For any number of requests, sessions and attempts: a refusal is logged   *)
(* of a request that was carried out only if its packet was sent again.     *)
THEOREM RefusalHidesOnlyLoss == Spec => []HiddenOnlyByLoss
<1>1. CoaInv => HiddenOnlyByLoss
  <2>. SUFFICES ASSUME CoaInv, NEW r \in Req, done[r], log[r] = <<"NAK">>
                PROVE  coa[r].sent > 1
    BY DEF HiddenOnlyByLoss
  <2>1. "NAK" \in Entries(r)
    BY DEF Entries
  <2>2. packets[r] \in Nat /\ coa[r].sent \in Nat /\ packets[r] + 2 <= coa[r].sent
    BY <2>1 DEF CoaInv, CoaTypeInv, CoaState, NakTrue, Late
  <2>. QED  BY <2>2
<1>. QED  BY <1>1, ExchangeInvariant, PTL

=============================================================================
