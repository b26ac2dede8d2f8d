--------------------------- MODULE SessionLifetime ---------------------------
(***************************************************************************)
(* The life of a session after its sign-in: the signed token that every    *)
(* request shows and that answers renew, the logout that the server        *)
(* remembers, and the retention worker that forgets it again.              *)
(*                                                                         *)
(* A token is its session and its expiry ("exp"); the absolute end ("abs") *)
(* is the same in all tokens of a session.  A request looks at the clock   *)
(* when it decodes the token and at the database later, when it has got a  *)
(* connection.  What else current_principal compares (account, role,       *)
(* generation, changes of password and factor) is LoginSessions' subject.  *)
(***************************************************************************)
EXTENDS Integers, FiniteSets

CONSTANTS Sid,       \* session ids, a fresh one per sign-in
          Req,       \* requests that can be under way at a time
          Idle,      \* session_idle_minutes
          Absolute,  \* session_absolute_hours, in the same unit
          MaxTime,   \* bound on the clock
          None

ASSUME LifetimeAssumption == Idle \in Nat \ {0} /\ Absolute \in Nat \ {0}
ASSUME ClockAssumption    == MaxTime \in Nat
ASSUME NoneAssumption     == None \notin Int

VARIABLES
  now,
  ends,        \* absolute end of each session, None before its sign-in
  tokens,      \* expiries of the tokens that clients were given
  revocation,  \* mgr_session_revocation: expires_at, None without a row
  req,         \* the requests under way
  touched,     \* history: when the user was last active
  loggedOut    \* history: a logout was committed (late: before the request came)

vars == <<now, ends, tokens, revocation, req, touched, loggedOut>>

Time == 0..MaxTime
Kind == {"foreground", "background", "logout"}

NoReq == [pc |-> "idle", kind |-> None, sid |-> None, late |-> FALSE,
          row |-> None, fresh |-> None]

Init ==
  /\ now = 0
  /\ ends       = [s \in Sid |-> None]
  /\ tokens     = [s \in Sid |-> {}]
  /\ revocation = [s \in Sid |-> None]
  /\ req        = [p \in Req |-> NoReq]
  /\ touched    = [s \in Sid |-> 0]
  /\ loggedOut  = [s \in Sid |-> FALSE]

Earlier(a, b) == IF a <= b THEN a ELSE b

\* Mutant of TokenExpiry: renewed without regard to the absolute end.
TokenExpiryUncut(t, absolute) == t + Idle

\* create_session_token: the idle end, cut off at the absolute one.
TokenExpiry(t, absolute) == Earlier(t + Idle, absolute)

\* decode_token and principal_from_token, with PyJWT's exp <= now.
Decodes(s, e) == e > now /\ ends[s] >= now

-----------------------------------------------------------------------------
(* _issue_session at the end of any sign-in.  Bound: the session's absolute *)
(* end is reached before the clock stops.                                   *)
SignIn(s) ==
  /\ ends[s] = None /\ now + Absolute < MaxTime
  /\ ends'    = [ends EXCEPT ![s] = now + Absolute]
  /\ tokens'  = [tokens EXCEPT ![s] = {TokenExpiry(now, now + Absolute)}]
  /\ touched' = [touched EXCEPT ![s] = now]
  /\ UNCHANGED <<now, revocation, req, loggedOut>>

(* A request shows one of the session's tokens, perhaps an old one: tabs    *)
(* and copies do not learn of renewals.  A refusal leaves no trace.         *)
Arrive(p, s, e, kind) ==
  /\ req[p] = NoReq
  /\ e \in tokens[s] /\ Decodes(s, e)
  /\ req' = [req EXCEPT ![p] = [NoReq EXCEPT !.pc = "decoded", !.kind = kind, !.sid = s,
                                             !.late = loggedOut[s]]]
  /\ UNCHANGED <<now, ends, tokens, revocation, touched, loggedOut>>

\* A background query is no activity of the user (BACKGROUND_HEADER).
Renews(p) == req[p].kind = "foreground"

(* is_revoked on the request's snapshot; the renewed token waits in the     *)
(* request's state until the answer is there.                               *)
Admit(p) ==
  LET s == req[p].sid IN
  /\ req[p].pc = "decoded" /\ req[p].kind # "logout"
  /\ revocation[s] = None
  /\ IF Renews(p)
     THEN req' = [req EXCEPT ![p].pc = "admitted", ![p].fresh = TokenExpiry(now, ends[s])]
     ELSE req' = [req EXCEPT ![p].pc = "admitted"]
  /\ touched' = IF req[p].kind = "foreground" THEN [touched EXCEPT ![s] = now] ELSE touched
  /\ UNCHANGED <<now, ends, tokens, revocation, loggedOut>>

Refuse(p) ==
  /\ req[p].pc = "decoded" /\ req[p].kind # "logout"
  /\ revocation[req[p].sid] # None
  /\ req' = [req EXCEPT ![p] = NoReq]
  /\ UNCHANGED <<now, ends, tokens, revocation, touched, loggedOut>>

(* apply_session_refresh: set whatever has happened to the session since.   *)
Respond(p) ==
  /\ req[p].pc = "admitted"
  /\ tokens' = IF req[p].fresh = None THEN tokens
               ELSE [tokens EXCEPT ![req[p].sid] = @ \cup {req[p].fresh}]
  /\ req' = [req EXCEPT ![p] = NoReq]
  /\ UNCHANGED <<now, ends, revocation, touched, loggedOut>>

(* revoke: looks for a row of this session.                                 *)
LogoutLook(p) ==
  /\ req[p].pc = "decoded" /\ req[p].kind = "logout"
  /\ req' = [req EXCEPT ![p].pc = "looked", ![p].row = revocation[req[p].sid]]
  /\ UNCHANGED <<now, ends, tokens, revocation, touched, loggedOut>>

\* Mutant of RevokedUntil: remembered for the idle time only.
RevokedUntilIdle(s) == TokenExpiry(now, ends[s])

\* The row lives as long as any token of the session could.
RevokedUntil(s) == ends[s]

(* The insert (a row that was found needs no write) and the commit.  If     *)
(* another logout of the session has inserted meanwhile, the primary key    *)
(* makes this one fail: nothing is written.                                 *)
LogoutCommit(p) ==
  LET s == req[p].sid IN
  /\ req[p].pc = "looked"
  /\ req[p].row = None => revocation[s] = None
  /\ revocation' = IF req[p].row = None THEN [revocation EXCEPT ![s] = RevokedUntil(s)]
                   ELSE revocation
  /\ loggedOut' = [loggedOut EXCEPT ![s] = TRUE]
  /\ req' = [req EXCEPT ![p] = NoReq]
  /\ UNCHANGED <<now, ends, tokens, touched>>

LogoutFail(p) ==
  /\ req[p].pc = "looked"
  /\ req[p].row = None /\ revocation[req[p].sid] # None
  /\ req' = [req EXCEPT ![p] = NoReq]
  /\ UNCHANGED <<now, ends, tokens, revocation, touched, loggedOut>>

-----------------------------------------------------------------------------
\* Mutant of Outdated: the comparison the wrong way round.
OutdatedSwapped(s) == revocation[s] # None /\ revocation[s] > now

Outdated(s) == revocation[s] # None /\ revocation[s] < now

(* retention_worker: purge_expired in a transaction of its own.  A round    *)
(* that fails is logged and changes nothing.                                *)
Purge ==
  /\ \E s \in Sid : Outdated(s)
  /\ revocation' = [s \in Sid |-> IF Outdated(s) THEN None ELSE revocation[s]]
  /\ UNCHANGED <<now, ends, tokens, req, touched, loggedOut>>

(* The process dies: requests under way are lost, rows and tokens are not.  *)
Restart ==
  /\ req' = [p \in Req |-> NoReq]
  /\ UNCHANGED <<now, ends, tokens, revocation, touched, loggedOut>>

Advance ==
  /\ now < MaxTime /\ now' = now + 1
  /\ UNCHANGED <<ends, tokens, revocation, req, touched, loggedOut>>

\* A request under way takes its next step.
Step(p) == Admit(p) \/ Refuse(p) \/ Respond(p) \/ LogoutLook(p) \/ LogoutCommit(p) \/ LogoutFail(p)

Serve ==
  \/ \E p \in Req, s \in Sid, kind \in Kind : \E e \in tokens[s] : Arrive(p, s, e, kind)
  \/ \E p \in Req : Step(p)

Next == (\E s \in Sid : SignIn(s)) \/ Serve \/ Purge \/ Restart \/ Advance

Spec == Init /\ [][Next]_vars /\ WF_vars(Purge) /\ WF_vars(Advance)

-----------------------------------------------------------------------------
Ages(s, e) == e <= touched[s] + Idle /\ e <= ends[s]

(* No token, not even one still on its way to the client, is good for       *)
(* longer than the idle time after the user's last activity or beyond the   *)
(* absolute end - however requests, polls and their answers overlap.        *)
TokensAge ==
  /\ \A s \in Sid : \A e \in tokens[s] : Ages(s, e)
  /\ \A p \in Req : req[p].fresh # None => Ages(req[p].sid, req[p].fresh)

(* "Eine abgemeldete Sitzung bleibt abgemeldet": no request that arrives    *)
(* after the commit of a logout is admitted, although answers that were     *)
(* under way still hand out fresh tokens and the worker deletes the row.    *)
(* The only way past the row is to wait for the database across the         *)
(* absolute end, when the token's clock check is already done.              *)
LoggedOutStaysOut ==
  [][\A p \in Req : req[p].pc = "decoded" /\ req'[p].pc = "admitted" /\ req[p].late
                    => ends[req[p].sid] < now]_vars

(* The table of revocations does not grow for ever.                         *)
RevocationsForgotten == \A s \in Sid : revocation[s] # None ~> revocation[s] = None

=============================================================================
