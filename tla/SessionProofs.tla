---------------------------- MODULE SessionProofs ----------------------------
(***************************************************************************)
(* Tokens end by the idle and the absolute end, and a session logged out   *)
(* stays out, for any number of sessions and requests and any times.       *)
(* At the OIDC sign-in a rotation of keys refuses nobody, and a withdrawn  *)
(* key expires, for any number of callbacks and keys and any lifetime of   *)
(* the cache.                                                              *)
(***************************************************************************)
EXTENDS SessionLifetime, OidcLogin, TLAPS

ReqState ==
  {r \in [pc : {"idle", "decoded", "admitted", "looked"}, kind : Kind \cup {None},
          sid : Sid \cup {None}, late : BOOLEAN, row : Int \cup {None}, fresh : Int \cup {None}] :
     r.pc # "idle" => r.sid \in Sid}

TypeInv ==
  /\ now \in Int
  /\ ends       \in [Sid -> Int \cup {None}]
  /\ tokens     \in [Sid -> SUBSET Int]
  /\ revocation \in [Sid -> Int \cup {None}]
  /\ req        \in [Req -> ReqState]
  /\ touched    \in [Sid -> Int]
  /\ loggedOut  \in [Sid -> BOOLEAN]

\* Only a session that was signed in has tokens and requests, and they age.
Ageing ==
  /\ \A s \in Sid : touched[s] <= now
  /\ \A s \in Sid : tokens[s] # {} => ends[s] # None
  /\ \A p \in Req : req[p].pc # "idle" => ends[req[p].sid] # None
  /\ \A p \in Req : req[p].fresh # None => req[p].pc = "admitted"

Over(s) == ends[s] # None /\ ends[s] < now

\* A logout is remembered until no token of the session can be decoded.
Remembered ==
  /\ \A s \in Sid : revocation[s] # None => revocation[s] = ends[s]
  /\ \A s \in Sid : loggedOut[s] => revocation[s] # None \/ Over(s)
  /\ \A p \in Req : req[p].row # None => revocation[req[p].sid] # None \/ Over(req[p].sid)
  /\ \A p \in Req : req[p].late => req[p].pc # "idle" /\ loggedOut[req[p].sid]
  /\ \A p \in Req : req[p].row # None => req[p].pc = "looked"

IInv == TypeInv /\ TokensAge /\ Ageing /\ Remembered

-----------------------------------------------------------------------------
(* The invariant holds before the first sign-in.                            *)
LEMMA InitEstablishes == Init => IInv
<1>. SUFFICES ASSUME Init PROVE IInv
  OBVIOUS
<1>. USE DEF Init, NoReq
<1>1. TypeInv
  BY DEF TypeInv, ReqState
<1>2. TokensAge
  BY DEF TokensAge
<1>3. Ageing
  BY DEF Ageing
<1>4. Remembered
  BY DEF Remembered
<1>. QED  BY <1>1, <1>2, <1>3, <1>4 DEF IInv

(* A renewed token is bounded by both ends (create_session_token).          *)
LEMMA ExpiryBounded ==
  ASSUME NEW t \in Int, NEW absolute \in Int
  PROVE  TokenExpiry(t, absolute) \in Int /\ TokenExpiry(t, absolute) <= t + Idle
         /\ TokenExpiry(t, absolute) <= absolute
BY LifetimeAssumption DEF TokenExpiry, Earlier

(* Every step keeps the invariant.                                          *)
LEMMA StepPreserves == IInv /\ [Next]_vars => IInv'
<1>. SUFFICES ASSUME IInv, [Next]_vars PROVE IInv'
  OBVIOUS
<1>. USE NoneAssumption DEF IInv
<1>0. /\ TypeInv /\ TokensAge /\ Ageing /\ Remembered
  OBVIOUS
<1>1. ASSUME NEW s \in Sid, SignIn(s) PROVE IInv'
  <2>0. now + Absolute \in Int /\ TokenExpiry(now, now + Absolute) \in Int
        /\ TokenExpiry(now, now + Absolute) <= now + Idle
        /\ TokenExpiry(now, now + Absolute) <= now + Absolute
    <3>1. now \in Int /\ now + Absolute \in Int
      BY LifetimeAssumption DEF TypeInv
    <3>. QED  BY <3>1, ExpiryBounded
  <2>1. TypeInv'
    BY <2>0, LifetimeAssumption, <1>1 DEF SignIn, TypeInv, ReqState, NoReq, Kind
  <2>2. TokensAge'
    BY <2>0, LifetimeAssumption, <1>1 DEF SignIn, TokensAge, TypeInv, ReqState, Ages, Ageing, NoReq
  <2>3. Ageing'
    BY <2>0, LifetimeAssumption, <1>1 DEF SignIn, Ageing, TypeInv, ReqState, NoReq
  <2>4. Remembered'
    BY <2>0, LifetimeAssumption, <1>1 DEF SignIn, Remembered, TypeInv, ReqState, NoReq, Ageing, Over
  <2>. QED  BY <2>1, <2>2, <2>3, <2>4
<1>2. ASSUME NEW p \in Req, NEW s \in Sid, NEW kind \in Kind, NEW e \in tokens[s], Arrive(p, s, e, kind) PROVE IInv'
  <2>1. TypeInv'
    BY <1>2 DEF Arrive, Decodes, TypeInv, ReqState, NoReq, Kind
  <2>2. TokensAge'
    BY <1>2 DEF Arrive, Decodes, TokensAge, TypeInv, ReqState, Ages, Ageing, NoReq
  <2>3. Ageing'
    BY <1>2 DEF Arrive, Decodes, Ageing, TypeInv, ReqState, NoReq
  <2>4. Remembered'
    BY <1>2 DEF Arrive, Decodes, Remembered, TypeInv, ReqState, NoReq, Ageing, Over
  <2>. QED  BY <2>1, <2>2, <2>3, <2>4
<1>3. ASSUME NEW p \in Req, Admit(p) PROVE IInv'
  <2>. DEFINE s == req[p].sid  t == TokenExpiry(now, ends[s])
  <2>0. /\ s \in Sid /\ ends[s] \in Int
        /\ t \in Int /\ t <= now + Idle /\ t <= ends[s]
    <3>1. s \in Sid /\ ends[s] \in Int /\ now \in Int
      BY <1>3 DEF Admit, TypeInv, ReqState, Ageing
    <3>. QED  BY <3>1, ExpiryBounded
  <2>1. /\ req[p].fresh = None /\ req[p].row = None
        /\ req[p].pc = "decoded" /\ revocation[s] = None
    BY <1>3 DEF Admit, Ageing, Remembered
  <2>2. CASE Renews(p)
    <3>1. /\ req' = [req EXCEPT ![p].pc = "admitted", ![p].fresh = t]
          /\ touched' = [touched EXCEPT ![s] = now]
          /\ UNCHANGED <<now, ends, tokens, revocation, loggedOut>>
      BY <1>3, <2>2 DEF Admit, Renews
    <3>. HIDE DEF t
    <3>2. TypeInv'
      BY <3>1, <2>0, <2>1 DEF TypeInv, ReqState
    <3>3. TokensAge'
      BY <3>1, <2>0, <2>1, LifetimeAssumption DEF TokensAge, TypeInv, ReqState, Ages, Ageing
    <3>4. Ageing'
      BY <3>1, <2>0, <2>1 DEF TypeInv, ReqState, Ageing
    <3>5. Remembered'
      BY <3>1, <2>0, <2>1 DEF TypeInv, ReqState, Remembered, Over
    <3>. QED  BY <3>2, <3>3, <3>4, <3>5
  <2>3. CASE ~Renews(p)
    <3>1. /\ req' = [req EXCEPT ![p].pc = "admitted"]
          /\ UNCHANGED <<now, ends, tokens, revocation, touched, loggedOut>>
      BY <1>3, <2>3 DEF Admit, Renews
    <3>2. TypeInv'
      BY <3>1, <2>0, <2>1 DEF TypeInv, ReqState
    <3>3. TokensAge'
      BY <3>1, <2>0, <2>1 DEF TokensAge, TypeInv, ReqState, Ages
    <3>4. Ageing'
      BY <3>1, <2>0, <2>1 DEF TypeInv, ReqState, Ageing
    <3>5. Remembered'
      BY <3>1, <2>0, <2>1 DEF TypeInv, ReqState, Remembered, Over
    <3>. QED  BY <3>2, <3>3, <3>4, <3>5
  <2>. QED  BY <2>2, <2>3
<1>4. ASSUME NEW p \in Req, Refuse(p) PROVE IInv'
  <2>1. TypeInv'
    BY <1>4 DEF Refuse, TypeInv, ReqState, NoReq, Kind
  <2>2. TokensAge'
    BY <1>4 DEF Refuse, TokensAge, TypeInv, ReqState, Ages, Ageing, NoReq
  <2>3. Ageing'
    BY <1>4 DEF Refuse, Ageing, TypeInv, ReqState, NoReq
  <2>4. Remembered'
    BY <1>4 DEF Refuse, Remembered, TypeInv, ReqState, NoReq, Ageing, Over
  <2>. QED  BY <2>1, <2>2, <2>3, <2>4
<1>5. ASSUME NEW p \in Req, Respond(p) PROVE IInv'
  <2>1. TypeInv'
    BY <1>5 DEF Respond, TypeInv, ReqState, NoReq, Kind
  <2>2. TokensAge'
    BY <1>5 DEF Respond, TokensAge, TypeInv, ReqState, Ages, Ageing, NoReq
  <2>3. Ageing'
    BY <1>5 DEF Respond, Ageing, TypeInv, ReqState, NoReq
  <2>4. Remembered'
    BY <1>5 DEF Respond, Remembered, TypeInv, ReqState, NoReq, Ageing, Over
  <2>. QED  BY <2>1, <2>2, <2>3, <2>4
<1>6. ASSUME NEW p \in Req, LogoutLook(p) PROVE IInv'
  <2>0. req[p].sid \in Sid /\ revocation[req[p].sid] \in Int \cup {None}
    BY <1>6 DEF LogoutLook, TypeInv, ReqState
  <2>1. TypeInv'
    <3>1. [req[p] EXCEPT !.pc = "looked", !.row = revocation[req[p].sid]] \in ReqState
      BY <2>0 DEF TypeInv, ReqState
    <3>. QED  BY <3>1, <1>6 DEF LogoutLook, TypeInv
  <2>2. TokensAge'
    BY <1>6 DEF LogoutLook, TokensAge, TypeInv, ReqState, Ages, Ageing, NoReq
  <2>3. Ageing'
    BY <1>6 DEF LogoutLook, Ageing, TypeInv, ReqState, NoReq
  <2>4. Remembered'
    BY <1>6 DEF LogoutLook, Remembered, TypeInv, ReqState, NoReq, Ageing, Over
  <2>. QED  BY <2>1, <2>2, <2>3, <2>4
<1>7. ASSUME NEW p \in Req, LogoutCommit(p) PROVE IInv'
  <2>1. TypeInv'
    BY <1>7 DEF LogoutCommit, RevokedUntil, TypeInv, ReqState, NoReq, Kind
  <2>2. TokensAge'
    BY <1>7 DEF LogoutCommit, RevokedUntil, TokensAge, TypeInv, ReqState, Ages, Ageing, NoReq
  <2>3. Ageing'
    BY <1>7 DEF LogoutCommit, RevokedUntil, Ageing, TypeInv, ReqState, NoReq
  <2>4. Remembered'
    BY <1>7 DEF LogoutCommit, RevokedUntil, Remembered, TypeInv, ReqState, NoReq, Ageing, Over
  <2>. QED  BY <2>1, <2>2, <2>3, <2>4
<1>8. ASSUME NEW p \in Req, LogoutFail(p) PROVE IInv'
  <2>1. TypeInv'
    BY <1>8 DEF LogoutFail, TypeInv, ReqState, NoReq, Kind
  <2>2. TokensAge'
    BY <1>8 DEF LogoutFail, TokensAge, TypeInv, ReqState, Ages, Ageing, NoReq
  <2>3. Ageing'
    BY <1>8 DEF LogoutFail, Ageing, TypeInv, ReqState, NoReq
  <2>4. Remembered'
    BY <1>8 DEF LogoutFail, Remembered, TypeInv, ReqState, NoReq, Ageing, Over
  <2>. QED  BY <2>1, <2>2, <2>3, <2>4
<1>9. ASSUME Purge PROVE IInv'
  <2>1. TypeInv'
    BY <1>9 DEF Purge, Outdated, TypeInv, ReqState, NoReq, Kind
  <2>2. TokensAge'
    BY <1>9 DEF Purge, Outdated, TokensAge, TypeInv, ReqState, Ages, Ageing, NoReq
  <2>3. Ageing'
    BY <1>9 DEF Purge, Outdated, Ageing, TypeInv, ReqState, NoReq
  <2>4. Remembered'
    BY <1>9 DEF Purge, Outdated, Remembered, TypeInv, ReqState, NoReq, Ageing, Over
  <2>. QED  BY <2>1, <2>2, <2>3, <2>4
<1>10. ASSUME Restart PROVE IInv'
  <2>1. TypeInv'
    BY <1>10 DEF Restart, TypeInv, ReqState, NoReq, Kind
  <2>2. TokensAge'
    BY <1>10 DEF Restart, TokensAge, TypeInv, ReqState, Ages, Ageing, NoReq
  <2>3. Ageing'
    BY <1>10 DEF Restart, Ageing, TypeInv, ReqState, NoReq
  <2>4. Remembered'
    BY <1>10 DEF Restart, Remembered, TypeInv, ReqState, NoReq, Ageing, Over
  <2>. QED  BY <2>1, <2>2, <2>3, <2>4
<1>11. ASSUME Advance PROVE IInv'
  <2>1. TypeInv'
    BY <1>11 DEF Advance, TypeInv, ReqState, NoReq, Kind
  <2>2. TokensAge'
    BY <1>11 DEF Advance, TokensAge, TypeInv, ReqState, Ages, Ageing, NoReq
  <2>3. Ageing'
    BY <1>11 DEF Advance, Ageing, TypeInv, ReqState, NoReq
  <2>4. Remembered'
    BY <1>11 DEF Advance, Remembered, TypeInv, ReqState, NoReq, Ageing, Over
  <2>. QED  BY <2>1, <2>2, <2>3, <2>4
<1>12. CASE UNCHANGED vars
  BY <1>12 DEF vars, TypeInv, TokensAge, Ages, Ageing, Remembered, Over
<1>. QED  BY <1>1, <1>2, <1>3, <1>4, <1>5, <1>6, <1>7, <1>8, <1>9, <1>10, <1>11, <1>12 DEF Next, Serve, Step

(* The invariant holds throughout.                                          *)
THEOREM SessionInvariant == Spec => []IInv
BY InitEstablishes, StepPreserves, PTL DEF Spec

(* For any number of sessions, requests and times: no token, given out or   *)
(* on its way, outlasts the idle time or the absolute end.                  *)
THEOREM TokensEnd == Spec => []TokensAge
<1>1. IInv => TokensAge
  BY DEF IInv
<1>. QED  BY <1>1, SessionInvariant, PTL

(* For any number of sessions and requests: a request that arrives after a  *)
(* logout is not admitted, however purge, restarts and answers interleave.  *)
THEOREM LogoutIsFinal == Spec => LoggedOutStaysOut
<1>1. IInv /\ [Next]_vars =>
        [\A p \in Req : req[p].pc = "decoded" /\ req'[p].pc = "admitted" /\ req[p].late
                        => ends[req[p].sid] < now]_vars
  <2>. SUFFICES ASSUME IInv, [Next]_vars, NEW p \in Req,
                       req[p].pc = "decoded", req'[p].pc = "admitted", req[p].late
                PROVE  ends[req[p].sid] < now
    OBVIOUS
  <2>1. req[p].sid \in Sid /\ (revocation[req[p].sid] # None \/ Over(req[p].sid))
    BY DEF IInv, TypeInv, ReqState, Remembered
  <2>2. revocation[req[p].sid] = None
    <3>1. Admit(p)
      <4>. USE DEF IInv, TypeInv, ReqState, NoReq
      <4>1. ASSUME NEW q \in Req, q # p, Admit(q) \/ Refuse(q) \/ Respond(q)
                     \/ LogoutLook(q) \/ LogoutCommit(q) \/ LogoutFail(q)
            PROVE  FALSE
        BY <4>1 DEF Admit, Refuse, Respond, LogoutLook, LogoutCommit, LogoutFail
      <4>2. ASSUME Refuse(p) \/ Respond(p) \/ LogoutLook(p) \/ LogoutCommit(p) \/ LogoutFail(p)
            PROVE  FALSE
        BY <4>2 DEF Refuse, Respond, LogoutLook, LogoutCommit, LogoutFail
      <4>3. ASSUME NEW q \in Req, NEW s \in Sid, NEW e \in tokens[s], NEW kind \in Kind,
                   Arrive(q, s, e, kind)
            PROVE  FALSE
        BY <4>3 DEF Arrive
      <4>4. ASSUME UNCHANGED req PROVE FALSE
        BY <4>4
      <4>5. ASSUME Restart PROVE FALSE
        BY <4>5 DEF Restart
      <4>. QED
        BY <4>1, <4>2, <4>3, <4>4, <4>5 DEF Next, Serve, Step, SignIn, Purge, Advance, vars
    <3>. QED  BY <3>1 DEF Admit
  <2>. QED  BY <2>1, <2>2 DEF Over
<1>. QED  BY <1>1, SessionInvariant, PTL DEF Spec, LoggedOutStaysOut

-----------------------------------------------------------------------------
(* The callback of the OIDC sign-in, from which such a session may come.    *)
CallbackStage == {"idle", "token", "reload", "loaded", "reloaded", "verified", "refused", "done"}

LoginState ==
  {l \in [pc : CallbackStage, key : Key \cup {Unset}, keys : SUBSET Key] :
     l.pc \notin {"idle", "done"} => l.key \in Key}

OidcTypeInv ==
  /\ monotonic \in Int
  /\ signing \in Key /\ published \in SUBSET Key
  /\ withdrawn \in [Key -> Int \cup {Unset}]
  /\ jwks \in [keys : SUBSET Key, at : Int] \cup {Unset}
  /\ login \in [Callback -> LoginState]

\* A key that is not published any more has been withdrawn, not in the future.
Published ==
  /\ signing \in published
  /\ \A k \in Key : withdrawn[k] # Unset => withdrawn[k] <= monotonic /\ k \notin published

\* A callback's key was published when the token was signed, and an answer of
\* the provider that came later holds it unless it was withdrawn before.
KeyKnown ==
  /\ \A c \in Callback : login[c].pc \notin {"idle", "done"} =>
       login[c].key \in published \/ withdrawn[login[c].key] # Unset
  /\ \A c \in Callback : login[c].pc = "reloaded" =>
       login[c].key \in login[c].keys \/ withdrawn[login[c].key] # Unset

\* Neither an answer in hand nor the cache holds keys withdrawn before it.
KeysFresh ==
  /\ \A c \in Callback : login[c].pc \in {"loaded", "reloaded"} =>
       \A k \in login[c].keys : withdrawn[k] # Unset => withdrawn[k] = monotonic
  /\ jwks # Unset =>
       /\ jwks.at <= monotonic
       /\ \A k \in jwks.keys : withdrawn[k] # Unset => jwks.at <= withdrawn[k]

OidcIInv ==
  /\ OidcTypeInv /\ Published /\ KeyKnown /\ KeysFresh
  /\ RotationRefusesNobody /\ WithdrawnKeyExpires

-----------------------------------------------------------------------------
(* The invariant holds before the first callback.                           *)
LEMMA OidcInitEstablishes == OidcInit => OidcIInv
BY KeyAssumption
DEF OidcInit, NoLogin, OidcIInv, OidcTypeInv, CallbackStage, LoginState, Published, KeyKnown, KeysFresh,
    RotationRefusesNobody, WithdrawnKeyExpires

(* Every step keeps the invariant.                                          *)
LEMMA OidcStepPreserves == OidcIInv /\ [OidcNext]_oidcVars => OidcIInv'
<1>. SUFFICES ASSUME OidcIInv, [OidcNext]_oidcVars PROVE OidcIInv'
  OBVIOUS
<1>. USE KeyAssumption, TimeAssumption DEF OidcIInv
<1>1. ASSUME NEW k \in Key, Rotate(k) PROVE OidcIInv'
  <2>1. OidcTypeInv'
    BY <1>1 DEF Rotate, OidcTypeInv, LoginState, CallbackStage, Done, NoLogin
  <2>2. Published'
    BY <1>1 DEF Rotate, Published, OidcTypeInv, LoginState, Done, NoLogin
  <2>3. KeyKnown'
    BY <1>1 DEF Rotate, KeyKnown, OidcTypeInv, LoginState, Published, Done, NoLogin
  <2>4. KeysFresh'
    BY <1>1 DEF Rotate, KeysFresh, OidcTypeInv, LoginState, Published, Done, NoLogin
  <2>5. RotationRefusesNobody'
    BY <1>1 DEF Rotate, RotationRefusesNobody, OidcTypeInv, LoginState, KeyKnown, Done, NoLogin
  <2>6. WithdrawnKeyExpires'
    BY <1>1 DEF Rotate, WithdrawnKeyExpires, OidcTypeInv, LoginState, Published, KeysFresh,
                Done, NoLogin
  <2>. QED  BY <2>1, <2>2, <2>3, <2>4, <2>5, <2>6
<1>2. ASSUME NEW k \in Key, Withdraw(k) PROVE OidcIInv'
  <2>1. OidcTypeInv'
    BY <1>2 DEF Withdraw, OidcTypeInv, LoginState, CallbackStage, Done, NoLogin
  <2>2. Published'
    BY <1>2 DEF Withdraw, Published, OidcTypeInv, LoginState, Done, NoLogin
  <2>3. KeyKnown'
    BY <1>2 DEF Withdraw, KeyKnown, OidcTypeInv, LoginState, Published, Done, NoLogin
  <2>4. KeysFresh'
    BY <1>2 DEF Withdraw, KeysFresh, OidcTypeInv, LoginState, Published, Done, NoLogin
  <2>5. RotationRefusesNobody'
    BY <1>2 DEF Withdraw, RotationRefusesNobody, OidcTypeInv, LoginState, KeyKnown, Done, NoLogin
  <2>6. WithdrawnKeyExpires'
    BY <1>2 DEF Withdraw, WithdrawnKeyExpires, OidcTypeInv, LoginState, Published,
                KeysFresh, Done, NoLogin
  <2>. QED  BY <2>1, <2>2, <2>3, <2>4, <2>5, <2>6
<1>3. ASSUME NEW c \in Callback, Exchange(c) PROVE OidcIInv'
  <2>1. OidcTypeInv'
    BY <1>3 DEF Exchange, OidcTypeInv, LoginState, CallbackStage, Done, NoLogin
  <2>2. Published'
    BY <1>3 DEF Exchange, Published, OidcTypeInv, LoginState, Done, NoLogin
  <2>3. KeyKnown'
    BY <1>3 DEF Exchange, KeyKnown, OidcTypeInv, LoginState, Published, Done, NoLogin
  <2>4. KeysFresh'
    BY <1>3 DEF Exchange, KeysFresh, OidcTypeInv, LoginState, Published, Done, NoLogin
  <2>5. RotationRefusesNobody'
    BY <1>3 DEF Exchange, RotationRefusesNobody, OidcTypeInv, LoginState, KeyKnown, Done, NoLogin
  <2>6. WithdrawnKeyExpires'
    BY <1>3 DEF Exchange, WithdrawnKeyExpires, OidcTypeInv, LoginState, Published,
                KeysFresh, Done, NoLogin
  <2>. QED  BY <2>1, <2>2, <2>3, <2>4, <2>5, <2>6
<1>4. ASSUME NEW c \in Callback, VerifyCached(c) PROVE OidcIInv'
  <2>1. OidcTypeInv'
    BY <1>4 DEF VerifyCached, Usable, Goto, OidcTypeInv, LoginState, CallbackStage, Done, NoLogin
  <2>2. Published'
    BY <1>4 DEF VerifyCached, Usable, Goto, Published, OidcTypeInv, LoginState, Done, NoLogin
  <2>3. KeyKnown'
    BY <1>4 DEF VerifyCached, Usable, Goto, KeyKnown, OidcTypeInv, LoginState, Published,
                Done, NoLogin
  <2>4. KeysFresh'
    BY <1>4 DEF VerifyCached, Usable, Goto, KeysFresh, OidcTypeInv, LoginState, Published,
                Done, NoLogin
  <2>5. RotationRefusesNobody'
    BY <1>4 DEF VerifyCached, Usable, Goto, RotationRefusesNobody, OidcTypeInv, LoginState,
                KeyKnown, Done, NoLogin
  <2>6. WithdrawnKeyExpires'
    BY <1>4 DEF VerifyCached, Usable, Goto, WithdrawnKeyExpires, OidcTypeInv, LoginState,
                Published, KeysFresh, Done, NoLogin
  <2>. QED  BY <2>1, <2>2, <2>3, <2>4, <2>5, <2>6
<1>5. ASSUME NEW c \in Callback, Fetch(c) PROVE OidcIInv'
  <2>1. OidcTypeInv'
    <3>1. login[c] \in LoginState /\ published \in SUBSET Key /\ login[c].pc \in {"token", "reload"}
      BY <1>5 DEF Fetch, Asks, OidcTypeInv
    <3>2. [login[c] EXCEPT !.pc = IF @ = "token" THEN "loaded" ELSE "reloaded", !.keys = published]
            \in LoginState
      BY <3>1 DEF LoginState, CallbackStage
    <3>. QED  BY <1>5, <3>2 DEF Fetch, Answer, OidcTypeInv
  <2>2. Published'
    BY <1>5 DEF Fetch, Asks, Answer, Published, OidcTypeInv, LoginState, Done, NoLogin
  <2>3. KeyKnown'
    BY <1>5 DEF Fetch, Asks, Answer, KeyKnown, OidcTypeInv, LoginState, Published, Done, NoLogin
  <2>4. KeysFresh'
    BY <1>5 DEF Fetch, Asks, Answer, KeysFresh, OidcTypeInv, LoginState, Published, Done, NoLogin
  <2>5. RotationRefusesNobody'
    BY <1>5 DEF Fetch, Asks, Answer, RotationRefusesNobody, OidcTypeInv, LoginState,
                KeyKnown, Done, NoLogin
  <2>6. WithdrawnKeyExpires'
    BY <1>5 DEF Fetch, Asks, Answer, WithdrawnKeyExpires, OidcTypeInv, LoginState,
                Published, KeysFresh, Done, NoLogin
  <2>. QED  BY <2>1, <2>2, <2>3, <2>4, <2>5, <2>6
<1>6. ASSUME NEW c \in Callback, FetchFails(c) PROVE OidcIInv'
  <2>1. OidcTypeInv'
    BY <1>6 DEF FetchFails, Asks, Leave, OidcTypeInv, LoginState, CallbackStage, Done, NoLogin
  <2>2. Published'
    BY <1>6 DEF FetchFails, Asks, Leave, Published, OidcTypeInv, LoginState, Done, NoLogin
  <2>3. KeyKnown'
    BY <1>6 DEF FetchFails, Asks, Leave, KeyKnown, OidcTypeInv, LoginState, Published, Done,
                NoLogin
  <2>4. KeysFresh'
    BY <1>6 DEF FetchFails, Asks, Leave, KeysFresh, OidcTypeInv, LoginState, Published,
                Done, NoLogin
  <2>5. RotationRefusesNobody'
    BY <1>6 DEF FetchFails, Asks, Leave, RotationRefusesNobody, OidcTypeInv, LoginState,
                KeyKnown, Done, NoLogin
  <2>6. WithdrawnKeyExpires'
    BY <1>6 DEF FetchFails, Asks, Leave, WithdrawnKeyExpires, OidcTypeInv, LoginState,
                Published, KeysFresh, Done, NoLogin
  <2>. QED  BY <2>1, <2>2, <2>3, <2>4, <2>5, <2>6
<1>7. ASSUME NEW c \in Callback, Store(c) PROVE OidcIInv'
  <2>1. OidcTypeInv'
    <3>1. PICK pc \in Decoded(c) :
            login' = [login EXCEPT ![c] = IF pc = "done" THEN Done ELSE [@ EXCEPT !.pc = pc, !.keys = {}]]
      BY <1>7 DEF Store
    <3>2. pc \in CallbackStage \ {"idle"} /\ login[c] \in LoginState /\ login[c].key \in Key
          /\ login[c].keys \in SUBSET Key
      BY <1>7 DEF Store, Decoded, OidcTypeInv, LoginState, CallbackStage
    <3>3. (IF pc = "done" THEN Done ELSE [login[c] EXCEPT !.pc = pc, !.keys = {}]) \in LoginState
      BY <3>2 DEF LoginState, CallbackStage, Done, NoLogin
    <3>4. login' \in [Callback -> LoginState]
      BY <3>1, <3>3 DEF OidcTypeInv
    <3>. QED  BY <1>7, <3>2, <3>4 DEF Store, OidcTypeInv
  <2>2. Published'
    BY <1>7 DEF Store, Decoded, Published, OidcTypeInv, LoginState, Done, NoLogin
  <2>3. KeyKnown'
    BY <1>7 DEF Store, Decoded, KeyKnown, OidcTypeInv, LoginState, Published, Done, NoLogin
  <2>4. KeysFresh'
    BY <1>7 DEF Store, Decoded, KeysFresh, OidcTypeInv, LoginState, Published, Done, NoLogin
  <2>5. RotationRefusesNobody'
    BY <1>7 DEF Store, Decoded, RotationRefusesNobody, OidcTypeInv, LoginState, KeyKnown,
                Done, NoLogin
  <2>6. WithdrawnKeyExpires'
    BY <1>7 DEF Store, Decoded, WithdrawnKeyExpires, OidcTypeInv, LoginState, Published,
                KeysFresh, Done, NoLogin
  <2>. QED  BY <2>1, <2>2, <2>3, <2>4, <2>5, <2>6
<1>8. ASSUME NEW c \in Callback, Deny(c) PROVE OidcIInv'
  <2>1. OidcTypeInv'
    BY <1>8 DEF Deny, Leave, OidcTypeInv, LoginState, CallbackStage, Done, NoLogin
  <2>2. Published'
    BY <1>8 DEF Deny, Leave, Published, OidcTypeInv, LoginState, Done, NoLogin
  <2>3. KeyKnown'
    BY <1>8 DEF Deny, Leave, KeyKnown, OidcTypeInv, LoginState, Published, Done, NoLogin
  <2>4. KeysFresh'
    BY <1>8 DEF Deny, Leave, KeysFresh, OidcTypeInv, LoginState, Published, Done, NoLogin
  <2>5. RotationRefusesNobody'
    BY <1>8 DEF Deny, Leave, RotationRefusesNobody, OidcTypeInv, LoginState, KeyKnown, Done,
                NoLogin
  <2>6. WithdrawnKeyExpires'
    BY <1>8 DEF Deny, Leave, WithdrawnKeyExpires, OidcTypeInv, LoginState, Published,
                KeysFresh, Done, NoLogin
  <2>. QED  BY <2>1, <2>2, <2>3, <2>4, <2>5, <2>6
<1>9. ASSUME NEW c \in Callback, Enter(c) PROVE OidcIInv'
  <2>1. OidcTypeInv'
    BY <1>9 DEF Enter, Leave, OidcTypeInv, LoginState, CallbackStage, Done, NoLogin
  <2>2. Published'
    BY <1>9 DEF Enter, Leave, Published, OidcTypeInv, LoginState, Done, NoLogin
  <2>3. KeyKnown'
    BY <1>9 DEF Enter, Leave, KeyKnown, OidcTypeInv, LoginState, Published, Done, NoLogin
  <2>4. KeysFresh'
    BY <1>9 DEF Enter, Leave, KeysFresh, OidcTypeInv, LoginState, Published, Done, NoLogin
  <2>5. RotationRefusesNobody'
    BY <1>9 DEF Enter, Leave, RotationRefusesNobody, OidcTypeInv, LoginState, KeyKnown,
                Done, NoLogin
  <2>6. WithdrawnKeyExpires'
    BY <1>9 DEF Enter, Leave, WithdrawnKeyExpires, OidcTypeInv, LoginState, Published,
                KeysFresh, Done, NoLogin
  <2>. QED  BY <2>1, <2>2, <2>3, <2>4, <2>5, <2>6
<1>10. ASSUME ProcessEnds PROVE OidcIInv'
  <2>1. OidcTypeInv'
    BY <1>10 DEF ProcessEnds, OidcTypeInv, LoginState, CallbackStage, Done, NoLogin
  <2>2. Published'
    BY <1>10 DEF ProcessEnds, Published, OidcTypeInv, LoginState, Done, NoLogin
  <2>3. KeyKnown'
    BY <1>10 DEF ProcessEnds, KeyKnown, OidcTypeInv, LoginState, Published, Done, NoLogin
  <2>4. KeysFresh'
    BY <1>10 DEF ProcessEnds, KeysFresh, OidcTypeInv, LoginState, Published, Done, NoLogin
  <2>5. RotationRefusesNobody'
    BY <1>10 DEF ProcessEnds, RotationRefusesNobody, OidcTypeInv, LoginState, KeyKnown,
                 Done, NoLogin
  <2>6. WithdrawnKeyExpires'
    BY <1>10 DEF ProcessEnds, WithdrawnKeyExpires, OidcTypeInv, LoginState, Published,
                 KeysFresh, Done, NoLogin
  <2>. QED  BY <2>1, <2>2, <2>3, <2>4, <2>5, <2>6
<1>11. ASSUME Tick PROVE OidcIInv'
  <2>1. OidcTypeInv'
    BY <1>11 DEF Tick, InHand, OidcTypeInv, LoginState, CallbackStage, Done, NoLogin
  <2>2. Published'
    BY <1>11 DEF Tick, InHand, Published, OidcTypeInv, LoginState, Done, NoLogin
  <2>3. KeyKnown'
    BY <1>11 DEF Tick, InHand, KeyKnown, OidcTypeInv, LoginState, Published, Done, NoLogin
  <2>4. KeysFresh'
    BY <1>11 DEF Tick, InHand, KeysFresh, OidcTypeInv, LoginState, Published, Done, NoLogin
  <2>5. RotationRefusesNobody'
    BY <1>11 DEF Tick, InHand, RotationRefusesNobody, OidcTypeInv, LoginState, KeyKnown,
                 Done, NoLogin
  <2>6. WithdrawnKeyExpires'
    BY <1>11 DEF Tick, InHand, WithdrawnKeyExpires, OidcTypeInv, LoginState, Published,
                 KeysFresh, Done, NoLogin
  <2>. QED  BY <2>1, <2>2, <2>3, <2>4, <2>5, <2>6
<1>12. CASE UNCHANGED oidcVars
  BY <1>12 DEF oidcVars, OidcTypeInv, Published, KeyKnown, KeysFresh, RotationRefusesNobody,
               WithdrawnKeyExpires
<1>. QED  BY <1>1, <1>2, <1>3, <1>4, <1>5, <1>6, <1>7, <1>8, <1>9, <1>10, <1>11, <1>12 DEF
                                                                                           OidcNext,
                                                                                           CallbackStep

(* The invariant holds throughout.                                          *)
THEOREM OidcInvariant == OidcSpec => []OidcIInv
BY OidcInitEstablishes, OidcStepPreserves, PTL DEF OidcSpec

(* For any number of callbacks and keys: a token is refused for its         *)
(* signature only if its key was withdrawn.                                 *)
THEOREM NobodyRefusedForRotation == OidcSpec => []RotationRefusesNobody
<1>1. OidcIInv => RotationRefusesNobody
  BY DEF OidcIInv
<1>. QED  BY <1>1, OidcInvariant, PTL

(* For any lifetime of the cache: a withdrawn key signs nobody in once it   *)
(* is over.                                                                 *)
THEOREM WithdrawnKeysEnd == OidcSpec => []WithdrawnKeyExpires
<1>1. OidcIInv => WithdrawnKeyExpires
  BY DEF OidcIInv
<1>. QED  BY <1>1, OidcInvariant, PTL

=============================================================================
