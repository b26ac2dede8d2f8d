------------------------------ MODULE OidcLogin ------------------------------
(***************************************************************************)
(* services/oidc.py: the callback of the authorization code flow, from the *)
(* exchange of the code to the verified ID token, beside an identity       *)
(* provider that rotates its signing keys and a cached copy of its key set.*)
(*                                                                         *)
(* The model starts where a callback has passed the comparison of states.  *)
(* Of the claims it keeps that validate() may refuse them, which it does   *)
(* by the clock; those compared afterwards (issuer, nonce, audience) end   *)
(* in Deny.                                                                *)
(* What the sign-in does to accounts is AccountRegistry's subject, what    *)
(* comes after it SessionLifetime's; names it would share with that module *)
(* are told apart, for the proofs extend both.                             *)
(***************************************************************************)
EXTENDS Integers, FiniteSets

CONSTANTS Callback,  \* the callbacks of a run; each is one request
          Key,       \* the provider's signing keys, each used once
          FirstKey,
          Ttl,       \* JWKS_TTL_SECONDS
          MaxMonotonic,  \* bound on the clock
          Unset

ASSUME KeyAssumption  == FirstKey \in Key /\ Unset \notin Key \cup Int
ASSUME TimeAssumption == Ttl \in Nat \ {0} /\ MaxMonotonic \in Nat

VARIABLES
  monotonic,  \* time.monotonic()
  signing,    \* the key the provider signs with (external)
  published,  \* the key set it publishes (external)
  withdrawn,  \* history: when a key was taken out of that set
  jwks,       \* _jwks_cache: keys and time of loading, or None
  login       \* the callbacks under way

oidcVars == <<monotonic, signing, published, withdrawn, jwks, login>>

NoLogin == [pc |-> "idle", key |-> Unset, keys |-> {}]

OidcInit ==
  /\ monotonic = 0
  /\ signing = FirstKey /\ published = {FirstKey}
  /\ withdrawn = [k \in Key |-> Unset]
  /\ jwks = Unset
  /\ login = [c \in Callback |-> NoLogin]

-----------------------------------------------------------------------------
(* The provider starts to sign with a new key; old ones stay published for  *)
(* a while, or not.                                                         *)
Rotate(k) ==
  /\ k \notin published /\ withdrawn[k] = Unset
  /\ signing' = k /\ published' = published \cup {k}
  /\ UNCHANGED <<monotonic, withdrawn, jwks, login>>

Withdraw(k) ==
  /\ k \in published /\ k # signing
  /\ published' = published \ {k}
  /\ withdrawn' = [withdrawn EXCEPT ![k] = monotonic]
  /\ UNCHANGED <<monotonic, signing, jwks, login>>

-----------------------------------------------------------------------------
Goto(c, pc) == login' = [login EXCEPT ![c].pc = pc]
Done        == [NoLogin EXCEPT !.pc = "done"]
Leave(c)    == login' = [login EXCEPT ![c] = Done]

(* exchange: the code buys an ID token, signed with the key of the moment.  *)
Exchange(c) ==
  /\ login[c] = NoLogin
  /\ login' = [login EXCEPT ![c].pc = "token", ![c].key = signing]
  /\ UNCHANGED <<monotonic, signing, published, withdrawn, jwks>>

\* Mutant of Usable: <= for <.
UsableAtTtl == jwks # Unset /\ monotonic - jwks.at <= Ttl

\* The cached key set is young enough.
Usable == jwks # Unset /\ monotonic - jwks.at < Ttl

(* _jwks without force, and the first _decode.                              *)
VerifyCached(c) ==
  /\ login[c].pc = "token" /\ Usable
  /\ \/ login[c].key \in jwks.keys /\ Goto(c, "verified")
     \/ Goto(c, "reload")
  /\ UNCHANGED <<monotonic, signing, published, withdrawn, jwks>>

\* Mutant of Answer: the forced load is served from the cache as well.
AnswerCached(c) == IF Usable THEN jwks.keys ELSE published

\* What a request for the key set is answered with.
Answer(c) == published

\* The key set is asked for: none is cached, or the one at hand did not help.
Asks(c) == login[c].pc = "reload" \/ (login[c].pc = "token" /\ ~Usable)

(* The provider answers with its keys ...                                   *)
Fetch(c) ==
  /\ Asks(c)
  /\ login' = [login EXCEPT ![c].pc = IF @ = "token" THEN "loaded" ELSE "reloaded",
                            ![c].keys = Answer(c)]
  /\ UNCHANGED <<monotonic, signing, published, withdrawn, jwks>>

(* ... or does not answer: the callback ends with an error.                 *)
FetchFails(c) ==
  /\ Asks(c)
  /\ Leave(c)
  /\ UNCHANGED <<monotonic, signing, published, withdrawn, jwks>>

\* What the token comes to with the keys at hand: its signature may be good and
\* its claims not.  After the first load there is one forced reload.
Decoded(c) ==
  LET known == login[c].key \in login[c].keys
  IN IF login[c].pc = "loaded" THEN {"reload"} \cup IF known THEN {"verified"} ELSE {}
     ELSE IF known THEN {"verified", "done"} ELSE {"refused"}

(* The answer replaces the cache, be it older than what another callback    *)
(* has stored meanwhile, and the token is decoded with it.                  *)
Store(c) ==
  /\ login[c].pc \in {"loaded", "reloaded"}
  /\ jwks' = [keys |-> login[c].keys, at |-> monotonic]
  /\ \E pc \in Decoded(c) :
       login' = [login EXCEPT ![c] = IF pc = "done" THEN Done ELSE [@ EXCEPT !.pc = pc, !.keys = {}]]
  /\ UNCHANGED <<monotonic, signing, published, withdrawn>>

(* A verified token may be meant for somebody else, belong to nobody with a *)
(* role here or to a disabled account, or lack the second factor: the       *)
(* callback ends without a session.                                         *)
Deny(c) ==
  /\ login[c].pc = "verified"
  /\ Leave(c)
  /\ UNCHANGED <<monotonic, signing, published, withdrawn, jwks>>

(* apply_mapped_role, mark_login and _issue_session: the sign-in is over.   *)
Enter(c) ==
  /\ login[c].pc = "verified"
  /\ Leave(c)
  /\ UNCHANGED <<monotonic, signing, published, withdrawn, jwks>>

\* The unit of the clock is longer than what follows the answer of the provider.
InHand == \E c \in Callback : login[c].pc \in {"loaded", "reloaded", "verified"}

Tick ==
  /\ monotonic < MaxMonotonic /\ ~InHand
  /\ monotonic' = monotonic + 1
  /\ UNCHANGED <<signing, published, withdrawn, jwks, login>>

(* The process dies: the cache and the callbacks under way are gone.        *)
ProcessEnds ==
  /\ jwks' = Unset
  /\ login' = [c \in Callback |-> IF login[c] = NoLogin THEN NoLogin ELSE Done]
  /\ UNCHANGED <<monotonic, signing, published, withdrawn>>

CallbackStep(c) ==
  Exchange(c) \/ VerifyCached(c) \/ Fetch(c) \/ FetchFails(c) \/ Store(c) \/ Deny(c) \/ Enter(c)

OidcNext ==
  \/ \E k \in Key : Rotate(k) \/ Withdraw(k)
  \/ \E c \in Callback : CallbackStep(c)
  \/ ProcessEnds \/ Tick

OidcSpec == OidcInit /\ [][OidcNext]_oidcVars

-----------------------------------------------------------------------------
(* "Ohne erneutes Laden waeren nach einer Rotation alle Anmeldungen ...     *)
(* unmoeglich": whatever the cache holds, and whatever answers overtake     *)
(* each other on the way into it, a token is refused for its signature only *)
(* if the provider has withdrawn the key.                                   *)
RotationRefusesNobody ==
  \A c \in Callback : login[c].pc = "refused" => withdrawn[login[c].key] # Unset

(* A key that the provider has withdrawn signs nobody in once the lifetime  *)
(* of a cached key set is over, although forced reloads and answers that    *)
(* come late renew the cache's time stamp.                                  *)
WithdrawnKeyExpires ==
  \A c \in Callback :
    login[c].pc = "verified" /\ withdrawn[login[c].key] # Unset =>
      monotonic < withdrawn[login[c].key] + Ttl

=============================================================================
