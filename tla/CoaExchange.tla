----------------------------- MODULE CoaExchange -----------------------------
(***************************************************************************)
(* services/coa.py: disconnecting a session or changing its VLAN through   *)
(* its NAS (RFC 5176), over UDP: packets and answers are lost or late, and *)
(* pyrad sends the same packet again until the attempts are used up.  The  *)
(* NAS' settings come from the registry, which changes at the same time.   *)
(*                                                                         *)
(* Every request names its session; the search by user name finds nothing  *)
(* but a user's only open session.                                         *)
(***************************************************************************)
EXTENDS NasRegistry, Sequences

CONSTANTS Req,       \* requests to POST /nas/coa
          Session,   \* accounting sessions
          HostOf,    \* radacct.nasipaddress of a session
          NetsOf,    \* the names that are networks around an address
          Prefix,    \* prefix length of a network
          Attempts   \* coa_retries: how often pyrad sends

ASSUME CoaAssumption ==
  /\ HostOf \in [Session -> Name] /\ NetsOf \in [Name -> SUBSET Name]
  /\ Prefix \in [Name -> Nat] /\ Attempts \in Nat \ {0}

VARIABLES
  alive,    \* the NAS still serves the session (external)
  stopped,  \* radacct.acctstoptime is set
  coa,      \* the requests
  packets,  \* copies of a request's packet in flight
  replies,  \* codes of its answers in flight
  done,     \* history: the NAS has executed the request
  log       \* results in mgr_audit, per request

coaVars == <<alive, stopped, coa, packets, replies, done, log>>
vars    == <<nasVars, coaVars>>

Action == {"disconnect", "coa"}
Ack == [a \in Action |-> IF a = "disconnect" THEN "DisconnectACK" ELSE "CoAACK"]

NoCoa == [pc |-> "idle", sess |-> None, action |-> None, sent |-> 0, code |-> None]

Init ==
  /\ NasInit
  /\ alive = [s \in Session |-> TRUE] /\ stopped = [s \in Session |-> FALSE]
  /\ coa = [r \in Req |-> NoCoa]
  /\ packets = [r \in Req |-> 0] /\ replies = [r \in Req |-> {}]
  /\ done = [r \in Req |-> FALSE] /\ log = [r \in Req |-> <<>>]

-----------------------------------------------------------------------------
Enabled(n) == extra[n] # None /\ extra[n].enabled

\* _extra_by_network: the narrowest network among those with CoA.
ByNetwork(h) ==
  {n \in NetsOf[h] : Enabled(n) /\ \A m \in NetsOf[h] : Enabled(m) => Prefix[m] <= Prefix[n]}

\* coa_target: the NAS of that address, or else of a network around it.
Target(h) ==
  {n \in (IF extra[h] # None THEN {h} ELSE ByNetwork(h)) : Enabled(n) /\ extra[n].secret # None}

Logged(r, result) == log' = [log EXCEPT ![r] = Append(@, result)]

(* _resolve_session, the target and the input, all on one snapshot, and the *)
(* first sending.  Without a target the outcome is known and will be        *)
(* logged; a change of VLAN that names none (vlan is optional in            *)
(* CoARequest) is refused there and then, without an entry.                 *)
Dispatch(r, s, a, vlan) ==
  LET opened == [NoCoa EXCEPT !.sess = s, !.action = a]
      Goes(x) == coa' = [coa EXCEPT ![r] = x]
  IN /\ coa[r] = NoCoa /\ ~stopped[s]
     /\ \/ /\ Target(HostOf[s]) = {}
           /\ Goes([opened EXCEPT !.pc = "decided", !.code = "unconfigured"])
           /\ UNCHANGED packets
        \/ /\ Target(HostOf[s]) # {} /\ a = "coa" /\ ~vlan
           /\ Goes([opened EXCEPT !.pc = "invalid"])
           /\ UNCHANGED packets
        \/ /\ Target(HostOf[s]) # {} /\ (a = "coa" => vlan)
           /\ Goes([opened EXCEPT !.pc = "waiting", !.sent = 1])
           /\ packets' = [packets EXCEPT ![r] = 1]
     /\ UNCHANGED <<nasVars, alive, stopped, replies, done, log>>

(* SendPacket in its thread: nothing heard, the same packet once more ...   *)
Resend(r) ==
  /\ coa[r].pc = "waiting" /\ coa[r].sent < Attempts
  /\ coa' = [coa EXCEPT ![r].sent = @ + 1]
  /\ packets' = [packets EXCEPT ![r] = @ + 1]
  /\ UNCHANGED <<nasVars, alive, stopped, replies, done, log>>

(* ... or the time of the last attempt is over, or the socket fails.        *)
NoAnswer(r) ==
  /\ coa[r].pc = "waiting"
  /\ \E code \in {"timeout", "error"} :
       /\ code = "timeout" => coa[r].sent = Attempts
       /\ coa' = [coa EXCEPT ![r].pc = "decided", ![r].code = code]
  /\ replies' = [replies EXCEPT ![r] = {}]
  /\ UNCHANGED <<nasVars, alive, stopped, packets, done, log>>

\* One of the answers; the client's socket goes with the call, as above.
Receive(r) ==
  /\ coa[r].pc = "waiting"
  /\ \E code \in replies[r] :
       /\ coa' = [coa EXCEPT ![r].pc = "decided", ![r].code = code]
       /\ replies' = [replies EXCEPT ![r] = {}]
  /\ UNCHANGED <<nasVars, alive, stopped, packets, done, log>>

\* Mutant of Confirms: any ACK will do.
ConfirmsAny(action, code) == code \in {Ack[a] : a \in Action}

\* A Disconnect that is answered with CoA-ACK has not been carried out.
Confirms(action, code) == code = Ack[action]

\* Mutant of Result: what is not a success is a refusal.
ResultRefused(r) == IF Confirms(coa[r].action, coa[r].code) THEN "success" ELSE "NAK"

Result(r) ==
  IF Confirms(coa[r].action, coa[r].code) THEN "success"
  ELSE IF coa[r].code \in {"timeout", "error", "NAK", "unconfigured"} THEN coa[r].code ELSE "unexpected"

\* Mutant of Report: what was not sent is refused without an entry.
ReportSentOnly(r) == IF coa[r].sent = 0 THEN UNCHANGED log ELSE Logged(r, Result(r))

Report(r) == Logged(r, Result(r))

(* The audit entry and its commit; then the answer or the error.            *)
Finish(r) ==
  /\ coa[r].pc = "decided"
  /\ Report(r)
  /\ coa' = [coa EXCEPT ![r].pc = "over"]
  /\ UNCHANGED <<nasVars, alive, stopped, packets, replies, done>>

(* The process or its database connection dies.                             *)
Crash ==
  /\ coa' = [r \in Req |-> IF coa[r].pc \in {"waiting", "decided"}
                           THEN [coa[r] EXCEPT !.pc = "lost"] ELSE coa[r]]
  /\ replies' = [r \in Req |-> {}]
  /\ UNCHANGED <<nasVars, alive, stopped, packets, done, log>>

-----------------------------------------------------------------------------
(* An answer finds the client's socket or nobody.                           *)
Answers(r, code) ==
  replies' = [replies EXCEPT ![r] = IF coa[r].pc = "waiting" THEN @ \cup {code} ELSE @]

(* The NAS (external) gets a copy of the packet.  It carries it out while   *)
(* the session lasts; one that remembers packets repeats its answer to a    *)
(* copy.  An answer of the wrong kind confirms nothing.                     *)
Serve(r) ==
  LET s == coa[r].sess IN
  /\ packets[r] > 0
  /\ packets' = [packets EXCEPT ![r] = @ - 1]
  /\ \/ /\ alive[s]
        /\ Answers(r, Ack[coa[r].action])
        /\ done' = [done EXCEPT ![r] = TRUE]
        /\ alive' = [alive EXCEPT ![s] = coa[r].action # "disconnect"]
     \/ /\ \/ ~alive[s] /\ Answers(r, "NAK")
           \/ done[r] /\ Answers(r, Ack[coa[r].action])
           \/ \E a \in Action \ {coa[r].action} : Answers(r, Ack[a])
        /\ UNCHANGED <<done, alive>>
  /\ UNCHANGED <<nasVars, stopped, coa, log>>

(* The network (external) loses a packet or an answer.                      *)
Lose(r) ==
  /\ \/ packets[r] > 0 /\ packets' = [packets EXCEPT ![r] = @ - 1] /\ UNCHANGED replies
     \/ \E code \in replies[r] : replies' = [replies EXCEPT ![r] = @ \ {code}] /\ UNCHANGED packets
  /\ UNCHANGED <<nasVars, alive, stopped, coa, done, log>>

(* The user leaves; the end of a session reaches radacct some time later.   *)
Leave(s) ==
  /\ alive[s] /\ alive' = [alive EXCEPT ![s] = FALSE]
  /\ UNCHANGED <<nasVars, stopped, coa, packets, replies, done, log>>

AccountStop(s) ==
  /\ ~alive[s] /\ ~stopped[s] /\ stopped' = [stopped EXCEPT ![s] = TRUE]
  /\ UNCHANGED <<nasVars, alive, coa, packets, replies, done, log>>

Work(r) == Resend(r) \/ NoAnswer(r) \/ Receive(r) \/ Finish(r)

Registry == NasNext /\ UNCHANGED coaVars

Next ==
  \/ Registry
  \/ \E r \in Req : Work(r) \/ Serve(r) \/ Lose(r)
  \/ \E r \in Req, s \in Session, a \in Action, vlan \in BOOLEAN : Dispatch(r, s, a, vlan)
  \/ \E s \in Session : Leave(s) \/ AccountStop(s)
  \/ Crash

Spec == Init /\ [][Next]_vars /\ \A r \in Req : WF_vars(Work(r))

-----------------------------------------------------------------------------
(* A logged success was carried out by the NAS, for this session and this   *)
(* action, whatever answers of earlier attempts arrived.                    *)
SuccessMeansDone == \A r \in Req : "success" \in {log[r][i] : i \in DOMAIN log[r]} => done[r]

(* A failure may hide a disconnect that took place - but only one whose     *)
(* packet was sent again, whose answer was lost or came too late.           *)
HiddenOnlyByLoss ==
  \A r \in Req : done[r] /\ log[r] = <<"NAK">> => coa[r].sent > 1

(* "Auch der nicht abgeschickte Versuch gehoert ins Protokoll": a request    *)
(* that has found its session, sent or not, comes to exactly one entry and  *)
(* stays at it, unless the process dies.  One request is left out because   *)
(* the code does not keep the promise for it: the change of VLAN that names *)
(* no VLAN is refused before it is sent and leaves no entry.  (No request   *)
(* is idle again once it has found its session.)                            *)
EveryAttemptLogged ==
  \A r \in Req :
    <>[](coa[r].pc \in {"idle", "lost", "invalid"} \/ Len(log[r]) = 1)

=============================================================================
