----------------------------- MODULE Admission -----------------------------
(***************************************************************************)
(* Calls at one surface of an API: the gRPC interceptor of the internal    *)
(* one, the HTTP middleware of the public one.  Both look at what the      *)
(* caller presents, find the key of its token in the surface's key cache,  *)
(* check claims and scopes and only then run the handler; internal calls   *)
(* also need a certificate, a deadline, which is clamped, and a merchant   *)
(* that is delegated to them.                                              *)
(*                                                                         *)
(* Which of the tokens with its key a call has matters only when the key   *)
(* is there, and is chosen then.  Timeouts are punctual: the clock does    *)
(* not pass a deadline that has not been acted on.                         *)
(***************************************************************************)
EXTENDS KeyCache, Policy, FiniteSetsExt

CONSTANTS
  CallBudget,    \* the longest a caller waits
  MaxDeadline,   \* of the server for an internal handler
  ServerHorizon  \* bound of the clock

ASSUME AdmissionAssumption == {CallBudget, MaxDeadline, ServerHorizon} \subseteq Nat \ {0}

VARIABLES
  surface,  \* "internal" or "public"
  call      \* where a call is, and its deadline

admissionVars == <<keyVars, surface, call>>

Call(pc, deadline) == [pc |-> pc, deadline |-> deadline]

NoCall == Call("idle", 0)

AdmissionInit ==
  /\ KeyInit
  /\ surface \in {"internal", "public"}
  /\ call = [c \in Calls |-> NoCall]

Expired(c) == now >= call[c].deadline

Arrive(c) ==
  /\ call[c].pc = "idle"
  /\ \E b \in 1 .. CallBudget :
       now + b <= ServerHorizon /\ call' = [call EXCEPT ![c] = Call("arrived", now + b)]
  /\ UNCHANGED <<now, surface, keyVars>>

\* The Authorization header has a credential, and the scheme is Bearer.
BearerToken(header) == header = "bearer"

\* What admit asks of every internal call first: a verified certificate and a deadline.
Connected(certificate, bounded) == surface = "internal" => certificate /\ bounded

\* What admit, and the first half of Middleware, make of a call: the key its token asks for.
\* A request that declares too long a body is refused here too, as one without a token is.
Presentable(certificate, bounded, header, token) ==
  BearerToken(header) /\ Readable(token) /\ Connected(certificate, bounded)

KeyAskedFor ==
  { IF Presentable(certificate, bounded, header, token) THEN token.kid ELSE None :
      certificate, bounded \in BOOLEAN, header \in {"none", "other", "bearer"}, token \in Tokens }

Admit(c) ==
  /\ call[c].pc = "arrived"
  /\ \E kid \in KeyAskedFor :
       IF kid # None
       THEN /\ call' = [call EXCEPT ![c].pc = "key"]
            /\ look' = [look EXCEPT ![c] = [pc |-> "clock", kid |-> kid, now |-> 0]]
       ELSE call' = [call EXCEPT ![c] = NoCall] /\ UNCHANGED look
  /\ UNCHANGED <<now, surface, published, withdrawn, rotations, cache, refresh>>

\* Health checks need no token, and their deadline is not clamped.
AdmitHealthCheck(c) ==
  /\ call[c].pc = "arrived" /\ surface = "internal"
  /\ \E certificate, bounded \in BOOLEAN :
       call' = [call EXCEPT ![c] = IF Connected(certificate, bounded)
                                   THEN Call("handling", call[c].deadline) ELSE NoCall]
  /\ UNCHANGED <<now, surface, keyVars>>

FindKey(c) == LookStep(c) /\ UNCHANGED <<now, surface, call>>

\* The caller's deadline ends while another call refreshes.
StopFinding(c) == Expired(c) /\ StopWaiting(c) /\ UNCHANGED <<now, surface, call>>

FetchKeys == (ProviderAnswers \/ RefreshSucceeds \/ RefreshFails) /\ UNCHANGED <<now, surface, call>>

RotateKeys == Rotate /\ UNCHANGED <<now, surface, call>>

HandlerDeadline(c) ==
  IF surface = "internal" THEN Min({call[c].deadline, now + MaxDeadline}) ELSE call[c].deadline

\* The body of a public request was read to its end, and is not longer than allowed.
BodyBuffered(body) == surface = "public" => body = "whole"

\* The rest of Verify, the scope policy and the delegation, and last the body.
Verdicts(c) ==
  { /\ look[c].pc = "found"
    /\ Identified(surface, token, now) /\ MayCall(surface, rule.operation, merchant, token)
    /\ BodyBuffered(body) :
      token \in {t \in Tokens : Readable(t) /\ t.kid = look[c].kid}, body \in {"whole", "broken", "long"},
      rule \in PolicyOf(surface), merchant \in Merchants }

Authorize(c) ==
  /\ call[c].pc = "key" /\ look[c].pc \in {"found", "unknown"}
  /\ \E admitted \in Verdicts(c) :
       call' = [call EXCEPT ![c] = IF admitted THEN Call("handling", HandlerDeadline(c)) ELSE NoCall]
  /\ look' = [look EXCEPT ![c] = NoLook]
  /\ UNCHANGED <<now, surface, published, withdrawn, rotations, cache, refresh>>

\* The handler returns, at the latest when its context ends.
Handle(c) ==
  /\ call[c].pc = "handling"
  /\ call' = [call EXCEPT ![c] = NoCall]
  /\ UNCHANGED <<now, surface, keyVars>>

AdmissionTick ==
  /\ now < ServerHorizon /\ KeyTimeMayPass
  /\ \A c \in Calls : call[c].pc # "idle" => ~Expired(c)
  /\ now' = now + 1
  /\ UNCHANGED admissionVars

AdmissionNext ==
  \/ \E c \in Calls :
       \/ Arrive(c) \/ Admit(c) \/ AdmitHealthCheck(c)
       \/ FindKey(c) \/ StopFinding(c) \/ Authorize(c) \/ Handle(c)
  \/ FetchKeys \/ RotateKeys \/ AdmissionTick

AdmissionSpec == now = 0 /\ AdmissionInit /\ [][AdmissionNext]_<<now, admissionVars>>
=============================================================================
