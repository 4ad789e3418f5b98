------------------------------- MODULE Client -------------------------------
(***************************************************************************)
(* The internal calls of one service: the client's interceptor gets a      *)
(* token and sends the call in one budget, the server checks the token's   *)
(* expiry at any moment until that budget ends.                            *)
(*                                                                         *)
(* Timeouts are punctual: the clock does not pass a deadline that has not  *)
(* been acted on.                                                          *)
(***************************************************************************)
EXTENDS TokenSource

CONSTANTS
  Budget,  \* of a client for a call: Deadline
  ClientHorizon  \* bound of the clock

\* 30s of skew and 30s of leeway against a budget of at most 30s.
ASSUME ClientAssumption ==
  Budget \in Nat \ {0} /\ ClientHorizon \in Nat /\ 2 * Budget <= Skew + Leeway

VARIABLE sent  \* a call: where it is, its deadline and the expiry of its token

clientVars == <<tokenVars, sent>>

Unsent == [pc |-> "idle", deadline |-> 0, exp |-> None]

ClientInit == TokenInit /\ sent = [c \in Calls |-> Unsent]

\* sharedBudget keeps a shorter deadline that the caller already has.
BeginCall(c) ==
  /\ sent[c].pc = "idle"
  /\ \E b \in 1 .. Budget :
       now + b <= ClientHorizon /\ sent' = [sent EXCEPT ![c] = [pc |-> "prepare", deadline |-> now + b, exp |-> None]]
  /\ take' = [take EXCEPT ![c] = [NoToken EXCEPT !.pc = "token"]]
  /\ UNCHANGED <<now, source, asking, issued>>

\* prepare: the call is sent with the token, or fails without one.
Prepare(c) ==
  /\ sent[c].pc = "prepare"
  /\ \/ take[c].pc = "got" /\ sent' = [sent EXCEPT ![c].pc = "sent", ![c].exp = take[c].exp]
     \/ take[c].pc = "failed" /\ sent' = [sent EXCEPT ![c] = Unsent]
  /\ take' = [take EXCEPT ![c] = NoToken]
  /\ UNCHANGED <<now, source, asking, issued>>

AskForToken(c) == Token(c) /\ UNCHANGED <<now, sent>>

\* The budget ends while another call asks.
StopAsking(c) == now >= sent[c].deadline /\ StopWaitingForToken(c) /\ UNCHANGED <<now, sent>>

AnswerToken == (Issue \/ TokenReceived) /\ UNCHANGED <<now, sent>>

LoseToken == TokenFails /\ UNCHANGED <<now, sent>>

\* The server verifies the token: identityFromPayload.
Verify(c) ==
  /\ sent[c].pc = "sent"
  /\ sent' = [sent EXCEPT ![c] = IF now > @.exp + Leeway THEN [Unsent EXCEPT !.pc = "expired"] ELSE Unsent]
  /\ UNCHANGED <<now, tokenVars>>

ClientTick ==
  /\ now < ClientHorizon
  /\ \A c \in Calls : sent[c].pc \in {"prepare", "sent"} => now < sent[c].deadline
  /\ now' = now + 1
  /\ UNCHANGED clientVars

ClientNext ==
  \/ \E c \in Calls : BeginCall(c) \/ AskForToken(c) \/ StopAsking(c) \/ Prepare(c) \/ Verify(c)
  \/ AnswerToken \/ LoseToken \/ ClientTick

ClientSpec == now = 0 /\ ClientInit /\ [][ClientNext]_<<now, clientVars>>

-----------------------------------------------------------------------------
(* Correctness *)

\* No service is refused because the token its own source gave it has expired, whether the
\* token was cached, shared by several calls or arrived late: the source's skew and the
\* verifier's leeway cover the time the token and the call were under way.
TokensOutlive == \A c \in Calls : sent[c].pc # "expired"
=============================================================================
