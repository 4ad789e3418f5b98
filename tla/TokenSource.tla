---------------------------- MODULE TokenSource ----------------------------
(***************************************************************************)
(* clientcredentials.Source.Token: the internal calls of one service share *)
(* a cached access token and one request for a new one, which runs in the  *)
(* budget of the call that makes it.                                       *)
(***************************************************************************)
EXTENDS Clock

CONSTANTS
  Lifetime,  \* expires_in
  Skew       \* RefreshSkew

ASSUME TokenAssumption == Lifetime \in Nat \ {0} /\ Skew \in Nat

VARIABLES
  source,  \* the cached token's real expiry, and expires as the source computes it
  asking,  \* the call that asks for a token, or None: refresh
  issued,  \* the real expiry of the token that is on its way
  take     \* where each call is in Token, and the expiry of the token it got

tokenVars == <<source, asking, issued, take>>

NoToken == [pc |-> "none", exp |-> None]

TokenInit ==
  /\ source = [exp |-> None, expires |-> None]
  /\ asking = None /\ issued = None
  /\ take = [c \in Calls |-> NoToken]

\* Mutant of Usable: no margin is kept.
UsableToTheEnd == source.exp # None /\ now < source.expires

Usable == source.exp # None /\ now + Skew < source.expires

\* Under the mutex: the cached token, the channel to wait for, or a new request.
Token(c) ==
  /\ take[c].pc = "token"
  /\ \/ Usable /\ take' = [take EXCEPT ![c] = [pc |-> "got", exp |-> source.exp]] /\ UNCHANGED asking
     \/ ~Usable /\ asking # None /\ take' = [take EXCEPT ![c].pc = "wait"] /\ UNCHANGED asking
     \/ ~Usable /\ asking = None /\ take' = [take EXCEPT ![c].pc = "fetch"] /\ asking' = c
  /\ UNCHANGED <<source, issued>>

\* The identity provider issues a token.
Issue ==
  /\ asking # None /\ issued = None
  /\ issued' = now + Lifetime
  /\ UNCHANGED <<source, asking, take>>

\* close(done): whoever waited looks again.
EndAsking(pc, exp) ==
  /\ asking' = None /\ issued' = None
  /\ take' = [c \in Calls |-> IF c = asking THEN [pc |-> pc, exp |-> exp]
                              ELSE IF take[c].pc = "wait" THEN [take[c] EXCEPT !.pc = "token"] ELSE take[c]]

\* Its life is counted from the moment the answer is read.
TokenReceived ==
  /\ issued # None
  /\ source' = [exp |-> issued, expires |-> now + Lifetime]
  /\ EndAsking("got", issued)

TokenFails ==
  /\ asking # None
  /\ EndAsking("failed", None)
  /\ UNCHANGED source

StopWaitingForToken(c) ==
  /\ take[c].pc = "wait"
  /\ take' = [take EXCEPT ![c].pc = "failed"]
  /\ UNCHANGED <<source, asking, issued>>
=============================================================================
