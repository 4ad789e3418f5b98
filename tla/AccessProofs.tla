---------------------------- MODULE AccessProofs ----------------------------
(***************************************************************************)
(* The tokens a service gets and the keys a server verifies them with are  *)
(* current, and no call waits for a refresh that is over, for any number   *)
(* of concurrent calls and for any lifetimes, intervals and tolerances.    *)
(***************************************************************************)
EXTENDS MCPlatform, TLAPS

-----------------------------------------------------------------------------
(* The tokens of a service *)

\* A token lives at least as long as the call it is fetched for, up to the leeway of the
\* verifier; with a leeway of 30s and a budget of at most 30s it always does.
LifeCoversBudget == Budget <= Lifetime + Leeway

TakeSteps == {"none", "token", "wait", "fetch", "got", "failed"}

Times == Int \cup {None}

ClientTypeOK ==
  /\ now \in Int
  /\ source \in [exp: Times, expires: Times]
  /\ asking \in Calls \cup {None} /\ issued \in Times
  /\ take \in [Calls -> [pc: TakeSteps, exp: Times]]
  /\ sent \in [Calls -> [pc: {"idle", "prepare", "sent"}, deadline: Int, exp: Times]]

\* Where a call is: it stands in Token only while it prepares, within its budget.
InBudget(c) ==
  /\ take[c].pc # "none" => sent[c].pc = "prepare"
  /\ take[c].pc = "fetch" <=> asking = c
  /\ sent[c].pc # "idle" => now <= sent[c].deadline /\ sent[c].deadline <= now + Budget

\* A token that a call has got, or sent, does not expire before the call ends.
Covered(c) ==
  /\ take[c].pc = "got" => take[c].exp \in Int /\ sent[c].deadline <= take[c].exp + Leeway
  /\ sent[c].pc = "sent" => sent[c].exp \in Int /\ sent[c].deadline <= sent[c].exp + Leeway

\* The token on its way was issued within the budget of the call that asks for it.
OnItsWay == issued # None => asking # None /\ sent[asking].deadline <= issued - Lifetime + Budget

\* The source believes in its token for at most one budget too long.
Believed == source.exp # None => source.expires \in Int /\ source.expires <= source.exp + Budget

\* The inductive invariant behind TokensOutlive.
ClientInv ==
  /\ ClientTypeOK /\ OnItsWay /\ Believed
  /\ \A c \in Calls : InBudget(c) /\ Covered(c)

LEMMA ClientStart == now = 0 /\ ClientInit => ClientInv
BY ClockAssumption DEF ClientInit, TokenInit, ClientInv, ClientTypeOK, OnItsWay, Believed, InBudget,
   Covered, Times, TakeSteps, NoToken, Unsent

LEMMA BeginInv ==
  ASSUME ClientInv, NEW c \in Calls, BeginCall(c)
  PROVE  ClientInv'
<1>1. PICK b \in 1 .. Budget :
        sent' = [sent EXCEPT ![c] = [pc |-> "prepare", deadline |-> now + b, exp |-> None]]
  BY Zenon DEF BeginCall
<1>t. /\ ClientTypeOK /\ OnItsWay /\ Believed /\ Budget \in Nat
      /\ \A d \in Calls : InBudget(d) /\ Covered(d)
  BY ClientAssumption, Zenon DEF ClientInv
<1>2. take' = [take EXCEPT ![c] = [pc |-> "token", exp |-> None]] /\ UNCHANGED <<now, source, asking, issued>>
  <2>1. [NoToken EXCEPT !.pc = "token"] = [pc |-> "token", exp |-> None]
    BY DEF NoToken
  <2>2. QED
    BY <2>1, Zenon DEF BeginCall
<1>3. ClientTypeOK'
  BY <1>t, <1>1, <1>2 DEF ClientTypeOK, Times, TakeSteps
<1>4. sent[c].pc = "idle" /\ take[c].pc = "none" /\ asking # c
  BY <1>t, ClockAssumption, Zenon DEF BeginCall, InBudget, ClientTypeOK
<1>5. \A d \in Calls \ {c} : take'[d] = take[d] /\ sent'[d] = sent[d]
  BY <1>t, <1>1, <1>2, Zenon DEF ClientTypeOK
<1>6. OnItsWay' /\ Believed'
  BY <1>t, <1>2, <1>4, <1>5, Zenon DEF OnItsWay, Believed, ClientTypeOK
<1>7. ASSUME NEW d \in Calls PROVE InBudget(d)' /\ Covered(d)'
  <2>1. CASE d = c
    <3>1. /\ sent'[c].pc = "prepare" /\ sent'[c].deadline = now + b /\ take'[c].pc = "token"
      BY <1>t, <1>1, <1>2, Zenon DEF ClientTypeOK
    <3>2. QED
      BY <1>t, <1>2, <1>4, <2>1, <3>1 DEF InBudget, Covered, ClientTypeOK
  <2>2. CASE d # c
    BY <1>t, <1>2, <1>5, <2>2, Zenon DEF InBudget, Covered
  <2>3. QED
    BY <2>1, <2>2, Zenon
<1>8. QED
  BY <1>3, <1>6, <1>7, Zenon DEF ClientInv

LEMMA TokenInv ==
  ASSUME ClientInv, NEW c \in Calls, AskForToken(c)
  PROVE  ClientInv'
<1>t. /\ ClientTypeOK /\ OnItsWay /\ Believed /\ Budget \in Nat /\ Skew \in Nat /\ Leeway \in Nat
      /\ 2 * Budget <= Skew + Leeway
      /\ \A d \in Calls : InBudget(d) /\ Covered(d)
  BY ClientAssumption, TokenAssumption, ClockAssumption, Zenon DEF ClientInv
<1>1. take[c].pc = "token" /\ sent[c].pc = "prepare" /\ asking # c /\ UNCHANGED <<now, source, issued, sent>>
  BY <1>t, Zenon DEF AskForToken, Token, InBudget
<1>2. \A d \in Calls \ {c} : take'[d] = take[d]
  BY <1>t, Zenon DEF AskForToken, Token, ClientTypeOK
<1>3. \/ UNCHANGED asking /\ take'[c].pc = "got" /\ take'[c].exp = source.exp /\ Usable
      \/ UNCHANGED asking /\ take'[c].pc = "wait"
      \/ asking = None /\ asking' = c /\ take'[c].pc = "fetch"
  BY <1>t DEF AskForToken, Token, ClientTypeOK
<1>4. ClientTypeOK'
  <2>1. take' \in [Calls -> [pc: TakeSteps, exp: Times]]
    BY <1>t DEF AskForToken, Token, ClientTypeOK, TakeSteps
  <2>2. QED
    BY <1>t, <1>1, <1>3, <2>1, Zenon DEF ClientTypeOK
<1>5. OnItsWay' /\ Believed'
  BY <1>t, <1>1, <1>3, Zenon DEF OnItsWay, Believed
<1>6. ASSUME NEW d \in Calls PROVE InBudget(d)' /\ Covered(d)'
  <2>1. CASE d # c
    BY <1>t, <1>1, <1>2, <1>3, <2>1, ClockAssumption, Zenon DEF InBudget, Covered
  <2>2. CASE d = c
    <3>1. InBudget(c)'
      BY <1>t, <1>1, <1>3, Zenon DEF InBudget
    <3>2. take'[c].pc = "got" => take'[c].exp \in Int /\ sent[c].deadline <= take'[c].exp + Leeway
      <4> SUFFICES ASSUME take'[c].pc = "got" PROVE take'[c].exp \in Int /\ sent[c].deadline <= take'[c].exp + Leeway
        BY Zenon
      <4>1. take'[c].exp = source.exp /\ source.exp # None /\ now + Skew < source.expires
        BY <1>3, Zenon DEF Usable
      <4>2. source.exp \in Int /\ source.expires \in Int /\ source.expires <= source.exp + Budget /\ now \in Int
        BY <1>t, <4>1, Zenon DEF Believed, ClientTypeOK, Times
      <4>3. sent[c].deadline \in Int /\ sent[c].deadline <= now + Budget
        BY <1>t, <1>1, Zenon DEF InBudget, ClientTypeOK
      <4>4. QED
        BY <1>t, <4>1, <4>2, <4>3
    <3>3. QED
      BY <1>1, <2>2, <3>1, <3>2, Zenon DEF Covered
  <2>3. QED
    BY <2>1, <2>2, Zenon
<1>7. QED
  BY <1>4, <1>5, <1>6, Zenon DEF ClientInv

\* A request ends: its call goes on with pc and exp, the waiting ones look again.
LEMMA EndAskingInv ==
  ASSUME ClientInv, NEW pc \in {"got", "failed"}, NEW exp \in Times, asking # None, EndAsking(pc, exp),
         UNCHANGED <<now, sent>>, source' \in [exp: Times, expires: Times], Believed',
         pc = "got" => exp \in Int /\ sent[asking].deadline <= exp + Leeway
  PROVE  ClientInv'
<1>t. /\ ClientTypeOK /\ OnItsWay /\ Believed
      /\ \A d \in Calls : InBudget(d) /\ Covered(d)
  BY Zenon DEF ClientInv
<1>1. asking' = None /\ issued' = None /\ asking \in Calls
  BY <1>t, Zenon DEF EndAsking, ClientTypeOK
<1>2. ASSUME NEW d \in Calls
      PROVE  /\ take'[d] \in [pc: TakeSteps, exp: Times]
             /\ d = asking => take'[d].pc = pc /\ take'[d].exp = exp
             /\ d # asking => \/ take'[d] = take[d] /\ take[d].pc # "wait"
                              \/ take'[d].pc = "token" /\ take[d].pc = "wait"
  <2>1. take'[d] = IF d = asking THEN [pc |-> pc, exp |-> exp]
                   ELSE IF take[d].pc = "wait" THEN [take[d] EXCEPT !.pc = "token"] ELSE take[d]
    BY Zenon DEF EndAsking
  <2>2. take[d] \in [pc: TakeSteps, exp: Times]
    BY <1>t, Zenon DEF ClientTypeOK
  <2>3. QED
    BY <2>1, <2>2 DEF TakeSteps
<1>3. ClientTypeOK'
  <2>1. take' \in [Calls -> [pc: TakeSteps, exp: Times]]
    <3>1. take' = [d \in Calls |-> take'[d]]
      BY Zenon DEF EndAsking
    <3>2. QED
      BY <1>2, <3>1, Zenon
  <2>2. QED
    BY <1>t, <1>1, <2>1, Zenon DEF ClientTypeOK, Times
<1>4. OnItsWay'
  BY <1>1, Zenon DEF OnItsWay
<1>5. ASSUME NEW d \in Calls PROVE InBudget(d)' /\ Covered(d)'
  <2>1. InBudget(d) /\ Covered(d) /\ None \notin Calls
    BY <1>t, ClockAssumption, Zenon
  <2>2. CASE d = asking
    BY <1>1, <1>2, <2>1, <2>2, Zenon DEF InBudget, Covered
  <2>3. CASE d # asking
    BY <1>1, <1>2, <2>1, <2>3, Zenon DEF InBudget, Covered
  <2>4. QED
    BY <2>2, <2>3, Zenon
<1>6. QED
  BY <1>3, <1>4, <1>5, Zenon DEF ClientInv

LEMMA AnswerInv ==
  ASSUME ClientInv, LifeCoversBudget, AnswerToken \/ LoseToken
  PROVE  ClientInv'
<1>t. /\ ClientTypeOK /\ OnItsWay /\ Believed /\ Budget \in Nat /\ Lifetime \in Nat /\ Leeway \in Nat
      /\ \A d \in Calls : InBudget(d) /\ Covered(d)
  BY ClientAssumption, TokenAssumption, ClockAssumption, Zenon DEF ClientInv
<1>a. asking # None => /\ asking \in Calls /\ sent[asking].deadline \in Int
                       /\ now <= sent[asking].deadline /\ sent[asking].deadline <= now + Budget
  BY <1>t, Zenon DEF InBudget, ClientTypeOK
<1>1. CASE Issue /\ UNCHANGED <<now, sent>>
  <2>1. asking # None /\ issued' = now + Lifetime /\ UNCHANGED <<source, asking, take, now, sent>>
    BY <1>1, Zenon DEF Issue
  <2>2. issued' \in Int /\ now \in Int
    BY <1>t, <2>1 DEF ClientTypeOK
  <2>3. OnItsWay'
    BY <1>t, <1>a, <2>1, <2>2 DEF OnItsWay
  <2>4. ClientTypeOK'
    BY <1>t, <2>1, <2>2, Zenon DEF ClientTypeOK, Times
  <2>5. Believed' /\ \A d \in Calls : InBudget(d)' /\ Covered(d)'
    BY <1>t, <2>1, Zenon DEF Believed, InBudget, Covered
  <2>6. QED
    BY <2>3, <2>4, <2>5, Zenon DEF ClientInv
<1>2. CASE TokenReceived /\ UNCHANGED <<now, sent>>
  <2>1. /\ issued # None /\ EndAsking("got", issued) /\ source' = [exp |-> issued, expires |-> now + Lifetime]
    BY <1>2, Zenon DEF TokenReceived
  <2>2. issued \in Int /\ now \in Int /\ asking # None /\ sent[asking].deadline <= issued - Lifetime + Budget
    BY <1>t, <2>1, Zenon DEF OnItsWay, ClientTypeOK, Times
  <2>3. sent[asking].deadline <= issued + Leeway /\ now + Lifetime <= issued + Budget
    BY <1>t, <1>a, <2>2 DEF LifeCoversBudget
  <2>4. source'.exp = issued /\ source'.expires = now + Lifetime /\ source' \in [exp: Times, expires: Times]
    BY <1>t, <2>1, <2>2 DEF Times
  <2>5. Believed'
    BY <1>t, <2>2, <2>3, <2>4 DEF Believed
  <2>6. issued \in Times
    BY <2>2, Zenon DEF Times
  <2>7. QED
    BY <1>2, <2>1, <2>2, <2>3, <2>4, <2>5, <2>6, EndAskingInv, Zenon
<1>3. CASE LoseToken
  <2>1. asking # None /\ EndAsking("failed", None) /\ UNCHANGED <<source, now, sent>> /\ None \in Times
    BY <1>3, Zenon DEF LoseToken, TokenFails, Times
  <2>2. Believed' /\ source' \in [exp: Times, expires: Times]
    BY <1>t, <2>1, Zenon DEF Believed, ClientTypeOK
  <2>3. QED
    BY <2>1, <2>2, EndAskingInv, Zenon
<1>4. QED
  BY <1>1, <1>2, <1>3, Zenon DEF AnswerToken

\* The steps of one call that ask nobody.
LEMMA CallInv ==
  ASSUME ClientInv, NEW c \in Calls, StopAsking(c) \/ Prepare(c) \/ Verify(c)
  PROVE  ClientInv'
<1>t. /\ ClientTypeOK /\ OnItsWay /\ Believed /\ Leeway \in Nat
      /\ \A d \in Calls : InBudget(d) /\ Covered(d)
  BY ClockAssumption, Zenon DEF ClientInv
<1>1. UNCHANGED <<now, source, asking, issued>>
  BY Zenon DEF StopAsking, StopWaitingForToken, Prepare, Verify, tokenVars
<1>2. /\ take' \in [Calls -> [pc: TakeSteps, exp: Times]]
      /\ \A d \in Calls \ {c} : take'[d] = take[d] /\ sent'[d] = sent[d]
  <2>1. CASE StopAsking(c)
    BY <1>t, <2>1 DEF StopAsking, StopWaitingForToken, ClientTypeOK, TakeSteps
  <2>2. CASE Prepare(c)
    BY <1>t, <2>2, Zenon DEF Prepare, ClientTypeOK, TakeSteps, NoToken, Times
  <2>3. CASE Verify(c)
    BY <1>t, <2>3, Zenon DEF Verify, tokenVars, ClientTypeOK
  <2>4. QED
    BY <2>1, <2>2, <2>3, Zenon
<1> DEFINE Stays == sent' \in [Calls -> [pc: {"idle", "prepare", "sent"}, deadline: Int, exp: Times]]
           Moves == asking # c /\ InBudget(c)' /\ Covered(c)'
<1>3. ASSUME Stays, Moves PROVE ClientInv'
  <2>1. ClientTypeOK'
    BY <1>t, <1>1, <1>2, <1>3, Zenon DEF ClientTypeOK
  <2>2. OnItsWay' /\ Believed'
    <3>1. asking # None => asking \in Calls \ {c}
      BY <1>t, <1>3, Zenon DEF ClientTypeOK
    <3>2. QED
      BY <1>t, <1>1, <1>2, <3>1, Zenon DEF OnItsWay, Believed
  <2>3. ASSUME NEW d \in Calls \ {c} PROVE InBudget(d)' /\ Covered(d)'
    BY <1>t, <1>1, <1>2, Zenon DEF InBudget, Covered
  <2>4. QED
    BY <1>3, <2>1, <2>2, <2>3, Zenon DEF ClientInv
<1>s. sent[c] \in [pc: {"idle", "prepare", "sent"}, deadline: Int, exp: Times] /\ take[c].exp \in Times
  BY <1>t, Zenon DEF ClientTypeOK
<1>4. CASE StopAsking(c)
  <2>1. take[c].pc = "wait" /\ take'[c].pc = "failed" /\ UNCHANGED sent
    BY <1>t, <1>4, Zenon DEF StopAsking, StopWaitingForToken, ClientTypeOK
  <2>2. Stays
    BY <1>t, <2>1, Zenon DEF ClientTypeOK
  <2>3. Moves
    BY <1>t, <1>1, <2>1, Zenon DEF InBudget, Covered
  <2>4. QED
    BY <1>3, <2>2, <2>3, Zenon
<1>5. CASE Prepare(c)
  <2>1. take'[c].pc = "none" /\ take[c].pc \in {"got", "failed"}
    BY <1>t, <1>5, Zenon DEF Prepare, NoToken, ClientTypeOK
  <2>2. CASE take[c].pc = "got" /\ sent' = [sent EXCEPT ![c].pc = "sent", ![c].exp = take[c].exp]
    <3>1. Stays
      BY <1>t, <1>s, <2>2, Zenon DEF ClientTypeOK
    <3>2. sent'[c].pc = "sent" /\ sent'[c].deadline = sent[c].deadline /\ sent'[c].exp = take[c].exp
      BY <1>t, <1>s, <2>2, Zenon DEF ClientTypeOK
    <3>3. Moves
      BY <1>t, <1>1, <2>1, <2>2, <3>2, Zenon DEF InBudget, Covered
    <3>4. QED
      BY <1>3, <3>1, <3>3, Zenon
  <2>3. CASE take[c].pc = "failed" /\ sent' = [sent EXCEPT ![c] = Unsent]
    <3>1. Stays
      BY <1>t, <2>3 DEF ClientTypeOK, Unsent, Times
    <3>2. sent'[c].pc = "idle"
      BY <1>t, <2>3, Zenon DEF ClientTypeOK, Unsent
    <3>3. Moves
      BY <1>t, <1>1, <2>1, <2>3, <3>2, Zenon DEF InBudget, Covered
    <3>4. QED
      BY <1>3, <3>1, <3>3, Zenon
  <2>4. QED
    BY <1>5, <2>2, <2>3, Zenon DEF Prepare
<1>6. CASE Verify(c)
  <2>1. sent[c].pc = "sent" /\ now \in Int /\ sent[c].deadline \in Int /\ UNCHANGED take
    BY <1>t, <1>s, <1>6, Zenon DEF Verify, tokenVars, ClientTypeOK
  <2>2. ~(now > sent[c].exp + Leeway)
    BY <1>t, <2>1 DEF InBudget, Covered
  <2>3. sent' = [sent EXCEPT ![c] = Unsent]
    BY <1>6, <2>2, Zenon DEF Verify
  <2>4. Stays
    BY <1>t, <2>3 DEF ClientTypeOK, Unsent, Times
  <2>5. sent'[c].pc = "idle"
    BY <1>t, <2>3, Zenon DEF ClientTypeOK, Unsent
  <2>6. Moves
    BY <1>t, <1>1, <2>1, <2>5, Zenon DEF InBudget, Covered
  <2>7. QED
    BY <1>3, <2>4, <2>6, Zenon
<1>7. QED
  BY <1>4, <1>5, <1>6, Zenon

LEMMA ClientTickInv ==
  ASSUME ClientInv, ClientTick
  PROVE  ClientInv'
<1>t. /\ ClientTypeOK /\ OnItsWay /\ Believed /\ Budget \in Nat
      /\ \A d \in Calls : InBudget(d) /\ Covered(d)
  BY ClientAssumption, Zenon DEF ClientInv
<1>1. now' = now + 1 /\ UNCHANGED <<source, asking, issued, take, sent>>
  BY Zenon DEF ClientTick, clientVars, tokenVars
<1>2. ClientTypeOK'
  <2>1. now' \in Int
    BY <1>t, <1>1 DEF ClientTypeOK
  <2>2. QED
    BY <1>t, <1>1, <2>1, Zenon DEF ClientTypeOK
<1>3. OnItsWay' /\ Believed'
  BY <1>t, <1>1, Zenon DEF OnItsWay, Believed
<1>4. ASSUME NEW d \in Calls PROVE InBudget(d)' /\ Covered(d)'
  <2>1. sent[d].pc \in {"idle", "prepare", "sent"} /\ sent[d].deadline \in Int /\ now \in Int
    BY <1>t, Zenon DEF ClientTypeOK
  <2>2. sent[d].pc # "idle" => now < sent[d].deadline /\ sent[d].deadline <= now + Budget
    BY <1>t, <2>1, Zenon DEF ClientTick, InBudget
  <2>3. sent[d].pc # "idle" => now' <= sent[d].deadline /\ sent[d].deadline <= now' + Budget
    BY <1>t, <1>1, <2>1, <2>2
  <2>4. QED
    BY <1>t, <1>1, <2>3, Zenon DEF InBudget, Covered
<1>5. QED
  BY <1>2, <1>3, <1>4, Zenon DEF ClientInv

\* No call of a service is refused for an expired token, however many calls share the cached
\* one or the request for it and whenever the answer comes.
THEOREM TokensLastLongEnough == LifeCoversBudget => (ClientSpec => []TokensOutlive)
<1> SUFFICES ASSUME LifeCoversBudget PROVE ClientSpec => []TokensOutlive
  BY Zenon
<1>1. ClientInv /\ [ClientNext]_<<now, clientVars>> => ClientInv'
  <2> SUFFICES ASSUME ClientInv, [ClientNext]_<<now, clientVars>> PROVE ClientInv'
    BY Zenon
  <2>1. CASE UNCHANGED <<now, clientVars>>
    BY <2>1, Zenon DEF clientVars, tokenVars, ClientInv, ClientTypeOK, OnItsWay, Believed, InBudget, Covered
  <2>2. CASE ClientNext
    BY <2>2, BeginInv, TokenInv, CallInv, AnswerInv, ClientTickInv, Zenon DEF ClientNext
  <2>3. QED
    BY <2>1, <2>2, Zenon
<1>2. ClientInv => TokensOutlive
  BY Zenon DEF ClientInv, ClientTypeOK, TokensOutlive
<1>3. QED
  BY <1>1, <1>2, ClientStart, PTL DEF ClientSpec
-----------------------------------------------------------------------------
(* The keys of a server *)

LookSteps == {"none", "clock", "snapshot", "found", "background", "wait", "unknown", "claim", "fetching", "reread"}

Kids == {token.kid : token \in Tokens} \cup {None}

Looks == [pc: LookSteps, kid: Kids, now: Int]

Caches == [keys: SUBSET Keys, fetchedAt: Times, lastAttempt: Times, failed: BOOLEAN]

KeyTypeOK ==
  /\ now \in Nat /\ published \subseteq Keys /\ withdrawn \in [Keys -> Times]
  /\ cache \in Caches /\ refresh \in Refreshes \cup {None}
  /\ look \in [Calls -> Looks]

\* The provider published k at time t, or later.
Valid(k, t) == k \in published \/ (withdrawn[k] # None /\ withdrawn[k] >= t)

\* The cached keys were valid when the cache says they were fetched.
CacheValid ==
  /\ cache.fetchedAt # None => cache.fetchedAt <= now
  /\ \A k \in cache.keys : cache.fetchedAt # None /\ Valid(k, cache.fetchedAt)

\* The keys on their way were valid when the refresh began.
RefreshValid ==
  refresh # None =>
    /\ refresh.at <= refresh.since /\ refresh.since <= now
    /\ refresh.keys # None => \A k \in refresh.keys : Valid(k, refresh.since)

\* A key that was found was valid within the tolerance; one that will be read after the call's
\* own refresh has been since that refresh began, whoever replaced the cache meanwhile.
LookValid(c) ==
  /\ look[c].now <= now
  /\ look[c].pc \in {"found", "background"} =>
       look[c].kid \in Keys /\ Valid(look[c].kid, look[c].now - (RefreshInterval + StaleTolerance))
  /\ look[c].pc = "reread" =>
       /\ cache.failed \/ \A k \in cache.keys : Valid(k, look[c].now)
       /\ refresh # None => look[c].now <= refresh.since
  /\ refresh # None /\ refresh.by = c => look[c].pc = "fetching" /\ look[c].now <= refresh.since

\* The inductive invariant behind KeysCurrent: a call looks for a key only while it is admitted.
AdmissionInv ==
  /\ KeyTypeOK /\ CacheValid /\ RefreshValid
  /\ \A c \in Calls : LookValid(c) /\ (call[c].pc # "key" => look[c].pc = "none")

\* What was valid stays valid for the same time.
LEMMA ValidKept ==
  ASSUME KeyTypeOK, Rotate \/ UNCHANGED <<published, withdrawn>>, NEW k \in Keys, NEW t \in Int, t <= now,
         Valid(k, t)
  PROVE  Valid(k, t)'
<1>1. CASE UNCHANGED <<published, withdrawn>>
  BY <1>1, Zenon DEF Valid
<1>2. CASE Rotate
  <2>1. PICK ks \in SUBSET Keys :
          /\ published' = ks
          /\ withdrawn' = [j \in Keys |-> IF j \in published \ ks THEN now ELSE withdrawn[j]]
    BY <1>2, Zenon DEF Rotate
  <2>2. withdrawn'[k] = IF k \in published \ ks THEN now ELSE withdrawn[k]
    BY <2>1, Zenon
  <2>3. now # None /\ now >= t
    BY ClockAssumption DEF KeyTypeOK
  <2>4. QED
    BY <2>1, <2>2, <2>3, Zenon DEF Valid
<1>3. QED
  BY <1>1, <1>2, Zenon

LEMMA AdmissionStart == now = 0 /\ AdmissionInit => AdmissionInv
<1> SUFFICES ASSUME now = 0, AdmissionInit PROVE AdmissionInv
  BY Zenon
<1>1. KeyTypeOK
  <2>1. NoCache \in Caches /\ NoLook \in Looks
    BY DEF NoCache, Caches, NoLook, Looks, LookSteps, Kids, Times
  <2>2. QED
    BY <2>1, KeyAssumption, Zenon DEF KeyTypeOK, AdmissionInit, KeyInit, Times
<1>2. CacheValid /\ RefreshValid
  BY Zenon DEF AdmissionInit, KeyInit, NoCache, CacheValid, RefreshValid
<1>3. ASSUME NEW c \in Calls PROVE LookValid(c) /\ (call[c].pc # "key" => look[c].pc = "none")
  BY DEF AdmissionInit, KeyInit, NoLook, LookValid, NoCall, Call
<1>4. QED
  BY <1>1, <1>2, <1>3, Zenon DEF AdmissionInv

\* A step that leaves the cache and the refresh alone, and all calls but c.
LEMMA LookFrame ==
  ASSUME AdmissionInv, UNCHANGED <<published, withdrawn, cache, refresh, now>>, NEW c \in Calls,
         look' \in [Calls -> Looks],
         \A d \in Calls \ {c} : look'[d] = look[d] /\ call'[d] = call[d],
         LookValid(c)', call'[c].pc # "key" => look'[c].pc = "none"
  PROVE  AdmissionInv'
<1>1. KeyTypeOK'
  BY Zenon DEF AdmissionInv, KeyTypeOK
<1>2. CacheValid' /\ RefreshValid'
  BY Zenon DEF AdmissionInv, CacheValid, RefreshValid, Valid
<1>3. ASSUME NEW d \in Calls \ {c} PROVE LookValid(d)' /\ (call'[d].pc # "key" => look'[d].pc = "none")
  <2>1. LookValid(d) /\ (call[d].pc # "key" => look[d].pc = "none") /\ look'[d] = look[d] /\ call'[d] = call[d]
    BY Zenon DEF AdmissionInv
  <2>2. LookValid(d)'
    BY <2>1, Zenon DEF LookValid, Valid
  <2>3. QED
    BY <2>1, <2>2, Zenon
<1>4. QED
  BY <1>1, <1>2, <1>3, Zenon DEF AdmissionInv

\* A lookup begins a refresh; the cached keys stay.
LEMMA ClaimFrame ==
  ASSUME AdmissionInv, UNCHANGED <<published, withdrawn, now, call>>, NEW c \in Calls, NEW by \in {c, None},
         refresh = None, Claimed(by, look[c].now), NEW pc \in LookSteps, Go(c, pc),
         by = c => pc = "fetching", pc # "reread", call[c].pc = "key",
         pc \in {"found", "background"} => look[c].pc \in {"found", "background"}
  PROVE  AdmissionInv'
<1>t. KeyTypeOK /\ CacheValid /\ RefreshValid /\ \A d \in Calls : LookValid(d) /\ (call[d].pc # "key" => look[d].pc = "none")
  BY Zenon DEF AdmissionInv
<1>1. /\ look' \in [Calls -> Looks] /\ look'[c].pc = pc /\ look'[c].kid = look[c].kid /\ look'[c].now = look[c].now
      /\ \A d \in Calls \ {c} : look'[d] = look[d]
  BY <1>t, Zenon DEF Go, KeyTypeOK, Looks
<1>l. look[c].now \in Int /\ now \in Int /\ look[c].now <= now
  BY <1>t DEF KeyTypeOK, Looks, LookValid
<1>2. /\ refresh' \in Refreshes /\ refresh'.by = by /\ refresh'.at = look[c].now /\ refresh'.since = now
      /\ refresh'.keys = None
  BY <1>l, Zenon DEF Claimed, Refreshes
<1>3. /\ cache' \in Caches /\ cache'.keys = cache.keys /\ cache'.fetchedAt = cache.fetchedAt
      /\ cache'.failed <=> cache.failed
  <2>1. cache \in Caches
    BY <1>t, Zenon DEF KeyTypeOK
  <2>2. cache' = [cache EXCEPT !.lastAttempt = look[c].now]
    BY Zenon DEF Claimed
  <2>3. QED
    BY <1>l, <2>1, <2>2, Zenon DEF Caches, Times
<1>4. KeyTypeOK'
  BY <1>t, <1>1, <1>2, <1>3, Zenon DEF KeyTypeOK
<1>5. CacheValid'
  BY <1>t, <1>3, Zenon DEF CacheValid, Valid
<1>6. RefreshValid'
  BY <1>l, <1>2 DEF RefreshValid
<1>7. LookValid(c)' /\ (call'[c].pc # "key" => look'[c].pc = "none")
  BY <1>t, <1>l, <1>1, <1>2, Zenon DEF LookValid, Valid
<1>8. ASSUME NEW d \in Calls \ {c} PROVE LookValid(d)' /\ (call'[d].pc # "key" => look'[d].pc = "none")
  <2>1. LookValid(d) /\ look'[d] = look[d] /\ refresh'.by # d /\ look[d].now <= now
    BY <1>t, <1>1, <1>2, ClockAssumption, Zenon DEF LookValid
  <2>2. QED
    BY <1>t, <1>2, <1>3, <2>1, Zenon DEF LookValid, Valid
<1>9. QED
  BY <1>4, <1>5, <1>6, <1>7, <1>8, Zenon DEF AdmissionInv

LEMMA FindKeyInv ==
  ASSUME AdmissionInv, NEW c \in Calls, FindKey(c) \/ StopFinding(c)
  PROVE  AdmissionInv'
<1>t. KeyTypeOK /\ CacheValid /\ RefreshValid /\ \A d \in Calls : LookValid(d) /\ (call[d].pc # "key" => look[d].pc = "none")
  BY Zenon DEF AdmissionInv
<1>l. /\ look[c] \in Looks /\ look[c].now \in Int /\ now \in Int /\ look[c].now <= now
      /\ RefreshInterval \in Nat /\ StaleTolerance \in Nat
  BY <1>t, KeyAssumption DEF KeyTypeOK, Looks, LookValid
<1>0. UNCHANGED <<published, withdrawn, now, call>> /\ look[c].pc # "none" /\ call[c].pc = "key"
  BY <1>t, Zenon
     DEF FindKey, StopFinding, LookStep, ReadClock, Snapshot, ClaimInBackground, ClaimRefresh, Reread, StopWaiting
\* The call alone goes on, with another pc.
<1>g. ASSUME NEW pc \in LookSteps, Go(c, pc), UNCHANGED <<cache, refresh>>, look[c].pc # "fetching", pc # "reread",
             pc \in {"found", "background"} =>
               look[c].kid \in Keys /\ Valid(look[c].kid, look[c].now - (RefreshInterval + StaleTolerance))
      PROVE  AdmissionInv'
  <2>1. /\ look' \in [Calls -> Looks] /\ look'[c].pc = pc /\ look'[c].kid = look[c].kid /\ look'[c].now = look[c].now
        /\ \A d \in Calls \ {c} : look'[d] = look[d]
    BY <1>t, <1>g, Zenon DEF Go, KeyTypeOK, Looks
  <2>2. LookValid(c)'
    BY <1>t, <1>0, <1>g, <2>1, Zenon DEF LookValid, Valid
  <2>3. QED
    BY <1>0, <1>g, <2>1, <2>2, LookFrame, Zenon
<1>1. CASE ReadClock(c)
  <2>1. /\ look' \in [Calls -> Looks] /\ look'[c].pc = "snapshot" /\ look'[c].now = now
        /\ \A d \in Calls \ {c} : look'[d] = look[d]
    BY <1>t, <1>l, <1>1, Zenon DEF ReadClock, KeyTypeOK, Looks, LookSteps
  <2>2. UNCHANGED <<cache, refresh>> /\ look[c].pc = "clock"
    BY <1>1, Zenon DEF ReadClock
  <2>3. LookValid(c)'
    BY <1>t, <1>l, <1>0, <2>1, <2>2 DEF LookValid
  <2>4. QED
    BY <1>0, <2>1, <2>2, <2>3, LookFrame, Zenon
<1>2. CASE Snapshot(c)
  <2> DEFINE t == look[c].now
             kid == look[c].kid
  <2>1. UNCHANGED <<cache, refresh>> /\ look[c].pc = "snapshot" /\ Go(c, Decision(kid, t))
    BY <1>2, Zenon DEF Snapshot
  <2>2. Decision(kid, t) \in LookSteps \ {"reread"}
    BY Zenon DEF Decision, LookSteps
  <2>3. Decision(kid, t) \in {"found", "background"} =>
          kid \in cache.keys /\ (Fresh(t) \/ WithinStaleTolerance(t))
    BY Zenon DEF Decision
  <2>4. ASSUME kid \in cache.keys, Fresh(t) \/ WithinStaleTolerance(t)
        PROVE  kid \in Keys /\ Valid(kid, t - (RefreshInterval + StaleTolerance))
    <3>1. kid \in Keys /\ cache.fetchedAt \in Int /\ Valid(kid, cache.fetchedAt) /\ withdrawn[kid] \in Times
      BY <1>t, <2>4, Zenon DEF KeyTypeOK, Caches, CacheValid, Times
    <3>2. cache.fetchedAt >= t - (RefreshInterval + StaleTolerance)
      BY <1>l, <2>4, <3>1 DEF Fresh, WithinStaleTolerance, Age
    <3>3. QED
      BY <1>l, <3>1, <3>2 DEF Valid, Times
  <2>5. QED
    BY <1>g, <2>1, <2>2, <2>3, <2>4, Zenon
<1>3. CASE ClaimInBackground(c)
  <2>1. look[c].pc = "background" /\ Go(c, "found") /\ "found" \in LookSteps
    BY <1>3, Zenon DEF ClaimInBackground, LookSteps
  <2>2. CASE refresh = None /\ Claimed(None, look[c].now)
    BY <1>t, <1>0, <2>1, <2>2, ClockAssumption, ClaimFrame, Zenon
  <2>3. CASE UNCHANGED <<refresh, cache>>
    BY <1>t, <1>g, <2>1, <2>3, Zenon DEF LookValid
  <2>4. QED
    BY <1>3, <2>2, <2>3, Zenon DEF ClaimInBackground
<1>4. CASE ClaimRefresh(c)
  <2>1. look[c].pc = "claim" /\ {"fetching", "clock"} \subseteq LookSteps
    BY <1>4, Zenon DEF ClaimRefresh, LookSteps
  <2>2. CASE refresh = None /\ Claimed(c, look[c].now) /\ Go(c, "fetching")
    BY <1>0, <2>1, <2>2, ClaimFrame, Zenon
  <2>3. CASE Go(c, "clock") /\ UNCHANGED <<refresh, cache>>
    BY <1>g, <2>1, <2>3, Zenon
  <2>4. QED
    BY <1>4, <2>2, <2>3, Zenon DEF ClaimRefresh
<1>5. CASE Reread(c)
  <2>1. /\ UNCHANGED <<cache, refresh>> /\ look[c].pc = "reread" /\ {"found", "unknown"} \subseteq LookSteps
        /\ Go(c, IF ~cache.failed /\ look[c].kid \in cache.keys THEN "found" ELSE "unknown")
    BY <1>5, Zenon DEF Reread, LookSteps
  <2>2. CASE ~cache.failed /\ look[c].kid \in cache.keys
    <3>1. look[c].kid \in Keys /\ Valid(look[c].kid, look[c].now) /\ withdrawn[look[c].kid] \in Times
      BY <1>t, <2>1, <2>2, Zenon DEF LookValid, KeyTypeOK, Caches
    <3>2. Valid(look[c].kid, look[c].now - (RefreshInterval + StaleTolerance))
      BY <1>l, <3>1 DEF Valid, Times
    <3>3. QED
      BY <1>g, <2>1, <2>2, <3>1, <3>2, Zenon
  <2>3. CASE ~(~cache.failed /\ look[c].kid \in cache.keys)
    BY <1>g, <2>1, <2>3, Zenon
  <2>4. QED
    BY <2>2, <2>3, Zenon
<1>6. CASE StopFinding(c)
  <2>1. UNCHANGED <<cache, refresh>> /\ look[c].pc = "wait" /\ Go(c, "unknown") /\ "unknown" \in LookSteps
    BY <1>6, Zenon DEF StopFinding, StopWaiting, LookSteps
  <2>2. QED
    BY <1>g, <2>1, Zenon
<1>7. QED
  BY <1>1, <1>2, <1>3, <1>4, <1>5, <1>6, Zenon DEF FindKey, LookStep

\* A refresh ends: the call it belongs to reads the cache next, and finds keys that were valid
\* when the refresh began, or the failure.
LEMMA EndRefreshInv ==
  ASSUME AdmissionInv, RefreshSucceeds \/ RefreshFails, UNCHANGED <<now, call>>
  PROVE  AdmissionInv'
<1>t. KeyTypeOK /\ CacheValid /\ RefreshValid /\ \A d \in Calls : LookValid(d) /\ (call[d].pc # "key" => look[d].pc = "none")
  BY Zenon DEF AdmissionInv
<1>u. UNCHANGED <<published, withdrawn>> /\ EndRefresh /\ refresh # None /\ refresh' = None
  BY Zenon DEF RefreshSucceeds, RefreshFails, EndRefresh
<1>r. /\ refresh \in Refreshes /\ refresh.at \in Int /\ refresh.since \in Int /\ now \in Int
      /\ refresh.at <= refresh.since /\ refresh.since <= now
  BY <1>t, <1>u DEF KeyTypeOK, RefreshValid, Refreshes
<1>1. /\ look' \in [Calls -> Looks]
      /\ \A d \in Calls : look'[d].pc = WakeUp(d) /\ look'[d].kid = look[d].kid /\ look'[d].now = look[d].now
  BY <1>t, <1>u DEF EndRefresh, WakeUp, KeyTypeOK, Looks, LookSteps
<1>2. /\ cache' \in Caches /\ CacheValid'
      /\ \A t \in Int : t <= refresh.since => cache'.failed \/ \A k \in cache'.keys : Valid(k, t)'
      /\ \A t \in Int : (cache.failed \/ \A k \in cache.keys : Valid(k, t)) /\ t <= refresh.since
                          => cache'.failed \/ \A k \in cache'.keys : Valid(k, t)'
  <2>1. CASE RefreshSucceeds
    <3>1. cache' = Installed /\ refresh.keys # None
      BY <2>1, Zenon DEF RefreshSucceeds
    <3>2. cache' \in Caches /\ cache'.keys = refresh.keys /\ cache'.fetchedAt = refresh.at
      BY <1>t, <1>r, <3>1, Zenon DEF Installed, KeyTypeOK, Caches, Refreshes, Times
    <3>3. refresh.keys \subseteq Keys /\ \A k \in refresh.keys : Valid(k, refresh.since)
      BY <1>t, <1>u, <1>r, <3>1, Zenon DEF RefreshValid, Refreshes
    <3>4. ASSUME NEW k \in refresh.keys, NEW t \in Int, t <= refresh.since PROVE Valid(k, t)'
      <4>1. k \in Keys /\ withdrawn[k] \in Times /\ Valid(k, refresh.since)
        BY <1>t, <3>3, Zenon DEF KeyTypeOK
      <4>2. Valid(k, t)
        BY <1>r, <3>4, <4>1 DEF Valid, Times
      <4>3. QED
        BY <1>u, <4>2, Zenon DEF Valid
    <3>5. CacheValid'
      <4>1. refresh.at <= now /\ refresh.at # None
        BY <1>r, ClockAssumption
      <4>2. QED
        BY <1>r, <3>2, <3>4, <4>1, Zenon DEF CacheValid
    <3>6. QED
      BY <3>2, <3>4, <3>5, Zenon
  <2>2. CASE RefreshFails
    <3>1. cache' = [cache EXCEPT !.failed = TRUE] /\ cache \in Caches
      BY <1>t, <2>2, Zenon DEF RefreshFails, KeyTypeOK
    <3>2. cache' \in Caches /\ cache'.keys = cache.keys /\ cache'.fetchedAt = cache.fetchedAt /\ cache'.failed
      BY <3>1, Zenon DEF Caches
    <3>3. CacheValid'
      BY <1>t, <1>u, <3>2, Zenon DEF CacheValid, Valid
    <3>4. QED
      BY <3>2, <3>3, Zenon
  <2>3. QED
    BY <2>1, <2>2, Zenon
<1>3. KeyTypeOK' /\ RefreshValid'
  BY <1>t, <1>u, <1>1, <1>2, Zenon DEF KeyTypeOK, RefreshValid
<1>4. ASSUME NEW d \in Calls PROVE LookValid(d)' /\ (call'[d].pc # "key" => look'[d].pc = "none")
  <2>0. LookValid(d) /\ look[d].now \in Int
    BY <1>t, Zenon DEF KeyTypeOK, Looks
  <2>1. CASE refresh.by = d
    <3>1. look'[d].pc = "reread" /\ look[d].pc = "fetching" /\ look[d].now <= refresh.since
      BY <1>1, <1>u, <2>0, <2>1, Zenon DEF WakeUp, LookValid
    <3>2. QED
      BY <1>t, <1>u, <1>1, <1>2, <2>0, <3>1, Zenon DEF LookValid
  <2>2. CASE refresh.by # d /\ look[d].pc = "wait"
    <3>1. look'[d].pc = "clock"
      BY <1>1, <2>2, Zenon DEF WakeUp
    <3>2. QED
      BY <1>t, <1>u, <1>1, <2>0, <2>2, <3>1, Zenon DEF LookValid
  <2>3. CASE refresh.by # d /\ look[d].pc # "wait"
    <3>1. look'[d].pc = look[d].pc
      BY <1>1, <2>3, Zenon DEF WakeUp
    <3>2. look[d].pc = "reread" => cache'.failed \/ \A k \in cache'.keys : Valid(k, look[d].now)'
      BY <1>u, <1>1, <1>2, <2>0, Zenon DEF LookValid
    <3>3. QED
      BY <1>t, <1>u, <1>1, <2>0, <3>1, <3>2, Zenon DEF LookValid, Valid
  <2>4. QED
    BY <2>1, <2>2, <2>3, Zenon
<1>5. QED
  BY <1>2, <1>3, <1>4, Zenon DEF AdmissionInv

LEMMA AnswerKeysInv ==
  ASSUME AdmissionInv, ProviderAnswers, UNCHANGED <<now, call>>
  PROVE  AdmissionInv'
<1>t. KeyTypeOK /\ CacheValid /\ RefreshValid /\ \A d \in Calls : LookValid(d) /\ (call[d].pc # "key" => look[d].pc = "none")
  BY Zenon DEF AdmissionInv
<1>u. /\ UNCHANGED <<published, withdrawn, cache, look>> /\ refresh # None /\ refresh \in Refreshes
      /\ refresh' = [refresh EXCEPT !.keys = published]
  BY <1>t, Zenon DEF ProviderAnswers, KeyTypeOK
<1>1. /\ refresh' \in Refreshes /\ refresh'.by = refresh.by /\ refresh'.at = refresh.at
      /\ refresh'.since = refresh.since /\ refresh'.keys = published
  BY <1>t, <1>u, Zenon DEF KeyTypeOK, Refreshes
<1>2. KeyTypeOK' /\ CacheValid'
  BY <1>t, <1>u, <1>1, Zenon DEF KeyTypeOK, CacheValid, Valid
<1>3. RefreshValid'
  BY <1>t, <1>u, <1>1, Zenon DEF RefreshValid, Valid
<1>4. \A d \in Calls : LookValid(d)' /\ (call'[d].pc # "key" => look'[d].pc = "none")
  BY <1>t, <1>u, <1>1, Zenon DEF LookValid, Valid
<1>5. QED
  BY <1>2, <1>3, <1>4, Zenon DEF AdmissionInv

\* The provider rotates its keys, or time passes.
LEMMA RotateInv ==
  ASSUME AdmissionInv, RotateKeys \/ AdmissionTick
  PROVE  AdmissionInv'
<1>t. KeyTypeOK /\ CacheValid /\ RefreshValid /\ \A d \in Calls : LookValid(d) /\ (call[d].pc # "key" => look[d].pc = "none")
  BY Zenon DEF AdmissionInv
<1>u. UNCHANGED <<cache, refresh, look, call>>
  BY Zenon DEF RotateKeys, Rotate, AdmissionTick, admissionVars, keyVars
<1>r. Rotate \/ UNCHANGED <<published, withdrawn>>
  BY Zenon DEF RotateKeys, AdmissionTick, admissionVars, keyVars
<1>n. now \in Int /\ now' \in Nat /\ now <= now'
  <2>1. now \in Nat /\ (now' = now \/ now' = now + 1)
    BY <1>t, Zenon DEF RotateKeys, AdmissionTick, KeyTypeOK
  <2>2. QED
    BY <2>1
<1>k. RefreshInterval + StaleTolerance \in Nat
  BY KeyAssumption
<1>v. ASSUME NEW k \in Keys, NEW t \in Int, t <= now, Valid(k, t)
      PROVE  Valid(k, t)'
  BY <1>t, <1>r, <1>v, ValidKept, Zenon
<1>1. KeyTypeOK'
  <2>1. published' \subseteq Keys /\ withdrawn' \in [Keys -> Times]
    <3>1. CASE UNCHANGED <<published, withdrawn>>
      BY <1>t, <3>1, Zenon DEF KeyTypeOK
    <3>2. CASE Rotate
      BY <1>t, <1>n, <3>2, Zenon DEF KeyTypeOK, Rotate, Times
    <3>3. QED
      BY <1>r, <3>1, <3>2, Zenon
  <2>2. QED
    BY <1>t, <1>u, <1>n, <2>1, Zenon DEF KeyTypeOK
<1>2. CacheValid'
  <2>1. cache.keys \subseteq Keys /\ cache.fetchedAt \in Times
    BY <1>t, Zenon DEF KeyTypeOK, Caches
  <2>2. cache.fetchedAt # None => cache.fetchedAt \in Int /\ cache.fetchedAt <= now /\ cache.fetchedAt <= now'
    BY <1>t, <1>n, <2>1 DEF CacheValid, Times
  <2>3. ASSUME NEW k \in cache.keys PROVE Valid(k, cache.fetchedAt)'
    <3>1. k \in Keys /\ cache.fetchedAt # None /\ Valid(k, cache.fetchedAt)
      BY <1>t, <2>1, Zenon DEF CacheValid
    <3>2. QED
      BY <1>u, <1>v, <2>2, <3>1, Zenon DEF Valid
  <2>4. QED
    BY <1>t, <1>u, <2>2, <2>3, Zenon DEF CacheValid
<1>3. RefreshValid'
  <2> SUFFICES ASSUME refresh # None PROVE RefreshValid'
    BY <1>u, Zenon DEF RefreshValid
  <2>1. /\ refresh.keys # None => refresh.keys \subseteq Keys
        /\ refresh.at \in Int /\ refresh.since \in Int
        /\ refresh.at <= refresh.since /\ refresh.since <= now /\ refresh.since <= now'
    BY <1>t, <1>n DEF KeyTypeOK, RefreshValid, Refreshes
  <2>2. ASSUME refresh.keys # None, NEW k \in refresh.keys PROVE Valid(k, refresh.since)'
    <3>1. k \in Keys /\ Valid(k, refresh.since)
      BY <1>t, <2>1, <2>2, Zenon DEF RefreshValid
    <3>2. QED
      BY <1>u, <1>v, <2>1, <3>1, Zenon DEF Valid
  <2>3. QED
    BY <1>u, <2>1, <2>2, Zenon DEF RefreshValid
<1>4. ASSUME NEW d \in Calls PROVE LookValid(d)' /\ (call'[d].pc # "key" => look'[d].pc = "none")
  <2>0. LookValid(d) /\ look[d].now \in Int /\ cache.keys \subseteq Keys
    BY <1>t, Zenon DEF KeyTypeOK, Looks, Caches
  <2>1. look[d].now <= now /\ look[d].now <= now'
    BY <1>n, <2>0 DEF LookValid
  <2>2. ASSUME look[d].pc \in {"found", "background"}
        PROVE  look[d].kid \in Keys /\ Valid(look[d].kid, look[d].now - (RefreshInterval + StaleTolerance))'
    <3>1. /\ look[d].kid \in Keys /\ look[d].now - (RefreshInterval + StaleTolerance) \in Int
          /\ look[d].now - (RefreshInterval + StaleTolerance) <= now
          /\ Valid(look[d].kid, look[d].now - (RefreshInterval + StaleTolerance))
      BY <1>k, <1>n, <2>0, <2>1, <2>2 DEF LookValid
    <3>2. QED
      BY <1>u, <1>v, <3>1, Zenon DEF Valid
  <2>3. ASSUME look[d].pc = "reread" PROVE cache.failed \/ \A k \in cache.keys : Valid(k, look[d].now)'
    <3>1. cache.failed \/ \A k \in cache.keys : Valid(k, look[d].now)
      BY <2>0, <2>3, Zenon DEF LookValid
    <3>2. ASSUME NEW k \in cache.keys, Valid(k, look[d].now) PROVE Valid(k, look[d].now)'
      BY <1>u, <1>v, <2>0, <2>1, <3>2, Zenon DEF Valid
    <3>3. QED
      BY <3>1, <3>2, Zenon
  <2>4. QED
    BY <1>t, <1>u, <2>0, <2>1, <2>2, <2>3, Zenon DEF LookValid
<1>5. QED
  BY <1>1, <1>2, <1>3, <1>4, Zenon DEF AdmissionInv

CallTypeOK == call \in [Calls -> [pc: {"idle", "arrived", "key", "handling"}, deadline: Int]]

LEMMA CallTypeInv ==
  ASSUME now \in Int, CallTypeOK, AdmissionNext
  PROVE  CallTypeOK'
<1>1. ASSUME NEW c \in Calls, Arrive(c) \/ Admit(c) \/ AdmitHealthCheck(c) \/ Handle(c)
      PROVE  CallTypeOK'
  BY <1>1, AdmissionAssumption DEF CallTypeOK, Arrive, Admit, AdmitHealthCheck, Handle, NoCall, Call
<1>2. ASSUME NEW c \in Calls, Authorize(c)
      PROVE  CallTypeOK'
  <2>1. HandlerDeadline(c) \in Int
    <3>1. call[c].deadline \in Int /\ now + MaxDeadline \in Int
      BY AdmissionAssumption DEF CallTypeOK
    <3>2. \E x \in {call[c].deadline, now + MaxDeadline} : \A y \in {call[c].deadline, now + MaxDeadline} : x <= y
      BY <3>1
    <3>3. Min({call[c].deadline, now + MaxDeadline}) \in {call[c].deadline, now + MaxDeadline}
      BY <3>2, Zenon DEF Min
    <3>4. QED
      BY <3>1, <3>3, Zenon DEF HandlerDeadline
  <2>2. QED
    BY <1>2, <2>1 DEF CallTypeOK, Authorize, NoCall, Call
<1>3. ASSUME UNCHANGED call PROVE CallTypeOK'
  BY <1>3, Zenon DEF CallTypeOK
<1>4. QED
  BY <1>1, <1>2, <1>3, Zenon
     DEF AdmissionNext, FindKey, StopFinding, FetchKeys, RotateKeys, AdmissionTick, admissionVars

\* Arrival, admission, verdict and answer of a call.
LEMMA CallStepInv ==
  ASSUME AdmissionInv, NEW c \in Calls, CallTypeOK,
         Arrive(c) \/ Admit(c) \/ AdmitHealthCheck(c) \/ Authorize(c) \/ Handle(c)
  PROVE  AdmissionInv'
<1>t. KeyTypeOK /\ CacheValid /\ RefreshValid /\ \A d \in Calls : LookValid(d) /\ (call[d].pc # "key" => look[d].pc = "none")
  BY Zenon DEF AdmissionInv
<1>u. UNCHANGED <<published, withdrawn, cache, refresh, now>>
  BY Zenon DEF Arrive, Admit, AdmitHealthCheck, Authorize, Handle, keyVars
<1>l. look \in [Calls -> Looks] /\ refresh \in Refreshes \cup {None} /\ now \in Nat
  BY <1>t, Zenon DEF KeyTypeOK
\* The lookup is left alone: it has not begun.
<1>1. ASSUME UNCHANGED look, call[c].pc # "key", \A d \in Calls \ {c} : call'[d] = call[d] PROVE AdmissionInv'
  <2>1. LookValid(c)' /\ look'[c].pc = "none"
    BY <1>t, <1>u, <1>1, Zenon DEF LookValid, Valid
  <2>2. QED
    BY <1>l, <1>u, <1>1, <2>1, LookFrame, Zenon
<1>2. ASSUME Arrive(c) \/ AdmitHealthCheck(c) \/ Handle(c) PROVE AdmissionInv'
  BY <1>1, <1>2, Zenon DEF Arrive, AdmitHealthCheck, Handle, keyVars, CallTypeOK
<1>3. ASSUME Admit(c) PROVE AdmissionInv'
  <2>0. call[c].pc = "arrived" /\ look[c].pc = "none" /\ \A d \in Calls \ {c} : call'[d] = call[d]
    BY <1>t, <1>3, Zenon DEF Admit, CallTypeOK
  <2>1. CASE UNCHANGED look
    BY <1>1, <2>0, <2>1, Zenon
  <2>2. CASE look' # look
    <3>1. PICK kid \in KeyAskedFor :
            /\ call' = [call EXCEPT ![c].pc = "key"]
            /\ look' = [look EXCEPT ![c] = [pc |-> "clock", kid |-> kid, now |-> 0]]
      BY <1>3, <2>2, Zenon DEF Admit
    <3>2. kid \in Kids
      BY DEF KeyAskedFor, Kids
    <3>3. /\ look' \in [Calls -> Looks] /\ look'[c].pc = "clock" /\ look'[c].now = 0 /\ call'[c].pc = "key"
          /\ \A d \in Calls \ {c} : look'[d] = look[d]
      BY <1>l, <3>1, <3>2 DEF Looks, LookSteps, CallTypeOK
    <3>4. LookValid(c)'
      BY <1>t, <1>u, <1>l, <2>0, <3>3 DEF LookValid
    <3>5. QED
      BY <1>u, <2>0, <3>3, <3>4, LookFrame, Zenon
  <2>3. QED
    BY <2>1, <2>2, Zenon
<1>4. ASSUME Authorize(c) PROVE AdmissionInv'
  <2>1. /\ look[c].pc \in {"found", "unknown"} /\ look' = [look EXCEPT ![c] = NoLook]
        /\ \A d \in Calls \ {c} : call'[d] = call[d]
    BY <1>4, Zenon DEF Authorize, CallTypeOK
  <2>2. /\ look' \in [Calls -> Looks] /\ look'[c].pc = "none" /\ look'[c].now = 0
        /\ \A d \in Calls \ {c} : look'[d] = look[d]
    BY <1>l, <2>1 DEF NoLook, Looks, LookSteps, Kids
  <2>3. LookValid(c)'
    BY <1>t, <1>u, <1>l, <2>1, <2>2 DEF LookValid
  <2>4. QED
    BY <1>u, <2>1, <2>2, <2>3, LookFrame, Zenon
<1>5. QED
  BY <1>2, <1>3, <1>4, Zenon

\* The invariant of the keys is inductive.
LEMMA AdmissionStep ==
  ASSUME AdmissionInv, CallTypeOK, [AdmissionNext]_<<now, admissionVars>>
  PROVE  (AdmissionInv /\ CallTypeOK)'
<1>1. CASE AdmissionNext
  <2>1. now \in Int
    BY DEF AdmissionInv, KeyTypeOK
  <2>2. CallTypeOK'
    BY <1>1, <2>1, CallTypeInv, Zenon
  <2>3. AdmissionInv'
    <3>1. ASSUME NEW c \in Calls, Arrive(c) \/ Admit(c) \/ AdmitHealthCheck(c) \/ Authorize(c) \/ Handle(c)
          PROVE  AdmissionInv'
      BY <3>1, CallStepInv, Zenon
    <3>2. ASSUME NEW c \in Calls, FindKey(c) \/ StopFinding(c) PROVE AdmissionInv'
      BY <3>2, FindKeyInv, Zenon
    <3>3. ASSUME FetchKeys PROVE AdmissionInv'
      BY <3>3, EndRefreshInv, AnswerKeysInv, Zenon DEF FetchKeys
    <3>4. ASSUME RotateKeys \/ AdmissionTick PROVE AdmissionInv'
      BY <3>4, RotateInv, Zenon
    <3> QED BY <1>1, <3>1, <3>2, <3>3, <3>4, Zenon DEF AdmissionNext
  <2> QED BY <2>2, <2>3, Zenon
<1>2. CASE UNCHANGED <<now, admissionVars>>
  BY <1>2, Zenon
     DEF AdmissionInv, CallTypeOK, KeyTypeOK, CacheValid, RefreshValid, LookValid, Valid, admissionVars, keyVars
<1> QED BY <1>1, <1>2, Zenon

LEMMA AdmissionBegins == now = 0 /\ AdmissionInit => AdmissionInv /\ CallTypeOK
<1>1. AdmissionInit => CallTypeOK
  BY DEF AdmissionInit, CallTypeOK, NoCall, Call
<1> QED BY <1>1, AdmissionStart, Zenon

\* VerificationKey never answers with a key that the identity provider had withdrawn more than
\* RefreshInterval + StaleTolerance before the call read the clock: for any number of calls that
\* share refreshes, any keys, any intervals, and rotations, failures and late answers at any time.
THEOREM KeysStayCurrent == AdmissionSpec => []KeysCurrent
<1>1. AdmissionInv => KeysCurrent
  BY Zenon DEF AdmissionInv, LookValid, Valid, KeysCurrent
<1>2. AdmissionInv /\ CallTypeOK /\ [AdmissionNext]_<<now, admissionVars>> => (AdmissionInv /\ CallTypeOK)'
  BY AdmissionStep, Zenon
<1> QED BY <1>1, <1>2, AdmissionBegins, PTL DEF AdmissionSpec

-----------------------------------------------------------------------------
(* Calls that wait for another one *)

LookersWoken == \A c \in Calls : look[c].pc = "wait" => refresh # None
TakersWoken  == \A c \in Calls : take[c].pc = "wait" => asking # None

\* Every call has its place in Token.
TakeShape == DOMAIN take = Calls /\ \A c \in Calls : "pc" \in DOMAIN take[c]

\* A call waits for a refresh only as long as there is one.
LEMMA LookersStep ==
  ASSUME AdmissionInv, LookersWoken, AdmissionNext
  PROVE  LookersWoken'
<1>t. look \in [Calls -> Looks] /\ refresh \in Refreshes \cup {None}
  BY Zenon DEF AdmissionInv, KeyTypeOK
<1>1. ASSUME NEW c \in Calls, NEW pc, Go(c, pc), pc = "wait" => refresh' # None,
             refresh # None => refresh' # None
      PROVE  LookersWoken'
  <2>1. look'[c].pc = pc /\ \A d \in Calls \ {c} : look'[d] = look[d]
    BY <1>t, <1>1 DEF Go, Looks
  <2> QED BY <1>1, <2>1, Zenon DEF LookersWoken
<1>2. CASE UNCHANGED <<look, refresh>>
  BY <1>2, Zenon DEF LookersWoken
<1>3. ASSUME NEW c \in Calls, NEW l, l.pc # "wait", look' = [look EXCEPT ![c] = l], refresh' = refresh
      PROVE  LookersWoken'
  BY <1>t, <1>3, Zenon DEF LookersWoken
<1>4. ASSUME NEW c \in Calls, Arrive(c) \/ AdmitHealthCheck(c) \/ Handle(c)
      PROVE  LookersWoken'
  BY <1>2, <1>4, Zenon DEF Arrive, AdmitHealthCheck, Handle, keyVars
<1>5. ASSUME NEW c \in Calls, Admit(c)
      PROVE  LookersWoken'
  <2>1. PICK kid \in KeyAskedFor :
          IF kid # None
          THEN /\ call' = [call EXCEPT ![c].pc = "key"]
               /\ look' = [look EXCEPT ![c] = [pc |-> "clock", kid |-> kid, now |-> 0]]
          ELSE call' = [call EXCEPT ![c] = NoCall] /\ UNCHANGED look
    BY <1>5, Zenon DEF Admit
  <2>2. refresh' = refresh
    BY <1>5, Zenon DEF Admit
  <2>3. [pc |-> "clock", kid |-> kid, now |-> 0].pc # "wait"
    OBVIOUS
  <2> QED BY <1>2, <1>3, <2>1, <2>2, <2>3, Zenon
<1>6. ASSUME NEW c \in Calls, Authorize(c)
      PROVE  LookersWoken'
  <2>1. NoLook.pc # "wait"
    BY DEF NoLook
  <2> QED BY <1>3, <1>6, <2>1, Zenon DEF Authorize
<1>7. ASSUME NEW c \in Calls, FindKey(c) \/ StopFinding(c)
      PROVE  LookersWoken'
  <2>1. CASE ReadClock(c)
    <3>1. [look[c] EXCEPT !.pc = "snapshot", !.now = now].pc # "wait"
      BY <1>t DEF Looks
    <3>2. look' = [look EXCEPT ![c] = [look[c] EXCEPT !.pc = "snapshot", !.now = now]] /\ refresh' = refresh
      BY <1>t, <2>1 DEF ReadClock
    <3> QED BY <1>3, <3>1, <3>2, Zenon
  <2>2. CASE Snapshot(c)
    <3>1. Decision(look[c].kid, look[c].now) = "wait" => refresh # None
      BY Zenon DEF Decision
    <3> QED BY <1>1, <2>2, <3>1, Zenon DEF Snapshot
  <2>3. CASE ClaimInBackground(c) \/ ClaimRefresh(c)
    <3>1. CASE refresh # None
      BY <1>1, <2>3, <3>1, Zenon DEF ClaimInBackground, ClaimRefresh
    <3>2. CASE refresh = None
      <4>1. PICK pc \in {"found", "fetching"} : Go(c, pc)
        BY <2>3, <3>2, Zenon DEF ClaimInBackground, ClaimRefresh
      <4> QED BY <1>1, <3>2, <4>1, Zenon
    <3> QED BY <3>1, <3>2, Zenon
  <2>4. CASE Reread(c)
    <3>1. (IF ~cache.failed /\ look[c].kid \in cache.keys THEN "found" ELSE "unknown") # "wait"
      OBVIOUS
    <3> QED BY <1>1, <2>4, <3>1, Zenon DEF Reread
  <2>5. CASE StopWaiting(c)
    BY <1>1, <2>5, Zenon DEF StopWaiting
  <2> QED BY <1>7, <2>1, <2>2, <2>3, <2>4, <2>5, Zenon DEF FindKey, StopFinding, LookStep
<1>8. CASE FetchKeys
  <2>1. CASE ProviderAnswers
    <3>1. refresh' = [refresh EXCEPT !.keys = published] /\ look' = look /\ refresh \in Refreshes
      BY <1>t, <2>1, Zenon DEF ProviderAnswers
    <3>2. published \subseteq Keys
      BY Zenon DEF AdmissionInv, KeyTypeOK
    <3>3. refresh' \in Refreshes
      BY <3>1, <3>2 DEF Refreshes
    <3>4. refresh' # None
      BY <3>3, RefreshAssumption, Zenon
    <3> QED BY <3>1, <3>4, Zenon DEF LookersWoken
  <2>2. CASE RefreshSucceeds \/ RefreshFails
    <3>1. look' = [c \in Calls |-> [look[c] EXCEPT !.pc = WakeUp(c)]]
      BY <2>2, Zenon DEF RefreshSucceeds, RefreshFails, EndRefresh
    <3>2. \A c \in Calls : WakeUp(c) # "wait"
      BY DEF WakeUp
    <3>3. \A c \in Calls : look'[c].pc = WakeUp(c)
      BY <1>t, <3>1 DEF Looks
    <3> QED BY <3>2, <3>3, Zenon DEF LookersWoken
  <2> QED BY <1>8, <2>1, <2>2, Zenon DEF FetchKeys
<1>9. CASE RotateKeys \/ AdmissionTick
  BY <1>2, <1>9, Zenon DEF RotateKeys, Rotate, AdmissionTick, admissionVars, keyVars
<1> QED BY <1>4, <1>5, <1>6, <1>7, <1>8, <1>9, Zenon DEF AdmissionNext

\* A call waits for a token request only as long as there is one.
LEMMA TakersStep ==
  ASSUME TakeShape, TakersWoken, ClientNext
  PROVE  TakeShape' /\ TakersWoken'
<1>1. ASSUME NEW c \in Calls, NEW t, "pc" \in DOMAIN t, take' = [take EXCEPT ![c] = t],
             t.pc = "wait" => asking' # None, asking # None => asking' # None
      PROVE  TakeShape' /\ TakersWoken'
  <2>1. DOMAIN take' = Calls /\ take'[c] = t /\ \A d \in Calls \ {c} : take'[d] = take[d]
    BY <1>1, Zenon DEF TakeShape
  <2> QED BY <1>1, <2>1, Zenon DEF TakeShape, TakersWoken
<1>2. CASE UNCHANGED <<take, asking>>
  BY <1>2, Zenon DEF TakeShape, TakersWoken
<1>3. ASSUME NEW t, "pc" \in DOMAIN t, NEW pc
      PROVE  "pc" \in DOMAIN [t EXCEPT !.pc = pc] /\ [t EXCEPT !.pc = pc].pc = pc
  BY <1>3, Zenon
<1>4. "pc" \in DOMAIN NoToken /\ NoToken.pc = "none"
  BY DEF NoToken
<1>5. ASSUME NEW c \in Calls, BeginCall(c) \/ Prepare(c)
      PROVE  TakeShape' /\ TakersWoken'
  <2>1. PICK t : /\ "pc" \in DOMAIN t /\ t.pc # "wait" /\ take' = [take EXCEPT ![c] = t]
    BY <1>3, <1>4, <1>5, Zenon DEF BeginCall, Prepare
  <2>2. asking' = asking
    BY <1>5, Zenon DEF BeginCall, Prepare
  <2> QED BY <1>1, <2>1, <2>2, Zenon
<1>6. ASSUME NEW c \in Calls, AskForToken(c)
      PROVE  TakeShape' /\ TakersWoken'
  <2>0. "pc" \in DOMAIN take[c]
    BY Zenon DEF TakeShape
  <2>1. CASE take' = [take EXCEPT ![c] = [pc |-> "got", exp |-> source.exp]] /\ UNCHANGED asking
    <3> DEFINE t == [pc |-> "got", exp |-> source.exp]
    <3>1. "pc" \in DOMAIN t /\ t.pc # "wait"
      OBVIOUS
    <3> HIDE DEF t
    <3> QED BY <1>1, <2>1, <3>1, Zenon DEF t
  <2>2. CASE asking # None /\ take' = [take EXCEPT ![c].pc = "wait"] /\ UNCHANGED asking
    BY <1>1, <1>3, <2>0, <2>2, Zenon
  <2>3. CASE take' = [take EXCEPT ![c].pc = "fetch"] /\ asking' = c
    <3>1. asking' # None
      BY <2>3, ClockAssumption, Zenon
    <3> QED BY <1>1, <1>3, <2>0, <2>3, <3>1, Zenon
  <2> QED BY <1>6, <2>1, <2>2, <2>3, Zenon DEF AskForToken, Token
<1>7. ASSUME NEW c \in Calls, StopAsking(c)
      PROVE  TakeShape' /\ TakersWoken'
  <2>1. take' = [take EXCEPT ![c].pc = "failed"] /\ asking' = asking /\ "pc" \in DOMAIN take[c]
    BY <1>7, Zenon DEF StopAsking, StopWaitingForToken, TakeShape
  <2> QED BY <1>1, <1>3, <2>1, Zenon
<1>8. ASSUME NEW pc \in {"got", "failed"}, NEW exp, EndAsking(pc, exp)
      PROVE  TakeShape' /\ TakersWoken'
  <2> DEFINE t(c) == IF c = asking THEN [pc |-> pc, exp |-> exp]
                     ELSE IF take[c].pc = "wait" THEN [take[c] EXCEPT !.pc = "token"] ELSE take[c]
  <2>1. take' = [c \in Calls |-> t(c)]
    BY <1>8, Zenon DEF EndAsking
  <2>2. "pc" \in DOMAIN [pc |-> pc, exp |-> exp] /\ [pc |-> pc, exp |-> exp].pc # "wait"
    BY <1>8
  <2>3. ASSUME NEW c \in Calls PROVE "pc" \in DOMAIN t(c) /\ t(c).pc # "wait"
    <3>1. "pc" \in DOMAIN take[c]
      BY Zenon DEF TakeShape
    <3>2. "pc" \in DOMAIN [take[c] EXCEPT !.pc = "token"] /\ [take[c] EXCEPT !.pc = "token"].pc # "wait"
      BY <1>3, <3>1, Zenon
    <3> QED BY <2>2, <3>1, <3>2, Zenon
  <2> HIDE DEF t
  <2> QED BY <2>1, <2>3, Zenon DEF TakeShape, TakersWoken
<1>9. CASE AnswerToken \/ LoseToken
  <2>1. Issue => UNCHANGED <<take, asking>>
    BY Zenon DEF Issue
  <2> QED BY <1>2, <1>8, <1>9, <2>1, Zenon DEF AnswerToken, LoseToken, TokenReceived, TokenFails
<1>10. ASSUME NEW c \in Calls, Verify(c) PROVE UNCHANGED <<take, asking>>
  BY <1>10, Zenon DEF Verify, tokenVars
<1>11. ClientTick => UNCHANGED <<take, asking>>
  BY Zenon DEF ClientTick, clientVars, tokenVars
<1> QED BY <1>2, <1>5, <1>6, <1>7, <1>9, <1>10, <1>11, Zenon DEF ClientNext

\* Whoever waits for a refresh of the keys, or for the token another call asks for, waits for
\* one that is under way: for any number of calls, and whether it succeeds, fails or times out.
THEOREM NobodyWaitsForNothing == Spec => []NoLostWakeup
<1> DEFINE WakeInv == /\ scene = "admission" => AdmissionInv /\ CallTypeOK
                      /\ LookersWoken /\ TakeShape /\ TakersWoken
<1>1. Init => WakeInv
  <2> SUFFICES ASSUME Init PROVE WakeInv
    BY Zenon
  <2>1. AdmissionInv /\ CallTypeOK
    BY AdmissionBegins, Zenon DEF Init
  <2>2. look = [c \in Calls |-> NoLook] /\ take = [c \in Calls |-> NoToken]
    BY Zenon DEF Init, AdmissionInit, KeyInit, ClientInit, TokenInit
  <2>3. NoLook.pc # "wait" /\ NoToken.pc # "wait" /\ "pc" \in DOMAIN NoToken
    BY DEF NoLook, NoToken
  <2> QED BY <2>1, <2>2, <2>3, Zenon DEF LookersWoken, TakeShape, TakersWoken
<1>2. WakeInv /\ [Next]_vars => WakeInv'
  <2> SUFFICES ASSUME WakeInv, [Next]_vars PROVE WakeInv'
    BY Zenon
  <2>0. scene' = scene
    BY Zenon DEF Next, vars
  <2>1. CASE scene = "admission" /\ AdmissionNext /\ UNCHANGED clientVars
    <3>1. AdmissionInv' /\ CallTypeOK'
      BY <2>1, AdmissionStep, Zenon
    <3>2. LookersWoken'
      BY <2>1, LookersStep, Zenon
    <3>3. TakeShape' /\ TakersWoken'
      BY <2>1, Zenon DEF clientVars, tokenVars, TakeShape, TakersWoken
    <3> QED BY <3>1, <3>2, <3>3, Zenon
  <2>2. CASE scene = "client" /\ ClientNext /\ UNCHANGED admissionVars
    <3>1. TakeShape' /\ TakersWoken'
      BY <2>2, TakersStep, Zenon
    <3>2. LookersWoken'
      BY <2>2, Zenon DEF admissionVars, keyVars, LookersWoken
    <3>3. scene' # "admission"
      BY <2>0, <2>2
    <3> QED BY <3>1, <3>2, <3>3, Zenon
  <2>3. CASE UNCHANGED <<now, clientVars, admissionVars>>
    <3>1. LookersWoken' /\ TakeShape' /\ TakersWoken'
      BY <2>3, Zenon DEF admissionVars, keyVars, clientVars, tokenVars, LookersWoken, TakeShape, TakersWoken
    <3>2. AdmissionInv /\ CallTypeOK => AdmissionInv' /\ CallTypeOK'
      BY <2>3, AdmissionStep, Zenon
    <3> QED BY <2>0, <3>1, <3>2, Zenon
  <2>4. \/ scene = "admission" /\ AdmissionNext /\ UNCHANGED clientVars
        \/ scene = "client" /\ ClientNext /\ UNCHANGED admissionVars
        \/ UNCHANGED <<now, clientVars, admissionVars>>
    BY Zenon DEF Next, vars
  <2> QED BY <2>1, <2>2, <2>3, <2>4, Zenon
<1>3. WakeInv => NoLostWakeup
  BY Zenon DEF LookersWoken, TakersWoken, NoLostWakeup
<1> HIDE DEF WakeInv
<1> QED BY <1>1, <1>2, <1>3, PTL DEF Spec
=============================================================================
