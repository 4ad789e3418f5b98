------------------------------ MODULE KeyCache ------------------------------
(***************************************************************************)
(* JWKSCache.VerificationKey: concurrent calls look up the key a token is  *)
(* signed with and share one refresh of the cached key set.                *)
(*                                                                         *)
(* The clock is read first, the cache is looked at under the read lock,    *)
(* what follows is decided from these two and done after the lock is       *)
(* released: each is a step of its own.  The identity provider rotates its *)
(* keys at any time and its answer may be under way for a while.           *)
(***************************************************************************)
EXTENDS Clock, FiniteSets

CONSTANTS
  Keys,                \* key ids
  FirstKeys,           \* published when the service starts
  RefreshInterval, MinRefreshInterval, StaleTolerance,
  FetchTimeout,        \* defaultJWKSFetchTimeout
  MaxRotations         \* bound

ASSUME KeyAssumption ==
  /\ FirstKeys \subseteq Keys /\ FirstKeys # {}
  /\ {RefreshInterval, MinRefreshInterval, StaleTolerance, FetchTimeout, MaxRotations} \subseteq Nat

\* A refresh; None stands for the nil of refreshDone.
Refreshes == [by: Calls \cup {None}, at: Int, since: Int, keys: (SUBSET Keys) \cup {None}]

ASSUME RefreshAssumption == None \notin Refreshes

VARIABLES
  published, withdrawn,  \* keys of the identity provider, and when a key last ceased to be one
  rotations,
  cache,    \* keys, fetchedAt, lastAttempt, lastRefreshError
  refresh,  \* the refresh in progress, or None: refreshDone
  look      \* locals of VerificationKey for every call

keyVars == <<published, withdrawn, rotations, cache, refresh, look>>

NoLook == [pc |-> "none", kid |-> None, now |-> 0]

NoCache == [keys |-> {}, fetchedAt |-> None, lastAttempt |-> None, failed |-> FALSE]

KeyInit ==
  /\ published = FirstKeys /\ withdrawn = [k \in Keys |-> None] /\ rotations = 0
  /\ cache = NoCache
  /\ refresh = None
  /\ look = [c \in Calls |-> NoLook]

-----------------------------------------------------------------------------
(* What the snapshot says *)

Go(c, pc) == look' = [look EXCEPT ![c].pc = pc]

Age(t) == t - cache.fetchedAt

Fresh(t) == cache.fetchedAt # None /\ Age(t) < RefreshInterval

\* Mutant of WithinStaleTolerance: keys are kept as long as no refresh succeeds.
AlwaysTolerated(t) == cache.fetchedAt # None

WithinStaleTolerance(t) == cache.fetchedAt # None /\ Age(t) <= RefreshInterval + StaleTolerance

RefreshDue(t) == cache.lastAttempt = None \/ t - cache.lastAttempt >= MinRefreshInterval

\* What VerificationKey does next.
Decision(kid, t) ==
  LET known == kid \in cache.keys IN
  IF known /\ Fresh(t) THEN "found"
  ELSE IF known /\ WithinStaleTolerance(t)
       THEN IF refresh = None /\ RefreshDue(t) THEN "background" ELSE "found"
  ELSE IF refresh # None THEN "wait"
  ELSE IF ~RefreshDue(t) THEN "unknown"
  ELSE "claim"

-----------------------------------------------------------------------------
(* Actions *)

ReadClock(c) ==
  /\ look[c].pc = "clock"
  /\ look' = [look EXCEPT ![c].pc = "snapshot", ![c].now = now]
  /\ UNCHANGED <<published, withdrawn, rotations, cache, refresh>>

Snapshot(c) ==
  /\ look[c].pc = "snapshot"
  /\ Go(c, Decision(look[c].kid, look[c].now))
  /\ UNCHANGED <<published, withdrawn, rotations, cache, refresh>>

\* claimRefresh takes the time that was read before the snapshot.
Claimed(by, t) ==
  /\ refresh' = [by |-> by, at |-> t, since |-> now, keys |-> None]
  /\ cache' = [cache EXCEPT !.lastAttempt = t]

\* The stale key is returned, a refresh goes on without the call's context.
ClaimInBackground(c) ==
  /\ look[c].pc = "background"
  /\ IF refresh = None THEN Claimed(None, look[c].now) ELSE UNCHANGED <<refresh, cache>>
  /\ Go(c, "found")
  /\ UNCHANGED <<published, withdrawn, rotations>>

\* Another call was faster: VerificationKey begins again.
ClaimRefresh(c) ==
  /\ look[c].pc = "claim"
  /\ IF refresh = None THEN Claimed(c, look[c].now) /\ Go(c, "fetching")
                       ELSE Go(c, "clock") /\ UNCHANGED <<refresh, cache>>
  /\ UNCHANGED <<published, withdrawn, rotations>>

\* Mutant of WakeUp: only the call that refreshed goes on.
WakeOwner(c) == IF refresh.by = c THEN "reread" ELSE look[c].pc

\* done is closed: the call that refreshed reads the result, the waiting ones begin again.
WakeUp(c) ==
  IF refresh.by = c THEN "reread" ELSE IF look[c].pc = "wait" THEN "clock" ELSE look[c].pc

EndRefresh == refresh' = None /\ look' = [c \in Calls |-> [look[c] EXCEPT !.pc = WakeUp(c)]]

\* The identity provider answers with the keys it has now.
ProviderAnswers ==
  /\ refresh # None /\ refresh.keys = None
  /\ refresh' = [refresh EXCEPT !.keys = published]
  /\ UNCHANGED <<published, withdrawn, rotations, cache, look>>

Installed == [cache EXCEPT !.keys = refresh.keys, !.fetchedAt = refresh.at, !.failed = FALSE]

RefreshSucceeds ==
  /\ refresh # None /\ refresh.keys # None
  /\ cache' = Installed
  /\ EndRefresh
  /\ UNCHANGED <<published, withdrawn, rotations>>

\* The fetch times out, is cancelled with the call it belongs to, or answers nonsense.
RefreshFails ==
  /\ refresh # None
  /\ cache' = [cache EXCEPT !.failed = TRUE]
  /\ EndRefresh
  /\ UNCHANGED <<published, withdrawn, rotations>>

\* The key and lastRefreshError are read again: they may be another refresh's by now.
Reread(c) ==
  /\ look[c].pc = "reread"
  /\ Go(c, IF ~cache.failed /\ look[c].kid \in cache.keys THEN "found" ELSE "unknown")
  /\ UNCHANGED <<published, withdrawn, rotations, cache, refresh>>

\* ctx.Done while another call refreshes.
StopWaiting(c) ==
  /\ look[c].pc = "wait"
  /\ Go(c, "unknown")
  /\ UNCHANGED <<published, withdrawn, rotations, cache, refresh>>

LookStep(c) ==
  ReadClock(c) \/ Snapshot(c) \/ ClaimInBackground(c) \/ ClaimRefresh(c) \/ Reread(c)

\* The provider publishes another set of keys.
Rotate ==
  /\ rotations < MaxRotations
  /\ \E ks \in SUBSET Keys \ {{}, published} :
       /\ published' = ks
       /\ withdrawn' = [k \in Keys |-> IF k \in published \ ks THEN now ELSE withdrawn[k]]
  /\ rotations' = rotations + 1
  /\ UNCHANGED <<cache, refresh, look>>

\* The timeout of a fetch is punctual.
KeyTimeMayPass == refresh # None => now < refresh.since + FetchTimeout

-----------------------------------------------------------------------------
(* Correctness *)

\* A call never verifies with a key that the provider had withdrawn more than
\* RefreshInterval + StaleTolerance before the call read the clock, however refreshes
\* of several calls overlap, fail or come late with keys from before a rotation.
KeysCurrent ==
  \A c \in Calls :
    look[c].pc = "found" /\ look[c].kid \notin published =>
      /\ withdrawn[look[c].kid] # None
      /\ withdrawn[look[c].kid] >= look[c].now - (RefreshInterval + StaleTolerance)
=============================================================================
