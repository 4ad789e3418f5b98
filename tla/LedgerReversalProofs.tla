------------------------ MODULE LedgerReversalProofs ------------------------
(***************************************************************************)
(* Reversals of Ledger, what its calls wait for and leave behind, what its *)
(* readers may rely on, and its refinement of LedgerLog.                   *)
(***************************************************************************)
EXTENDS LedgerProofs, FiniteSetTheorems

\* The reversal between FOR UPDATE and COMMIT, and only it, holds the lock on an
\* original that nothing has reversed, and its draft mirrors that original.
LockHolders ==
  \A i \in Calls : \A c \in Calls :
    entryLock[i] = c => /\ pc[c] \in {"position", "insert", "commit"}
                        /\ req[c].op = "reverse" /\ req[c].body = i

OriginalHeld(c) ==
  pc[c] \in {"position", "insert", "commit"} /\ req[c].op = "reverse"
    => /\ entryLock[req[c].body] = c
       /\ ReversalsOf(req[c].body) = {}
       /\ \E o \in Visible(req[c].merchant, req[c].body) : o.original = None

DraftMirrors(c) ==
  pc[c] = "commit" =>
    /\ req[c].op = "create" => draft[c].original = None
    /\ req[c].op = "reverse" =>
         \E o \in Visible(req[c].merchant, req[c].body) :
           /\ o.original = None /\ draft[c].original = o.id
           /\ draft[c].amount = o.amount /\ draft[c].type # o.type

OriginalOwner == LockHolders /\ \A c \in Calls : OriginalHeld(c) /\ DraftMirrors(c)

\* The inductive invariant behind ReversalsSound.
ReversalInv == PositionInv /\ KeyInv /\ OriginalOwner /\ ReversalsSound

-----------------------------------------------------------------------------
(* Reversals *)

\* A step of a call that holds no lock on an original, and takes none, cannot
\* disturb the reversals.
LEMMA ReversalFrame ==
  ASSUME ReversalInv, NEW c \in Calls, NEW s,
         pc' = [pc EXCEPT ![c] = s],
         \/ pc[c] \notin {"position", "insert", "commit"}
         \/ pc[c] = "position" /\ s = "insert",
         \/ s \notin {"position", "insert", "commit"}
         \/ s = "position" /\ req[c].op = "create"
         \/ pc[c] = "position" /\ s = "insert",
         \A d \in Calls \ {c} : req'[d] = req[d],
         s \in {"position", "insert"} => req'[c] = req[c],
         UNCHANGED <<entries, entryLock, draft>>
  PROVE  OriginalOwner' /\ ReversalsSound'
<1>1. \A d \in Calls : pc'[d] = IF d = c THEN s ELSE pc[d]
  BY Zenon DEF ReversalInv, PositionInv, TypeInv, TypeOK
<1>2. OriginalOwner'
  <2>1. LockHolders'
    BY <1>1 DEF ReversalInv, OriginalOwner, LockHolders
  <2>2. ASSUME NEW d \in Calls PROVE OriginalHeld(d)' /\ DraftMirrors(d)'
    <3>1. OriginalHeld(d)'
      BY <1>1 DEF ReversalInv, OriginalOwner, OriginalHeld, ReversalsOf, Visible
    <3>2. DraftMirrors(d)'
      BY <1>1 DEF ReversalInv, OriginalOwner, DraftMirrors, Visible
    <3>3. QED
      BY <3>1, <3>2, Zenon
  <2>3. QED
    BY <2>1, <2>2, Zenon DEF OriginalOwner
<1>3. ReversalsSound'
  BY Zenon DEF ReversalInv, ReversalsSound
<1>4. QED
  BY <1>2, <1>3, Zenon

\* Rolling back frees the original and leaves the committed reversals.
LEMMA ReversalRollback ==
  ASSUME ReversalInv, NEW c \in Calls, NEW o, Rollback(c, o)
  PROVE  OriginalOwner' /\ ReversalsSound'
<1>1. /\ \A d \in Calls : pc'[d] = IF d = c THEN "done" ELSE pc[d]
      /\ \A i \in Calls : entryLock'[i] = IF entryLock[i] = c THEN None ELSE entryLock[i]
  BY Zenon DEF Rollback, Answer, ReleaseLocks, Drop, ReversalInv, PositionInv, TypeInv, TypeOK
<1>2. UNCHANGED <<entries, req, draft>>
  BY Zenon DEF Rollback, db, local
<1>3. \A d \in Calls : pc[d] \in {"position", "insert", "commit"} /\ req[d].op = "reverse"
        => req[d].body \in Calls
  BY RequestType, Zenon DEF ReversalInv, PositionInv, TypeInv, LocalsSet
<1>4. OriginalOwner'
  <2>1. LockHolders'
    BY <1>1, <1>2, NoneIsNoCall DEF ReversalInv, OriginalOwner, LockHolders
  <2>2. ASSUME NEW d \in Calls PROVE OriginalHeld(d)' /\ DraftMirrors(d)'
    <3>1. OriginalHeld(d)'
      BY <1>1, <1>2, <1>3 DEF ReversalInv, OriginalOwner, OriginalHeld, ReversalsOf, Visible
    <3>2. DraftMirrors(d)'
      BY <1>1, <1>2, Zenon DEF ReversalInv, OriginalOwner, DraftMirrors, Visible
    <3>3. QED
      BY <3>1, <3>2, Zenon
  <2>3. QED
    BY <2>1, <2>2, Zenon DEF OriginalOwner
<1>5. ReversalsSound'
  BY <1>2, Zenon DEF ReversalInv, ReversalsSound
<1>6. QED
  BY <1>4, <1>5, Zenon

LEMMA NextReversals == ReversalInv /\ [Next]_vars => ReversalInv'
<1> DEFINE Goal == OriginalOwner' /\ ReversalsSound'
<1> SUFFICES ASSUME ReversalInv, [Next]_vars PROVE Goal
  BY NextPositions, NextKeys, Zenon DEF ReversalInv
<1>t. TypeInv /\ OriginalOwner /\ ReversalsSound
  BY Zenon DEF ReversalInv, PositionInv
<1>b. \A d \in Calls : pc[d] \in {"lock", "position", "insert", "commit"} /\ req[d].op = "reverse"
        => req[d].body \in Calls
  BY <1>t, RequestType, Zenon DEF TypeInv, LocalsSet
<1>1. ASSUME NEW c \in Calls, NEW r \in Requests, Receive(c, r) PROVE Goal
  <2>1. \A d \in Calls \ {c} : req'[d] = req[d]
    BY <1>1, <1>t, Zenon DEF Receive, TypeInv, TypeOK
  <2>2. QED
    BY <1>1, <2>1, ReversalFrame, Zenon DEF Receive, Goto, db, locks
<1>2. ASSUME NEW c \in Calls, Authorize(c) PROVE Goal
  BY <1>2, ReversalFrame, Zenon DEF Authorize, Goto, Answer, db, locks, local
<1>3. ASSUME NEW c \in Calls, ClaimIdempotency(c) PROVE Goal
  BY <1>3, ReversalFrame, Zenon DEF ClaimIdempotency, Goto, db, local
<1>4. ASSUME NEW c \in Calls, ReplayIdempotency(c) PROVE Goal
  BY <1>4, ReversalFrame, Zenon DEF ReplayIdempotency, Answer, db, locks, local
<1>5. ASSUME NEW c \in Calls, Resolve(c) PROVE Goal
  <2>1. CASE Rollback(c, "invalid")
    BY <2>1, ReversalRollback, Zenon
  <2>2. CASE ~Rollback(c, "invalid")
    BY <1>5, <2>2, ReversalFrame, Zenon DEF Resolve, Goto, db, locks
  <2>3. QED
    BY <2>1, <2>2, Zenon
<1>6. ASSUME NEW c \in Calls, EntryForUpdate(c) PROVE Goal
  <2>1. CASE \E o \in Outcomes : Rollback(c, o)
    BY <2>1, ReversalRollback, Zenon
  <2>2. CASE ~\E o \in Outcomes : Rollback(c, o)
    <3> DEFINE i == req[c].body
    <3>0. /\ ~Rollback(c, "not_found") /\ ~Rollback(c, "already_reversed")
          /\ ~Rollback(c, "not_allowed")
      BY <2>2, Zenon DEF Outcomes
    <3>1. /\ pc[c] = "lock" /\ Visible(req[c].merchant, i) # {}
          /\ entryLock[i] = None /\ ReversalsOf(i) = {}
          /\ \A e \in Visible(req[c].merchant, i) : e.original = None
          /\ entryLock' = [entryLock EXCEPT ![i] = c]
          /\ Goto(c, "position")
          /\ UNCHANGED <<today, db, keyLock, positionLock, local, reply>>
      BY <1>6, <3>0, Zenon DEF EntryForUpdate, EntryFree
    <3>2. i \in Calls /\ req[c].op = "reverse"
      BY <1>t, <1>b, <3>1, Zenon DEF TypeInv, LocalsSet
    <3>3. /\ \A d \in Calls : pc'[d] = IF d = c THEN "position" ELSE pc[d]
          /\ \A j \in Calls : entryLock'[j] = IF j = i THEN c ELSE entryLock[j]
          /\ UNCHANGED <<entries, req, draft>>
      BY <1>t, <3>1, <3>2, Zenon DEF Goto, TypeInv, TypeOK, db, local
    <3>4. \A d \in Calls :
            pc[d] \in {"position", "insert", "commit"} /\ req[d].op = "reverse"
              => req[d].body # i
      BY <1>t, <3>1, NoneIsNoCall, Zenon DEF OriginalOwner, OriginalHeld
    <3>6. \E o \in Visible(req[c].merchant, i) : o.original = None
      BY <3>1, Zenon
    <3>7. OriginalOwner'
      <4>1. LockHolders'
        BY <1>t, <3>1, <3>2, <3>3 DEF OriginalOwner, LockHolders
      <4>2. OriginalHeld(c)'
        BY <3>1, <3>2, <3>3, <3>6, Zenon DEF OriginalHeld, ReversalsOf, Visible
      <4>3. ASSUME NEW d \in Calls, d # c PROVE OriginalHeld(d)'
        <5>1. OriginalHeld(d) /\ pc'[d] = pc[d]
          BY <1>t, <3>3, <4>3, Zenon DEF OriginalOwner
        <5>2. pc[d] \in {"position", "insert", "commit"} /\ req[d].op = "reverse"
                => entryLock'[req[d].body] = entryLock[req[d].body]
          BY <1>b, <3>3, <3>4, Zenon
        <5>3. QED
          BY <3>3, <5>1, <5>2, Zenon DEF OriginalHeld, ReversalsOf, Visible
      <4>4. ASSUME NEW d \in Calls PROVE DraftMirrors(d)'
        BY <1>t, <3>1, <3>3, Zenon DEF OriginalOwner, DraftMirrors, Visible
      <4>5. QED
        BY <4>1, <4>2, <4>3, <4>4, Zenon DEF OriginalOwner
    <3>8. ReversalsSound'
      BY <1>t, <3>3, Zenon DEF ReversalsSound
    <3>9. QED
      BY <3>7, <3>8, Zenon
  <2>3. QED
    BY <2>1, <2>2, Zenon
<1>7. ASSUME NEW c \in Calls, NextPosition(c) PROVE Goal
  BY <1>7, ReversalFrame, Zenon DEF NextPosition, Goto, db
<1>8. ASSUME NEW c \in Calls, InsertEntry(c) PROVE Goal
  <2>1. CASE Rollback(c, "already_reversed")
    BY <2>1, ReversalRollback, Zenon
  <2>2. ASSUME NEW e, draft' = [draft EXCEPT ![c] = e], Goto(c, "commit"),
               UNCHANGED <<today, db, locks, req, date, position, reply>>,
               req[c].op = "create" => e.original = None,
               req[c].op = "reverse" =>
                 \E o \in Visible(req[c].merchant, req[c].body) :
                   /\ o.original = None /\ e.original = o.id
                   /\ e.amount = o.amount /\ e.type # o.type
        PROVE  Goal
    <3>1. /\ \A d \in Calls : pc'[d] = IF d = c THEN "commit" ELSE pc[d]
          /\ \A d \in Calls : draft'[d] = IF d = c THEN e ELSE draft[d]
          /\ UNCHANGED <<entries, entryLock, req>>
      BY <1>t, <2>2, Zenon DEF Goto, TypeInv, TypeOK, db, locks
    <3>2. pc[c] = "insert"
      BY <1>8, Zenon DEF InsertEntry
    <3>4. OriginalOwner'
      <4>1. LockHolders'
        BY <1>t, <3>1, <3>2 DEF OriginalOwner, LockHolders
      <4>2. ASSUME NEW d \in Calls PROVE OriginalHeld(d)'
        BY <1>t, <3>1, <3>2 DEF OriginalOwner, OriginalHeld, ReversalsOf, Visible
      <4>3. DraftMirrors(c)'
        BY <2>2, <3>1 DEF DraftMirrors, Visible
      <4>4. ASSUME NEW d \in Calls, d # c PROVE DraftMirrors(d)'
        BY <1>t, <3>1, <4>4 DEF OriginalOwner, DraftMirrors, Visible
      <4>5. QED
        BY <4>1, <4>2, <4>3, <4>4, Zenon DEF OriginalOwner
    <3>5. ReversalsSound'
      BY <1>t, <3>1, Zenon DEF ReversalsSound
    <3>6. QED
      BY <3>4, <3>5
  <2>3. NewEntry(c).original = None
    BY Zenon DEF NewEntry
  <2>4. \A o \in Visible(req[c].merchant, req[c].body) :
          /\ NewReversal(c, o).original = o.id /\ NewReversal(c, o).amount = o.amount
          /\ NewReversal(c, o).type # o.type
    BY <1>t, Zenon DEF NewReversal, Opposite
  <2>5. req[c].op = "reverse" =>
          \A o \in Visible(req[c].merchant, req[c].body) : o.original = None
    <3>1. \A e, f \in entries : e.id = f.id => e = f
      BY DEF ReversalInv, KeyInv, KeyRecords, EntriesRecorded
    <3>2. req[c].op = "reverse" =>
            \E o \in entries : o.id = req[c].body /\ o.original = None
      BY <1>8, <1>t, Zenon DEF InsertEntry, OriginalOwner, OriginalHeld, Visible
    <3>3. QED
      BY <3>1, <3>2, Zenon DEF Visible
  <2>6. CASE ~Rollback(c, "already_reversed") /\ req[c].op = "create"
    BY <1>8, <2>2, <2>3, <2>6, Zenon DEF InsertEntry
  <2>7. CASE ~Rollback(c, "already_reversed") /\ req[c].op = "reverse"
    <3>1. PICK o \in Visible(req[c].merchant, req[c].body) :
            draft' = [draft EXCEPT ![c] = NewReversal(c, o)]
      BY <1>8, <2>7, Zenon DEF InsertEntry
    <3>2. /\ Goto(c, "commit")
          /\ UNCHANGED <<today, db, locks, req, date, position, reply>>
      BY <1>8, <2>7, Zenon DEF InsertEntry
    <3>3. QED
      BY <2>2, <2>4, <2>5, <2>7, <3>1, <3>2, Zenon
  <2>8. req[c].op = "create" \/ req[c].op = "reverse"
    BY <1>8, Zenon DEF InsertEntry
  <2>9. QED
    BY <2>1, <2>6, <2>7, <2>8, Zenon
<1>9. ASSUME NEW c \in Calls, Commit(c) PROVE Goal
  <2> DEFINE n == draft[c]
  <2>1. /\ pc[c] = "commit" /\ n \in Entry /\ req[c] \in Requests
        /\ n.merchant = req[c].merchant /\ n.position = lastPosition[req[c].merchant] + 1
    BY <1>9, Zenon DEF Commit, ReversalInv, PositionInv, TypeInv, LocalsSet, PositionOwner
  <2>2. /\ \A d \in Calls : pc'[d] = IF d = c THEN "committed" ELSE pc[d]
        /\ \A i \in Calls : entryLock'[i] = IF entryLock[i] = c THEN None ELSE entryLock[i]
        /\ entries' = entries \cup {n}
        /\ UNCHANGED <<req, draft>>
    BY <1>9, <1>t, Zenon DEF Commit, Goto, ReleaseLocks, Drop, TypeInv, TypeOK, local
  <2>3. req[c].op = "create" => n.original = None
    BY <1>t, <2>1, Zenon DEF OriginalOwner, DraftMirrors
  <2>4. req[c].op = "reverse" =>
          /\ n.original = req[c].body /\ entryLock[req[c].body] = c
          /\ ReversalsOf(req[c].body) = {}
          /\ \E o \in entries :
               /\ o.id = n.original /\ o.merchant = n.merchant /\ o.original = None
               /\ o.amount = n.amount /\ o.type # n.type
    BY <1>t, <2>1 DEF OriginalOwner, OriginalHeld, DraftMirrors, Visible
  <2>5. \A o \in entries : o.merchant = n.merchant => o.position < n.position
    <3>1. req[c].merchant \in Merchants
      BY <2>1, RequestType, Zenon
    <3>2. \A o \in entries : o.merchant = n.merchant
            => o.position <= lastPosition[req[c].merchant]
      BY <2>1, <3>1, Zenon DEF ReversalInv, PositionInv, GapFree
    <3>3. lastPosition[req[c].merchant] \in Nat /\ \A o \in entries : o.position \in Nat
      BY <1>t, <3>1, Zenon DEF TypeInv, TypeOK, Entry
    <3>4. QED
      BY <2>1, <3>2, <3>3
  <2>6. ReversalsSound'
    <3>1. n.original # None => /\ req[c].op = "reverse"
                               /\ \A q \in entries : q.original # n.original
      BY <2>1, <2>3, <2>4, RequestType, Zenon DEF ReversalsOf
    <3>2. \A r \in entries : r.original # None =>
            /\ \E o \in entries' :
                 /\ o.id = r.original /\ o.merchant = r.merchant /\ o.original = None
                 /\ o.position < r.position
                 /\ o.amount = r.amount /\ o.type # r.type
            /\ \A q \in entries' : q.original = r.original => q = r
      BY <1>t, <2>2, <3>1, Zenon DEF ReversalsSound
    <3>3. n.original # None =>
            /\ \E o \in entries' :
                 /\ o.id = n.original /\ o.merchant = n.merchant /\ o.original = None
                 /\ o.position < n.position
                 /\ o.amount = n.amount /\ o.type # n.type
            /\ \A q \in entries' : q.original = n.original => q = n
      BY <2>2, <2>4, <2>5, <3>1, Zenon
    <3>4. QED
      BY <2>2, <3>2, <3>3 DEF ReversalsSound
  <2>7. OriginalOwner'
    <3>1. ASSUME NEW d \in Calls, d # c,
                 pc[d] \in {"position", "insert", "commit"}, req[d].op = "reverse"
          PROVE  /\ ReversalsOf(req[d].body)' = {}
                 /\ entryLock'[req[d].body] = d
      <4>1. req[d].body \in Calls /\ entryLock[req[d].body] = d /\ ReversalsOf(req[d].body) = {}
        BY <1>t, <1>b, <3>1, Zenon DEF OriginalOwner, OriginalHeld
      <4>2. n.original # req[d].body
        BY <2>1, <2>3, <2>4, <3>1, <4>1, RequestType, NoneIsNoCall, Zenon
      <4>3. QED
        BY <2>2, <3>1, <4>1, <4>2, Zenon DEF ReversalsOf
    <3>2. LockHolders'
      BY <1>t, <2>2, NoneIsNoCall DEF OriginalOwner, LockHolders
    <3>3. OriginalHeld(c)' /\ DraftMirrors(c)'
      BY <2>2, Zenon DEF OriginalHeld, DraftMirrors
    <3>4. ASSUME NEW d \in Calls, d # c PROVE OriginalHeld(d)' /\ DraftMirrors(d)'
      <4>1. OriginalHeld(d) /\ DraftMirrors(d) /\ pc'[d] = pc[d]
        BY <1>t, <2>2, <3>4, Zenon DEF OriginalOwner
      <4>2. Visible(req[d].merchant, req[d].body) \subseteq Visible(req[d].merchant, req[d].body)'
        BY <2>2, Zenon DEF Visible
      <4>3. DraftMirrors(d)'
        BY <2>2, <4>1, <4>2, Zenon DEF DraftMirrors
      <4>4. CASE pc[d] \in {"position", "insert", "commit"} /\ req[d].op = "reverse"
        BY <2>2, <3>1, <3>4, <4>1, <4>2, <4>3, <4>4, SMTT(30) DEF OriginalHeld
      <4>5. CASE ~(pc[d] \in {"position", "insert", "commit"} /\ req[d].op = "reverse")
        BY <2>2, <4>1, <4>3, <4>5, Zenon DEF OriginalHeld
      <4>6. QED
        BY <4>4, <4>5, Zenon
    <3>5. QED
      BY <3>2, <3>3, <3>4, Zenon DEF OriginalOwner
  <2>8. QED
    BY <2>6, <2>7, Zenon
<1>10. ASSUME NEW c \in Calls, Respond(c) PROVE Goal
  BY <1>10, ReversalFrame, Zenon DEF Respond, Answer, db, locks, local
<1>11. ASSUME NEW c \in Calls, Fail(c) PROVE Goal
  BY <1>11, ReversalRollback, Zenon DEF Fail
<1>12. CASE UNCHANGED <<db, locks, pc, local, reply>>
  <2>1. UNCHANGED <<entries, entryLock, pc, req, draft>>
    BY <1>12, Zenon DEF db, locks, local
  <2>2. LockHolders'
    BY <1>t, <2>1 DEF OriginalOwner, LockHolders
  <2>3. ASSUME NEW d \in Calls PROVE OriginalHeld(d)'
    BY <1>t, <2>1, Zenon DEF OriginalOwner, OriginalHeld, ReversalsOf, Visible
  <2>4. ASSUME NEW d \in Calls PROVE DraftMirrors(d)'
    BY <1>t, <2>1, Zenon DEF OriginalOwner, DraftMirrors, Visible
  <2>5. ReversalsSound'
    BY <1>t, <2>1, Zenon DEF ReversalsSound
  <2>6. QED
    BY <2>2, <2>3, <2>4, <2>5, Zenon DEF OriginalOwner
<1>13. NextDay \/ UNCHANGED vars => UNCHANGED <<db, locks, pc, local, reply>>
  BY Zenon DEF NextDay, vars
<1> HIDE DEF Goal
<1>14. QED
  BY <1>1, <1>2, <1>3, <1>4, <1>5, <1>6, <1>7, <1>8, <1>9, <1>10, <1>11, <1>12, <1>13, Zenon
   DEF Next, Step, Finished

LEMMA ReversalInvariant == Spec => []ReversalInv
<1>1. Init => PositionInv /\ KeyInv
  BY InitType, NoneIsNoCall
  DEF Init, PositionInv, PositionOwner, GapFree,
      KeyInv, KeyOwner, KeyRecords, EntriesRecorded, RecordsStored, DraftsNamed, AnswersRecorded, InTransaction
<1>2. Init => OriginalOwner /\ ReversalsSound
  BY NoneIsNoCall, Zenon DEF Init, OriginalOwner, LockHolders, OriginalHeld, DraftMirrors, ReversalsSound
<1>3. Init => ReversalInv
  BY <1>1, <1>2, Zenon DEF ReversalInv
<1>4. QED
  BY <1>3, NextReversals, PTL DEF Spec

\* An entry is reversed at most once, by a later entry that undoes exactly its
\* amount, and a reversal is never reversed, however reversals race.
THEOREM ReversalsUndoOnce == Spec => []ReversalsSound
<1>1. ReversalInv => ReversalsSound
  BY Zenon DEF ReversalInv
<1>2. QED
  BY <1>1, ReversalInvariant, PTL

\* The lock of EntryForUpdate is enough: no call that got past it ever meets the
\* unique index on original_entry_id.
THEOREM RowLockSuffices == Spec => []RowLockSerialisesReversals
<1>1. ReversalInv => RowLockSerialisesReversals
  BY Zenon DEF ReversalInv, OriginalOwner, OriginalHeld, RowLockSerialisesReversals
<1>2. QED
  BY <1>1, ReversalInvariant, PTL

-----------------------------------------------------------------------------
(* Waiting for row locks *)

\* The statement call c is at needs a row that call d has locked.
WaitsFor(c, d) ==
  \/ pc[c] = "claim" /\ keyLock[Scope(c)] = d
  \/ /\ pc[c] = "lock" /\ entryLock[req[c].body] = d
     /\ Visible(req[c].merchant, req[c].body) # {}
  \/ pc[c] = "position" /\ positionLock[req[c].merchant] = d

\* How far into its transaction a call is when it waits or holds a lock.
Depth(c) ==
  CASE pc[c] \in {"resolve", "lock"} -> 1
    [] pc[c] = "position" -> 2
    [] pc[c] \in {"insert", "commit"} -> 3
    [] OTHER -> 0

\* A call waits only for one that is further into its transaction, so no chain
\* of waiting calls closes, and the call at its end waits for nobody.
WaitsInOrder ==
  \A c, d \in Calls : WaitsFor(c, d) => Depth(c) < Depth(d)

\* The transactions of CreateEntry and ReverseEntry lock the idempotency row,
\* the original and the position row in this order, so no number of overlapping
\* calls can wait for each other in a circle.
THEOREM NoCircularWait == Spec => []WaitsInOrder
<1>1. ReversalInv => WaitsInOrder
  <2> SUFFICES ASSUME ReversalInv, NEW c \in Calls, NEW d \in Calls, WaitsFor(c, d)
               PROVE  Depth(c) < Depth(d)
    BY Zenon DEF WaitsInOrder
  <2>1. TypeInv
    BY Zenon DEF ReversalInv, KeyInv
  <2>2. CASE pc[c] = "claim" /\ keyLock[Scope(c)] = d
    <3>1. Scope(c) \in Scopes
      BY <2>1, <2>2, ScopeType, Zenon
    <3>2. pc[d] \in InTransaction
      BY <2>2, <3>1, Zenon DEF ReversalInv, KeyInv, KeyOwner
    <3>3. QED
      BY <2>2, <3>2 DEF Depth, InTransaction
  <2>3. CASE pc[c] = "lock" /\ entryLock[req[c].body] = d
    <3>1. req[c].body \in Calls
      BY <2>1, <2>3, RequestType, Zenon DEF TypeInv, LocalsSet
    <3>2. pc[d] \in {"position", "insert", "commit"}
      BY <2>3, <3>1, Zenon DEF ReversalInv, OriginalOwner, LockHolders
    <3>3. QED
      BY <2>3, <3>2 DEF Depth
  <2>4. CASE pc[c] = "position" /\ positionLock[req[c].merchant] = d
    <3>1. req[c].merchant \in Merchants
      BY <2>1, <2>4, RequestType, Zenon DEF TypeInv, LocalsSet
    <3>2. pc[d] \in {"insert", "commit"}
      BY <2>4, <3>1, Zenon DEF ReversalInv, PositionInv, PositionOwner
    <3>3. QED
      BY <2>4, <3>2 DEF Depth
  <2>5. QED
    BY <2>2, <2>3, <2>4, Zenon DEF WaitsFor
<1>2. QED
  BY <1>1, ReversalInvariant, PTL

-----------------------------------------------------------------------------
(* What a call leaves behind *)

\* Only COMMIT changes the tables.
LEMMA OnlyCommitWrites ==
  ASSUME [Next]_vars
  PROVE  UNCHANGED <<entries, outbox, lastPosition, idem>> \/ \E c \in Calls : Commit(c)
BY DEF Next, Step, Receive, Authorize, ClaimIdempotency, ReplayIdempotency, Resolve, EntryForUpdate,
       NextPosition, InsertEntry, Respond, Fail, NextDay, Finished, Rollback, vars, db

LEMMA NextOutbox ==
  ASSUME TypeInv, OutboxMatchesEntries, [Next]_vars
  PROVE  OutboxMatchesEntries'
<1>1. CASE UNCHANGED <<entries, outbox, lastPosition, idem>>
  BY <1>1, Zenon DEF OutboxMatchesEntries
<1>2. ASSUME NEW c \in Calls, Commit(c) PROVE OutboxMatchesEntries'
  <2>1. entries' = entries \cup {draft[c]} /\ outbox' = outbox \cup {NewEvent(draft[c])}
    BY <1>2, Zenon DEF Commit, InsertOutbox
  <2>2. /\ NewEvent(draft[c]).payload = draft[c] /\ NewEvent(draft[c]).aggregate = draft[c].id
        /\ NewEvent(draft[c]).merchant = draft[c].merchant
        /\ NewEvent(draft[c]).position = draft[c].position
    BY Zenon DEF NewEvent
  <2>3. QED
    BY <2>1, <2>2, Zenon DEF OutboxMatchesEntries
<1>3. QED
  BY <1>1, <1>2, OnlyCommitWrites, Zenon

\* Every committed entry has its event and every event its entry, for any number
\* of calls: both rows become visible by the same COMMIT.
THEOREM EventsMatchEntries == Spec => []OutboxMatchesEntries
<1>1. Spec => []TypeInv
  BY InitType, NextType, PTL DEF Spec
<1>2. Init => OutboxMatchesEntries
  BY Zenon DEF Init, OutboxMatchesEntries
<1>3. TypeInv /\ OutboxMatchesEntries /\ [Next]_vars => OutboxMatchesEntries'
  BY NextOutbox, Zenon
<1>4. QED
  BY <1>1, <1>2, <1>3, PTL DEF Spec

\* The inductive part of RefusedLeavesNoTrace.
RepliesInv ==
  \A c \in Calls : reply[c] # None =>
    /\ pc[c] = "done"
    /\ reply[c].outcome \notin {"ok", "error"} => \A e \in entries : e.id # c

\* A call that was told no had not committed.
LEMMA AnswerLeaves ==
  ASSUME KeyInv, RepliesInv, NEW c \in Calls, NEW o, NEW x, Answer(c, o, x), UNCHANGED entries,
         o \in {"ok", "error"} \/ pc[c] \notin {"committed", "done"}
  PROVE  RepliesInv'
<1>1. /\ \A d \in Calls \ {c} : reply'[d] = reply[d] /\ pc'[d] = pc[d]
      /\ pc'[c] = "done" /\ reply'[c].outcome = o
  BY Zenon DEF Answer, KeyInv, TypeInv, TypeOK
<1>2. \A e \in entries : pc[e.id] \in {"committed", "done"}
  BY Zenon DEF KeyInv, KeyRecords, EntriesRecorded
<1>3. QED
  BY <1>1, <1>2, Zenon DEF RepliesInv

LEMMA NextReplies ==
  ASSUME KeyInv, RepliesInv, [Next]_vars
  PROVE  RepliesInv'
\* A call goes on, and nobody is told anything.
<1>g. ASSUME NEW c \in Calls, NEW s, Goto(c, s), pc[c] # "done", UNCHANGED <<entries, reply>>
      PROVE  RepliesInv'
  BY <1>g, Zenon DEF Goto, KeyInv, TypeInv, TypeOK, RepliesInv
<1>1. ASSUME NEW c \in Calls, NEW r \in Requests, Receive(c, r) PROVE RepliesInv'
  BY <1>g, <1>1, Zenon DEF Receive, db
<1>2. ASSUME NEW c \in Calls, Authorize(c) PROVE RepliesInv'
  BY <1>g, <1>2, AnswerLeaves, Zenon DEF Authorize, db
<1>3. ASSUME NEW c \in Calls, ClaimIdempotency(c) \/ NextPosition(c) PROVE RepliesInv'
  BY <1>g, <1>3, Zenon DEF ClaimIdempotency, NextPosition, db
<1>4. ASSUME NEW c \in Calls, ReplayIdempotency(c) PROVE RepliesInv'
  BY <1>4, AnswerLeaves, Zenon DEF ReplayIdempotency, db
<1>5. ASSUME NEW c \in Calls, Resolve(c) PROVE RepliesInv'
  BY <1>g, <1>5, AnswerLeaves, Zenon DEF Resolve, Rollback, db
<1>6. ASSUME NEW c \in Calls, EntryForUpdate(c) PROVE RepliesInv'
  BY <1>g, <1>6, AnswerLeaves, Zenon DEF EntryForUpdate, Rollback, db
<1>7. ASSUME NEW c \in Calls, InsertEntry(c) PROVE RepliesInv'
  BY <1>g, <1>7, AnswerLeaves, Zenon DEF InsertEntry, Rollback, db
<1>8. ASSUME NEW c \in Calls, Commit(c) PROVE RepliesInv'
  <2>1. /\ pc[c] = "commit" /\ entries' = entries \cup {draft[c]} /\ draft[c].id = c
        /\ UNCHANGED reply /\ \A d \in Calls \ {c} : pc'[d] = pc[d]
    BY <1>8, Zenon DEF Commit, Goto, KeyInv, TypeInv, TypeOK, KeyRecords, DraftsNamed
  <2>2. QED
    BY <2>1, Zenon DEF RepliesInv
<1>9. ASSUME NEW c \in Calls, Respond(c) \/ Fail(c) PROVE RepliesInv'
  BY <1>9, AnswerLeaves, Zenon DEF Respond, Fail, Rollback, db
<1>10. CASE NextDay \/ Finished \/ UNCHANGED vars
  BY <1>10, Zenon DEF NextDay, Finished, vars, db, RepliesInv
<1>11. QED
  BY <1>1, <1>2, <1>3, <1>4, <1>5, <1>6, <1>7, <1>8, <1>9, <1>10, Zenon DEF Next, Step

\* An answered call holds no row lock, and a refused one leaves neither an entry
\* nor a record of its key, for any number of calls that overlap.
THEOREM RefusalsRollBack == Spec => []RefusedLeavesNoTrace
<1>1. Init => RepliesInv
  BY Zenon DEF Init, RepliesInv
<1>2. ReversalInv /\ RepliesInv /\ [Next]_vars => RepliesInv'
  BY NextReplies, Zenon DEF ReversalInv
<1>3. Spec => []RepliesInv
  BY <1>1, <1>2, ReversalInvariant, PTL DEF Spec
<1>4. ReversalInv /\ RepliesInv => RefusedLeavesNoTrace
  <2> SUFFICES ASSUME ReversalInv, RepliesInv, NEW c \in Calls, reply[c] # None
               PROVE  /\ \A s \in Scopes : keyLock[s] # c
                      /\ \A i \in Calls : entryLock[i] # c
                      /\ \A m \in Merchants : positionLock[m] # c
                      /\ reply[c].outcome \notin {"ok", "error"} =>
                           /\ \A e \in entries : e.id # c
                           /\ \A s \in Scopes : idem[s] # None => idem[s].response.id # c
    BY Zenon DEF RefusedLeavesNoTrace
  <2>1. /\ pc[c] = "done"
        /\ reply[c].outcome \notin {"ok", "error"} => \A e \in entries : e.id # c
    BY Zenon DEF RepliesInv
  <2>2. \A s \in Scopes : keyLock[s] # c
    BY <2>1, Zenon DEF ReversalInv, KeyInv, KeyOwner, InTransaction
  <2>3. \A i \in Calls : entryLock[i] # c
    BY <2>1, Zenon DEF ReversalInv, OriginalOwner, LockHolders
  <2>4. \A m \in Merchants : positionLock[m] # c
    BY <2>1, Zenon DEF ReversalInv, PositionInv, PositionOwner
  <2>5. \A s \in Scopes : idem[s] # None => idem[s].response \in entries
    BY Zenon DEF ReversalInv, KeyInv, KeyRecords, RecordsStored
  <2>6. QED
    BY <2>1, <2>2, <2>3, <2>4, <2>5, Zenon
<1>5. QED
  BY <1>3, <1>4, ReversalInvariant, PTL

\* What was read at or below a watermark is final: entries and stored responses
\* stay, and new entries get positions above the watermark.
THEOREM HistoryStays == Spec => HistoryIsFinal
<1> DEFINE Final ==
      /\ entries \subseteq entries'
      /\ \A m \in Merchants : lastPosition[m] <= lastPosition'[m]
      /\ \A e \in entries' \ entries : e.position > lastPosition[e.merchant]
      /\ \A s \in Scopes : idem[s] # None => idem'[s] = idem[s]
<1>1. ReversalInv /\ [Next]_vars => Final
  <2> SUFFICES ASSUME ReversalInv, [Next]_vars PROVE Final
    BY Zenon
  <2>t. lastPosition \in [Merchants -> Nat] /\ idem \in [Scopes -> Response \cup {None}]
    BY Zenon DEF ReversalInv, PositionInv, TypeInv, TypeOK
  <2>1. CASE UNCHANGED <<entries, outbox, lastPosition, idem>>
    BY <2>1, <2>t
  <2>2. ASSUME NEW c \in Calls, Commit(c) PROVE Final
    <3>1. /\ position[c] = lastPosition[req[c].merchant] + 1
          /\ draft[c].merchant = req[c].merchant /\ draft[c].position = position[c]
          /\ idem[Scope(c)] = None /\ req[c].merchant \in Merchants
      BY <2>2, RequestType, Zenon
       DEF Commit, ReversalInv, PositionInv, PositionOwner, TypeInv, LocalsSet, KeyInv, KeyOwner,
          InTransaction
    <3>2. /\ entries' = entries \cup {draft[c]}
          /\ \A m \in Merchants :
               lastPosition'[m] = IF m = req[c].merchant THEN position[c] ELSE lastPosition[m]
          /\ \A s \in Scopes : s # Scope(c) => idem'[s] = idem[s]
      BY <2>2, <2>t, Zenon DEF Commit
    <3>3. QED
      BY <2>t, <3>1, <3>2
  <2>3. QED
    BY <2>1, <2>2, OnlyCommitWrites, Zenon
<1>2. QED
  BY <1>1, ReversalInvariant, PTL DEF Spec, HistoryIsFinal

-----------------------------------------------------------------------------
(* What the readers of the ledger rely on *)

\* The ledger of one merchant.
FeedOf(m) == {e \in entries : e.merchant = m}

\* LedgerFeed: positions are 1..Cardinality, ids and positions are unique, and
\* merchant_position counts the entries.
FeedsComplete ==
  \A m \in Merchants :
    /\ IsFiniteSet(FeedOf(m))
    /\ lastPosition[m] = Cardinality(FeedOf(m))
    /\ {e.position : e \in FeedOf(m)} = 1..Cardinality(FeedOf(m))
    /\ \A e, f \in FeedOf(m) : e.id = f.id \/ e.position = f.position => e = f

\* LedgerFeed!Confirm: a merchant's ledger stays as it is or grows by the entry
\* at the next position.
FeedsAppend ==
  [][\A m \in Merchants :
       \/ lastPosition'[m] = lastPosition[m] /\ FeedOf(m)' = FeedOf(m)
       \/ /\ lastPosition'[m] = lastPosition[m] + 1
          /\ \E e \in entries' \ entries :
               e.position = lastPosition'[m] /\ FeedOf(m)' = FeedOf(m) \cup {e}]_vars

\* In every state the committed entries of a merchant are what LedgerFeed assumes
\* of Entries, the log that consolidation, reconciliation and listing read.
THEOREM FeedAssumptionHolds == Spec => []FeedsComplete
<1>1. ReversalInv => FeedsComplete
  <2> SUFFICES ASSUME ReversalInv, NEW m \in Merchants
               PROVE  /\ IsFiniteSet(FeedOf(m))
                      /\ lastPosition[m] = Cardinality(FeedOf(m))
                      /\ {e.position : e \in FeedOf(m)} = 1..Cardinality(FeedOf(m))
                      /\ \A e, f \in FeedOf(m) : e.id = f.id \/ e.position = f.position => e = f
    BY Zenon DEF FeedsComplete
  <2> DEFINE F == FeedOf(m)
             N == lastPosition[m]
             entryAt == [n \in 1..N |-> CHOOSE e \in F : e.position = n]
  <2>1. N \in Nat /\ \A e \in F : e.position \in Nat \ {0}
    BY DEF ReversalInv, PositionInv, TypeInv, TypeOK, FeedOf, Entry
  <2>2. /\ \A n \in 1..N : \E e \in F : e.position = n
        /\ \A e \in F : e.position <= N
        /\ \A e, f \in F : e.position = f.position => e = f
    <3>1. /\ \A n \in 1..N : \E e \in entries : e.merchant = m /\ e.position = n
          /\ \A e \in entries : e.merchant = m => e.position <= N
          /\ \A e, f \in entries :
               e.merchant = m /\ f.merchant = m /\ e.position = f.position => e = f
      BY Zenon DEF ReversalInv, PositionInv, GapFree
    <3>2. QED
      BY <3>1 DEF FeedOf
  <2>3. \A e, f \in F : e.id = f.id => e = f
    BY Zenon DEF ReversalInv, KeyInv, KeyRecords, EntriesRecorded, FeedOf
  <2> HIDE DEF F, N
  <2>4. \A n \in 1..N : entryAt[n] \in F /\ entryAt[n].position = n
    BY <2>2
  <2>5. \A e \in F : e.position \in 1..N /\ entryAt[e.position] = e
    BY <2>1, <2>2, <2>4
  <2>6. entryAt \in Bijection(1..N, F)
    <3>1. entryAt \in [1..N -> F]
      BY <2>4, Zenon
    <3> HIDE DEF entryAt
    <3>2. \A i, j \in 1..N : entryAt[i] = entryAt[j] => i = j
      BY <2>4, Zenon
    <3>3. \A e \in F : \E n \in 1..N : entryAt[n] = e
      BY <2>5, Zenon
    <3>4. QED
      BY <3>1, <3>2, <3>3, Zenon DEF Bijection, Injection, IsInjective, Surjection
  <2>7. IsFiniteSet(1..N) /\ Cardinality(1..N) = N
    BY <2>1, FS_Interval
  <2>8. IsFiniteSet(F) /\ Cardinality(F) = N
    BY <2>6, <2>7, FS_Bijection, Zenon DEF ExistsBijection
  <2>9. {e.position : e \in F} = 1..N
    BY <2>4, <2>5, Zenon
  <2>10. QED
    BY <2>2, <2>3, <2>8, <2>9, Zenon DEF F, N
<1>2. QED
  BY <1>1, ReversalInvariant, PTL

\* Every step leaves a merchant's ledger alone or confirms the entry at its next
\* position, which is the one step LedgerFeed gives its readers.
THEOREM FeedStepsHold == Spec => FeedsAppend
<1> DEFINE Appends(m) ==
      \/ lastPosition'[m] = lastPosition[m] /\ FeedOf(m)' = FeedOf(m)
      \/ /\ lastPosition'[m] = lastPosition[m] + 1
         /\ \E e \in entries' \ entries :
              e.position = lastPosition'[m] /\ FeedOf(m)' = FeedOf(m) \cup {e}
<1>1. ReversalInv /\ [Next]_vars => \A m \in Merchants : Appends(m)
  <2> SUFFICES ASSUME ReversalInv, [Next]_vars, NEW m \in Merchants PROVE Appends(m)
    BY Zenon
  <2>1. CASE UNCHANGED <<entries, outbox, lastPosition, idem>>
    BY <2>1, Zenon DEF FeedOf
  <2>2. ASSUME NEW c \in Calls, Commit(c) PROVE Appends(m)
    <3> DEFINE n == draft[c]
    <3>1. /\ n.merchant = req[c].merchant /\ n.position = position[c] /\ n.id = c
          /\ position[c] = lastPosition[req[c].merchant] + 1
      BY <2>2, Zenon
      DEF Commit, ReversalInv, PositionInv, PositionOwner, KeyInv, KeyRecords, DraftsNamed
    <3>2. /\ entries' = entries \cup {n}
          /\ lastPosition'[m] = IF m = req[c].merchant THEN position[c] ELSE lastPosition[m]
      BY <2>2, Zenon DEF Commit, ReversalInv, PositionInv, TypeInv, TypeOK
    <3>3. n \notin entries
      BY <2>2, <3>1, Zenon DEF Commit, ReversalInv, KeyInv, KeyRecords, EntriesRecorded
    <3> HIDE DEF n
    <3>4. CASE m = req[c].merchant
      <4>1. FeedOf(m)' = FeedOf(m) \cup {n}
        BY <3>1, <3>2, <3>4, Zenon DEF FeedOf
      <4>2. lastPosition'[m] = lastPosition[m] + 1 /\ n.position = lastPosition'[m]
        BY <3>1, <3>2, <3>4, Zenon
      <4>3. QED
        BY <3>2, <3>3, <4>1, <4>2, Zenon
    <3>5. CASE m # req[c].merchant
      BY <3>1, <3>2, <3>5, Zenon DEF FeedOf
    <3>6. QED
      BY <3>4, <3>5, Zenon
  <2>3. QED
    BY <2>1, <2>2, OnlyCommitWrites, Zenon
<1>2. QED
  BY <1>1, ReversalInvariant, PTL DEF Spec, FeedsAppend

-----------------------------------------------------------------------------
(* Refinement of the abstract log *)

\* The entry each key stands for, as the refinement mapping reads it.
Answered == [s \in Scopes |-> IF idem[s] = None THEN None ELSE idem[s].response]

\* COMMIT is the step at which a call takes effect.
LEMMA CommitConfirms ==
  ASSUME ReversalInv, NEW c \in Calls, Commit(c)
  PROVE  Log!Next
<1> DEFINE n == draft[c]
           m == req[c].merchant
           record == [hash |-> req[c].body, response |-> n]
<1>1. /\ pc[c] = "commit" /\ n \in Entry /\ req[c] \in Requests /\ n.id = c
      /\ n.merchant = m /\ n.position = lastPosition[m] + 1 /\ position[c] = n.position
      /\ idem[Scope(c)] = None
  <2>1. pc[c] = "commit" /\ n \in Entry /\ req[c] \in Requests
    BY Zenon DEF Commit, ReversalInv, PositionInv, TypeInv, LocalsSet
  <2>2. n.merchant = m /\ n.position = lastPosition[m] + 1 /\ position[c] = n.position
    BY <2>1, Zenon DEF ReversalInv, PositionInv, PositionOwner
  <2>3. n.id = c /\ idem[Scope(c)] = None
    BY <2>1, Zenon DEF ReversalInv, KeyInv, KeyOwner, KeyRecords, DraftsNamed, InTransaction
  <2>4. QED
    BY <2>1, <2>2, <2>3, Zenon
<1>2. m \in Merchants /\ Scope(c) \in Scopes
  BY <1>1, RequestType, ScopeType, Zenon DEF ReversalInv, PositionInv
<1>3. entries' = entries \cup {n}
  BY Zenon DEF Commit
<1>4. \A f \in entries : f.id # n.id
  BY <1>1, Zenon DEF ReversalInv, KeyInv, KeyRecords, EntriesRecorded
<1>5. n \in entries' \ entries
  BY <1>3, <1>4, Zenon
<1>6. lastPosition' = [lastPosition EXCEPT ![m] = n.position]
  BY <1>1, Zenon DEF Commit
<1>7. Answered' = [Answered EXCEPT ![Scope(c)] = n]
  <2>1. record # None
    <3>1. req[c].body \in CreateBodies \cup Calls
      BY <1>1, RequestType, Zenon
    <3>2. QED
      BY <1>1, <3>1, NoneAssumption DEF Response
  <2>2. record.response = n
    BY Zenon
  <2>3. idem' = [idem EXCEPT ![Scope(c)] = record] /\ idem \in [Scopes -> Response \cup {None}]
    BY Zenon DEF Commit, ReversalInv, PositionInv, TypeInv, TypeOK
  <2> HIDE DEF record
  <2>4. QED
    BY <1>2, <2>1, <2>2, <2>3, Zenon DEF Answered
<1>8. Answered[Scope(c)] = None
  BY <1>1, <1>2, Zenon DEF Answered
<1>9. Scope(c)[1] = m /\ Scope(c)[2] = req[c].op
  BY Zenon DEF Scope
<1>10. (req[c].op = "reverse") <=> (n.original # None)
  <2>1. req[c].op = "create" => n.original = None
    BY <1>1, SMTT(30) DEF ReversalInv, OriginalOwner, DraftMirrors
  <2>2. req[c].op = "reverse" => n.original # None
    BY <1>1, NoneIsNoCall
    DEF ReversalInv, PositionInv, TypeInv, TypeOK, OriginalOwner, DraftMirrors, Visible, Entry
  <2>3. QED
    BY <1>1, <2>1, <2>2, RequestType, Zenon
<1>11. req[c].op = "reverse" =>
         \E o \in entries :
           /\ o.id = n.original /\ o.merchant = n.merchant /\ o.original = None
           /\ o.amount = n.amount /\ o.type # n.type
           /\ \A q \in entries : q.original # o.id
  <2>1. req[c].op = "reverse" => ReversalsOf(req[c].body) = {}
    BY <1>1, Zenon DEF ReversalInv, OriginalOwner, OriginalHeld
  <2>2. req[c].op = "reverse" =>
          \E o \in entries :
            /\ o.id = req[c].body /\ o.id = n.original
            /\ o.merchant = n.merchant /\ o.original = None
            /\ o.amount = n.amount /\ o.type # n.type
    BY <1>1, SMTT(30) DEF ReversalInv, OriginalOwner, DraftMirrors, Visible
  <2>3. QED
    BY <2>1, <2>2, Zenon DEF ReversalsOf
<1>12. Log!Confirm(Scope(c), n)
  BY <1>1, <1>3, <1>4, <1>6, <1>7, <1>8, <1>9, <1>10, <1>11, Zenon
   DEF Log!Confirm, Log!Reverses, Answered
<1>13. Scope(c) \in Log!Scopes
  BY <1>2, Zenon DEF Log!Scopes, Log!Operations, Scopes, Operations
<1>14. QED
  BY <1>5, <1>12, <1>13, Zenon DEF Log!Next, Log!Confirm

\* The transactions implement the atomic append-only log: every interleaving of
\* statements, failures and retries is one of its behaviours.
THEOREM LedgerImplementsLog == Spec => ImplementsLog
<1>1. Init => Log!Init
  BY Zenon DEF Init, Log!Init, Log!Scopes, Log!Operations, Scopes, Operations
<1>2. ReversalInv /\ [Next]_vars => [Log!Next]_(Log!vars)
  <2> SUFFICES ASSUME ReversalInv, [Next]_vars PROVE Log!Next \/ UNCHANGED Log!vars
    BY Zenon
  <2>1. CASE \E c \in Calls : Commit(c)
    BY <2>1, CommitConfirms, Zenon
  <2>2. CASE UNCHANGED db
    BY <2>2, Zenon DEF db, Log!vars
  <2>3. UNCHANGED db \/ \E c \in Calls : Commit(c)
    <3>1. ASSUME NEW c \in Calls,
                 \/ \E r \in Requests : Receive(c, r)
                 \/ Authorize(c) \/ ClaimIdempotency(c) \/ ReplayIdempotency(c)
                 \/ NextPosition(c) \/ Respond(c)
          PROVE  UNCHANGED db
      <4>1. CASE (\E r \in Requests : Receive(c, r)) \/ Authorize(c)
        BY <4>1, Zenon DEF Receive, Authorize
      <4>2. CASE ClaimIdempotency(c) \/ ReplayIdempotency(c)
        BY <4>2, Zenon DEF ClaimIdempotency, ReplayIdempotency
      <4>3. CASE NextPosition(c) \/ Respond(c)
        BY <4>3, Zenon DEF NextPosition, Respond
      <4>4. QED
        BY <3>1, <4>1, <4>2, <4>3, Zenon
    <3>2. ASSUME NEW c \in Calls,
                 Resolve(c) \/ EntryForUpdate(c) \/ InsertEntry(c) \/ Fail(c)
          PROVE  UNCHANGED db
      BY <3>2, Zenon DEF Resolve, EntryForUpdate, InsertEntry, Fail, Rollback
    <3>3. NextDay \/ UNCHANGED vars => UNCHANGED db
      BY Zenon DEF NextDay, vars
    <3>4. QED
      BY <3>1, <3>2, <3>3, Zenon DEF Next, Step, Finished
  <2>4. QED
    BY <2>1, <2>2, <2>3, Zenon
<1>3. QED
  BY <1>1, <1>2, ReversalInvariant, PTL DEF Spec, ImplementsLog, Log!Spec
=============================================================================
