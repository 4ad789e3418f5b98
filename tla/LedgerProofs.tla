---------------------------- MODULE LedgerProofs ----------------------------
(***************************************************************************)
(* Types, positions and idempotency keys of Ledger, for any number of      *)
(* calls, merchants and keys.                                              *)
(***************************************************************************)
EXTENDS Ledger, TLAPS

\* What a call has computed by the time it reaches each step.
LocalsSet ==
  \A c \in Calls :
    /\ pc[c] # "idle" => req[c] \in Requests
    /\ pc[c] \in {"authorize", "lock"} => req[c].op = "reverse"
    /\ pc[c] \in {"lock", "position", "insert"} => date[c] \in Int
    /\ pc[c] \in {"position", "insert"} /\ req[c].op = "create"
         => req[c].body.amount > 0
    /\ pc[c] \in {"insert", "commit"} => position[c] \in Nat \ {0}
    /\ pc[c] \in {"commit", "committed"} => draft[c] \in Entry

TypeInv == TypeOK /\ LocalsSet

\* The call between the upsert and COMMIT, and only it, holds the lock on its
\* merchant's row, and its position is the one after the committed ones.
PositionOwner ==
  /\ \A m \in Merchants : \A c \in Calls :
       positionLock[m] = c
         => pc[c] \in {"insert", "commit"} /\ req[c].merchant = m
  /\ \A c \in Calls : pc[c] \in {"insert", "commit"}
       => /\ positionLock[req[c].merchant] = c
          /\ position[c] = lastPosition[req[c].merchant] + 1
  /\ \A c \in Calls : pc[c] = "commit"
       => /\ draft[c].merchant = req[c].merchant
          /\ draft[c].position = position[c]

\* The inductive invariant behind GapFree.
PositionInv == TypeInv /\ PositionOwner /\ GapFree

-----------------------------------------------------------------------------
(* Type correctness *)

LEMMA NoneIsNoCall == None \notin Calls
BY ConstantsAssumption, Zenon

LEMMA RequestType ==
  ASSUME NEW r \in Requests
  PROVE  /\ r.merchant \in Merchants /\ r.key \in Keys
         /\ r.op = "create" \/ r.op = "reverse"
         /\ r.op = "create" => r.body \in CreateBodies
         /\ r.op = "reverse" => r.body \in Calls
         /\ r.body \in CreateBodies \cup Calls
BY Zenon DEF Requests

LEMMA BodyType ==
  ASSUME NEW b \in CreateBodies
  PROVE  b.type \in EntryTypes /\ b.amount \in Int /\ b.date \in Nat \cup {None}
BY ConstantsAssumption, Zenon

LEMMA InitType == Init => TypeInv
BY ConstantsAssumption DEF Init, TypeInv, TypeOK, LocalsSet, Steps

LEMMA ScopeType ==
  ASSUME TypeInv, NEW c \in Calls, pc[c] # "idle"
  PROVE  Scope(c) \in Scopes
BY RequestType, Zenon DEF TypeInv, LocalsSet, Scope, Scopes, Operations

\* Giving up locks keeps the types of the lock tables.
LEMMA ReleaseType ==
  ASSUME TypeOK, NEW c \in Calls, ReleaseLocks(c)
  PROVE  /\ keyLock' \in [Scopes -> Calls \cup {None}]
         /\ entryLock' \in [Calls -> Calls \cup {None}]
         /\ positionLock' \in [Merchants -> Calls \cup {None}]
BY Zenon DEF TypeOK, ReleaseLocks, Drop

LEMMA RollbackType ==
  ASSUME TypeInv, NEW c \in Calls, NEW o \in Outcomes, pc[c] # "idle", Rollback(c, o)
  PROVE  TypeInv'
<1>1. reply' \in [Calls -> Reply \cup {None}] /\ pc' \in [Calls -> Steps]
  BY Zenon DEF Rollback, Answer, TypeInv, TypeOK, Reply, Steps
<1>2. TypeOK'
  BY <1>1, ReleaseType, Zenon DEF Rollback, TypeInv, TypeOK, db, local
<1>3. LocalsSet'
  <2>1. \A d \in Calls : pc'[d] = IF d = c THEN "done" ELSE pc[d]
    BY Zenon DEF Rollback, Answer, TypeInv, TypeOK
  <2>2. UNCHANGED <<req, date, position, draft>>
    BY Zenon DEF Rollback, local
  <2>3. QED
    BY <2>1, <2>2, Zenon DEF TypeInv, LocalsSet
<1>4. QED
  BY <1>2, <1>3, Zenon DEF TypeInv

LEMMA NextType == TypeInv /\ [Next]_vars => TypeInv'
<1> SUFFICES ASSUME TypeInv, [Next]_vars PROVE TypeInv'
  BY Zenon
<1> USE DEF TypeInv
<1>1. ASSUME NEW c \in Calls, NEW r \in Requests, Receive(c, r) PROVE TypeInv'
  <2>1. TypeOK'
    BY <1>1, Zenon DEF Receive, Goto, TypeOK, Steps, db, locks
  <2>2. LocalsSet'
    BY <1>1, RequestType, Zenon DEF Receive, Goto, TypeOK, LocalsSet
  <2>3. QED
    BY <2>1, <2>2, Zenon
<1>2. ASSUME NEW c \in Calls, Authorize(c) PROVE TypeInv'
  <2>1. TypeOK'
    BY <1>2 DEF Authorize, Goto, Answer, TypeOK, Steps, Reply, Outcomes, db, locks, local
  <2>2. LocalsSet'
    BY <1>2, Zenon DEF Authorize, Goto, Answer, TypeOK, LocalsSet, local
  <2>3. QED
    BY <2>1, <2>2, Zenon
<1>3. ASSUME NEW c \in Calls, ClaimIdempotency(c) PROVE TypeInv'
  <2>1. TypeOK'
    BY <1>3, ScopeType, Zenon DEF ClaimIdempotency, Goto, TypeOK, Steps, db, local
  <2>2. LocalsSet'
    BY <1>3, Zenon DEF ClaimIdempotency, Goto, TypeOK, LocalsSet, local
  <2>3. QED
    BY <2>1, <2>2
<1>4. ASSUME NEW c \in Calls, ReplayIdempotency(c) PROVE TypeInv'
  <2>1. idem[Scope(c)] \in Response
    BY <1>4, ScopeType, Zenon DEF ReplayIdempotency, TypeOK
  <2>2. reply' \in [Calls -> Reply \cup {None}] /\ pc' \in [Calls -> Steps]
    BY <1>4, <2>1 DEF ReplayIdempotency, Answer, TypeOK, Response, Reply, Outcomes, Steps
  <2>3. TypeOK'
    BY <1>4, <2>2, Zenon DEF ReplayIdempotency, TypeOK, db, locks, local
  <2>4. LocalsSet'
    BY <1>4 DEF ReplayIdempotency, Answer, TypeOK, LocalsSet, local
  <2>5. QED
    BY <2>3, <2>4
<1>5. ASSUME NEW c \in Calls, Resolve(c) PROVE TypeInv'
  <2> DEFINE requested == IF req[c].op = "create" THEN req[c].body.date ELSE None
             valid == /\ req[c].op = "create" => ValidMoney(req[c].body.amount, req[c].body.currency)
                      /\ Resolvable(requested)
  <2>1. req[c] \in Requests
    BY <1>5, Zenon DEF Resolve, LocalsSet
  <2>2. CASE ~valid
    BY <1>5, <2>2, RollbackType, Zenon DEF Resolve, Outcomes
  <2>3. CASE valid
    <3>1. /\ date' = [date EXCEPT ![c] = ResolvedDate(requested)]
          /\ Goto(c, IF req[c].op = "create" THEN "position" ELSE "lock")
          /\ UNCHANGED <<today, db, locks, req, position, draft, reply>>
      BY <1>5, <2>3, Zenon DEF Resolve
    <3>2. ResolvedDate(requested) \in Int
      BY <2>1, RequestType, BodyType DEF ResolvedDate, TypeOK
    <3>3. TypeOK'
      BY <3>1, <3>2, Zenon DEF Goto, TypeOK, Steps, db, locks
    <3>4. LocalsSet'
      BY <2>1, <2>3, <3>1, <3>2, RequestType, Zenon
       DEF Goto, TypeOK, LocalsSet, ValidMoney
    <3>5. QED
      BY <3>3, <3>4
  <2>4. QED
    BY <2>2, <2>3, Zenon
<1>6. ASSUME NEW c \in Calls, EntryForUpdate(c) PROVE TypeInv'
  <2>1. CASE \E o \in Outcomes : Rollback(c, o)
    BY <1>6, <2>1, RollbackType, Zenon DEF EntryForUpdate
  <2>2. CASE /\ entryLock' = [entryLock EXCEPT ![req[c].body] = c]
             /\ Goto(c, "position")
             /\ UNCHANGED <<today, db, keyLock, positionLock, local, reply>>
    <3>1. TypeOK'
      BY <2>2, Zenon DEF Goto, TypeOK, Steps, db, local
    <3>2. LocalsSet'
      BY <1>6, <2>2, Zenon DEF EntryForUpdate, Goto, TypeOK, LocalsSet, local
    <3>3. QED
      BY <3>1, <3>2
  <2>3. QED
    BY <1>6, <2>1, <2>2, Zenon DEF EntryForUpdate, Outcomes
<1>7. ASSUME NEW c \in Calls, NextPosition(c) PROVE TypeInv'
  <2>1. lastPosition[req[c].merchant] \in Nat
    BY <1>7, RequestType, Zenon DEF NextPosition, TypeOK, LocalsSet
  <2>2. TypeOK'
    <3>1. /\ position' \in [Calls -> (Nat \ {0}) \cup {None}]
          /\ positionLock' \in [Merchants -> Calls \cup {None}]
          /\ pc' \in [Calls -> Steps]
      <4>1. NextValue(req[c].merchant) \in Nat \ {0}
        BY <2>1 DEF NextValue
      <4>2. QED
        BY <1>7, <4>1, Zenon DEF NextPosition, Goto, TypeOK, Steps
    <3>2. QED
      BY <1>7, <3>1, Zenon DEF NextPosition, TypeOK, db
  <2>3. LocalsSet'
    BY <1>7, <2>1 DEF NextPosition, NextValue, Goto, TypeOK, LocalsSet
  <2>4. QED
    BY <2>2, <2>3
<1>8. ASSUME NEW c \in Calls, InsertEntry(c) PROVE TypeInv'
  <2>1. /\ req[c] \in Requests /\ date[c] \in Int /\ position[c] \in Nat \ {0}
        /\ req[c].op = "create" => req[c].body.amount > 0
    BY <1>8, Zenon DEF InsertEntry, LocalsSet
  <2>2. ASSUME NEW e \in Entry, draft' = [draft EXCEPT ![c] = e], Goto(c, "commit"),
               UNCHANGED <<today, db, locks, req, date, position, reply>>
        PROVE  TypeInv'
    <3>1. TypeOK'
      BY <2>2, Zenon DEF Goto, TypeOK, Steps, db, locks
    <3>2. LocalsSet'
      BY <1>8, <2>2, Zenon DEF InsertEntry, Goto, TypeOK, LocalsSet
    <3>3. QED
      BY <3>1, <3>2, Zenon
  <2>3. req[c].op = "create" => NewEntry(c) \in Entry
    BY <2>1, RequestType, BodyType DEF NewEntry, Entry
  <2>4. \A o \in entries : req[c].op = "reverse" => NewReversal(c, o) \in Entry
    BY <2>1, Zenon DEF NewReversal, Entry, Opposite, EntryTypes, TypeOK
  <2>5. CASE Rollback(c, "already_reversed")
    BY <1>8, <2>5, RollbackType, Zenon DEF InsertEntry, Outcomes
  <2>6. CASE ~Rollback(c, "already_reversed")
    BY <1>8, <2>2, <2>3, <2>4, <2>6, Zenon DEF InsertEntry, Visible
  <2>7. QED
    BY <2>5, <2>6, Zenon
<1>9. ASSUME NEW c \in Calls, Commit(c) PROVE TypeInv'
  <2>1. /\ draft[c] \in Entry /\ position[c] \in Nat /\ req[c] \in Requests
        /\ Scope(c) \in Scopes
    BY <1>9, ScopeType, Zenon DEF Commit, LocalsSet
  <2>2. NewEvent(draft[c]) \in Event
    BY <2>1, Zenon DEF NewEvent, Event, Entry
  <2>3. [hash |-> req[c].body, response |-> draft[c]] \in Response
    BY <2>1, RequestType, Zenon DEF Response
  <2>4. TypeOK'
    <3>1. entries' \subseteq Entry /\ outbox' \subseteq Event
      BY <1>9, <2>1, <2>2, Zenon DEF Commit, InsertOutbox, TypeOK
    <3>2. /\ lastPosition' \in [Merchants -> Nat]
          /\ idem' \in [Scopes -> Response \cup {None}]
      BY <1>9, <2>1, <2>3, RequestType, Zenon DEF Commit, TypeOK
    <3>3. QED
      BY <1>9, <3>1, <3>2, ReleaseType, Zenon DEF Commit, Goto, TypeOK, Steps, local
  <2>5. LocalsSet'
    BY <1>9, <2>1, Zenon DEF Commit, Goto, TypeOK, LocalsSet, local
  <2>6. QED
    BY <2>4, <2>5
<1>10. ASSUME NEW c \in Calls, Respond(c) PROVE TypeInv'
  <2>1. TypeOK'
    BY <1>10, Zenon DEF Respond, Answer, TypeOK, LocalsSet, Reply, Steps, db, locks, local
  <2>2. LocalsSet'
    BY <1>10, Zenon DEF Respond, Answer, TypeOK, LocalsSet, local
  <2>3. QED
    BY <2>1, <2>2
<1>11. ASSUME NEW c \in Calls, Fail(c) PROVE TypeInv'
  BY <1>11, RollbackType, Zenon DEF Fail, InTransaction, Outcomes
<1>12. CASE NextDay
  BY <1>12 DEF NextDay, TypeOK, LocalsSet, db, locks, local
<1>13. CASE UNCHANGED vars
  BY <1>13, Zenon DEF vars, TypeOK, LocalsSet, db, locks, local
<1>14. QED
  BY <1>1, <1>2, <1>3, <1>4, <1>5, <1>6, <1>7, <1>8, <1>9, <1>10, <1>11, <1>12, <1>13, Zenon
   DEF Next, Step, Finished

\* Every column, lock table and local of a call keeps its type in every
\* interleaving of the transactions.
THEOREM TypeCorrect == Spec => []TypeOK
<1>1. Spec => []TypeInv
  BY InitType, NextType, PTL DEF Spec
<1>2. TypeInv => TypeOK
  BY Zenon DEF TypeInv
<1>3. QED
  BY <1>1, <1>2, PTL

-----------------------------------------------------------------------------
(* Positions *)

\* A step of a call that is not between the upsert and COMMIT, and does not get
\* there, cannot disturb the positions.
LEMMA PositionFrame ==
  ASSUME PositionInv, NEW c \in Calls, NEW s,
         pc[c] \notin {"insert", "commit"}, s \notin {"insert", "commit"},
         pc' = [pc EXCEPT ![c] = s],
         \A d \in Calls \ {c} : req'[d] = req[d],
         UNCHANGED <<entries, lastPosition, positionLock, position, draft>>
  PROVE  PositionOwner' /\ GapFree'
<1>1. \A d \in Calls : pc'[d] = IF d = c THEN s ELSE pc[d]
  BY Zenon DEF PositionInv, TypeInv, TypeOK
<1>2. PositionOwner'
  BY <1>1 DEF PositionInv, PositionOwner
<1>3. GapFree'
  BY DEF PositionInv, GapFree
<1>4. QED
  BY <1>2, <1>3, Zenon

\* Rolling back frees the merchant's row and leaves the committed positions.
LEMMA PositionRollback ==
  ASSUME PositionInv, NEW c \in Calls, NEW o, Rollback(c, o)
  PROVE  PositionOwner' /\ GapFree'
<1>1. /\ \A d \in Calls : pc'[d] = IF d = c THEN "done" ELSE pc[d]
      /\ \A m \in Merchants :
           positionLock'[m] = IF positionLock[m] = c THEN None ELSE positionLock[m]
  BY Zenon DEF Rollback, Answer, ReleaseLocks, Drop, PositionInv, TypeInv, TypeOK
<1>2. UNCHANGED <<entries, lastPosition, req, position, draft>>
  BY Zenon DEF Rollback, db, local
<1>3. \A d \in Calls : pc[d] \in {"insert", "commit"} => req[d].merchant \in Merchants
  BY RequestType, Zenon DEF PositionInv, TypeInv, LocalsSet
<1>4. PositionOwner'
  BY <1>1, <1>2, <1>3, NoneIsNoCall DEF PositionInv, PositionOwner
<1>5. GapFree'
  BY <1>2, Zenon DEF PositionInv, GapFree
<1>6. QED
  BY <1>4, <1>5, Zenon

LEMMA NextPositions == PositionInv /\ [Next]_vars => PositionInv'
<1> SUFFICES ASSUME PositionInv, [Next]_vars PROVE PositionOwner' /\ GapFree'
  BY NextType, Zenon DEF PositionInv
<1> USE DEF PositionInv
<1>t. TypeInv'
  BY NextType, Zenon
<1>1. ASSUME NEW c \in Calls, NEW r \in Requests, Receive(c, r)
      PROVE  PositionOwner' /\ GapFree'
  <2>1. \A d \in Calls \ {c} : req'[d] = req[d]
    BY <1>1, Zenon DEF Receive, TypeInv, TypeOK
  <2>2. QED
    BY <1>1, <2>1, PositionFrame, Zenon DEF Receive, Goto, db, locks
<1>2. ASSUME NEW c \in Calls, Authorize(c) PROVE PositionOwner' /\ GapFree'
  BY <1>2, PositionFrame, Zenon DEF Authorize, Goto, Answer, db, locks, local
<1>3. ASSUME NEW c \in Calls, ClaimIdempotency(c) PROVE PositionOwner' /\ GapFree'
  BY <1>3, PositionFrame, Zenon DEF ClaimIdempotency, Goto, db, local
<1>4. ASSUME NEW c \in Calls, ReplayIdempotency(c) PROVE PositionOwner' /\ GapFree'
  BY <1>4, PositionFrame, Zenon DEF ReplayIdempotency, Answer, db, locks, local
<1>5. ASSUME NEW c \in Calls, Resolve(c) PROVE PositionOwner' /\ GapFree'
  <2>1. CASE Rollback(c, "invalid")
    BY <2>1, PositionRollback, Zenon
  <2>2. CASE ~Rollback(c, "invalid")
    BY <1>5, <2>2, PositionFrame, Zenon DEF Resolve, Goto, db, locks
  <2>3. QED
    BY <2>1, <2>2, Zenon
<1>6. ASSUME NEW c \in Calls, EntryForUpdate(c) PROVE PositionOwner' /\ GapFree'
  <2>1. CASE \E o \in Outcomes : Rollback(c, o)
    BY <2>1, PositionRollback, Zenon
  <2>2. CASE Goto(c, "position") /\ UNCHANGED <<today, db, keyLock, positionLock, local, reply>>
    BY <1>6, <2>2, PositionFrame, Zenon DEF EntryForUpdate, Goto, db, local
  <2>3. QED
    BY <1>6, <2>1, <2>2, Zenon DEF EntryForUpdate, Outcomes
<1>7. ASSUME NEW c \in Calls, NextPosition(c) PROVE PositionOwner' /\ GapFree'
  <2> DEFINE m == req[c].merchant
  <2>1. m \in Merchants
    BY <1>7, RequestType, Zenon DEF NextPosition, TypeInv, LocalsSet
  <2>2. /\ \A d \in Calls : pc'[d] = IF d = c THEN "insert" ELSE pc[d]
        /\ \A n \in Merchants : positionLock'[n] = IF n = m THEN c ELSE positionLock[n]
        /\ \A d \in Calls :
             position'[d] = IF d = c THEN lastPosition[m] + 1 ELSE position[d]
    BY <1>7, <2>1, Zenon DEF NextPosition, NextValue, Goto, TypeInv, TypeOK
  <2>3. UNCHANGED <<entries, lastPosition, req, draft>> /\ positionLock[m] = None
    BY <1>7, Zenon DEF NextPosition, PositionFree, db
  <2>4. \A d \in Calls : pc[d] \in {"insert", "commit"} => req[d].merchant \in Merchants
    BY RequestType, Zenon DEF TypeInv, LocalsSet
  <2>5. \A d \in Calls : pc[d] \in {"insert", "commit"} => req[d].merchant # m
    BY <2>3, NoneIsNoCall, SMTT(30) DEF PositionOwner
  <2>6. PositionOwner'
    BY <1>7, <2>1, <2>2, <2>3, <2>4, <2>5 DEF NextPosition, PositionOwner
  <2>7. GapFree'
    BY <2>3, Zenon DEF GapFree
  <2>8. QED
    BY <2>6, <2>7, Zenon
<1>8. ASSUME NEW c \in Calls, InsertEntry(c) PROVE PositionOwner' /\ GapFree'
  <2>1. CASE Rollback(c, "already_reversed")
    BY <2>1, PositionRollback, Zenon
  <2>2. ASSUME NEW e \in Entry, e.merchant = req[c].merchant, e.position = position[c],
               draft' = [draft EXCEPT ![c] = e], Goto(c, "commit"),
               UNCHANGED <<today, db, locks, req, date, position, reply>>
        PROVE  PositionOwner' /\ GapFree'
    <3>1. /\ \A d \in Calls : pc'[d] = IF d = c THEN "commit" ELSE pc[d]
          /\ \A d \in Calls : draft'[d] = IF d = c THEN e ELSE draft[d]
      BY <2>2, SMTT(30) DEF Goto, TypeInv, TypeOK
    <3>2. PositionOwner'
      BY <1>8, <2>2, <3>1, SMTT(30) DEF InsertEntry, PositionOwner, db, locks
    <3>3. GapFree'
      BY <2>2, Zenon DEF GapFree, db
    <3>4. QED
      BY <3>2, <3>3, Zenon
  <2>3. /\ req[c] \in Requests /\ date[c] \in Int /\ position[c] \in Nat \ {0}
        /\ req[c].op = "create" => req[c].body.amount > 0
    BY <1>8, Zenon DEF InsertEntry, TypeInv, LocalsSet
  <2>4. req[c].op = "create" => NewEntry(c) \in Entry
    BY <2>3, RequestType, BodyType DEF NewEntry, Entry
  <2>5. \A o \in entries : req[c].op = "reverse" => NewReversal(c, o) \in Entry
    BY <2>3, Zenon DEF NewReversal, Entry, Opposite, EntryTypes, TypeInv, TypeOK
  <2>6. /\ NewEntry(c).merchant = req[c].merchant /\ NewEntry(c).position = position[c]
        /\ \A o \in Visible(req[c].merchant, req[c].body) :
             /\ NewReversal(c, o).merchant = req[c].merchant
             /\ NewReversal(c, o).position = position[c]
    BY Zenon DEF NewEntry, NewReversal, Visible
  <2>7. CASE ~Rollback(c, "already_reversed")
    BY <1>8, <2>2, <2>4, <2>5, <2>6, <2>7, Zenon DEF InsertEntry, Visible
  <2>8. QED
    BY <2>1, <2>7, Zenon
<1>9. ASSUME NEW c \in Calls, Commit(c) PROVE PositionOwner' /\ GapFree'
  <2> DEFINE m == req[c].merchant
  <2>1. /\ m \in Merchants /\ draft[c] \in Entry
        /\ draft[c].merchant = m /\ draft[c].position = lastPosition[m] + 1
        /\ position[c] = lastPosition[m] + 1 /\ positionLock[m] = c
        /\ lastPosition \in [Merchants -> Nat] /\ entries \subseteq Entry
    BY <1>9, RequestType, Zenon DEF Commit, TypeInv, TypeOK, LocalsSet, PositionOwner
  <2>2. /\ \A d \in Calls : pc'[d] = IF d = c THEN "committed" ELSE pc[d]
        /\ \A n \in Merchants :
             positionLock'[n] = IF positionLock[n] = c THEN None ELSE positionLock[n]
        /\ \A n \in Merchants :
             lastPosition'[n] = IF n = m THEN lastPosition[m] + 1 ELSE lastPosition[n]
        /\ entries' = entries \cup {draft[c]}
        /\ UNCHANGED <<req, position, draft>>
    BY <1>9, <2>1, SMTT(30) DEF Commit, Goto, ReleaseLocks, Drop, TypeInv, TypeOK, local
  <2>3. \A d \in Calls : pc[d] \in {"insert", "commit"} => req[d].merchant \in Merchants
    BY RequestType DEF TypeInv, LocalsSet
  <2>4. PositionOwner'
    BY <2>1, <2>2, <2>3, NoneIsNoCall, SMTT(30) DEF PositionOwner
  <2>5. ASSUME NEW n \in Merchants, n # m
        PROVE  /\ lastPosition'[n] = lastPosition[n]
               /\ \A e : e \in entries' /\ e.merchant = n <=> e \in entries /\ e.merchant = n
    BY <2>1, <2>2, <2>5, Zenon
  <2>6. GapFree'
    <3> SUFFICES ASSUME NEW n \in Merchants
                 PROVE  /\ \A k \in 1..lastPosition'[n] :
                             \E e \in entries' : e.merchant = n /\ e.position = k
                        /\ \A e \in entries' : e.merchant = n => e.position <= lastPosition'[n]
                        /\ \A e, f \in entries' :
                             e.merchant = n /\ f.merchant = n /\ e.position = f.position => e = f
      BY Zenon DEF GapFree
    <3>1. CASE n # m
      BY <2>5, <3>1 DEF GapFree
    <3>2. CASE n = m
      <4>1. lastPosition'[m] = lastPosition[m] + 1 /\ lastPosition[m] \in Nat
        BY <2>1, <2>2, Zenon
      <4>2. \A e \in entries : e.position \in Nat
        BY <2>1, Zenon DEF Entry
      <4>3. \A k \in 1..lastPosition'[m] :
              \E e \in entries' : e.merchant = m /\ e.position = k
        <5> TAKE k \in 1..lastPosition'[m]
        <5>1. k \in 1..lastPosition[m] \/ k = lastPosition[m] + 1
          BY <4>1
        <5>2. QED
          BY <2>1, <2>2, <5>1 DEF GapFree
      <4>4. \A e \in entries' : e.merchant = m => e.position <= lastPosition'[m]
        BY <2>1, <2>2, <4>1, <4>2 DEF GapFree
      <4>5. \A e \in entries : e.merchant = m => e.position # lastPosition[m] + 1
        BY <2>1, <4>1, <4>2, SMTT(30) DEF GapFree
      <4>6. \A e, f \in entries' :
              e.merchant = m /\ f.merchant = m /\ e.position = f.position => e = f
        BY <2>1, <2>2, <4>5 DEF GapFree
      <4>7. QED
        BY <3>2, <4>3, <4>4, <4>6, SMTT(30)
    <3>3. QED
      BY <3>1, <3>2, Zenon
  <2>7. QED
    BY <2>4, <2>6
<1>10. ASSUME NEW c \in Calls, Respond(c) PROVE PositionOwner' /\ GapFree'
  BY <1>10, PositionFrame, Zenon DEF Respond, Answer, db, locks, local
<1>11. ASSUME NEW c \in Calls, Fail(c) PROVE PositionOwner' /\ GapFree'
  BY <1>11, PositionRollback, Zenon DEF Fail
<1>12. CASE NextDay
  BY <1>12 DEF NextDay, PositionOwner, GapFree, db, locks, local
<1>13. CASE UNCHANGED vars
  BY <1>13 DEF vars, PositionOwner, GapFree, db, locks, local
<1>14. QED
  BY <1>1, <1>2, <1>3, <1>4, <1>5, <1>6, <1>7, <1>8, <1>9, <1>10, <1>11, <1>12, <1>13, Zenon
   DEF Next, Step, Finished

\* The committed positions of every merchant are 1..last_position, for any
\* number of concurrent calls: the row of merchant_position stays locked from
\* the upsert to COMMIT or ROLLBACK.
THEOREM PositionsGapFree == Spec => []GapFree
<1>1. Init => PositionInv
  BY InitType, NoneIsNoCall DEF Init, PositionInv, PositionOwner, GapFree
<1>2. Spec => []PositionInv
  BY <1>1, NextPositions, PTL DEF Spec
<1>3. PositionInv => GapFree
  BY Zenon DEF PositionInv
<1>4. QED
  BY <1>2, <1>3, PTL

-----------------------------------------------------------------------------
(* Idempotency keys: one key confirms one entry, and retries are told the same *)

\* The call inside its transaction, and only it, owns the key of its scope, and
\* the scope has no committed record yet.
KeyOwner ==
  /\ \A s \in Scopes : \A c \in Calls :
       keyLock[s] = c => pc[c] \in InTransaction /\ Scope(c) = s
  /\ \A c \in Calls : pc[c] \in InTransaction
       => keyLock[Scope(c)] = c /\ idem[Scope(c)] = None

\* Committed entries and idempotency records correspond one to one.
EntriesRecorded ==
  \A e \in entries :
    /\ pc[e.id] \in {"committed", "done"}
    /\ idem[Scope(e.id)] # None /\ idem[Scope(e.id)].response = e

RecordsStored ==
  \A s \in Scopes : idem[s] # None =>
    /\ idem[s].response \in entries
    /\ Scope(idem[s].response.id) = s
    /\ idem[s].hash = req[idem[s].response.id].body

DraftsNamed == \A c \in Calls : pc[c] = "commit" => draft[c].id = c

KeyRecords == EntriesRecorded /\ RecordsStored /\ DraftsNamed

\* A call that has succeeded, whether or not the client knows, has stored or
\* found the record of its own request.
AnswersRecorded ==
  \A c \in Calls :
    /\ pc[c] = "committed"
         => /\ idem[Scope(c)] # None
            /\ idem[Scope(c)].response = draft[c] /\ idem[Scope(c)].hash = req[c].body
    /\ reply[c] # None => (reply[c].outcome = "ok"
         => /\ pc[c] = "done"
            /\ idem[Scope(c)] # None
            /\ idem[Scope(c)].response = reply[c].entry
            /\ idem[Scope(c)].hash = req[c].body)

\* The inductive invariant behind OneEntryPerKey and RepliesAgree.
KeyInv == TypeInv /\ KeyOwner /\ KeyRecords /\ AnswersRecorded

-----------------------------------------------------------------------------
(* Idempotency keys *)

\* A step that commits nothing keeps the records.
LEMMA RecordsKept ==
  ASSUME KeyInv,
         \A d \in Calls : pc[d] # "idle" => req'[d] = req[d],
         \A d \in Calls : pc[d] \in {"committed", "done"} => pc'[d] \in {"committed", "done"},
         \A d \in Calls : pc'[d] = "commit" => draft'[d].id = d,
         UNCHANGED <<entries, idem>>
  PROVE  KeyRecords'
<1>1. \A e \in entries : /\ e.id \in Calls /\ pc[e.id] \in {"committed", "done"}
                         /\ idem[Scope(e.id)] # None /\ idem[Scope(e.id)].response = e
  BY Zenon DEF KeyInv, TypeInv, TypeOK, Entry, KeyRecords, EntriesRecorded
<1>2. \A e \in entries : req'[e.id] = req[e.id] /\ Scope(e.id)' = Scope(e.id)
  BY <1>1, Zenon DEF Scope
<1>3. EntriesRecorded'
  BY <1>1, <1>2 DEF EntriesRecorded
<1>4. RecordsStored'
  <2> SUFFICES ASSUME NEW s \in Scopes, idem[s] # None
               PROVE  /\ idem[s].response \in entries
                      /\ Scope(idem[s].response.id)' = s
                      /\ idem[s].hash = req'[idem[s].response.id].body
    BY Zenon DEF RecordsStored
  <2>1. /\ idem[s].response \in entries
        /\ Scope(idem[s].response.id) = s
        /\ idem[s].hash = req[idem[s].response.id].body
    BY Zenon DEF KeyInv, KeyRecords, RecordsStored
  <2>2. QED
    BY <1>2, <2>1, Zenon
<1>5. DraftsNamed'
  BY Zenon DEF DraftsNamed
<1>6. QED
  BY <1>3, <1>4, <1>5, Zenon DEF KeyRecords

\* A step that neither enters nor leaves the transaction of c disturbs no key.
LEMMA KeyFrame ==
  ASSUME KeyInv, NEW c \in Calls, NEW s,
         pc' = [pc EXCEPT ![c] = s],
         pc[c] \in InTransaction <=> s \in InTransaction,
         pc[c] \notin {"committed", "done"}, s \notin {"commit", "committed"},
         \A d \in Calls \ {c} : req'[d] = req[d],
         pc[c] = "idle" \/ req'[c] = req[c],
         UNCHANGED <<entries, idem, keyLock, draft, reply>>
  PROVE  KeyOwner' /\ KeyRecords' /\ AnswersRecorded'
<1>1. \A d \in Calls : pc'[d] = IF d = c THEN s ELSE pc[d]
  BY Zenon DEF KeyInv, TypeInv, TypeOK
<1>2. \A d \in Calls : pc[d] # "idle" => req'[d] = req[d] /\ Scope(d)' = Scope(d)
  BY Zenon DEF Scope
<1>4. KeyOwner'
  BY <1>1, <1>2 DEF KeyInv, KeyOwner, InTransaction
<1>5. KeyRecords'
  BY <1>1, <1>2, RecordsKept DEF KeyInv, KeyRecords, DraftsNamed
<1>6. AnswersRecorded'
  BY <1>1, <1>2 DEF KeyInv, AnswersRecorded
<1>7. QED
  BY <1>4, <1>5, <1>6, Zenon

\* A call that ends without success gives up its key.
LEMMA KeyRefuse ==
  ASSUME KeyInv, NEW c \in Calls, NEW o \in Outcomes, pc[c] # "idle",
         Answer(c, o, None),
         \A s \in Scopes : keyLock'[s] = IF keyLock[s] = c THEN None ELSE keyLock[s],
         UNCHANGED <<entries, idem, req, draft>>
  PROVE  KeyOwner' /\ KeyRecords' /\ AnswersRecorded'
<1>1. /\ \A d \in Calls : pc'[d] = IF d = c THEN "done" ELSE pc[d]
      /\ \A d \in Calls : d # c => reply'[d] = reply[d]
      /\ reply'[c].outcome # "ok"
  BY Zenon DEF KeyInv, TypeInv, TypeOK, Answer, Outcomes
<1>2. \A d \in Calls : Scope(d)' = Scope(d)
  BY Zenon DEF Scope
<1>3. \A d \in Calls : pc[d] # "idle" => Scope(d) \in Scopes
  BY ScopeType, Zenon DEF KeyInv
<1>5. KeyOwner'
  BY <1>1, <1>2, <1>3, NoneIsNoCall DEF KeyInv, KeyOwner, InTransaction
<1>6. KeyRecords'
  BY <1>1, RecordsKept, Zenon DEF KeyInv, KeyRecords, DraftsNamed
<1>7. AnswersRecorded'
  BY <1>1, <1>2 DEF KeyInv, AnswersRecorded
<1>8. QED
  BY <1>5, <1>6, <1>7, Zenon

LEMMA KeyRollback ==
  ASSUME KeyInv, NEW c \in Calls, NEW o \in Outcomes, pc[c] # "idle", Rollback(c, o)
  PROVE  KeyOwner' /\ KeyRecords' /\ AnswersRecorded'
<1>1. \A s \in Scopes : keyLock'[s] = IF keyLock[s] = c THEN None ELSE keyLock[s]
  BY Zenon DEF Rollback, ReleaseLocks, Drop, KeyInv, TypeInv, TypeOK
<1>2. QED
  BY <1>1, KeyRefuse, Zenon DEF Rollback, db, local

LEMMA NextKeys == KeyInv /\ [Next]_vars => KeyInv'
<1> DEFINE Goal == KeyOwner' /\ KeyRecords' /\ AnswersRecorded'
<1> SUFFICES ASSUME KeyInv, [Next]_vars PROVE Goal
  BY NextType, Zenon DEF KeyInv
<1>s. \A d \in Calls : pc[d] # "idle" => Scope(d) \in Scopes
  BY ScopeType, Zenon DEF KeyInv
<1>e. \A e \in entries : e.id \in Calls
  BY Zenon DEF KeyInv, TypeInv, TypeOK, Entry
<1>1. ASSUME NEW c \in Calls, NEW r \in Requests, Receive(c, r) PROVE Goal
  <2>1. \A d \in Calls \ {c} : req'[d] = req[d]
    BY <1>1, Zenon DEF Receive, KeyInv, TypeInv, TypeOK
  <2>2. QED
    BY <1>1, <2>1, KeyFrame, Zenon DEF Receive, Goto, InTransaction, db, locks
<1>2. ASSUME NEW c \in Calls, Authorize(c) PROVE Goal
  <2>1. CASE Goto(c, "claim") /\ UNCHANGED reply
    BY <1>2, <2>1, KeyFrame, Zenon DEF Authorize, Goto, InTransaction, db, locks, local
  <2>2. CASE Answer(c, "not_found", None)
    <3>1. \A s \in Scopes : keyLock'[s] = IF keyLock[s] = c THEN None ELSE keyLock[s]
      BY <1>2, Zenon DEF Authorize, KeyInv, KeyOwner, InTransaction, locks
    <3>2. QED
      BY <1>2, <2>2, <3>1, KeyRefuse, Zenon DEF Authorize, Outcomes, db, local
  <2>3. QED
    BY <1>2, <2>1, <2>2, Zenon DEF Authorize
<1>3. ASSUME NEW c \in Calls, ClaimIdempotency(c) PROVE Goal
  <2>1. /\ \A d \in Calls : pc'[d] = IF d = c THEN "resolve" ELSE pc[d]
        /\ \A s \in Scopes : keyLock'[s] = IF s = Scope(c) THEN c ELSE keyLock[s]
        /\ UNCHANGED <<entries, idem, req, draft, reply>>
    BY <1>3, Zenon DEF ClaimIdempotency, Goto, KeyInv, TypeInv, TypeOK, db, local
  <2>2. \A d \in Calls : Scope(d)' = Scope(d)
    BY <2>1, Zenon DEF Scope
  <2>3. /\ pc[c] = "claim" /\ Scope(c) \in Scopes
        /\ keyLock[Scope(c)] = None /\ idem[Scope(c)] = None
    BY <1>3, <1>s, Zenon DEF ClaimIdempotency, KeyFree, Unclaimed
  <2>4. KeyOwner'
    BY <1>s, <2>1, <2>2, <2>3, NoneIsNoCall DEF KeyInv, KeyOwner, InTransaction
  <2>5. KeyRecords'
    BY <2>1, <2>3, RecordsKept, Zenon DEF KeyInv, KeyRecords, DraftsNamed
  <2>6. AnswersRecorded'
    BY <2>1, <2>2, <2>3 DEF KeyInv, AnswersRecorded
  <2>7. QED
    BY <2>4, <2>5, <2>6, Zenon
<1>4. ASSUME NEW c \in Calls, ReplayIdempotency(c) PROVE Goal
  <2>1. CASE SameRequest(c)
    <3>1. /\ \A d \in Calls : pc'[d] = IF d = c THEN "done" ELSE pc[d]
          /\ \A d \in Calls : d # c => reply'[d] = reply[d]
          /\ reply'[c] = [outcome |-> "ok", entry |-> idem[Scope(c)].response]
          /\ UNCHANGED <<entries, idem, keyLock, req, draft>>
      BY <1>4, <2>1, Zenon DEF ReplayIdempotency, Answer, KeyInv, TypeInv, TypeOK, db, locks, local
    <3>2. \A d \in Calls : Scope(d)' = Scope(d)
      BY <3>1, Zenon DEF Scope
    <3>3. KeyOwner'
      BY <1>4, <3>1, <3>2 DEF ReplayIdempotency, KeyInv, KeyOwner, InTransaction
    <3>4. KeyRecords'
      BY <1>4, <3>1, RecordsKept, Zenon DEF ReplayIdempotency, KeyInv, KeyRecords, DraftsNamed
    <3>5. AnswersRecorded'
      BY <1>4, <2>1, <3>1, <3>2 DEF ReplayIdempotency, SameRequest, KeyInv, AnswersRecorded
    <3>6. QED
      BY <3>3, <3>4, <3>5
  <2>2. CASE ~SameRequest(c)
    <3>1. \A s \in Scopes : keyLock'[s] = IF keyLock[s] = c THEN None ELSE keyLock[s]
      BY <1>4, Zenon DEF ReplayIdempotency, KeyInv, KeyOwner, InTransaction, locks
    <3>2. QED
      BY <1>4, <2>2, <3>1, KeyRefuse, Zenon DEF ReplayIdempotency, Outcomes, db, local
  <2>3. QED
    BY <2>1, <2>2, Zenon
<1>5. ASSUME NEW c \in Calls, Resolve(c) PROVE Goal
  <2>1. CASE Rollback(c, "invalid")
    BY <1>5, <2>1, KeyRollback, Zenon DEF Resolve, Outcomes
  <2>2. CASE ~Rollback(c, "invalid")
    BY <1>5, <2>2, KeyFrame DEF Resolve, Goto, InTransaction, db, locks
  <2>3. QED
    BY <2>1, <2>2, Zenon
<1>6. ASSUME NEW c \in Calls, EntryForUpdate(c) PROVE Goal
  <2>1. CASE \E o \in Outcomes : Rollback(c, o)
    BY <1>6, <2>1, KeyRollback, Zenon DEF EntryForUpdate
  <2>2. CASE Goto(c, "position") /\ UNCHANGED <<today, db, keyLock, positionLock, local, reply>>
    <3>1. pc[c] = "lock"
      BY <1>6, Zenon DEF EntryForUpdate
    <3>2. QED
      BY <2>2, <3>1, KeyFrame, Zenon DEF Goto, InTransaction, db, local
  <2>3. QED
    BY <1>6, <2>1, <2>2, Zenon DEF EntryForUpdate, Outcomes
<1>7. ASSUME NEW c \in Calls, NextPosition(c) PROVE Goal
  BY <1>7, KeyFrame, Zenon DEF NextPosition, Goto, InTransaction, db
<1>8. ASSUME NEW c \in Calls, InsertEntry(c) PROVE Goal
  <2>1. CASE Rollback(c, "already_reversed")
    BY <1>8, <2>1, KeyRollback, Zenon DEF InsertEntry, Outcomes
  <2>2. ASSUME NEW e, e.id = c, draft' = [draft EXCEPT ![c] = e], Goto(c, "commit"),
               UNCHANGED <<today, db, locks, req, date, position, reply>>
        PROVE  Goal
    <3>1. /\ \A d \in Calls : pc'[d] = IF d = c THEN "commit" ELSE pc[d]
          /\ \A d \in Calls : draft'[d] = IF d = c THEN e ELSE draft[d]
          /\ UNCHANGED <<entries, idem, keyLock, req, reply>>
      BY <2>2, Zenon DEF Goto, KeyInv, TypeInv, TypeOK, db, locks
    <3>2. \A d \in Calls : Scope(d)' = Scope(d)
      BY <3>1, Zenon DEF Scope
    <3>3. pc[c] = "insert"
      BY <1>8, Zenon DEF InsertEntry
    <3>4. KeyOwner'
      BY <3>1, <3>2, <3>3 DEF KeyInv, KeyOwner, InTransaction
    <3>5. KeyRecords'
      BY <2>2, <3>1, <3>3, RecordsKept DEF KeyInv, KeyRecords, DraftsNamed
    <3>6. AnswersRecorded'
      BY <3>1, <3>2, <3>3 DEF KeyInv, AnswersRecorded
    <3>7. QED
      BY <3>4, <3>5, <3>6
  <2>3. NewEntry(c).id = c /\ \A o : NewReversal(c, o).id = c
    BY Zenon DEF NewEntry, NewReversal
  <2>4. CASE ~Rollback(c, "already_reversed")
    BY <1>8, <2>2, <2>3, <2>4, Zenon DEF InsertEntry
  <2>5. QED
    BY <2>1, <2>4, Zenon
<1>9. ASSUME NEW c \in Calls, Commit(c) PROVE Goal
  <2> DEFINE record == [hash |-> req[c].body, response |-> draft[c]]
  <2>1. /\ pc[c] = "commit" /\ Scope(c) \in Scopes /\ draft[c] \in Entry /\ draft[c].id = c
        /\ keyLock[Scope(c)] = c /\ idem[Scope(c)] = None
    BY <1>9, <1>s, Zenon
     DEF Commit, KeyInv, TypeInv, LocalsSet, KeyOwner, KeyRecords, DraftsNamed, InTransaction
  <2>2. record # None
    <3>1. req[c].body \in CreateBodies \cup Calls
      BY <1>9, RequestType, Zenon DEF Commit, KeyInv, TypeInv, LocalsSet
    <3>2. QED
      BY <2>1, <3>1, NoneAssumption DEF Response
  <2>3. /\ \A d \in Calls : pc'[d] = IF d = c THEN "committed" ELSE pc[d]
        /\ \A s \in Scopes : keyLock'[s] = IF keyLock[s] = c THEN None ELSE keyLock[s]
        /\ \A s \in Scopes : idem'[s] = IF s = Scope(c) THEN record ELSE idem[s]
        /\ entries' = entries \cup {draft[c]}
        /\ UNCHANGED <<req, draft, reply>>
    BY <1>9, Zenon DEF Commit, Goto, ReleaseLocks, Drop, KeyInv, TypeInv, TypeOK, local
  <2>4. \A d \in Calls : Scope(d)' = Scope(d)
    BY <2>3, Zenon DEF Scope
  <2>5. KeyOwner'
    BY <1>s, <2>1, <2>3, <2>4, NoneIsNoCall DEF KeyInv, KeyOwner, InTransaction
  <2>6. KeyRecords'
    <3>1. record.response = draft[c] /\ record.hash = req[c].body
      BY Zenon
    <3>2. \A e \in entries : Scope(e.id) \in Scopes /\ Scope(e.id) # Scope(c)
      BY <1>s, <1>e, <2>1, Zenon DEF KeyInv, KeyRecords, EntriesRecorded
    <3> HIDE DEF record
    <3>3. EntriesRecorded'
      <4>1. \A e \in entries : /\ e.id \in Calls /\ pc'[e.id] \in {"committed", "done"}
                               /\ idem'[Scope(e.id)] # None /\ idem'[Scope(e.id)].response = e
        BY <1>e, <2>3, <3>2, Zenon DEF KeyInv, KeyRecords, EntriesRecorded
      <4>2. /\ pc'[c] = "committed"
            /\ idem'[Scope(c)] # None /\ idem'[Scope(c)].response = draft[c]
        BY <2>1, <2>2, <2>3, <3>1, Zenon
      <4>3. QED
        BY <2>1, <2>3, <2>4, <4>1, <4>2 DEF EntriesRecorded
    <3>4. RecordsStored'
      <4>1. ASSUME NEW s \in Scopes, s # Scope(c), idem[s] # None
            PROVE  \E r \in entries : /\ idem[s].response = r /\ Scope(r.id) = s
                                      /\ r.id \in Calls /\ idem[s].hash = req[r.id].body
        BY <1>e, <4>1, Zenon DEF KeyInv, KeyRecords, RecordsStored
      <4>2. ASSUME NEW s \in Scopes, idem'[s] # None
            PROVE  \E r \in entries' : /\ idem'[s].response = r /\ Scope(r.id)' = s
                                       /\ idem'[s].hash = req[r.id].body
        <5>1. CASE s = Scope(c)
          BY <2>1, <2>3, <2>4, <3>1, <5>1
        <5>2. CASE s # Scope(c)
          <6>1. PICK r \in entries : /\ idem[s].response = r /\ Scope(r.id) = s
                                     /\ r.id \in Calls /\ idem[s].hash = req[r.id].body
            BY <2>3, <4>1, <4>2, <5>2, Zenon
          <6>2. idem'[s] = idem[s] /\ Scope(r.id)' = s /\ r \in entries'
            BY <2>3, <2>4, <5>2, <6>1, Zenon
          <6>3. QED
            BY <6>1, <6>2, Zenon
        <5>3. QED
          BY <5>1, <5>2, Zenon
      <4>3. QED
        BY <2>3, <4>2 DEF RecordsStored
    <3>5. DraftsNamed'
      BY <2>3, Zenon DEF KeyInv, KeyRecords, DraftsNamed
    <3>6. QED
      BY <3>3, <3>4, <3>5, Zenon DEF KeyRecords
  <2>7. AnswersRecorded'
    <3>1. record.response = draft[c] /\ record.hash = req[c].body
      OBVIOUS
    <3> HIDE DEF record
    <3>2. QED
      BY <1>s, <2>1, <2>2, <2>3, <2>4, <3>1 DEF KeyInv, AnswersRecorded
  <2>8. QED
    BY <2>5, <2>6, <2>7
<1>10. ASSUME NEW c \in Calls, Respond(c) PROVE Goal
  <2>1. /\ \A d \in Calls : pc'[d] = IF d = c THEN "done" ELSE pc[d]
        /\ \A d \in Calls : d # c => reply'[d] = reply[d]
        /\ reply'[c] = [outcome |-> "ok", entry |-> draft[c]]
        /\ UNCHANGED <<entries, idem, keyLock, req, draft>>
    BY <1>10, Zenon DEF Respond, Answer, KeyInv, TypeInv, TypeOK, db, locks, local
  <2>2. \A d \in Calls : Scope(d)' = Scope(d)
    BY <2>1, Zenon DEF Scope
  <2>3. pc[c] = "committed"
    BY <1>10, Zenon DEF Respond
  <2>4. KeyOwner'
    BY <2>1, <2>2, <2>3 DEF KeyInv, KeyOwner, InTransaction
  <2>5. KeyRecords'
    BY <2>1, <2>3, RecordsKept, Zenon DEF KeyInv, KeyRecords, DraftsNamed
  <2>6. AnswersRecorded'
    BY <2>1, <2>2, <2>3 DEF KeyInv, AnswersRecorded
  <2>7. QED
    BY <2>4, <2>5, <2>6
<1>11. ASSUME NEW c \in Calls, Fail(c) PROVE Goal
  BY <1>11, KeyRollback, Zenon DEF Fail, InTransaction, Outcomes
<1>12. CASE UNCHANGED <<db, locks, pc, local, reply>>
  <2>1. UNCHANGED <<entries, idem, keyLock, pc, req, draft, reply>>
    BY <1>12, Zenon DEF db, locks, local
  <2>2. \A d : Scope(d)' = Scope(d)
    BY <2>1, Zenon DEF Scope
  <2>3. KeyOwner'
    BY <2>1, <2>2, Zenon DEF KeyInv, KeyOwner
  <2>4. KeyRecords'
    BY <2>1, RecordsKept, Zenon DEF KeyInv, KeyRecords, DraftsNamed
  <2>5. AnswersRecorded'
    BY <2>1, <2>2, Zenon DEF KeyInv, AnswersRecorded
  <2>6. QED
    BY <2>3, <2>4, <2>5, Zenon
<1>13. NextDay \/ UNCHANGED vars => UNCHANGED <<db, locks, pc, local, reply>>
  BY Zenon DEF NextDay, vars
<1> HIDE DEF Goal
<1>14. QED
  BY <1>1, <1>2, <1>3, <1>4, <1>5, <1>6, <1>7, <1>8, <1>9, <1>10, <1>11, <1>12, <1>13, Zenon
   DEF Next, Step, Finished

LEMMA KeyInvariant == Spec => []KeyInv
<1>1. Init => KeyInv
  BY InitType, NoneIsNoCall
  DEF Init, KeyInv, KeyOwner, KeyRecords, EntriesRecorded, RecordsStored, DraftsNamed, AnswersRecorded,
      InTransaction
<1>2. QED
  BY <1>1, NextKeys, PTL DEF Spec

\* One idempotency key never produces two entries, for any number of calls
\* carrying it and any of them failing at any statement.
THEOREM KeysConfirmOnce == Spec => []OneEntryPerKey
<1>1. KeyInv => OneEntryPerKey
  BY Zenon DEF KeyInv, KeyRecords, EntriesRecorded, OneEntryPerKey
<1>2. QED
  BY <1>1, KeyInvariant, PTL

\* All the calls with one key that are told "ok" are told the same committed
\* entry and sent the same request.
THEOREM RetriesAgree == Spec => []RepliesAgree
<1>1. KeyInv => RepliesAgree
  <2> SUFFICES ASSUME KeyInv PROVE RepliesAgree
    BY Zenon
  <2>1. \A d \in Calls : pc[d] = "done" => Scope(d) \in Scopes
    BY ScopeType, Zenon DEF KeyInv
  <2>2. \A d \in Calls : reply[d] # None => (reply[d].outcome = "ok" =>
          /\ reply[d].entry \in entries
          /\ idem[Scope(d)].response = reply[d].entry /\ idem[Scope(d)].hash = req[d].body)
    BY <2>1, Zenon DEF KeyInv, KeyRecords, RecordsStored, AnswersRecorded
  <2>3. QED
    BY <2>2, Zenon DEF RepliesAgree
<1>2. QED
  BY <1>1, KeyInvariant, PTL
=============================================================================
