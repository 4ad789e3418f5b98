------------------------------- MODULE Ledger -------------------------------
(***************************************************************************)
(* The write side of the Ledger: CreateEntry and ReverseEntry, each run as *)
(* one READ COMMITTED PostgreSQL transaction by concurrent API calls.      *)
(*                                                                         *)
(* A call goes through the statements of its transaction one at a time.    *)
(* What the statements write stays private to the call until Commit.  What *)
(* other transactions can feel before that are the row locks, kept here as *)
(* three functions from the locked row to its holder:                      *)
(*   keyLock      the uncommitted row of idempotency_record                *)
(*   entryLock    SELECT ... FOR UPDATE on the original of a reversal      *)
(*   positionLock the upserted row of merchant_position                    *)
(* A call can fail between any two statements; its transaction is then     *)
(* rolled back.  It can also fail after Commit, and then the client does   *)
(* not learn the outcome and will call again with the same key.            *)
(***************************************************************************)
EXTENDS Integers, FiniteSets

CONSTANTS
  Calls,         \* API calls; a call's name is also the id of the entry it makes
  Merchants,
  Keys,          \* values of the Idempotency-Key header
  CreateBodies,  \* bodies of CreateEntry requests
  MaximumBackdateDays,
  FirstDay,      \* the business day on which the behaviour starts
  LastDay,       \* bound: the clock stops here
  None

EntryTypes == {"credit", "debit"}
Currencies == {"BRL", "USD"}

ASSUME ConstantsAssumption ==
  /\ None \notin Calls
  /\ FirstDay \in Nat /\ LastDay \in Nat /\ MaximumBackdateDays \in Nat
  /\ CreateBodies \subseteq [type: EntryTypes, amount: Int, currency: Currencies,
                               date: Nat \cup {None}]

Operations == {"create", "reverse"}
Scopes     == Merchants \X Operations \X Keys

Requests ==
  [op: {"create"}, merchant: Merchants, key: Keys, body: CreateBodies]
    \cup [op: {"reverse"}, merchant: Merchants, key: Keys, body: Calls]

VARIABLES
  today,         \* the merchant's current business day
  entries,       \* committed rows of ledger_entry
  outbox,        \* committed rows of outbox_event
  lastPosition,  \* committed merchant_position.last_position
  idem,          \* committed rows of idempotency_record
  keyLock, entryLock, positionLock,
  pc,            \* the next statement of each call
  req,           \* its request
  date,          \* its resolved business date
  position,      \* its position, taken but not committed
  draft,         \* its entry, inserted but not committed
  reply          \* what its client was told

db    == <<entries, outbox, lastPosition, idem>>
locks == <<keyLock, entryLock, positionLock>>
local == <<req, date, position, draft>>
vars  == <<today, db, locks, pc, local, reply>>

Scope(c) == <<req[c].merchant, req[c].op, req[c].key>>

Entry ==
  [id: Calls, merchant: Merchants, position: Nat \ {0}, type: EntryTypes,
   amount: Nat \ {0}, date: Int, original: Calls \cup {None}]

Event ==
  [aggregate: Calls, merchant: Merchants, position: Nat \ {0}, payload: Entry]

\* What idempotency_record keeps of a completed request.
Response == [hash: CreateBodies \cup Calls, response: Entry]

ASSUME NoneAssumption == None \notin Response

Outcomes == {"conflict", "invalid", "not_found", "already_reversed",
             "not_allowed", "error"}
Reply    == [outcome: {"ok"}, entry: Entry] \cup [outcome: Outcomes, entry: {None}]

Steps == {"idle", "authorize", "claim", "resolve", "lock", "position",
          "insert", "commit", "committed", "done"}

\* The steps at which the call's transaction is open.
InTransaction == {"resolve", "lock", "position", "insert", "commit"}

Init ==
  /\ today = FirstDay
  /\ entries = {}
  /\ outbox = {}
  /\ lastPosition = [m \in Merchants |-> 0]
  /\ idem = [s \in Scopes |-> None]
  /\ keyLock = [s \in Scopes |-> None]
  /\ entryLock = [i \in Calls |-> None]
  /\ positionLock = [m \in Merchants |-> None]
  /\ pc = [c \in Calls |-> "idle"]
  /\ req = [c \in Calls |-> None]
  /\ date = [c \in Calls |-> None]
  /\ position = [c \in Calls |-> None]
  /\ draft = [c \in Calls |-> None]
  /\ reply = [c \in Calls |-> None]

-----------------------------------------------------------------------------
(* Values of the domain package *)

Opposite(type) == IF type = "credit" THEN "debit" ELSE "credit"

\* NewMoney: a positive number of minor units of the one currency accepted.
ValidMoney(amount, currency) == currency = "BRL" /\ amount > 0

\* Calendar.Resolve: no date means today; a given one may be neither in the
\* future nor more than MaximumBackdateDays old.
Resolvable(requested) ==
  requested # None =>
    /\ requested >= today - MaximumBackdateDays
    /\ requested <= today

ResolvedDate(requested) == IF requested = None THEN today ELSE requested

NewEntry(c) ==
  [id |-> c, merchant |-> req[c].merchant, position |-> position[c],
   type |-> req[c].body.type, amount |-> req[c].body.amount,
   date |-> date[c], original |-> None]

\* Mutant of NewReversal: keeps the type of the original.
SameSignReversal(c, o) ==
  [id |-> c, merchant |-> o.merchant, position |-> position[c],
   type |-> o.type, amount |-> o.amount,
   date |-> date[c], original |-> o.id]

NewReversal(c, o) ==
  [id |-> c, merchant |-> o.merchant, position |-> position[c],
   type |-> Opposite(o.type), amount |-> o.amount,
   date |-> date[c], original |-> o.id]

NewEvent(e) ==
  [aggregate |-> e.id, merchant |-> e.merchant, position |-> e.position, payload |-> e]

\* Mutant of ReversalsOf: asks whether the entry is a reversal itself.
SelfReversals(i) == {e \in entries : e.id = i /\ e.original # None}

\* The rows with original_entry_id = i, read both by the EXISTS query of
\* EntryForUpdate and by the unique index on original_entry_id.
ReversalsOf(i) == {e \in entries : e.original = i}

\* The rows SELECT ... WHERE merchant_id = m AND id = i returns.
Visible(m, i) == {e \in entries : e.id = i /\ e.merchant = m}

-----------------------------------------------------------------------------
(* Transaction plumbing *)

Drop(lock, c) == [r \in DOMAIN lock |-> IF lock[r] = c THEN None ELSE lock[r]]

\* Mutant of ReleaseLocks: the merchant_position row stays locked.
KeepPositionLock(c) ==
  /\ keyLock' = Drop(keyLock, c)
  /\ entryLock' = Drop(entryLock, c)
  /\ UNCHANGED positionLock

\* Commit and Rollback give back every row lock of the transaction.
ReleaseLocks(c) ==
  /\ keyLock' = Drop(keyLock, c)
  /\ entryLock' = Drop(entryLock, c)
  /\ positionLock' = Drop(positionLock, c)

\* Mutant of the three lock tests below: the statement does not wait.
NoWait(row) == TRUE

\* INSERT into idempotency_record meets no uncommitted row of the scope.
KeyFree(s) == keyLock[s] = None

\* SELECT ... FOR UPDATE meets no other holder of the entry.
EntryFree(i) == entryLock[i] = None

\* The upsert of merchant_position meets no other holder of the row.
PositionFree(m) == positionLock[m] = None

Answer(c, outcome, e) ==
  /\ pc' = [pc EXCEPT ![c] = "done"]
  /\ reply' = [reply EXCEPT ![c] = [outcome |-> outcome, entry |-> e]]

\* Execute: an error of the callback rolls the transaction back.
Rollback(c, outcome) ==
  /\ ReleaseLocks(c)
  /\ Answer(c, outcome, None)
  /\ UNCHANGED <<today, db, local>>

Goto(c, step) == pc' = [pc EXCEPT ![c] = step]

-----------------------------------------------------------------------------
(* Actions *)

\* A well-formed request arrives: one with a malformed id, key or amount is
\* answered before any statement.  A reversal first passes the tenancy guard.
Receive(c, r) ==
  /\ pc[c] = "idle"
  /\ req' = [req EXCEPT ![c] = r]
  /\ Goto(c, IF r.op = "create" THEN "claim" ELSE "authorize")
  /\ UNCHANGED <<today, db, locks, date, position, draft, reply>>

\* Guard.Authorize, before the transaction: the original must exist and be the
\* caller's.  An absent and a foreign entry get the same answer.
Authorize(c) ==
  /\ pc[c] = "authorize"
  /\ \/ /\ Visible(req[c].merchant, req[c].body) # {}
        /\ Goto(c, "claim")
        /\ UNCHANGED reply
     \/ /\ Visible(req[c].merchant, req[c].body) = {}
        /\ Answer(c, "not_found", None)
  /\ UNCHANGED <<today, db, locks, local>>

\* Mutant of Unclaimed: the conflict target misses the committed row.
AlwaysUnclaimed(s) == TRUE

\* No committed row of idempotency_record has this scope.
Unclaimed(s) == idem[s] = None

\* Mutant of SameRequest: the stored request hash is not compared.
AnyRequest(c) == TRUE

\* The stored request hash is the hash of this request.
SameRequest(c) == idem[Scope(c)].hash = req[c].body

\* INSERT ... ON CONFLICT DO NOTHING waits for an uncommitted row of the same
\* scope.  With no committed row the call owns the scope.
ClaimIdempotency(c) ==
  /\ pc[c] = "claim"
  /\ KeyFree(Scope(c))
  /\ Unclaimed(Scope(c))
  /\ keyLock' = [keyLock EXCEPT ![Scope(c)] = c]
  /\ Goto(c, "resolve")
  /\ UNCHANGED <<today, db, entryLock, positionLock, local, reply>>

\* The scope has a committed row: the same request gets the stored response,
\* another one is refused.
ReplayIdempotency(c) ==
  /\ pc[c] = "claim"
  /\ KeyFree(Scope(c))
  /\ idem[Scope(c)] # None
  /\ IF SameRequest(c)
     THEN Answer(c, "ok", idem[Scope(c)].response)
     ELSE Answer(c, "conflict", None)
  /\ UNCHANGED <<today, db, locks, local>>

\* The checks of the callback that need no statement, and the reading of the
\* clock: it comes before any wait for a position.
Resolve(c) ==
  /\ pc[c] = "resolve"
  /\ LET r         == req[c]
         requested == IF r.op = "create" THEN r.body.date ELSE None
         valid     == /\ r.op = "create" => ValidMoney(r.body.amount, r.body.currency)
                      /\ Resolvable(requested)
     IN  \/ /\ valid
            /\ date' = [date EXCEPT ![c] = ResolvedDate(requested)]
            /\ Goto(c, IF r.op = "create" THEN "position" ELSE "lock")
            /\ UNCHANGED <<today, db, locks, req, position, draft, reply>>
         \/ ~valid /\ Rollback(c, "invalid")

\* SELECT ... FOR UPDATE waits for the lock on the original; only then is an
\* existing reversal looked for.
EntryForUpdate(c) ==
  LET original == req[c].body IN
  /\ pc[c] = "lock"
  /\ \/ /\ Visible(req[c].merchant, original) = {}
        /\ Rollback(c, "not_found")
     \/ /\ Visible(req[c].merchant, original) # {}
        /\ EntryFree(original)
        /\ \/ /\ ReversalsOf(original) # {}
              /\ Rollback(c, "already_reversed")
           \/ /\ ReversalsOf(original) = {}
              /\ \E e \in Visible(req[c].merchant, original) : e.original # None
              /\ Rollback(c, "not_allowed")
           \/ /\ ReversalsOf(original) = {}
              /\ \A e \in Visible(req[c].merchant, original) : e.original = None
              /\ entryLock' = [entryLock EXCEPT ![original] = c]
              /\ Goto(c, "position")
              /\ UNCHANGED <<today, db, keyLock, positionLock, local, reply>>

\* Mutant of NextValue: the position before the increment is returned.
PreviousValue(m) == lastPosition[m]

\* RETURNING last_position of the upsert.
NextValue(m) == lastPosition[m] + 1

\* The upsert of merchant_position waits for the row and keeps it locked.
NextPosition(c) ==
  LET m == req[c].merchant IN
  /\ pc[c] = "position"
  /\ PositionFree(m)
  /\ positionLock' = [positionLock EXCEPT ![m] = c]
  /\ position' = [position EXCEPT ![c] = NextValue(m)]
  /\ Goto(c, "insert")
  /\ UNCHANGED <<today, db, keyLock, entryLock, req, date, draft, reply>>

\* INSERT INTO ledger_entry; the unique index on original_entry_id refuses a
\* second reversal.
InsertEntry(c) ==
  /\ pc[c] = "insert"
  /\ \/ /\ req[c].op = "create"
        /\ draft' = [draft EXCEPT ![c] = NewEntry(c)]
        /\ Goto(c, "commit")
        /\ UNCHANGED <<today, db, locks, req, date, position, reply>>
     \/ /\ req[c].op = "reverse"
        /\ ReversalsOf(req[c].body) = {}
        /\ \E o \in Visible(req[c].merchant, req[c].body) :
             draft' = [draft EXCEPT ![c] = NewReversal(c, o)]
        /\ Goto(c, "commit")
        /\ UNCHANGED <<today, db, locks, req, date, position, reply>>
     \/ /\ req[c].op = "reverse"
        /\ ReversalsOf(req[c].body) # {}
        /\ Rollback(c, "already_reversed")

\* Mutant of InsertOutbox: a reversal inserts no event.
InsertOutboxForCreates(c) ==
  outbox' = IF req[c].op = "create" THEN outbox \cup {NewEvent(draft[c])} ELSE outbox

InsertOutbox(c) == outbox' = outbox \cup {NewEvent(draft[c])}

\* insertOutbox, CompleteIdempotency and COMMIT: everything the transaction
\* wrote becomes visible at once.
Commit(c) ==
  /\ pc[c] = "commit"
  /\ entries' = entries \cup {draft[c]}
  /\ InsertOutbox(c)
  /\ lastPosition' = [lastPosition EXCEPT ![req[c].merchant] = position[c]]
  /\ idem' = [idem EXCEPT ![Scope(c)] = [hash |-> req[c].body, response |-> draft[c]]]
  /\ ReleaseLocks(c)
  /\ Goto(c, "committed")
  /\ UNCHANGED <<today, local, reply>>

Respond(c) ==
  /\ pc[c] = "committed"
  /\ Answer(c, "ok", draft[c])
  /\ UNCHANGED <<today, db, locks, local>>

\* A statement fails, the context is cancelled or the process dies.
Fail(c) ==
  /\ pc[c] \in InTransaction \cup {"authorize", "claim", "committed"}
  /\ Rollback(c, "error")

NextDay ==
  /\ today < LastDay
  /\ today' = today + 1
  /\ UNCHANGED <<db, locks, pc, local, reply>>

Step(c) ==
  \/ Authorize(c)
  \/ ClaimIdempotency(c)
  \/ ReplayIdempotency(c)
  \/ Resolve(c)
  \/ EntryForUpdate(c)
  \/ NextPosition(c)
  \/ InsertEntry(c)
  \/ Commit(c)
  \/ Respond(c)

\* Every call has been answered: nothing is left to do in this instance.
Finished ==
  /\ \A c \in Calls : pc[c] = "done"
  /\ UNCHANGED vars

Next ==
  \/ \E c \in Calls :
       \/ \E r \in Requests : Receive(c, r)
       \/ Step(c)
       \/ Fail(c)
  \/ NextDay
  \/ Finished

\* Every statement returns or fails, so that a call which has been received keeps being
\* served.  While another call has the row lock it wants it takes no step.
Fairness == \A c \in Calls : WF_vars(Step(c))

Spec     == Init /\ [][Next]_vars
FairSpec == Spec /\ Fairness

-----------------------------------------------------------------------------
(* Correctness *)

\* Type invariant: every column and every local of a call has its type.
TypeOK ==
  /\ today \in Nat
  /\ entries \subseteq Entry
  /\ outbox \subseteq Event
  /\ lastPosition \in [Merchants -> Nat]
  /\ idem \in [Scopes -> Response \cup {None}]
  /\ keyLock \in [Scopes -> Calls \cup {None}]
  /\ entryLock \in [Calls -> Calls \cup {None}]
  /\ positionLock \in [Merchants -> Calls \cup {None}]
  /\ pc \in [Calls -> Steps]
  /\ req \in [Calls -> Requests \cup {None}]
  /\ date \in [Calls -> Int \cup {None}]
  /\ position \in [Calls -> (Nat \ {0}) \cup {None}]
  /\ draft \in [Calls -> Entry \cup {None}]
  /\ reply \in [Calls -> Reply \cup {None}]

\* The committed positions of a merchant are exactly 1..last_position, each held
\* by one entry, whatever transactions overlap or roll back.  The watermark the
\* consolidation reads is meaningful only because of this: NextPosition keeps
\* the merchant_position row locked until COMMIT.
GapFree ==
  \A m \in Merchants :
    /\ \A n \in 1..lastPosition[m] :
         \E e \in entries : e.merchant = m /\ e.position = n
    /\ \A e \in entries : e.merchant = m => e.position <= lastPosition[m]
    /\ \A e, f \in entries :
         e.merchant = m /\ f.merchant = m /\ e.position = f.position => e = f

\* One idempotency key never produces two entries, however many calls carry it
\* and wherever they fail: executeIdempotent records the key in the transaction
\* that inserts the entry.
OneEntryPerKey ==
  \A e, f \in entries : Scope(e.id) = Scope(f.id) => e = f

\* Two calls with the same key that are both told "ok" are told the same entry,
\* sent the same request, and that entry is committed.
RepliesAgree ==
  \A c, d \in Calls :
    /\ reply[c] # None => (reply[c].outcome = "ok" => reply[c].entry \in entries)
    /\ ( /\ reply[c] # None /\ reply[d] # None
         /\ reply[c].outcome = "ok" /\ reply[d].outcome = "ok"
         /\ Scope(c) = Scope(d) )
       => reply[c].entry = reply[d].entry /\ req[c].body = req[d].body

\* An entry is reversed at most once, by a later entry of the same merchant with
\* the opposite type and the same amount, and a reversal is never reversed.
ReversalsSound ==
  \A r \in entries : r.original # None =>
    /\ \E o \in entries :
         /\ o.id = r.original /\ o.merchant = r.merchant /\ o.original = None
         /\ o.position < r.position
         /\ o.amount = r.amount /\ o.type # r.type
    /\ \A q \in entries : q.original = r.original => q = r

\* The row lock of EntryForUpdate alone serialises reversals: no call that got
\* past it meets the unique index ledger_entry_one_reversal_per_original.
RowLockSerialisesReversals ==
  \A c \in Calls :
    pc[c] \in {"position", "insert", "commit"} /\ req[c].op = "reverse"
      => ReversalsOf(req[c].body) = {}

\* A committed entry and its outbox event exist together: every entry has one
\* event, with its merchant and position, and no event is without its entry.
OutboxMatchesEntries ==
  /\ \A v \in outbox :
       /\ v.payload \in entries
       /\ v.aggregate = v.payload.id
       /\ v.merchant = v.payload.merchant /\ v.position = v.payload.position
  /\ \A e \in entries : \E v \in outbox : v.payload = e

\* An answered call holds no row, whatever it was told.  A refused one leaves
\* nothing else behind either: no entry, and its key stays free for a corrected
\* request, because every check after ClaimIdempotency runs inside the
\* transaction that Execute rolls back.
RefusedLeavesNoTrace ==
  \A c \in Calls : reply[c] # None =>
    /\ \A s \in Scopes : keyLock[s] # c
    /\ \A i \in Calls : entryLock[i] # c
    /\ \A m \in Merchants : positionLock[m] # c
    /\ reply[c].outcome \notin {"ok", "error"} =>
         /\ \A e \in entries : e.id # c
         /\ \A s \in Scopes : idem[s] # None => idem[s].response.id # c

\* What a reader saw at or below a watermark is final: a step keeps every entry
\* and every stored response, never lowers last_position, and adds entries only
\* above it.
HistoryIsFinal ==
  [][ /\ entries \subseteq entries'
      /\ \A m \in Merchants : lastPosition[m] <= lastPosition'[m]
      /\ \A e \in entries' \ entries : e.position > lastPosition[e.merchant]
      /\ \A s \in Scopes : idem[s] # None => idem'[s] = idem[s] ]_vars

\* Every call that was received is answered: no cycle of row locks, and no lock
\* outlives the transaction that took it.
EveryCallAnswered == \A c \in Calls : pc[c] # "idle" ~> pc[c] = "done"

\* The abstract ledger this module implements.
Log == INSTANCE LedgerLog WITH
         log <- entries,
         head <- lastPosition,
         answered <- [s \in Scopes |-> IF idem[s] = None THEN None ELSE idem[s].response]

\* Every behaviour of the transactions is a behaviour of an atomic append-only
\* log: a call takes effect at COMMIT, all at once, or not at all.
ImplementsLog == Log!Spec
=============================================================================
