---------------------------- MODULE MCWriteSide -----------------------------
(***************************************************************************)
(* The ledger service makes progress: its API answers the calls, and the   *)
(* publisher delivers the rows they have left in outbox_event.  No call    *)
(* touches such a row again, so a behaviour plays one of the two sides.    *)
(***************************************************************************)
EXTENDS Outbox

CONSTANTS Calls, Merchants, Keys, CreateBodies, MaximumBackdateDays, FirstDay, LastDay

VARIABLES
  side,
  today, entries, outbox, lastPosition, idem, keyLock, entryLock, positionLock,
  statement, req, date, position, draft, reply

ledgerVars == <<today, entries, outbox, lastPosition, idem, keyLock, entryLock, positionLock,
                statement, req, date, position, draft, reply>>

API == INSTANCE Ledger WITH pc <- statement

OneBody == { [type |-> "credit", amount |-> 5, currency |-> "BRL", date |-> None] }

WriteSideInit == side \in {"api", "publisher"} /\ API!Init /\ Init

WriteSideNext ==
  /\ \/ side = "api" /\ API!Next /\ UNCHANGED vars
     \/ side = "publisher" /\ Next /\ UNCHANGED ledgerVars
  /\ UNCHANGED side

\* Each side is as fair as its module says.
WriteSideSpec ==
  /\ WriteSideInit
  /\ [][WriteSideNext]_<<side, vars, ledgerVars>>
  /\ \/ side = "api" /\ API!Fairness
     \/ side = "publisher" /\ Fairness

\* Every call the API has received is answered: no cycle of row locks, and no lock
\* outlives the transaction that took it.
EveryCallAnswered == API!EveryCallAnswered

\* The publisher delivers every valid row in the end, although invalid rows are retried
\* for ever, workers crash, leases are left behind and one worker may spin for ever.
EveryEventPublished == side = "publisher" => EventuallyPublished
=============================================================================
