----------------------------- MODULE Projection -----------------------------
(***************************************************************************)
(* The consolidation projection of one merchant: confirmed entries arrive  *)
(* in any order and any number of times and become daily balances.         *)
(*                                                                         *)
(* Apply and ResumeNext are transactions under the merchant's advisory     *)
(* lock, so each is one step here.  A transaction that is rolled back      *)
(* changes nothing and is left out; one whose answer is lost is repeated   *)
(* by the next delivery of its event.                                      *)
(*                                                                         *)
(* An entry changes the closing balance of its own and of every later day. *)
(* At most Span days are recomputed in one transaction.  What is left is a *)
(* row of recompute_job with the next day to do.                           *)
(***************************************************************************)
EXTENDS Integers, FiniteSets, FiniteSetsExt

CONSTANTS
  Events,  \* what the queue may deliver
  Span,    \* maxRecomputeSpanDays
  None

Event == [id: Nat, position: Nat \ {0}, date: Nat, type: {"credit", "debit"}, amount: Nat \ {0}]

ASSUME ConstantsAssumption ==
  /\ Events \subseteq Event
  /\ Span \in Nat \ {0}
  /\ None \notin Nat

VARIABLES
  inbox,            \* rows of inbox_event, and of position_receipt
  balance,          \* rows of daily_balance, by business date
  jobs,             \* pending rows of recompute_job
  source, applied, gap,   \* merchant_progress
  accepted, refused,      \* events whose Apply returned, and failed with a conflict
  extended  \* history: a day after all others was added while a job was pending

progress == <<source, applied, gap>>
vars     == <<inbox, balance, jobs, progress, accepted, refused, extended>>

Init ==
  /\ inbox = {}
  /\ balance = [d \in {} |-> 0]
  /\ jobs = {}
  /\ source = 0 /\ applied = 0 /\ gap = None
  /\ accepted = {} /\ refused = {}
  /\ extended = FALSE

Row == [credits: Nat, debits: Nat, net: Int, count: Nat, closing: Int]

-----------------------------------------------------------------------------
(* Daily totals *)

\* Mutant of Debits: the sign is applied twice.
SignedDebits == [e \in Event |-> IF e.type = "debit" THEN -e.amount ELSE 0]

\* FinancialEffect
Credits == [e \in Event |-> IF e.type = "credit" THEN e.amount ELSE 0]
Debits  == [e \in Event |-> IF e.type = "debit" THEN e.amount ELSE 0]
Net     == [e \in Event |-> Credits[e] - Debits[e]]

\* A calendar day without entries.
EmptyRow == [credits |-> 0, debits |-> 0, net |-> 0, count |-> 0, closing |-> 0]

\* The upsert of daily_balance: a new row closes with its own net.
AddEntry(b, e) ==
  LET old == IF e.date \in DOMAIN b THEN b[e.date] ELSE [EmptyRow EXCEPT !.closing = Net[e]]
      new == [credits |-> old.credits + Credits[e], debits |-> old.debits + Debits[e],
              net |-> old.net + Net[e], count |-> old.count + 1, closing |-> old.closing]
  IN  [d \in DOMAIN b \cup {e.date} |-> IF d = e.date THEN new ELSE b[d]]

-----------------------------------------------------------------------------
(* Closing balances *)

LastDay(b) == Max(DOMAIN b)

\* At most Span days are done at once.
BlockEnd(next, through) == IF next + Span - 1 > through THEN through ELSE next + Span - 1

\* Mutant of Materialize: the rows of the block are written over.
OverwriteDays(b, first, last) ==
  [d \in DOMAIN b \cup (first..last) |-> IF d \in first..last THEN EmptyRow ELSE b[d]]

\* Every day of the block has a row.
Materialize(b, first, last) ==
  [d \in DOMAIN b \cup (first..last) |-> IF d \in DOMAIN b THEN b[d] ELSE EmptyRow]

\* Mutant of Baseline: the block starts from nothing.
NoBaseline(b, day) == 0

\* The closing balance of the latest row before the block.
Baseline(b, day) ==
  LET earlier == {d \in DOMAIN b : d < day}
  IN  IF earlier = {} THEN 0 ELSE b[Max(earlier)].closing

\* processRecomputeBlock on the balances.
Recompute(b, first, last) ==
  LET rows       == Materialize(b, first, last)
      nets       == [d \in DOMAIN rows |-> rows[d].net]
      closing(d) == IF d \in first..last THEN Baseline(rows, first) + SumFunctionOnSet(nets, first..d)
                                         ELSE rows[d].closing
  IN  [d \in DOMAIN rows |-> [rows[d] EXCEPT !.closing = closing(d)]]

\* Mutant of Continue: a job whose last day is done stays pending.
ContinueAlways(job) == {[job EXCEPT !.next = BlockEnd(job.next, job.through) + 1]}

\* processRecomputeBlock on the job: nothing is left of it once its last day is done.
Continue(job) ==
  LET last == BlockEnd(job.next, job.through)
  IN  IF last < job.through THEN {[job EXCEPT !.next = last + 1]} ELSE {}

-----------------------------------------------------------------------------
(* Progress *)

Received(events) == {e.position : e \in events}

\* Mutant of Contiguous: only the next position is looked at.
OneStep(from, upTo, received) == IF from + 1 \in received THEN from + 1 ELSE from

\* The recursive query of advanceProgress: as far as receipts follow each other.
Contiguous(from, upTo, received) ==
  Max({n \in from..upTo : (from + 1)..n \subseteq received})

AdvanceProgress(e) ==
  LET newSource  == IF e.position > source THEN e.position ELSE source
      newApplied == Contiguous(applied, newSource, Received(inbox \cup {e}))
  IN  /\ source' = newSource
      /\ applied' = newApplied
      /\ gap' = IF newApplied < newSource THEN newApplied + 1 ELSE None

-----------------------------------------------------------------------------
(* Actions *)

\* Mutant of Fresh: only the event id is unique.
FreshId(e) == \A f \in inbox : f.id # e.id

\* insertInbox meets neither of the unique keys of inbox_event.
Fresh(e) == \A f \in inbox : f.id # e.id /\ f.position # e.position

\* resolveDuplicate finds the same merchant, position and fingerprint.
Identical(e) == e \in inbox

\* The identity column numbers jobs in the order of the inbox.
NewJob(e, through) == [id |-> Cardinality(inbox), next |-> e.date, through |-> through]

ApplyFresh(e) ==
  LET added == AddEntry(balance, e)
      job   == NewJob(e, LastDay(added))
  IN  /\ Fresh(e)
      /\ inbox' = inbox \cup {e}
      /\ balance' = Recompute(added, job.next, BlockEnd(job.next, job.through))
      /\ jobs' = jobs \cup Continue(job)
      /\ AdvanceProgress(e)
      /\ accepted' = accepted \cup {e}
      /\ extended' = (extended \/ (jobs # {} /\ \A d \in DOMAIN balance : d < e.date))
      /\ UNCHANGED refused

ApplyDuplicate(e) ==
  /\ ~Fresh(e) /\ Identical(e)
  /\ accepted' = accepted \cup {e}
  /\ UNCHANGED <<inbox, balance, jobs, progress, refused, extended>>

ApplyConflict(e) ==
  /\ ~Fresh(e) /\ ~Identical(e)
  /\ refused' = refused \cup {e}
  /\ UNCHANGED <<inbox, balance, jobs, progress, accepted, extended>>

Apply(e) == ApplyFresh(e) \/ ApplyDuplicate(e) \/ ApplyConflict(e)

\* ORDER BY next_date, id LIMIT 1
NextJob(j) == \A k \in jobs : j.next < k.next \/ (j.next = k.next /\ j.id <= k.id)

ResumeNext ==
  \E j \in jobs :
    /\ NextJob(j)
    /\ balance' = Recompute(balance, j.next, BlockEnd(j.next, j.through))
    /\ jobs' = (jobs \ {j}) \cup Continue(j)
    /\ UNCHANGED <<inbox, progress, accepted, refused, extended>>

Deliver == \E e \in Events : Apply(e)

Next == Deliver \/ ResumeNext

Spec == Init /\ [][Next]_vars

\* The deployed processes: the consumer applies every event it is sent, and no
\* command calls ResumeRecompute.
ConsumerSpec == Init /\ [][Deliver]_vars /\ \A e \in Events : WF_vars(Apply(e))

-----------------------------------------------------------------------------
(* Correctness *)

\* Type invariant: every column has its type.
TypeOK ==
  /\ inbox \subseteq Event
  /\ DOMAIN balance \subseteq Nat /\ \A d \in DOMAIN balance : balance[d] \in Row
  /\ jobs \subseteq [id: Nat, next: Nat, through: Nat]
  /\ source \in Nat /\ applied \in Nat /\ gap \in Nat \cup {None}
  /\ accepted \subseteq Event /\ refused \subseteq Event
  /\ extended \in BOOLEAN

\* The applied events of a day, and those until a day.
OnDay(d)    == {e \in inbox : e.date = d}
UntilDay(d) == {e \in inbox : e.date <= d}

\* Each applied entry counts exactly once in the totals of its own day, whatever
\* is redelivered or refused; days without entries are zero.
TotalsExact ==
  /\ \A d \in DOMAIN balance :
       /\ balance[d].credits = SumFunctionOnSet(Credits, OnDay(d))
       /\ balance[d].debits = SumFunctionOnSet(Debits, OnDay(d))
       /\ balance[d].net = balance[d].credits - balance[d].debits
       /\ balance[d].count = Cardinality(OnDay(d))
  /\ \A e \in inbox : e.date \in DOMAIN balance

\* applied_position is the end of the gap-free prefix of the received positions
\* and source_position the last of them, in whatever order they came; first_gap
\* is the first one missing.
ProgressExact ==
  LET received == Received(inbox) IN
  /\ 1..applied \subseteq received
  /\ applied + 1 \notin received
  /\ received \subseteq 1..source /\ (source # 0 => source \in received)
  /\ gap = IF applied = source THEN None ELSE applied + 1

\* No two applied events share an id or a position, and an event that was once
\* accepted is never refused, nor the other way round.
IdentityKept ==
  /\ \A e, f \in inbox : e.id = f.id \/ e.position = f.position => e = f
  /\ accepted = inbox /\ accepted \cap refused = {}

ClosingIs(d) == balance[d].closing = SumFunctionOnSet(Net, UntilDay(d))

\* The closing balance of every day that no pending job has still to reach sums
\* up all applied entries until that day, unless a later day was added while a
\* job was pending (the column through_date of that job does not cover it).
ClosingExact ==
  ~extended =>
    \A d \in DOMAIN balance : (\A j \in jobs : d < j.next) => ClosingIs(d)

\* What the query relies on to call a balance definitive: without a pending job
\* all closing balances are right.
DoneMeansExact == jobs = {} => \A d \in DOMAIN balance : ClosingIs(d)

\* A recomputation that was left pending comes to its end.
EventuallyRecomputed == jobs # {} ~> jobs = {}

\* The row of a pending job satisfies recompute_job_continuation_check: there is
\* a day left to do and the range ends at a day that has a row.  A violation
\* would be taken for a financial conflict and send a good event to the DLQ.
JobsBounded ==
  \A j \in jobs :
    /\ j.next <= j.through /\ j.through \in DOMAIN balance
    /\ \E d \in DOMAIN balance : d < j.next
=============================================================================
