# Cashflow: a verification project in TLA+

TLA+ models of the cashflow system (ledger, outbox publisher, consolidation, and what they run on), TLC
configurations that check them on small instances, and TLAPS proofs of the most important properties for
every size. `PROJECT.json` lists the runs, the theorems, the source lines each definition models, the
mutated definitions that break each property, and the hazards the properties are aimed at.

## The system

```
client -> ledger API -> [ledger schema: entries, positions, keys, outbox]
                              |  leases
                        outbox-publisher -> RabbitMQ queue -> consumers -> [consolidation schema]
                                              \-> dead-letter queue         |            ^
client -> consolidation API <- balances, progress, jobs --------------------+            |
              \- watermark (gRPC) -> ledger API                                          |
                          reconciliation-worker: reprocess dead letters, reconcile ------+
```

A confirmed entry gets the next position of its merchant. Its event is written to the outbox in the
same transaction, published at least once, and applied to the daily balances of the merchant at most
once. The query reports a balance as definitive when everything the ledger has confirmed is applied.
Both APIs verify the tokens of their callers with keys they cache; services that call the ledger
internally share a cached token of their own.

| component | state | operations | modules |
|---|---|---|---|
| Ledger writes | `ledger_entry`, `merchant_position`, `idempotency_record`, `outbox_event`, row locks | CreateEntry, ReverseEntry, each one transaction | `Ledger`, `LedgerLog` |
| Ledger reads | the client's cursor | ListEntries, GetEntry | `LedgerFeed`, `Listing` |
| Outbox publisher | leases and attempts, a broker channel under a mutex | Claim, Publish, MarkPublished, MarkFailed, readiness probe | `Outbox` |
| Topology migration | queues, bindings, the cutover marker | upgrade, rollback | `Topology` |
| Projection | `inbox_event`, `daily_balance`, `recompute_job`, `merchant_progress` | Apply, ResumeNext | `Projection` |
| Consumer, DLQ reprocessing | `event_pending`, `dead_letter_event`, unacknowledged deliveries | deliver, apply, retry, isolate, settle, Reprocess | `Consumer` |
| Balance query | what it has read so far | GetDailyBalances | `Query` |
| Reconciliation | `reconciliation_run`, the advisory lock | Reconcile | `Reconciliation` |
| Keys and tokens | cached keys, cached token, the request in flight | VerificationKey, Token, the two interceptors, the HTTP middleware | `Clock`, `KeyCache`, `TokenSource`, `Client`, `Policy`, `Admission` |
| Processes | what is open, the stages of a stop | run of five commands | `Process` |
| Schema migrations | the tracker, the advisory lock | Apply, RollbackAll, ApplyMigrations, RevertMigration | `Migrations` |

## Modules

**Ledger** (`service.go`, `repository.go`, the domain package, the schema). A call is a process with a
program counter; one step is one SQL statement. Uncommitted rows are locals of the call, and what
other transactions feel of them are three kinds of row locks: the claimed key, the original entry of a
reversal, the position counter. PostgreSQL runs READ COMMITTED, so a statement that waited sees what
was committed meanwhile. Any statement may fail, which rolls back; `Commit` may succeed and its answer
be lost. Requests the API refuses before it opens a transaction are not calls of the model. The clock
may move to the next day between any two statements.

**LedgerLog** is what the ledger promises: a log per merchant to which one entry is added at a time,
at the next position, a reversal only of an entry not yet reversed. `Ledger` implements it: only
`Commit` changes the log.

**Outbox** (`store.go`, `worker.go`, `rabbitmq.go`, `runtime.go`). Time is discrete: leases, delays and
budgets are the time left, and `Tick` waits for whatever has used up its budget. The worker's broker
connection is guarded by a mutex which the readiness probe takes too. The broker's side (accept,
return, ack, nack) is external and modelled from what `Publish` handles. A goroutine that finds Go's
mutex free may take it before one that waits, but not without end: `Overtakes` says how many probes go
before a waiting worker. The two loops of `Publish` that drain `b.returns` do not look whether the
channel is closed; `Spin` is a connection lost just before one of them, after which the worker keeps the
mutex and never returns. Attempts saturate where the back-off no longer changes.

**Projection** (`postgres/store.go`, `projector.go`, `event.go`). One merchant: every transaction takes
the merchant's advisory lock first, so each is one step and merchants do not interact. Days are
numbers. `Recompute` is the window query of `processRecomputeBlock`; `Contiguous` is the recursive
query of `advanceProgress`, stated as the largest prefix that is complete. A transaction that is
rolled back changes nothing and is left out.

**Consumer** (`consumer.go`, `pending_store.go`, `dlq.go`). The consumers and the reprocessor run side
by side, one step per database statement or broker answer. Every statement may fail, or commit and
lose its answer. `Disconnect` gives the message back to the queue while its consumer goes on; what it
settles later is ignored. The projection is abstracted to the content applied for each event id.
Equal dead-letter rows are not told apart, and rows are reprocessed in any order (the code's order is
that of random ids). Back-off delays only postpone a requeue. RabbitMQ 4 adds a default delivery
limit to quorum queues; the code declares none and the model has none. A message that is refused before
it can be read is recorded by its `MessageId`, which is the event's id: the publisher sets it so, and the
model has one id for both. Two history variables record what the code itself gives up on: a write of
`escalate` that did not commit, and a class 'dlq' that a consumer without its delivery replaced.

**LedgerFeed** is the log of one merchant as its readers see it, growing one position at a time. That
it only grows is what `HistoryIsFinal` and `LedgerImplementsLog` show of `Ledger`. **Query** puts an
answer together from four reads with nothing to tie them, beside the projection; progress may be
unreadable and the watermark unverifiable. An answer has a result for every day of the range, without
data where `daily_balance` has no row; what was confirmed, applied and still to be recomputed at the
first read is kept as history. **Reconciliation** is the daemon and the operator's command at
once: cut, advisory lock (the one of `Projection`), stream attempts that break in the middle,
comparison, upsert. Streamed entries have their ids: the ledger's table admits no other, so the check for
an empty one never fires. **Listing** follows the cursors of one list; a page is one REPEATABLE READ
transaction, times of confirmation are in another order than positions and may be equal.

**Clock** is shared by the modules about keys and tokens. **KeyCache** is `JWKSCache.VerificationKey`
with a step for each time it takes or releases its mutex: the clock is read before the cache is looked
at, and acted on after the lock is released. **TokenSource** and **Client** are the token of a service
and the calls it is sent with. **Policy** holds claims, scopes and delegations as conditions on a token,
whose encoding, signature and issuer are abstracted to "readable", "signed" and "issued". **Admission** is the gRPC
interceptor and the HTTP middleware in the order of their checks.

**Process** is run of each command: what it opens, a failure to open it, a signal or a failed listener
or loop at any time, and the stages of its stop with their timeouts. A unit of work that is storing
holds a connection. **Migrations** are concurrent releases and rollbacks, each one transaction that may be
lost anywhere; the creation of the ledger's tracker comes before its lock. **Topology** moves the backlog
one confirmed copy at a time and then swaps the bindings, next to publishers and consumers; every
broker call may fail and the command be run again. A queue is a set, since consumers deduplicate. A copy
goes through the default exchange to a queue the command has found and nobody deletes, so it is not
returned.

`MCLedger`, `MCOutbox`, `MCWriteSide`, `MCProjection`, `MCConsumer`, `MCReadSide` and `MCPlatform` hold the
instances. `MCWriteSide` puts the two halves of the ledger service side by side, one in a behaviour: no
call touches an outbox row again, and the publisher touches nothing else.
`MCReadSide` composes the log, the projection and its readers: in one behaviour there are queries, or
reconciliations, or a list, because none reads what another writes. `MCPlatform` likewise plays one scene
in a behaviour: the client's tokens, admission, a process, migrations, or the topology. Definitions
called "Mutant of X" are not part of the models: they are plausible mistakes in `X` that the
properties are shown to catch.

## Runs

| run | instance | states | shows |
|---|---|---|---|
| `ledger` | 3 calls, 2 merchants, 2 keys, 4 bodies, 2 days | 825k | gap-free positions, keys and reversals, an event per entry, no trace of refused calls, refinement of `LedgerLog` |
| `write_side` | 3 calls, 1 merchant, 2 keys; 2 workers, a valid and an invalid row, 1 failure, 1 overtaking probe, lease 5 | 275k | no event disappears, leases do not overlap, duplicates need failures; every call is answered, the valid row is published |
| `outbox_tight_lease` | lease 3, no overtaking | violation | the lease may run out while the worker waits for the mutex |
| `projection` | 5 entries and 2 contradicting events, 4 days, 2 days a block, a query, 2 reconcilers or a list | 929k | totals, progress, identity, closing balances, job rows; what a definitive answer, a clean run and a difference mean; each entry of a list once |
| `projection_extended` | entries of 4 days | violation | a day added under a pending job keeps a wrong closing balance |
| `projection_unresumed` | the same, only the deployed processes | violation | a pending job is never finished |
| `query_definitive` | a query of the first 2 days | violation | a definitive answer misses an event that was applied while it was put together |
| `reconciliation_cut` | 2 reconcilers of one day | violation | a difference is stored although nothing up to the cut differs |
| `consumer` | 2 consumers, a reprocessor, 3 messages of one id, 2 failures, 2 attempts | 396k | ack after commit, pendencies on record, bounded retries, evidence outlives its event, the event is applied in the end |
| `consumer_isolated` | 1 event, 3 failures | violation | an isolated event that no run of the reprocessor selects |
| `consumer_dropped` | 2 events with one id | violation | a dead letter is deleted without having been applied |
| `platform` | 2 calls, 2 keys, a rotation; 2 units of each of 5 processes; 3 runners, 4 builds; 2 events | 1.4M | keys and tokens are current, nobody waits for a request that is over, clean exits, migrations once, nothing stranded |

**Bounds.** Three calls are the fewest with two that conflict and a third that reverses or waits for
them; two keys and two merchants separate what must not be shared. Two workers, or two consumers, and
two rows or messages are needed for a takeover. One failure in `write_side` is a crash, a lost answer or a
worker that spins while the other goes on; with as many spinning workers as there are nothing is
published any more, so `EveryEventPublished` needs fewer failures than workers. Two failures in `consumer`
let an event use up its attempts, or fail once and then lose its delivery. These two instances are as
small as liveness needs them to be: their safety properties are proved for any number of failures,
attempts, workers, consumers and messages. Four
days with blocks of two give jobs with one and two blocks left, and events before, between and after
them. In the code a block is 31 days and entries are backdated by at most 30, so a job stays pending
only when an event is applied late; the instance keeps this relation (blocks of two days, one day of
backdating). Two reconcilers of one day suffice for an older cut that comes last, two stream attempts
for one that breaks. Lists have pages of one and of two entries, so that the last page is full, short
or empty. In `platform` a lookup can be overtaken by a refresh and a rotation before it acts on what
it read, since the intervals are one tick and the clock runs for three; three runners are a release,
another build and a rollback. `LastDay`, `MaxAttempts` of `Outbox`, `MaxRotations`, the two horizons
and every `MaxFaults` are bounds of the model only. Calls, merchants, keys and workers are
interchangeable, so symmetry is used in `ledger` and `outbox_tight_lease`, where only safety is checked.

**Deadlock** is checked except for the consumers, whose finite set of messages is used up, and for
`platform`, whose clock ends and whose processes exit.

**Fairness.** A call that stays able to take its next statement takes it (weak fairness of `Step` for each
call: the server runs them, and PostgreSQL hands a row on when it is released). Workers poll in a loop,
supervisors restart processes, the broker answers, time passes. Workers that keep reconnecting succeed
in time at last: strong fairness of `Send` of some worker, not of each, since nothing can be published
otherwise. `Spin` is a failure like the others: nothing makes a spinning worker return.
Consumers and the reprocessor are loops. Nothing is assumed of failures: their number is bounded.
`projection_unresumed` is fair to the consumer and leaves out `ResumeNext`, which no command calls.

## Proofs

Proved with TLAPS for any sets of calls, merchants, keys, bodies, workers, rows, consumers, messages,
entries and reconcilers and any value of the bounds, from the named assumptions on the constants (`ConstantsAssumption`,
`ConfigAssumption` and the like), which TLC evaluates in every run of their modules. In each case the
property is not inductive by itself; the invariant that is says who owns what in between.

*LedgerProofs.* Type correctness needs that the locals of a call are set once it is past the step that
sets them (`TypeInv`). `GapFree` is inductive with `PositionOwner`: a call between taking and
committing a position holds the merchant's counter, and its position is the next one.
`OneEntryPerKey` and `RepliesAgree` rest on `KeyInv`: a call in its transaction holds its key, which
has no record yet, a record names a committed entry of its own key, and answered calls were told the
recorded entry.

*LedgerReversalProofs.* `ReversalsSound` and `RowLockSerialisesReversals` add `OriginalOwner`: a reversal
past the check holds the row of its original, which has no reversal yet. `OutboxMatchesEntries` follows
from the one step that writes both; `RefusedLeavesNoTrace` from `RepliesInv`, an answered call is done
and a refused one owns no entry; `HistoryIsFinal` and `LedgerImplementsLog` from all of these: every step
maps to a step of the log or leaves it alone.
`NoCircularWait` draws the consequence of the three kinds of lock owners for waiting: a call waits only
for a call that is further into its transaction (`WaitsInOrder`), so no number of overlapping calls can
block each other. `FeedAssumptionHolds` and `FeedStepsHold` join the write side to the read side: in every
state a merchant's entries are what `LedgerFeed` assumes of `Entries`, by the bijection between positions
and entries that `GapFree` gives, and every step leaves them alone or is `Confirm`. These three have no run
of their own: what they say of a small instance is in `EveryCallAnswered`, `GapFree` and `HistoryIsFinal`.

*OutboxProofs.* `PublishedIsQueued` is inductive with `ConfirmedIsQueued`: behind a confirmed publication
there is a message in the queue. `LeaseCoversWork` holds for every configuration with
`Lease > (1 + Overtakes) * ConnectBudget + max(ConnectBudget, PublishBudget) + PersistBudget`
(`LeaseCoversWait`): one probe that holds the mutex and those that overtake the worker. The
inductive invariant says that the lease of a worker's row exceeds all the worker may still have to do
(`WorkLeft`). Under the same condition `DuplicatesNeedFaults` is inductive with `CopiesInv`: the one
copy that no failure accounts for belongs to a row that is published or about to be marked.

*ConsumerProofs.* Applying never replaces the content of an applied event (`InboxKept`), so what was true
of an event when it was applied stays true. `AckedIsApplied` is inductive with `ClearedIsApplied`: a
consumer past `Apply` holds a message whose content is in the projection. `DroppedIsApplied` is
inductive with `ItemIsApplied`: a reprocessor that has begun to delete holds a row of an applied event.
`RetriesBounded` needs to count those about to requeue: the requeues of an event and the consumers
that wait to requeue it are no more than its recorded attempts, of which the last does not requeue
(`RetryInv`). `PendencyKnown` rests on `PendencyInv`: as long as its event is not applied and the writes of
`escalate` commit, a message about to be marked has its dead letter, and one that is isolated, or about to
be, has its row of `event_pending` too; nobody deletes either before the event is applied. Consumers are
assumed to be named differently from the places a message can be in.

*ProjectionProofs.* `IdentityKept` is inductive with the fact that a refused event meets a unique key for
good. `ProgressExact` needs that the inbox is finite, so that the longest prefix and the first gap
exist. `JobsBounded` needs that the days with balances are finite, so that a job has a last day.
`TotalsExact`, `ClosingExact` and `TypeOK` are about sums over sets of events. The module first proves what
it needs of `SumFunctionOnSet`, which the community modules define by a recursive function over sets: such a
function exists on every finite set (`SumsExist`), a sum does not depend on the order of its elements
(`SumRemove`), and splits over disjoint sets (`SumUnion`). Induction over a finite set is stated for a family of
sets (`FiniteInduction`) and follows from the well-foundedness of the strict subset relation. `RunningSum` says
that the window query of a block adds the net of every day to the closing balance before the block. The
inductive invariant is `ProjectionInv`; its part for closing balances (`ClosingInv`) says that every day no job
has still to reach closes right, and that every job goes on to the last day there is, which is where
`extended` comes in. `ProjectionDoneMeansExact` states the consequence for the query.

*ReadSideProofs.* The readers leave the projection as it is (`ReadersOnlyRead`: `MCReadSide` implements
`Projection`), so `ProjectionInv` holds beside them. `DefinitiveIsComplete` and `DefinitiveIsExact` rest on
`QueryInv`: the applied position that was read stays a gap-free prefix of the inbox, and the rows read, and
the days without a row, are those of the events applied at the first read (`DayShown`). That all of these
lie at or below the answer's position follows when the answer is definitive: the position is at least the
watermark, and no event was sent before its entry was confirmed. Reconciliation needs that a stream that ended holds the sums
of the ledger's entries up to its cut, whatever broke before (`WorkInv`), and that a stored run promised the
truth about what was applied then, which later events cannot take back (`RunsInv`): `CleanRunCertifies`,
`DifferenceExplained` and, for the upsert, the action property `RunsAdvance`. `TraversalExact` rests on
`ListingInv`: the sort key is a strict total order because ids are unique (`BeforeOrder`), what comes after the
cursor is exactly what has not been shown (`CursorInv`), and a page is an initial part of it (`PageIsFirst`).
Confirmations change nothing at positions up to the high-water mark (`ConfirmAppends`).

*PlatformProofs.* `CleanExit` is inductive with `ProcessInv`: a stage that may time out is followed by one
that waits for the pool, and with result nil the stages so far have seen their units end.
`MigratedOnce` rests on `TrackerInv` (tracker and schema agree, and checksums are those of the texts that
ran) and on what each runner has seen under the lock.
`NothingStranded` rests on `TopologyInv`: an event leaves a queue only when its copy is safe
(`QueueInv`), a binding goes only when the other is there (`BoundInv`), and publishers run only while
their queue is in service (`ServiceInv`).

*AccessProofs.* `TokensOutlive` holds if a token lives as long as the budget of a call
(`LifeCoversBudget`, which the leeway of 30 s alone ensures). The inductive invariant (`ClientInv`) bounds by how
much the source overestimates its token: by the budget of the call that fetched it, which skew and
leeway cover together with the budget of the next call (`ClientAssumption`).
`KeysCurrent` rests on `AdmissionInv`: the cached keys were published at `fetchedAt` or later, the keys
on their way at the start of their refresh or later, and a call that reads the cache again after its
own refresh read the clock before that refresh, or any that replaced it, began.
`NoLostWakeup` is inductive once a refresh is told apart from its absence (`RefreshAssumption`): whoever ends
a refresh or a request wakes up all who wait, and nobody begins to wait when there is none.

**Only model-checked.** Liveness under fairness (`EveryCallAnswered`, `EveryEventPublished`,
`EventuallyApplied`), which is out of the prover's reach. Every invariant and every action property that a
passing run checks is also proved.

## What the runs found

- The confirm timeout starts after the broker mutex is taken, so the shortest lease `NewWorker`
  accepts does not cover the wait for a readiness probe (`outbox_tight_lease`; `LeaseIsEnough` gives
  the bound that does).
- A day added while a recomputation is pending keeps a stale closing balance, which the query then
  reports as definitive (`projection_extended`; `ProjectionDoneMeansExact` shows that there is no other way).
- No deployed process resumes a pending recomputation (`projection_unresumed`).
- `Reprocess` deletes dead letters by event id, and with them rows it has not applied
  (`consumer_dropped`).
- A definitive answer may be older than its position: an event applied after the balances were read
  is in `source_position` and `applied_position` but not in the data. A day without movement gets no data
  where the scenario asks for zeros and the closing balance of the day before (`query_definitive`).
- The projected side of a reconciliation is not limited to the cut, so an event applied since shows as a
  difference, which is stored for that cut (`reconciliation_cut`).
- `escalate` only logs a write that fails and rejects the message all the same: no table the reprocessor
  reads knows of the event, only the broker's dead-letter queue (`consumer_isolated`). A consumer that
  lost its delivery can also turn the mark 'dlq' of an isolated event back into 'retry'; it then
  isolates the event itself, unless it dies before or the answer of its RecordPending is lost.

Some properties hold only with an exception that the property names, because the code allows it:

- `PendencyKnown` and `EventuallyApplied` except an event for which a write of `escalate` did not commit
  (`unrecorded`), and `EventuallyApplied` one whose class 'dlq' was replaced (`overwritten`). What the
  scenario asks for without exception is `IsolatedIsSelected`, which `consumer_isolated` refutes.
- `RetriesBounded` adds the failures RecordPending did not record to the limit (`uncounted`).
- `DefinitiveIsExact` is about what was applied at the first read, since the reads are no snapshot. It
  excepts the closing balance of a day that a recomputation had still to reach at that read and that was
  over at the third, and of a day a pending job misses (`extended`). The unexcepted statement, about the
  answer's own position, is `DefinitiveAtPosition`, which `query_definitive` refutes.
- `DifferenceExplained` states which difference the code computes; the one at the cut that its comment
  promises is `DifferenceAtCut`, which `reconciliation_cut` refutes.
- `NothingStranded` excepts an event that a consumer held across a migration and handed back to the queue
  that was left (`handedBack`).

## Not modelled

- Generated protobuf and gateway code, mock servers, test fixtures: no logic of the system.
- The gateway's configuration check, the BDD and workflow policy tools: functions of a file at build time.
- Observability, trace contexts, log texts, redaction, and the audit row of `Reprocess`: nothing else
  reads them.
- Environment variables, TLS files and routes: read once, no state. Who may run the operator's commands
  is one scope check before a command starts; `Policy` has the policies of the two surfaces.
- `ParseBRL`, the text of an amount, comes before `Receive`: a function of one string, whose cases the
  unit tests enumerate. Signatures and encodings of tokens are abstracted in `Policy`.
- The formatting of a query's answer; the age that turns 'processing' into
  'delayed' is a free choice, since neither is definitive.
- Amounts are unbounded integers in `Projection`; the columns are `bigint`, whose overflow rolls the
  transaction back.
- Liveness of the platform's scenes: their state graphs are too large for TLC's liveness check in
  reasonable time. `NoLostWakeup` is the safety part of it.
- A composition of outbox, consumer and projection in one state space is out of TLC's reach. They meet
  in interfaces that each side checks: `OutboxMatchesEntries` and `PublishedIsQueued` give the consumer
  its messages, `IdentityKept` is what `Consumer` assumes of `Apply`, `HistoryIsFinal` what the readers
  assume of the log.
