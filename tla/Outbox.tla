------------------------------- MODULE Outbox -------------------------------
(***************************************************************************)
(* The outbox publisher: workers lease rows of outbox_event, publish them  *)
(* to RabbitMQ with mandatory routing and publisher confirms, and mark the *)
(* row published or failed.                                                *)
(*                                                                         *)
(* Time is discrete.  A row keeps how much of its lease is left and how    *)
(* long until it is available again; a worker keeps how much is left of    *)
(* the budget of what it is doing.  Tick lets one unit pass everywhere and *)
(* waits while some budget is used up: what the budget bounds ends first.  *)
(*                                                                         *)
(* Each worker has its own broker connection, guarded by a mutex that the  *)
(* readiness probe takes too.                                              *)
(***************************************************************************)
EXTENDS Integers, FiniteSets

CONSTANTS
  Workers,
  Events,         \* rows of outbox_event
  Invalid,        \* those whose payload fails the checks of Publish
  Lease,
  ConnectBudget,  \* the longest ensureChannel may take
  PublishBudget,  \* ConfirmTimeout
  PersistBudget,  \* persistenceBudget
  BackoffBase, BackoffMax,
  Overtakes,      \* how many probes may take the mutex before a worker that waits for it
  MaxAttempts,    \* bound: attempts are not told apart from here on
  MaxFaults,      \* bound: how many calls may fail, and processes crash
  None

\* What NewWorker checks, and what the saturating counter of attempts needs.
ASSUME ConfigAssumption ==
  /\ Invalid \subseteq Events
  /\ None \notin Workers \cup Events
  /\ Lease \in Nat /\ ConnectBudget \in Nat /\ MaxFaults \in Nat /\ Overtakes \in Nat
  /\ PublishBudget \in Nat \ {0} /\ PersistBudget \in Nat \ {0}
  /\ BackoffBase \in Nat \ {0} /\ BackoffMax \in Nat /\ BackoffMax >= BackoffBase
  /\ Lease > PublishBudget + PersistBudget
  /\ MaxAttempts \in Nat \ {0} /\ BackoffBase * 2^(MaxAttempts - 1) >= BackoffMax

VARIABLES
  published, attempts,
  owner, lease,       \* lease_owner, and lease_until as the time left
  available, before,  \* available_at as the time left, and its order
  pc, event,          \* what each worker is doing, and with which row
  holder, hold,       \* who holds its broker's mutex, and for how long at most
  ahead,              \* how many probes may still take it before the worker
  budget,             \* time left before the worker gives up the call
  returned, confirm,  \* what the broker sent back for the publication
  copies,             \* messages of each event the queue has accepted
  faults              \* failures so far

rows    == <<published, attempts, owner, lease, available, before>>
mutex   == <<holder, hold, ahead>>
wire    == <<returned, confirm>>
vars    == <<rows, pc, event, mutex, budget, wire, copies, faults>>

Steps == {"idle", "waiting", "connecting", "sent", "confirmed", "failed", "spinning", "down"}

\* A worker with one of these steps has claimed a row and not finished with it.
InFlight == {"waiting", "connecting", "sent", "confirmed", "failed"}

Min2(a, b) == IF a < b THEN a ELSE b
Max2(a, b) == IF a > b THEN a ELSE b

Init ==
  /\ published = [e \in Events |-> FALSE]
  /\ attempts = [e \in Events |-> 0]
  /\ owner = [e \in Events |-> None]
  /\ lease = [e \in Events |-> 0]
  /\ available = [e \in Events |-> 0]
  /\ before = {}
  /\ pc = [w \in Workers |-> "idle"]
  /\ event = [w \in Workers |-> None]
  /\ holder = [w \in Workers |-> "free"]
  /\ hold = [w \in Workers |-> 0]
  /\ ahead = [w \in Workers |-> 0]
  /\ budget = [w \in Workers |-> 0]
  /\ returned = [w \in Workers |-> FALSE]
  /\ confirm = [w \in Workers |-> "pending"]
  /\ copies = [e \in Events |-> 0]
  /\ faults = 0

-----------------------------------------------------------------------------
(* The store *)

\* Mutant of LeaseExpired: a lease that has not run out can be taken over.
LeaseIgnored(e) == TRUE

LeaseExpired(e) == lease[e] = 0

\* Mutant of Claimable: published rows are leased again.
ClaimableAgain(e) == available[e] = 0 /\ LeaseExpired(e)

\* The WHERE clause of Claim.
Claimable(e) == ~published[e] /\ available[e] = 0 /\ LeaseExpired(e)

\* Mutant of Earliest: the order is turned round.
Latest(e) == \A f \in Events : Claimable(f) => <<e, f>> \notin before

\* ORDER BY available_at, ties in any order.
Earliest(e) == \A f \in Events : Claimable(f) => <<f, e>> \notin before

\* Mutant of LeaseRow: the publish timeout is added to the lease again.
LongLeaseRow(w, e) ==
  /\ Claimable(e) /\ Earliest(e)
  /\ owner' = [owner EXCEPT ![e] = w]
  /\ lease' = [lease EXCEPT ![e] = Lease + PublishBudget]
  /\ attempts' = [attempts EXCEPT ![e] = Min2(@ + 1, MaxAttempts)]
  /\ UNCHANGED <<published, available, before>>

\* The row changes of Claim, for one worker and one row.
LeaseRow(w, e) ==
  /\ Claimable(e) /\ Earliest(e)
  /\ owner' = [owner EXCEPT ![e] = w]
  /\ lease' = [lease EXCEPT ![e] = Lease]
  /\ attempts' = [attempts EXCEPT ![e] = Min2(@ + 1, MaxAttempts)]
  /\ UNCHANGED <<published, available, before>>

\* The WHERE clause of MarkPublished and MarkFailed.
Owned(w) == owner[event[w]] = w /\ ~published[event[w]]

ReleaseRow(e) ==
  /\ owner' = [owner EXCEPT ![e] = None]
  /\ lease' = [lease EXCEPT ![e] = 0]

\* available_at moves d units ahead, behind every row due until then.
Postpone(e, d) ==
  /\ available' = [available EXCEPT ![e] = d]
  /\ before' = {p \in before : p[1] # e /\ p[2] # e}
                 \cup {<<f, e>> : f \in {f \in Events \ {e} : available[f] <= d}}
                 \cup {<<e, f>> : f \in {f \in Events \ {e} : available[f] > d}}

\* retryDelay: the base doubled with every attempt, with a jitter of one half
\* either way, and never above the maximum.
Backoff(n)      == Min2(BackoffBase * 2^(n - 1), BackoffMax)
RetryDelays(n)  == {Min2(d, BackoffMax) : d \in (Backoff(n) \div 2)..((3 * Backoff(n) - 1) \div 2)}

Fault == faults < MaxFaults /\ faults' = faults + 1

Idle(w) ==
  /\ pc' = [pc EXCEPT ![w] = "idle"]
  /\ event' = [event EXCEPT ![w] = None]

\* The worker turns to the next call, which has b units of time.
Enter(w, step, b) ==
  /\ pc' = [pc EXCEPT ![w] = step]
  /\ budget' = [budget EXCEPT ![w] = b]

Unlock(w) ==
  /\ holder' = [holder EXCEPT ![w] = "free"]
  /\ hold' = [hold EXCEPT ![w] = 0]
  /\ UNCHANGED ahead

-----------------------------------------------------------------------------
(* Worker actions *)

Claim(w) ==
  /\ pc[w] = "idle"
  /\ \E e \in Events : LeaseRow(w, e) /\ event' = [event EXCEPT ![w] = e]
  /\ pc' = [pc EXCEPT ![w] = "waiting"]
  /\ ahead' = [ahead EXCEPT ![w] = Overtakes]
  /\ UNCHANGED <<holder, hold, budget, wire, copies, faults>>

\* Claim commits but its answer is lost: nobody works on the leased row.
ClaimLost(w) ==
  /\ pc[w] = "idle" /\ Fault
  /\ \E e \in Events : LeaseRow(w, e)
  /\ UNCHANGED <<pc, event, mutex, budget, wire, copies>>

\* The payload follows the schema, agrees with its row and has no prohibited field.
Valid(e) == e \notin Invalid

\* Publish takes the mutex; only then does its timeout start.  A payload that
\* fails validation ends it at once.
Publish(w) ==
  /\ pc[w] = "waiting" /\ holder[w] = "free"
  /\ \/ /\ ~Valid(event[w])
        /\ Enter(w, "failed", PersistBudget)
        /\ UNCHANGED <<holder, hold>>
     \/ /\ Valid(event[w])
        /\ Enter(w, "connecting", PublishBudget)
        /\ holder' = [holder EXCEPT ![w] = "worker"]
        /\ hold' = [hold EXCEPT ![w] = ConnectBudget]
  /\ ahead' = [ahead EXCEPT ![w] = 0]
  /\ UNCHANGED <<rows, event, wire, copies, faults>>

\* ensureChannel has a channel in time; old returns are drained and the message
\* goes out.
Send(w) ==
  /\ pc[w] = "connecting" /\ budget[w] > 0
  /\ pc' = [pc EXCEPT ![w] = "sent"]
  /\ returned' = [returned EXCEPT ![w] = FALSE]
  /\ confirm' = [confirm EXCEPT ![w] = "pending"]
  /\ UNCHANGED <<rows, event, mutex, budget, copies, faults>>

\* The channel comes too late: the deadline set on the socket has passed.
ConnectLate(w) ==
  /\ pc[w] = "connecting" /\ budget[w] = 0
  /\ Enter(w, "failed", PersistBudget)
  /\ Unlock(w)
  /\ UNCHANGED <<rows, event, wire, copies, faults>>

\* Publish ends with an error: the connection breaks or its time is up.
PublishFails(w) ==
  /\ pc[w] \in {"connecting", "sent"} /\ Fault
  /\ Enter(w, "failed", PersistBudget)
  /\ Unlock(w)
  /\ UNCHANGED <<rows, event, wire, copies>>

\* The select of Publish picks the returned message.
ReceiveReturn(w) ==
  /\ pc[w] = "sent" /\ returned[w]
  /\ Enter(w, "failed", PersistBudget)
  /\ Unlock(w)
  /\ UNCHANGED <<rows, event, wire, copies, faults>>

\* Mutant of Confirmed: the returns are not looked at once the ack is there.
AckConfirms(w) == confirm[w] = "ack"

\* An ack confirms the publication unless a return came with it.
Confirmed(w) == confirm[w] = "ack" /\ ~returned[w]

\* The select of Publish picks the confirmation.
ReceiveConfirm(w) ==
  /\ pc[w] = "sent" /\ confirm[w] # "pending"
  /\ Enter(w, IF Confirmed(w) THEN "confirmed" ELSE "failed", PersistBudget)
  /\ Unlock(w)
  /\ UNCHANGED <<rows, event, wire, copies, faults>>

\* The library closes the channel, and with it b.returns, while Publish drains that: a
\* closed channel is never empty, so that the loop does not end, and keeps the mutex.
Spin(w) ==
  /\ pc[w] = "connecting" \/ (pc[w] = "sent" /\ Confirmed(w))
  /\ Fault
  /\ pc' = [pc EXCEPT ![w] = "spinning"]
  /\ UNCHANGED <<rows, event, mutex, budget, wire, copies>>

\* Without the lease the row is left alone (ErrLeaseLost).
MarkPublished(w) ==
  /\ pc[w] = "confirmed"
  /\ IF Owned(w)
     THEN /\ published' = [published EXCEPT ![event[w]] = TRUE]
          /\ ReleaseRow(event[w]) /\ UNCHANGED <<attempts, available, before>>
     ELSE UNCHANGED rows
  /\ Idle(w)
  /\ UNCHANGED <<mutex, budget, wire, copies, faults>>

MarkFailed(w) ==
  /\ pc[w] = "failed"
  /\ \/ /\ Owned(w)
        /\ \E d \in RetryDelays(attempts[event[w]]) : Postpone(event[w], d)
        /\ ReleaseRow(event[w]) /\ UNCHANGED <<published, attempts>>
     \/ ~Owned(w) /\ UNCHANGED rows
  /\ Idle(w)
  /\ UNCHANGED <<mutex, budget, wire, copies, faults>>

\* Neither statement reaches the row: the lease is left to run out.
MarkLost(w) ==
  /\ pc[w] \in {"confirmed", "failed"} /\ Fault
  /\ Idle(w)
  /\ UNCHANGED <<rows, mutex, budget, wire, copies>>

Crash(w) ==
  /\ pc[w] # "down" /\ Fault
  /\ pc' = [pc EXCEPT ![w] = "down"]
  /\ event' = [event EXCEPT ![w] = None]
  /\ Unlock(w)
  /\ UNCHANGED <<rows, budget, wire, copies>>

Restart(w) ==
  /\ pc[w] = "down"
  /\ Idle(w)
  /\ UNCHANGED <<rows, mutex, budget, wire, copies, faults>>

\* The readiness probe runs ensureChannel under the same mutex.  A worker that waits for
\* it is overtaken by the probes that queued before it and, as sync.Mutex has it, by one
\* that comes just when the mutex is released.
ProbeStart(w) ==
  /\ pc[w] # "down" /\ holder[w] = "free"
  /\ \/ pc[w] # "waiting" /\ UNCHANGED ahead
     \/ pc[w] = "waiting" /\ ahead[w] > 0 /\ ahead' = [ahead EXCEPT ![w] = @ - 1]
  /\ holder' = [holder EXCEPT ![w] = "probe"]
  /\ hold' = [hold EXCEPT ![w] = ConnectBudget]
  /\ UNCHANGED <<rows, pc, event, budget, wire, copies, faults>>

ProbeEnd(w) ==
  /\ holder[w] = "probe"
  /\ Unlock(w)
  /\ UNCHANGED <<rows, pc, event, budget, wire, copies, faults>>

-----------------------------------------------------------------------------
(* The broker, for the publication of one worker *)

Unanswered(w) == pc[w] = "sent" /\ confirm[w] = "pending" /\ ~returned[w]

\* The message reaches the queue and is acknowledged.
Accept(w) ==
  /\ Unanswered(w)
  /\ copies' = [copies EXCEPT ![event[w]] = @ + 1]
  /\ confirm' = [confirm EXCEPT ![w] = "ack"]
  /\ UNCHANGED <<rows, pc, event, mutex, budget, returned, faults>>

\* No queue is bound: a mandatory message comes back, and is then acknowledged.
Return(w) ==
  /\ Unanswered(w) /\ Fault
  /\ returned' = [returned EXCEPT ![w] = TRUE]
  /\ UNCHANGED <<rows, pc, event, mutex, budget, confirm, copies>>

AckReturned(w) ==
  /\ pc[w] = "sent" /\ returned[w] /\ confirm[w] = "pending"
  /\ confirm' = [confirm EXCEPT ![w] = "ack"]
  /\ UNCHANGED <<rows, pc, event, mutex, budget, returned, copies, faults>>

Nack(w) ==
  /\ Unanswered(w) /\ Fault
  /\ confirm' = [confirm EXCEPT ![w] = "nack"]
  /\ UNCHANGED <<rows, pc, event, mutex, budget, returned, copies>>

-----------------------------------------------------------------------------
(* Time *)

\* Nothing that a budget bounds has used it up.
TimeMayPass ==
  \A w \in Workers :
    /\ holder[w] = "probe" => hold[w] > 0
    /\ pc[w] = "waiting" => holder[w] = "probe"
    /\ pc[w] = "connecting" => hold[w] > 0
    /\ pc[w] \in {"sent", "confirmed", "failed"} => budget[w] > 0

Tick ==
  /\ TimeMayPass
  /\ lease' = [e \in Events |-> Max2(lease[e] - 1, 0)]
  /\ available' = [e \in Events |-> Max2(available[e] - 1, 0)]
  /\ hold' = [w \in Workers |-> Max2(hold[w] - 1, 0)]
  /\ budget' = [w \in Workers |-> Max2(budget[w] - 1, 0)]
  /\ UNCHANGED <<published, attempts, owner, before, pc, event, holder, ahead, wire, copies, faults>>

-----------------------------------------------------------------------------
WorkerStep(w) ==
  \/ Publish(w) \/ Send(w) \/ ConnectLate(w) \/ ReceiveReturn(w) \/ ReceiveConfirm(w)
  \/ MarkPublished(w) \/ MarkFailed(w) \/ Restart(w)

BrokerStep(w) == Accept(w) \/ Return(w) \/ AckReturned(w) \/ Nack(w)

Failure(w) == ClaimLost(w) \/ PublishFails(w) \/ Spin(w) \/ MarkLost(w) \/ Crash(w)

Next ==
  \/ \E w \in Workers :
       \/ Claim(w) \/ WorkerStep(w) \/ BrokerStep(w) \/ Failure(w)
       \/ ProbeStart(w) \/ ProbeEnd(w)
  \/ Tick

Spec == Init /\ [][Next]_vars

\* Workers poll, supervisors restart them, the broker answers, workers that keep
\* connecting succeed in time at last, probes end, and time passes.  Nothing is
\* assumed of failures: MaxFaults bounds them.
Fairness ==
  /\ \A w \in Workers : WF_vars(Claim(w)) /\ WF_vars(WorkerStep(w))
                        /\ WF_vars(BrokerStep(w)) /\ WF_vars(ProbeEnd(w))
  /\ SF_vars(\E w \in Workers : Send(w))
  /\ SF_vars(Tick)

FairSpec == Spec /\ Fairness

-----------------------------------------------------------------------------
(* Correctness *)

\* Type invariant: every column, timer and local of a worker has its type.
TypeOK ==
  /\ published \in [Events -> BOOLEAN]
  /\ attempts \in [Events -> 0..MaxAttempts]
  /\ owner \in [Events -> Workers \cup {None}]
  /\ lease \in [Events -> 0..Lease]
  /\ available \in [Events -> Int]
  /\ before \subseteq Events \X Events
  /\ pc \in [Workers -> Steps]
  /\ event \in [Workers -> Events \cup {None}]
  /\ holder \in [Workers -> {"free", "probe", "worker"}]
  /\ hold \in [Workers -> 0..ConnectBudget]
  /\ ahead \in [Workers -> 0..Overtakes]
  /\ budget \in [Workers -> 0..Max2(PublishBudget, PersistBudget)]
  /\ returned \in [Workers -> BOOLEAN]
  /\ confirm \in [Workers -> {"pending", "ack", "nack"}]
  /\ copies \in [Events -> Nat]
  /\ faults \in 0..MaxFaults

\* published_at is set only for a row whose message the queue has accepted: no
\* ack of a returned message, lost answer or takeover makes an event disappear.
PublishedIsQueued == \A e \in Events : published[e] => copies[e] > 0 /\ Valid(e)

\* The lease outlasts the work it covers: a worker that has claimed a row owns
\* it, unexpired, until it is done, so no two workers publish the same row and
\* neither mark ends in ErrLeaseLost.
LeaseCoversWork ==
  \A w \in Workers : pc[w] \in InFlight => owner[event[w]] = w /\ lease[event[w]] > 0

\* The queue holds a second copy of an event only if something failed: there are
\* at most as many duplicates as failures.
DuplicatesNeedFaults == \A e \in Events : copies[e] <= 1 + faults

\* Every valid event is eventually published, although invalid rows are retried
\* for ever, workers crash and leases are left behind; a worker that spins for ever
\* costs the lease of its row, as long as there is another worker.
EventuallyPublished == \A e \in Events \ Invalid : <>(published[e])
=============================================================================
