------------------------------ MODULE Consumer ------------------------------
(***************************************************************************)
(* The consolidation consumers and the DLQ reprocessor.                    *)
(*                                                                         *)
(* A consumer holds one unacknowledged delivery (prefetch 1).  It checks   *)
(* the message, applies it, and acknowledges it only after the projection  *)
(* has committed.  A message that can never be applied, or that failed     *)
(* MaxAttempts times, is recorded in dead_letter_event and event_pending   *)
(* and rejected into the broker's dead-letter queue, from which nothing    *)
(* consumes.  Every ten seconds the reconciliation worker applies again    *)
(* what the two tables hold.                                               *)
(*                                                                         *)
(* Every statement on the database is a step of its own.  It can fail, or  *)
(* commit and lose its answer; both look the same to the caller, which     *)
(* logs most of these failures and goes on.  A consumer or its connection  *)
(* can break at any point; the broker then delivers again what was not     *)
(* acknowledged, perhaps while the first consumer is still at it.          *)
(*                                                                         *)
(* The projection is abstracted to the content it has applied for each     *)
(* event id.  Equal rows of dead_letter_event are not told apart.          *)
(***************************************************************************)
EXTENDS Integers, FiniteSets

CONSTANTS
  Consumers,
  Reprocessors,  \* the daemon, and operators who run the dlq command
  Ids,           \* event ids
  Contents,      \* what the rest of an event may say
  Messages,      \* what the queue holds at first
  MaxAttempts,
  MaxFaults,     \* bound: failed statements, broken connections, crashes
  None

\* good        passes every check of processDelivery
\* mismatched  the AMQP properties contradict the payload, which is well-formed
\* unreadable  the payload violates the schema or the rules of the domain
Kinds == {"good", "mismatched", "unreadable"}

ASSUME ConfigAssumption ==
  /\ Messages \subseteq [copy: Nat, id: Ids \cup {None}, content: Contents, kind: Kinds]
  /\ \A m \in Messages : m.kind = "good" => m.id # None
  /\ None \notin Ids /\ None \notin Contents
  /\ \A c \in Consumers : c \notin {"queue", "acked", "dlq"}
  /\ MaxAttempts \in Nat \ {0} /\ MaxFaults \in Nat
  /\ None \notin [class: {"retry", "dlq"}, attempts: Nat \ {0}]

VARIABLES
  place,          \* where the broker has each message: a consumer, or one of Places
  inbox,          \* the content applied for each event id
  pending,        \* rows of event_pending
  dead,           \* rows of dead_letter_event
  pc, hand,       \* what each consumer is doing, and with which message
  rpc, items, item,  \* the same for the reprocessor: rows it has selected, and the row at hand
  faults,
  dropped,        \* history: rows deleted from dead_letter_event
  requeued,       \* history: how often an event was given back to the queue
  uncounted,      \* history: how many attempts RecordPending seemed not to count
  unrecorded,     \* history: event ids of which a write of escalate did not commit
  overwritten     \* history: event ids whose class 'dlq' a lost delivery turned into 'retry'

tables     == <<inbox, pending, dead>>
consumers  == <<pc, hand>>
reprocess  == <<rpc, items, item>>
history    == <<dropped, requeued, uncounted, unrecorded, overwritten>>
vars       == <<place, tables, consumers, reprocess, faults, history>>

Places == {"queue", "acked", "dlq"}
Steps  == {"idle", "process", "clear", "ack", "retry", "requeue", "dead", "mark", "reject"}
Row    == [id: Ids \cup {None}, content: Contents, readable: BOOLEAN]

Init ==
  /\ place = [m \in Messages |-> "queue"]
  /\ inbox = [i \in Ids |-> None]
  /\ pending = [i \in Ids |-> None]
  /\ dead = {}
  /\ pc = [c \in Consumers |-> "idle"]
  /\ hand = [c \in Consumers |-> None]
  /\ rpc = [r \in Reprocessors |-> "idle"]
  /\ items = [r \in Reprocessors |-> {}]
  /\ item = [r \in Reprocessors |-> None]
  /\ faults = 0
  /\ dropped = {} /\ requeued = [i \in Ids |-> 0] /\ uncounted = 0
  /\ unrecorded = {} /\ overwritten = {}

-----------------------------------------------------------------------------
(* Database statements *)

Fault == faults < MaxFaults /\ faults' = faults + 1

\* Store.Apply: a new event id, or a redelivery of the same content.
Applicable(i, content) == inbox[i] \in {None, content}

ApplyTo(i, content) == inbox' = [inbox EXCEPT ![i] = content]

\* Mutant of Attempts: the first attempt is not counted.
CountFromZero(i) == IF pending[i] = None THEN 0 ELSE pending[i].attempts + 1

Attempts(i) == IF pending[i] = None THEN 1 ELSE pending[i].attempts + 1

\* RecordPending: the upsert of event_pending.
RecordPending(i, class) ==
  pending' = [pending EXCEPT ![i] = [class |-> class, attempts |-> Attempts(i)]]

ClearPending(i) == pending' = [pending EXCEPT ![i] = None]

\* The row RecordDeadLetter inserts for a message.  Its event_id is the MessageId, for which the
\* publisher takes the id of the event; messages in which the two differ are not modelled.
DeadLetter(m) == [id |-> m.id, content |-> m.content, readable |-> m.kind # "unreadable"]

-----------------------------------------------------------------------------
(* Consumers *)

Go(c, step) == pc' = [pc EXCEPT ![c] = step] /\ UNCHANGED hand

\* The delivery is over: the broker acts on it only if it still waits for c.
Settle(c, to) ==
  /\ place' = IF place[hand[c]] = c THEN [place EXCEPT ![hand[c]] = to] ELSE place
  /\ pc' = [pc EXCEPT ![c] = "idle"]
  /\ hand' = [hand EXCEPT ![c] = None]

Deliver(c, m) ==
  /\ pc[c] = "idle" /\ place[m] = "queue"
  /\ place' = [place EXCEPT ![m] = c]
  /\ pc' = [pc EXCEPT ![c] = "process"]
  /\ hand' = [hand EXCEPT ![c] = m]
  /\ UNCHANGED <<tables, reprocess, faults, history>>

\* validateDeliveryIdentity: the ids of the message and its headers are not those of the event.
Mismatched(m) == m.kind = "mismatched"

\* processDelivery: one of the checks before Apply fails.
Refuse(c) ==
  /\ pc[c] = "process" /\ (hand[c].kind = "unreadable" \/ Mismatched(hand[c]))
  /\ Go(c, "dead")
  /\ UNCHANGED <<place, tables, reprocess, faults, history>>

Apply(c) ==
  /\ pc[c] = "process" /\ hand[c].kind = "good"
  /\ Applicable(hand[c].id, hand[c].content)
  /\ ApplyTo(hand[c].id, hand[c].content)
  /\ Go(c, "clear")
  /\ UNCHANGED <<place, pending, dead, reprocess, faults, history>>

\* ClassifyFailure: a conflict goes to the DLQ at once.
ApplyConflict(c) ==
  /\ pc[c] = "process" /\ hand[c].kind = "good"
  /\ ~Applicable(hand[c].id, hand[c].content)
  /\ Go(c, "dead")
  /\ UNCHANGED <<place, tables, reprocess, faults, history>>

\* Mutant of AfterFailure: a transient failure is taken for success.
TakenForSuccess == "clear"

\* Where a transient failure of Apply leads.
AfterFailure == "retry"

\* The transaction rolled back, or it committed and the answer was lost.
ApplyFails(c) ==
  /\ pc[c] = "process" /\ hand[c].kind = "good" /\ Fault
  /\ \/ UNCHANGED inbox
     \/ Applicable(hand[c].id, hand[c].content) /\ ApplyTo(hand[c].id, hand[c].content)
  /\ Go(c, AfterFailure)
  /\ UNCHANGED <<place, pending, dead, reprocess, history>>

\* Mutant of Exhausted: one attempt more.
Overdrawn(attempts) == attempts > MaxAttempts

Exhausted(attempts) == attempts >= MaxAttempts

\* The broker has given the delivery to another consumer, or is about to.
Lost(c) == place[hand[c]] # c

Marked(i) == pending[i] # None /\ pending[i].class = "dlq"

\* RecordPending with class 'retry'; the upsert replaces the class the row has.
RecordRetryOf(c) ==
  /\ RecordPending(hand[c].id, "retry")
  /\ overwritten' = IF Lost(c) /\ Marked(hand[c].id) THEN overwritten \cup {hand[c].id}
                                                    ELSE overwritten

\* classifyApplyFailure
RecordRetry(c) ==
  /\ pc[c] = "retry"
  /\ RecordRetryOf(c)
  /\ Go(c, IF Exhausted(Attempts(hand[c].id)) THEN "dead" ELSE "requeue")
  /\ UNCHANGED <<place, inbox, dead, reprocess, faults, dropped, requeued, uncounted, unrecorded>>

\* Without a count the message goes back to the queue.
RecordRetryFails(c) ==
  /\ pc[c] = "retry" /\ Fault
  /\ RecordRetryOf(c) \/ UNCHANGED <<pending, overwritten>>
  /\ Go(c, "requeue")
  /\ uncounted' = uncounted + 1
  /\ UNCHANGED <<place, inbox, dead, reprocess, dropped, requeued, unrecorded>>

\* escalate records a pendency only when the event id is known.
AfterDeadLetter(m) == IF m.id = None THEN "reject" ELSE "mark"

\* Mutant of InsertDeadLetter: one dead letter for each event id.
InsertOncePerEvent(m) ==
  dead' = IF \E row \in dead : row.id = m.id THEN dead ELSE dead \cup {DeadLetter(m)}

InsertDeadLetter(m) == dead' = dead \cup {DeadLetter(m)}

RecordDeadLetter(c) ==
  /\ pc[c] = "dead"
  /\ InsertDeadLetter(hand[c])
  /\ Go(c, AfterDeadLetter(hand[c]))
  /\ UNCHANGED <<place, inbox, pending, reprocess, faults, history>>

RecordDeadLetterFails(c) ==
  /\ pc[c] = "dead" /\ Fault
  /\ \/ InsertDeadLetter(hand[c]) /\ UNCHANGED unrecorded
     \/ UNCHANGED dead /\ unrecorded' = unrecorded \cup {hand[c].id}
  /\ Go(c, AfterDeadLetter(hand[c]))
  /\ UNCHANGED <<place, inbox, pending, reprocess, dropped, requeued, uncounted, overwritten>>

RecordDLQ(c) ==
  /\ pc[c] = "mark"
  /\ RecordPending(hand[c].id, "dlq")
  /\ Go(c, "reject")
  /\ UNCHANGED <<place, inbox, dead, reprocess, faults, history>>

RecordDLQFails(c) ==
  /\ pc[c] = "mark" /\ Fault
  /\ \/ RecordPending(hand[c].id, "dlq") /\ UNCHANGED unrecorded
     \/ UNCHANGED pending /\ unrecorded' = unrecorded \cup {hand[c].id}
  /\ Go(c, "reject")
  /\ UNCHANGED <<place, inbox, dead, reprocess, dropped, requeued, uncounted, overwritten>>

Clear(c) ==
  /\ pc[c] = "clear"
  /\ ClearPending(hand[c].id)
  /\ Go(c, "ack")
  /\ UNCHANGED <<place, inbox, dead, reprocess, faults, history>>

ClearFails(c) ==
  /\ pc[c] = "clear" /\ Fault
  /\ ClearPending(hand[c].id) \/ UNCHANGED pending
  /\ Go(c, "ack")
  /\ UNCHANGED <<place, inbox, dead, reprocess, history>>

Ack(c) ==
  /\ pc[c] = "ack"
  /\ Settle(c, "acked")
  /\ UNCHANGED <<tables, reprocess, faults, history>>

Requeue(c) ==
  /\ pc[c] = "requeue"
  /\ Settle(c, "queue")
  /\ requeued' = [requeued EXCEPT ![hand[c].id] = @ + 1]
  /\ UNCHANGED <<tables, reprocess, faults, dropped, uncounted, unrecorded, overwritten>>

Reject(c) ==
  /\ pc[c] = "reject"
  /\ Settle(c, "dlq")
  /\ UNCHANGED <<tables, reprocess, faults, history>>

\* The connection breaks under a delivery; the handler does not notice before
\* it settles.
Disconnect(c) ==
  /\ hand[c] # None /\ place[hand[c]] = c /\ Fault
  /\ place' = [place EXCEPT ![hand[c]] = "queue"]
  /\ UNCHANGED <<tables, consumers, reprocess, history>>

\* The process dies; it is started again.
Crash(c) ==
  /\ pc[c] # "idle" /\ Fault
  /\ Settle(c, "queue")
  /\ UNCHANGED <<tables, reprocess, history>>

-----------------------------------------------------------------------------
(* The reprocessor *)

\* dead_letter_event JOIN event_pending with failure_class 'dlq'.
Isolated(row) == row.id # None /\ Marked(row.id)

\* The rest of the items, or the end of the run.
NextItem(r) ==
  /\ item' = [item EXCEPT ![r] = None]
  /\ rpc' = [rpc EXCEPT ![r] = IF items'[r] = {} THEN "idle" ELSE "apply"]

Select(r) ==
  /\ rpc[r] = "idle"
  /\ items' = [items EXCEPT ![r] = {row \in dead : Isolated(row)}]
  /\ items'[r] # {}
  /\ NextItem(r)
  /\ UNCHANGED <<place, tables, consumers, faults, history>>

\* ApplyPayload parses the payload and applies it.
Reapplies(row) == row.readable /\ Applicable(row.id, row.content)

Reapply(r, row) ==
  /\ rpc[r] = "apply" /\ row \in items[r] /\ Reapplies(row)
  /\ ApplyTo(row.id, row.content)
  /\ items' = [items EXCEPT ![r] = @ \ {row}]
  /\ item' = [item EXCEPT ![r] = row]
  /\ rpc' = [rpc EXCEPT ![r] = "unmark"]
  /\ UNCHANGED <<place, pending, dead, consumers, faults, history>>

\* Mutant of Skip: the loop goes on with a row that failed.
FallThrough(r, row) ==
  /\ items' = [items EXCEPT ![r] = @ \ {row}]
  /\ item' = [item EXCEPT ![r] = row]
  /\ rpc' = [rpc EXCEPT ![r] = "unmark"]

\* Mutant of Skip: the run ends with the first row that fails.
StopAtFailure(r, row) == items' = [items EXCEPT ![r] = {}] /\ NextItem(r)

\* A row that fails is left for the next run.
Skip(r, row) == items' = [items EXCEPT ![r] = @ \ {row}] /\ NextItem(r)

ReapplyRefused(r, row) ==
  /\ rpc[r] = "apply" /\ row \in items[r] /\ ~Reapplies(row)
  /\ Skip(r, row)
  /\ UNCHANGED <<place, tables, consumers, faults, history>>

ReapplyFails(r, row) ==
  /\ rpc[r] = "apply" /\ row \in items[r] /\ Fault
  /\ \/ UNCHANGED inbox
     \/ Reapplies(row) /\ ApplyTo(row.id, row.content)
  /\ Skip(r, row)
  /\ UNCHANGED <<place, pending, dead, consumers, history>>

\* DELETE FROM event_pending WHERE event_id = ... AND failure_class = 'dlq'
Unmark(row) ==
  pending' = IF Isolated(row) THEN [pending EXCEPT ![row.id] = None] ELSE pending

DeletePending(r) ==
  /\ rpc[r] = "unmark"
  /\ Unmark(item[r])
  /\ rpc' = [rpc EXCEPT ![r] = "drop"]
  /\ UNCHANGED <<place, inbox, dead, consumers, items, item, faults, history>>

DeletePendingFails(r) ==
  /\ rpc[r] = "unmark" /\ Fault
  /\ Unmark(item[r]) \/ UNCHANGED pending
  /\ UNCHANGED items
  /\ NextItem(r)
  /\ UNCHANGED <<place, inbox, dead, consumers, history>>

\* DELETE FROM dead_letter_event WHERE event_id = ...: every row of the event.
Drop(row) ==
  LET gone == {other \in dead : other.id = row.id}
  IN  /\ dead' = dead \ gone
      /\ dropped' = dropped \cup gone

DeleteDeadLetter(r) ==
  /\ rpc[r] = "drop"
  /\ Drop(item[r])
  /\ UNCHANGED items
  /\ NextItem(r)
  /\ UNCHANGED <<place, inbox, pending, consumers, faults, requeued, uncounted, unrecorded,
                 overwritten>>

DeleteDeadLetterFails(r) ==
  /\ rpc[r] = "drop" /\ Fault
  /\ Drop(item[r]) \/ UNCHANGED <<dead, dropped>>
  /\ UNCHANGED items
  /\ NextItem(r)
  /\ UNCHANGED <<place, inbox, pending, consumers, requeued, uncounted, unrecorded, overwritten>>

CrashReprocess(r) ==
  /\ rpc[r] # "idle" /\ Fault
  /\ rpc' = [rpc EXCEPT ![r] = "idle"]
  /\ items' = [items EXCEPT ![r] = {}]
  /\ item' = [item EXCEPT ![r] = None]
  /\ UNCHANGED <<place, tables, consumers, history>>

-----------------------------------------------------------------------------
ConsumerStep(c) ==
  \/ \E m \in Messages : Deliver(c, m)
  \/ Refuse(c) \/ Apply(c) \/ ApplyConflict(c) \/ RecordRetry(c)
  \/ RecordDeadLetter(c) \/ RecordDLQ(c) \/ Clear(c)
  \/ Ack(c) \/ Requeue(c) \/ Reject(c)

ConsumerFault(c) ==
  \/ ApplyFails(c) \/ RecordRetryFails(c) \/ RecordDeadLetterFails(c)
  \/ RecordDLQFails(c) \/ ClearFails(c) \/ Disconnect(c) \/ Crash(c)

ReprocessStep(r) ==
  \/ Select(r) \/ DeletePending(r) \/ DeleteDeadLetter(r)
  \/ \E row \in items[r] : Reapply(r, row) \/ ReapplyRefused(r, row)

ReprocessFault(r) ==
  \/ DeletePendingFails(r) \/ DeleteDeadLetterFails(r) \/ CrashReprocess(r)
  \/ \E row \in items[r] : ReapplyFails(r, row)

Next ==
  \/ \E c \in Consumers : ConsumerStep(c) \/ ConsumerFault(c)
  \/ \E r \in Reprocessors : ReprocessStep(r) \/ ReprocessFault(r)

Spec == Init /\ [][Next]_vars

\* Run and runDaemon are loops, and supervisors start their processes again.
FairSpec ==
  /\ Spec
  /\ \A c \in Consumers : WF_vars(ConsumerStep(c))
  /\ \A r \in Reprocessors : WF_vars(ReprocessStep(r))

-----------------------------------------------------------------------------
(* Correctness *)

\* Type invariant: every column and every local has its type.
TypeOK ==
  /\ place \in [Messages -> Places \cup Consumers]
  /\ inbox \in [Ids -> Contents \cup {None}]
  /\ pending \in [Ids -> [class: {"retry", "dlq"}, attempts: Nat \ {0}] \cup {None}]
  /\ dead \subseteq Row /\ dropped \subseteq Row
  /\ pc \in [Consumers -> Steps] /\ hand \in [Consumers -> Messages \cup {None}]
  /\ rpc \in [Reprocessors -> {"idle", "apply", "unmark", "drop"}]
  /\ items \in [Reprocessors -> SUBSET Row] /\ item \in [Reprocessors -> Row \cup {None}]
  /\ faults \in 0..MaxFaults /\ requeued \in [Ids -> Nat]
  /\ uncounted \in Nat /\ unrecorded \cup overwritten \subseteq Ids \cup {None}

\* The ack comes after the commit: what was acknowledged has been applied, with
\* the content of that very message, whoever else worked on the same event.
AckedIsApplied ==
  \A m \in Messages : place[m] = "acked" => m.kind = "good" /\ inbox[m.id] = m.content

Unapplied(i) == inbox[i] = None

InProgress(i) == \E m \in Messages : m.id = i /\ place[m] \in {"queue"} \cup Consumers

\* A good event that was isolated and not applied stays a pendency on record: its
\* dead letter is there for the reprocessor and its row of event_pending for the
\* backlog, whoever else works on the event, with a lost delivery too.  The one way
\* out is a write of escalate that did not commit (see IsolatedIsSelected).
PendencyKnown ==
  \A m \in Messages :
    m.kind = "good" /\ place[m] = "dlq" /\ Unapplied(m.id) =>
      \/ m.id \in unrecorded
      \/ DeadLetter(m) \in dead /\ pending[m.id] # None

\* "deve permanecer como pendência financeira conhecida": an update that was isolated
\* and not applied is one the next run of the reprocessor selects, unless another
\* message of the event is still on its way.
IsolatedIsSelected ==
  \A m \in Messages :
    m.kind = "good" /\ place[m] = "dlq" /\ Unapplied(m.id) =>
      \/ InProgress(m.id)
      \/ DeadLetter(m) \in dead /\ Isolated(DeadLetter(m))

\* Retries are bounded: while an event is not applied, it is given back to the
\* queue less than MaxAttempts times, not counting failures of RecordPending.
RetriesBounded ==
  \A i \in Ids : Unapplied(i) => requeued[i] < MaxAttempts + uncounted

\* No evidence is deleted before its event id has been applied.
DroppedIsApplied == \A row \in dropped : ~Unapplied(row.id)

\* Reprocess deletes a row only when its own payload was applied.
DroppedWasReapplied == \A row \in dropped : row.readable /\ inbox[row.id] = row.content

\* Every good event is applied in the end: by a consumer, or by the reprocessor
\* if it was isolated, unless a write of escalate did not commit or a consumer
\* that had lost its delivery turned the class 'dlq' back into 'retry'.
EventuallyApplied ==
  \A i \in Ids :
    (\E m \in Messages : m.kind = "good" /\ m.id = i)
      ~> (~Unapplied(i) \/ i \in unrecorded \cup overwritten)
=============================================================================
