--------------------------- MODULE ConsumerProofs ---------------------------
(***************************************************************************)
(* Proofs about Consumer, for any number of consumers, reprocessors and    *)
(* messages, any MaxAttempts and any number of faults.                     *)
(***************************************************************************)
EXTENDS Consumer, FiniteSetTheorems, TLAPS

USE DEF InsertDeadLetter

\* A busy consumer has a message in its hand, and a busy reprocessor a row.
Busy ==
  /\ \A c \in Consumers : pc[c] # "idle" => hand[c] \in Messages
  /\ \A r \in Reprocessors : rpc[r] \in {"unmark", "drop"} => item[r] \in Row

TypeInv == TypeOK /\ Busy

-----------------------------------------------------------------------------
(* Type correctness *)

LEMMA MessageType ==
  ASSUME NEW m \in Messages
  PROVE  /\ m.id \in Ids \cup {None} /\ m.content \in Contents /\ m.kind \in Kinds
         /\ m.kind = "good" => m.id \in Ids
         /\ DeadLetter(m) \in Row
BY ConfigAssumption, Zenon DEF DeadLetter, Row

LEMMA RecordPendingType ==
  ASSUME TypeOK, NEW i, NEW class \in {"retry", "dlq"}, RecordPending(i, class)
  PROVE  pending' \in [Ids -> [class: {"retry", "dlq"}, attempts: Nat \ {0}] \cup {None}]
<1>1. \A j \in Ids : Attempts(j) \in Nat \ {0}
  BY DEF TypeOK, Attempts
<1>2. pending' = [j \in Ids |-> IF j = i THEN [class |-> class, attempts |-> Attempts(j)]
                                        ELSE pending[j]]
  BY Zenon DEF TypeOK, RecordPending
<1>3. QED
  BY <1>1, <1>2, Zenon DEF TypeOK

LEMMA ClearPendingType ==
  ASSUME TypeOK, NEW i, ClearPending(i)
  PROVE  pending' \in [Ids -> [class: {"retry", "dlq"}, attempts: Nat \ {0}] \cup {None}]
BY Zenon DEF TypeOK, ClearPending

LEMMA UnmarkType ==
  ASSUME TypeOK, NEW row, Unmark(row)
  PROVE  pending' \in [Ids -> [class: {"retry", "dlq"}, attempts: Nat \ {0}] \cup {None}]
BY Zenon DEF TypeOK, Unmark

LEMMA ApplyToType ==
  ASSUME TypeOK, NEW i, NEW content \in Contents, ApplyTo(i, content)
  PROVE  inbox' \in [Ids -> Contents \cup {None}]
BY Zenon DEF TypeOK, ApplyTo

LEMMA FaultType ==
  ASSUME TypeOK, Fault
  PROVE  faults' \in 0..MaxFaults
BY ConfigAssumption DEF TypeOK, Fault

\* A consumer moves on with the same message.
LEMMA GoType ==
  ASSUME TypeInv, NEW c \in Consumers, NEW s \in Steps, Go(c, s), pc[c] # "idle",
         UNCHANGED <<rpc, items, item>>
  PROVE  /\ pc' \in [Consumers -> Steps] /\ hand' \in [Consumers -> Messages \cup {None}]
         /\ UNCHANGED <<hand, rpc, items, item>>
         /\ Busy'
BY Zenon DEF TypeInv, TypeOK, Go, Busy

LEMMA SettleType ==
  ASSUME TypeInv, NEW c \in Consumers, NEW to \in Places, Settle(c, to),
         UNCHANGED <<rpc, items, item>>
  PROVE  /\ pc' \in [Consumers -> Steps] /\ hand' \in [Consumers -> Messages \cup {None}]
         /\ place' \in [Messages -> Places \cup Consumers]
         /\ Busy'
<1>1. pc' \in [Consumers -> Steps] /\ hand' \in [Consumers -> Messages \cup {None}]
  BY Zenon DEF TypeInv, TypeOK, Settle, Steps
<1>2. place' \in [Messages -> Places \cup Consumers]
  BY Zenon DEF TypeInv, TypeOK, Settle
<1>3. Busy'
  BY Zenon DEF TypeInv, TypeOK, Settle, Busy
<1>4. QED
  BY <1>1, <1>2, <1>3, Zenon

LEMMA InitType == Init => TypeInv
<1> SUFFICES ASSUME Init PROVE TypeInv
  BY Zenon
<1>1. unrecorded \cup overwritten \subseteq Ids \cup {None}
  BY Zenon DEF Init
<1>2. /\ faults \in 0..MaxFaults /\ requeued \in [Ids -> Nat] /\ uncounted \in Nat
      /\ pending \in [Ids -> [class: {"retry", "dlq"}, attempts: Nat \ {0}] \cup {None}]
  BY ConfigAssumption DEF Init
<1>3. QED
  BY <1>1, <1>2, Zenon DEF Init, TypeInv, TypeOK, Busy, Places, Steps

LEMMA ConsumerStepType ==
  ASSUME TypeInv, NEW c \in Consumers, ConsumerStep(c)
  PROVE  TypeInv'
<1>h. pc[c] # "idle" => hand[c] \in Messages
  BY Zenon DEF TypeInv, Busy
<1>1. ASSUME NEW m \in Messages, Deliver(c, m) PROVE TypeInv'
  <2>1. TypeOK'
    BY <1>1, Zenon DEF Deliver, TypeInv, TypeOK, Steps, tables, reprocess, history
  <2>2. Busy'
    BY <1>1, Zenon DEF Deliver, TypeInv, TypeOK, Busy, reprocess
  <2>3. QED
    BY <2>1, <2>2, Zenon DEF TypeInv
<1>2. CASE Refuse(c)
  BY <1>2, GoType, Zenon DEF Refuse, TypeInv, TypeOK, Steps, tables, reprocess, history
<1>3. CASE Apply(c)
  BY <1>3, <1>h, GoType, ApplyToType, MessageType, Zenon DEF Apply, TypeInv, TypeOK, Steps, reprocess, history
<1>4. CASE ApplyConflict(c)
  BY <1>4, GoType, Zenon DEF ApplyConflict, TypeInv, TypeOK, Steps, tables, reprocess, history
<1>5. CASE RecordRetry(c)
  <2>1. overwritten' \subseteq Ids \cup {None}
    BY <1>5, <1>h, MessageType, Zenon DEF RecordRetry, RecordRetryOf, TypeInv, TypeOK
  <2>2. QED
    BY <1>5, <2>1, GoType, RecordPendingType, Zenon
     DEF RecordRetry, RecordRetryOf, TypeInv, TypeOK, Steps, reprocess, history
<1>6. CASE RecordDeadLetter(c)
  BY <1>6, <1>h, GoType, MessageType, Zenon
   DEF RecordDeadLetter, AfterDeadLetter, TypeInv, TypeOK, Steps, reprocess, history
<1>7. CASE RecordDLQ(c)
  BY <1>7, GoType, RecordPendingType, Zenon DEF RecordDLQ, TypeInv, TypeOK, Steps, reprocess, history
<1>8. CASE Clear(c)
  BY <1>8, GoType, ClearPendingType, Zenon DEF Clear, TypeInv, TypeOK, Steps, reprocess, history
<1>9. CASE Ack(c)
  BY <1>9, SettleType, Zenon DEF Ack, TypeInv, TypeOK, Places, tables, reprocess, history
<1>10. CASE Requeue(c)
  <2>1. requeued' \in [Ids -> Nat]
    <3>1. requeued \in [Ids -> Nat]
      BY Zenon DEF TypeInv, TypeOK
    <3>2. requeued' = [i \in Ids |-> IF i = hand[c].id THEN requeued[i] + 1 ELSE requeued[i]]
      BY <1>10, <3>1, Zenon DEF Requeue
    <3>3. QED
      BY <3>1, <3>2
  <2>2. QED
    BY <1>10, <2>1, SettleType, Zenon DEF Requeue, TypeInv, TypeOK, Places, tables, reprocess
<1>11. CASE Reject(c)
  BY <1>11, SettleType, Zenon DEF Reject, TypeInv, TypeOK, Places, tables, reprocess, history
<1>12. QED
  BY <1>1, <1>2, <1>3, <1>4, <1>5, <1>6, <1>7, <1>8, <1>9, <1>10, <1>11, Zenon DEF ConsumerStep

LEMMA ConsumerFaultType ==
  ASSUME TypeInv, NEW c \in Consumers, ConsumerFault(c)
  PROVE  TypeInv'
<1>h. pc[c] # "idle" => hand[c] \in Messages
  BY DEF TypeInv, Busy
<1>1. CASE ApplyFails(c)
  <2>1. inbox' \in [Ids -> Contents \cup {None}]
    BY <1>1, <1>h, ApplyToType, MessageType, Zenon DEF ApplyFails, TypeInv, TypeOK
  <2>2. QED
    BY <1>1, <2>1, FaultType, GoType, Zenon
     DEF ApplyFails, AfterFailure, TypeInv, TypeOK, Steps, reprocess, history
<1>2. CASE RecordRetryFails(c)
  <2>1. pending' \in [Ids -> [class: {"retry", "dlq"}, attempts: Nat \ {0}] \cup {None}]
    BY <1>2, RecordPendingType, Zenon DEF RecordRetryFails, RecordRetryOf, TypeInv, TypeOK
  <2>2. overwritten' \subseteq Ids \cup {None}
    BY <1>2, <1>h, MessageType, Zenon DEF RecordRetryFails, RecordRetryOf, TypeInv, TypeOK
  <2>3. uncounted' \in Nat
    BY <1>2 DEF RecordRetryFails, TypeInv, TypeOK
  <2>4. QED
    BY <1>2, <2>1, <2>2, <2>3, FaultType, GoType, Zenon
     DEF RecordRetryFails, TypeInv, TypeOK, Steps, reprocess
<1>3. CASE RecordDeadLetterFails(c)
  <2>1. dead' \subseteq Row
    BY <1>3, <1>h, MessageType, Zenon DEF RecordDeadLetterFails, TypeInv, TypeOK
  <2>2. unrecorded' \subseteq Ids \cup {None}
    BY <1>3, <1>h, MessageType, Zenon DEF RecordDeadLetterFails, TypeInv, TypeOK
  <2>3. QED
    BY <1>3, <2>1, <2>2, FaultType, GoType, Zenon
     DEF RecordDeadLetterFails, AfterDeadLetter, TypeInv, TypeOK, Steps, reprocess
<1>4. CASE RecordDLQFails(c)
  <2>1. pending' \in [Ids -> [class: {"retry", "dlq"}, attempts: Nat \ {0}] \cup {None}]
    BY <1>4, RecordPendingType, Zenon DEF RecordDLQFails, TypeInv, TypeOK
  <2>2. unrecorded' \subseteq Ids \cup {None}
    BY <1>4, <1>h, MessageType, Zenon DEF RecordDLQFails, TypeInv, TypeOK
  <2>3. QED
    BY <1>4, <2>1, <2>2, FaultType, GoType, Zenon DEF RecordDLQFails, TypeInv, TypeOK, Steps, reprocess
<1>5. CASE ClearFails(c)
  <2>1. pending' \in [Ids -> [class: {"retry", "dlq"}, attempts: Nat \ {0}] \cup {None}]
    BY <1>5, ClearPendingType, Zenon DEF ClearFails, TypeInv, TypeOK
  <2>2. QED
    BY <1>5, <2>1, FaultType, GoType, Zenon DEF ClearFails, TypeInv, TypeOK, Steps, reprocess, history
<1>6. CASE Disconnect(c)
  BY <1>6, FaultType, Zenon DEF Disconnect, TypeInv, TypeOK, Busy, Places, tables, consumers, reprocess, history
<1>7. CASE Crash(c)
  BY <1>7, FaultType, SettleType, Zenon DEF Crash, TypeInv, TypeOK, Places, tables, reprocess, history
<1>8. QED
  BY <1>1, <1>2, <1>3, <1>4, <1>5, <1>6, <1>7, Zenon DEF ConsumerFault

\* What NextItem leaves of the reprocessor has its type.
LEMMA NextItemType ==
  ASSUME TypeInv, NEW r \in Reprocessors, NextItem(r), UNCHANGED consumers,
         items' \in [Reprocessors -> SUBSET Row]
  PROVE  /\ rpc' \in [Reprocessors -> {"idle", "apply", "unmark", "drop"}]
         /\ item' \in [Reprocessors -> Row \cup {None}]
         /\ Busy'
<1>1. /\ rpc' \in [Reprocessors -> {"idle", "apply", "unmark", "drop"}]
      /\ item' \in [Reprocessors -> Row \cup {None}]
  BY Zenon DEF NextItem, TypeInv, TypeOK
<1>2. rpc'[r] \in {"idle", "apply"} /\ \A q \in Reprocessors \ {r} : rpc'[q] = rpc[q] /\ item'[q] = item[q]
  BY Zenon DEF NextItem, TypeInv, TypeOK
<1>3. Busy'
  BY <1>2, Zenon DEF TypeInv, Busy, consumers
<1>4. QED
  BY <1>1, <1>3, Zenon

LEMMA SkipType ==
  ASSUME TypeInv, NEW r \in Reprocessors, NEW row \in items[r], Skip(r, row), UNCHANGED consumers
  PROVE  /\ rpc' \in [Reprocessors -> {"idle", "apply", "unmark", "drop"}]
         /\ items' \in [Reprocessors -> SUBSET Row]
         /\ item' \in [Reprocessors -> Row \cup {None}]
         /\ Busy'
<1>1. items' \in [Reprocessors -> SUBSET Row]
  BY Zenon DEF Skip, TypeInv, TypeOK
<1>2. QED
  BY <1>1, NextItemType, Zenon DEF Skip

LEMMA RowType ==
  ASSUME TypeInv, NEW r \in Reprocessors, NEW row \in items[r]
  PROVE  row \in Row /\ row.id \in Ids \cup {None} /\ row.content \in Contents
BY DEF TypeInv, TypeOK, Row

LEMMA ReprocessStepType ==
  ASSUME TypeInv, NEW r \in Reprocessors, ReprocessStep(r)
  PROVE  TypeInv'
<1>1. CASE Select(r)
  <2>1. items' \in [Reprocessors -> SUBSET Row]
    BY <1>1, Zenon DEF Select, TypeInv, TypeOK
  <2>2. QED
    BY <1>1, <2>1, NextItemType, Zenon DEF Select, TypeInv, TypeOK, tables, consumers, history
<1>2. CASE DeletePending(r)
  <2>1. pending' \in [Ids -> [class: {"retry", "dlq"}, attempts: Nat \ {0}] \cup {None}]
    BY <1>2, UnmarkType, Zenon DEF DeletePending, TypeInv
  <2>2. rpc' \in [Reprocessors -> {"idle", "apply", "unmark", "drop"}]
    BY <1>2, Zenon DEF DeletePending, TypeInv, TypeOK
  <2>3. Busy'
    BY <1>2, Zenon DEF DeletePending, TypeInv, TypeOK, Busy, consumers
  <2>4. QED
    BY <1>2, <2>1, <2>2, <2>3, Zenon DEF DeletePending, TypeInv, TypeOK, consumers, history
<1>3. CASE DeleteDeadLetter(r)
  <2>1. dead' \subseteq Row /\ dropped' \subseteq Row
    BY <1>3, Zenon DEF DeleteDeadLetter, Drop, TypeInv, TypeOK
  <2>2. QED
    BY <1>3, <2>1, NextItemType, Zenon DEF DeleteDeadLetter, TypeInv, TypeOK, consumers
<1>4. ASSUME NEW row \in items[r], Reapply(r, row) PROVE TypeInv'
  <2>1. inbox' \in [Ids -> Contents \cup {None}]
    BY <1>4, ApplyToType, RowType, Zenon DEF Reapply, TypeInv
  <2>2. /\ items' \in [Reprocessors -> SUBSET Row]
        /\ item' \in [Reprocessors -> Row \cup {None}]
        /\ rpc' \in [Reprocessors -> {"idle", "apply", "unmark", "drop"}]
    BY <1>4, RowType, Zenon DEF Reapply, TypeInv, TypeOK
  <2>3. Busy'
    BY <1>4, RowType, Zenon DEF Reapply, TypeInv, TypeOK, Busy, consumers
  <2>4. QED
    BY <1>4, <2>1, <2>2, <2>3, Zenon DEF Reapply, TypeInv, TypeOK, consumers, history
<1>5. ASSUME NEW row \in items[r], ReapplyRefused(r, row) PROVE TypeInv'
  BY <1>5, SkipType, Zenon DEF ReapplyRefused, TypeInv, TypeOK, tables, consumers, history
<1>6. QED
  BY <1>1, <1>2, <1>3, <1>4, <1>5, Zenon DEF ReprocessStep

LEMMA ReprocessFaultType ==
  ASSUME TypeInv, NEW r \in Reprocessors, ReprocessFault(r)
  PROVE  TypeInv'
<1>1. CASE DeletePendingFails(r)
  <2>1. pending' \in [Ids -> [class: {"retry", "dlq"}, attempts: Nat \ {0}] \cup {None}]
    BY <1>1, UnmarkType, Zenon DEF DeletePendingFails, TypeInv, TypeOK
  <2>2. QED
    BY <1>1, <2>1, FaultType, NextItemType, Zenon DEF DeletePendingFails, TypeInv, TypeOK, consumers, history
<1>2. CASE DeleteDeadLetterFails(r)
  <2>1. dead' \subseteq Row /\ dropped' \subseteq Row
    BY <1>2, Zenon DEF DeleteDeadLetterFails, Drop, TypeInv, TypeOK
  <2>2. QED
    BY <1>2, <2>1, FaultType, NextItemType, Zenon DEF DeleteDeadLetterFails, TypeInv, TypeOK, consumers
<1>3. CASE CrashReprocess(r)
  <2>1. /\ items' \in [Reprocessors -> SUBSET Row]
        /\ item' \in [Reprocessors -> Row \cup {None}]
        /\ rpc' \in [Reprocessors -> {"idle", "apply", "unmark", "drop"}]
    BY <1>3, Zenon DEF CrashReprocess, TypeInv, TypeOK
  <2>2. Busy'
    BY <1>3, Zenon DEF CrashReprocess, TypeInv, TypeOK, Busy, consumers
  <2>3. QED
    BY <1>3, <2>1, <2>2, FaultType, Zenon DEF CrashReprocess, TypeInv, TypeOK, tables, consumers, history
<1>4. ASSUME NEW row \in items[r], ReapplyFails(r, row) PROVE TypeInv'
  <2>1. inbox' \in [Ids -> Contents \cup {None}]
    BY <1>4, ApplyToType, RowType, Zenon DEF ReapplyFails, TypeInv, TypeOK
  <2>2. QED
    BY <1>4, <2>1, FaultType, SkipType, SMTT(30) DEF ReapplyFails, TypeInv, TypeOK, consumers, history
<1>5. QED
  BY <1>1, <1>2, <1>3, <1>4, Zenon DEF ReprocessFault

LEMMA NextType == TypeInv /\ [Next]_vars => TypeInv'
<1>1. ASSUME TypeInv, UNCHANGED vars PROVE TypeInv'
  BY <1>1, Zenon DEF vars, TypeInv, TypeOK, Busy, tables, consumers, reprocess, history
<1>2. QED
  BY <1>1, ConsumerStepType, ConsumerFaultType, ReprocessStepType, ReprocessFaultType, Zenon DEF Next

\* Every column of the tables and every local of the consumers and of the
\* reprocessor keeps its type.
THEOREM TypeCorrect == Spec => []TypeOK
<1>1. TypeInv => TypeOK
  BY Zenon DEF TypeInv
<1>2. Spec => []TypeInv
  BY InitType, NextType, PTL DEF Spec
<1>3. QED
  BY <1>1, <1>2, PTL

-----------------------------------------------------------------------------
(* The ack and the deletion come after the commit *)

\* A consumer is past Apply only with a message whose content was applied.
ClearedIsApplied ==
  \A c \in Consumers : pc[c] \in {"clear", "ack"} =>
    hand[c].kind = "good" /\ inbox[hand[c].id] = hand[c].content

\* The inductive invariant behind AckedIsApplied.
AckInv == TypeInv /\ ClearedIsApplied /\ AckedIsApplied

\* The reprocessor works on rows with an event id, and starts to delete only
\* once that event was applied.
ItemIsApplied ==
  \A r \in Reprocessors :
    /\ \A row \in items[r] : row.id # None
    /\ rpc[r] \in {"unmark", "drop"} => item[r].id \in Ids /\ inbox[item[r].id] # None

\* The inductive invariant behind DroppedIsApplied.
DropInv ==
  /\ TypeInv /\ ItemIsApplied
  /\ \A row \in dropped : row.id \in Ids /\ inbox[row.id] # None

\* Applying an event writes nothing over another content.
LEMMA ApplyKeeps ==
  ASSUME TypeInv, NEW i, NEW content \in Contents, Applicable(i, content), ApplyTo(i, content)
  PROVE  /\ \A j \in Ids : inbox[j] # None => inbox'[j] = inbox[j]
         /\ i \in Ids => inbox'[i] = content
BY Zenon DEF TypeInv, TypeOK, Applicable, ApplyTo

\* What was applied stays: no step changes the content of an applied event.
LEMMA InboxKept ==
  ASSUME TypeInv, [Next]_vars
  PROVE  \A j \in Ids : inbox[j] # None => inbox'[j] = inbox[j]
<1> DEFINE Kept == \A j \in Ids : inbox[j] # None => inbox'[j] = inbox[j]
<1> SUFFICES Kept
  BY Zenon
<1>0. UNCHANGED inbox => Kept
  BY Zenon
<1>1. ASSUME NEW c \in Consumers, ConsumerStep(c) \/ ConsumerFault(c) PROVE Kept
  <2>h. pc[c] # "idle" => hand[c] \in Messages
    BY Zenon DEF TypeInv, Busy
  <2>1. CASE Apply(c) \/ ApplyFails(c)
    <3>1. CASE UNCHANGED inbox
      BY <1>0, <3>1, Zenon
    <3>2. hand[c] \in Messages
      BY <2>h, <2>1, Zenon DEF Apply, ApplyFails
    <3>3. CASE /\ Applicable(hand[c].id, hand[c].content)
               /\ ApplyTo(hand[c].id, hand[c].content)
      BY <3>2, <3>3, ApplyKeeps, MessageType, Zenon
    <3>4. QED
      BY <2>1, <3>1, <3>3, Zenon DEF Apply, ApplyFails
  <2> HIDE DEF Kept
  <2>2. ConsumerStep(c) => Apply(c) \/ UNCHANGED inbox
    BY Zenon DEF ConsumerStep, Deliver, Refuse, ApplyConflict, RecordRetry, RecordDeadLetter,
           RecordDLQ, Clear, Ack, Requeue, Reject, tables
  <2>3. ConsumerFault(c) => ApplyFails(c) \/ UNCHANGED inbox
    BY Zenon DEF ConsumerFault, RecordRetryFails, RecordDeadLetterFails, RecordDLQFails,
           ClearFails, Disconnect, Crash, tables
  <2>4. QED
    BY <1>0, <1>1, <2>1, <2>2, <2>3, Zenon
<1>2. ASSUME NEW r \in Reprocessors, ReprocessStep(r) \/ ReprocessFault(r) PROVE Kept
  <2>1. ASSUME NEW row \in items[r], Reapply(r, row) \/ ReapplyFails(r, row) PROVE Kept
    BY <1>0, <2>1, ApplyKeeps, RowType, Zenon DEF Reapply, ReapplyFails, Reapplies
  <2> HIDE DEF Kept
  <2>2. CASE \A row \in items[r] : ~(Reapply(r, row) \/ ReapplyFails(r, row))
    BY <1>0, <1>2, <2>2, Zenon
     DEF ReprocessStep, ReprocessFault, Select, ReapplyRefused, DeletePending, DeleteDeadLetter,
        DeletePendingFails, DeleteDeadLetterFails, CrashReprocess, tables
  <2>3. QED
    BY <2>1, <2>2, Zenon
<1> HIDE DEF Kept
<1>3. CASE UNCHANGED vars
  BY <1>0, <1>3, Zenon DEF vars, tables
<1>4. QED
  BY <1>1, <1>2, <1>3, Zenon DEF Next

LEMMA NextAck == AckInv /\ [Next]_vars => AckInv'
<1> DEFINE Goal == ClearedIsApplied' /\ AckedIsApplied'
<1> SUFFICES ASSUME AckInv, [Next]_vars PROVE Goal
  BY NextType, Zenon DEF AckInv
<1>t. TypeInv /\ ClearedIsApplied /\ AckedIsApplied
  BY Zenon DEF AckInv
<1>k. \A j \in Ids : inbox[j] # None => inbox'[j] = inbox[j]
  BY <1>t, InboxKept, Zenon
<1>m. \A m \in Messages : m.kind = "good" =>
        /\ m.id \in Ids /\ m.content # None
        /\ inbox[m.id] = m.content => inbox'[m.id] = m.content
  BY <1>k, MessageType, ConfigAssumption, Zenon
<1>h. \A c \in Consumers : pc[c] # "idle" => hand[c] \in Messages
  BY <1>t, Zenon DEF TypeInv, Busy
\* Places: only Ack makes a message acknowledged.
<1>1. ASSUME \A m \in Messages : place'[m] = "acked" => place[m] = "acked"
      PROVE  AckedIsApplied'
  BY <1>t, <1>m, <1>1, Zenon DEF AckedIsApplied
\* Steps: only Apply goes to Clear.
<1>2. ASSUME \A c \in Consumers : pc'[c] \in {"clear", "ack"} =>
               hand'[c] = hand[c] /\ pc[c] \in {"clear", "ack"}
      PROVE  ClearedIsApplied'
  BY <1>t, <1>m, <1>h, <1>2 DEF ClearedIsApplied
<1>3. ASSUME NEW c \in Consumers, NEW s \in Steps, Go(c, s), UNCHANGED place,
             s \in {"clear", "ack"} => pc[c] \in {"clear", "ack"}
      PROVE  Goal
  BY <1>t, <1>1, <1>2, <1>3, Zenon DEF Go, TypeInv, TypeOK
<1>4. ASSUME NEW c \in Consumers, NEW to \in {"queue", "dlq"}, Settle(c, to) PROVE Goal
  <2>1. \A m \in Messages : place'[m] = "acked" => place[m] = "acked"
    BY <1>t, <1>4, Zenon DEF Settle, TypeInv, TypeOK
  <2>2. \A d \in Consumers : pc'[d] \in {"clear", "ack"} =>
          hand'[d] = hand[d] /\ pc[d] \in {"clear", "ack"}
    BY <1>t, <1>4, Zenon DEF Settle, TypeInv, TypeOK
  <2>3. QED
    BY <1>1, <1>2, <2>1, <2>2, Zenon
<1>5. ASSUME NEW c \in Consumers, NEW m \in Messages, Deliver(c, m) PROVE Goal
  <2>1. \A n \in Messages : place'[n] = "acked" => place[n] = "acked"
    BY <1>t, <1>5, ConfigAssumption, Zenon DEF Deliver, TypeInv, TypeOK
  <2>2. \A d \in Consumers : pc'[d] \in {"clear", "ack"} =>
          hand'[d] = hand[d] /\ pc[d] \in {"clear", "ack"}
    BY <1>t, <1>5, Zenon DEF Deliver, TypeInv, TypeOK
  <2>3. QED
    BY <1>1, <1>2, <2>1, <2>2, Zenon
<1>6. ASSUME NEW c \in Consumers, Apply(c) PROVE Goal
  <2>1. AckedIsApplied'
    BY <1>1, <1>6, Zenon DEF Apply
  <2>2. hand[c] \in Messages /\ hand[c].kind = "good" /\ inbox'[hand[c].id] = hand[c].content
    BY <1>t, <1>h, <1>6, ApplyKeeps, MessageType, Zenon DEF Apply
  <2>3. /\ \A d \in Consumers : hand'[d] = hand[d]
        /\ \A d \in Consumers : d # c => pc'[d] = pc[d]
    BY <1>t, <1>6, Zenon DEF Apply, Go, TypeInv, TypeOK
  <2>4. ClearedIsApplied'
    BY <1>t, <1>m, <1>h, <2>2, <2>3 DEF ClearedIsApplied
  <2>5. QED
    BY <2>1, <2>4, Zenon
<1>7. ASSUME NEW c \in Consumers, Ack(c) PROVE Goal
  <2>1. /\ \A m \in Messages : place'[m] = "acked" => place[m] = "acked" \/ m = hand[c]
        /\ \A d \in Consumers : pc'[d] \in {"clear", "ack"} =>
             hand'[d] = hand[d] /\ pc[d] \in {"clear", "ack"}
    BY <1>t, <1>7, Zenon DEF Ack, Settle, TypeInv, TypeOK
  <2>2. hand[c] \in Messages /\ hand[c].kind = "good" /\ inbox[hand[c].id] = hand[c].content
    BY <1>t, <1>h, <1>7, Zenon DEF Ack, ClearedIsApplied
  <2>3. AckedIsApplied'
    BY <1>t, <1>m, <2>1, <2>2 DEF AckedIsApplied
  <2>4. QED
    BY <1>2, <2>1, <2>3, Zenon
<1>8. ASSUME NEW c \in Consumers, Disconnect(c) PROVE Goal
  <2>1. \A n \in Messages : place'[n] = "acked" => place[n] = "acked"
    BY <1>t, <1>8, Zenon DEF Disconnect, TypeInv, TypeOK
  <2>2. QED
    BY <1>1, <1>2, <1>8, <2>1, Zenon DEF Disconnect, consumers
<1>u. ASSUME UNCHANGED <<place, pc, hand>> PROVE Goal
  BY <1>1, <1>2, <1>u, Zenon
<1> HIDE DEF Goal
<1>9. ASSUME NEW c \in Consumers, ConsumerStep(c) PROVE Goal
  <2>1. CASE Refuse(c) \/ ApplyConflict(c) \/ RecordRetry(c)
    BY <1>3, <2>1, Zenon DEF Refuse, ApplyConflict, RecordRetry, Steps
  <2>2. CASE RecordDeadLetter(c) \/ RecordDLQ(c) \/ Clear(c)
    BY <1>3, <2>2, Zenon DEF RecordDeadLetter, RecordDLQ, Clear, AfterDeadLetter, Steps
  <2>3. CASE Requeue(c) \/ Reject(c)
    BY <1>4, <2>3, Zenon DEF Requeue, Reject
  <2>4. QED
    BY <1>5, <1>6, <1>7, <1>9, <2>1, <2>2, <2>3, Zenon DEF ConsumerStep
<1>10. ASSUME NEW c \in Consumers, ConsumerFault(c) PROVE Goal
  <2>1. CASE ApplyFails(c) \/ RecordRetryFails(c) \/ RecordDeadLetterFails(c)
    BY <1>3, <2>1, Zenon DEF ApplyFails, AfterFailure, RecordRetryFails, RecordDeadLetterFails, AfterDeadLetter, Steps
  <2>2. CASE RecordDLQFails(c) \/ ClearFails(c)
    BY <1>3, <2>2, Zenon DEF RecordDLQFails, ClearFails, Steps
  <2>3. CASE Crash(c)
    BY <1>4, <2>3, Zenon DEF Crash
  <2>4. QED
    BY <1>8, <1>10, <2>1, <2>2, <2>3, Zenon DEF ConsumerFault
<1>11. ASSUME NEW r \in Reprocessors, ReprocessStep(r) \/ ReprocessFault(r) PROVE Goal
  <2>1. UNCHANGED <<place, pc, hand>>
    BY <1>11, Zenon
     DEF ReprocessStep, ReprocessFault, Select, Reapply, ReapplyRefused, ReapplyFails,
        DeletePending, DeleteDeadLetter, DeletePendingFails, DeleteDeadLetterFails,
        CrashReprocess, consumers
  <2>2. QED
    BY <1>u, <2>1, Zenon
<1>12. CASE UNCHANGED vars
  BY <1>u, <1>12, Zenon DEF vars, consumers
<1>13. QED
  BY <1>9, <1>10, <1>11, <1>12, Zenon DEF Next

LEMMA InitAck == Init => AckInv
<1>1. Init => ClearedIsApplied /\ AckedIsApplied
  BY Zenon DEF Init, ClearedIsApplied, AckedIsApplied
<1>2. QED
  BY <1>1, InitType, Zenon DEF AckInv

\* What a consumer has acknowledged was applied with the content of that very
\* message, whatever fails, breaks or is delivered twice.
THEOREM AckAfterCommit == Spec => []AckedIsApplied
<1>1. AckInv => AckedIsApplied
  BY Zenon DEF AckInv
<1>2. QED
  BY <1>1, InitAck, NextAck, PTL DEF Spec

LEMMA NextDrop == DropInv /\ [Next]_vars => DropInv'
<1> DEFINE Applied == \A row \in dropped : row.id \in Ids /\ inbox[row.id] # None
           Goal == ItemIsApplied' /\ Applied'
<1> SUFFICES ASSUME DropInv, [Next]_vars PROVE Goal
  BY NextType, Zenon DEF DropInv
<1>t. TypeInv /\ ItemIsApplied /\ Applied
  BY Zenon DEF DropInv
<1>k. \A j \in Ids : inbox[j] # None => inbox'[j] # None
  BY <1>t, InboxKept, Zenon
<1>1. ASSUME UNCHANGED dropped PROVE Applied'
  BY <1>t, <1>k, <1>1, Zenon
<1>2. ASSUME NEW r \in Reprocessors,
             \A q \in Reprocessors \ {r} :
               rpc'[q] = rpc[q] /\ items'[q] = items[q] /\ item'[q] = item[q],
             \A row \in items'[r] : row.id # None,
             rpc'[r] \in {"unmark", "drop"} => item'[r].id \in Ids /\ inbox'[item'[r].id] # None
      PROVE  ItemIsApplied'
  BY <1>t, <1>k, <1>2 DEF ItemIsApplied
<1>3. ASSUME UNCHANGED <<rpc, items, item, dropped>> PROVE Goal
  <2>1. ItemIsApplied'
    BY <1>t, <1>k, <1>3, Zenon DEF ItemIsApplied
  <2>2. QED
    BY <1>1, <1>3, <2>1, Zenon
\* A run that goes on to its next row, or ends.
<1>4. ASSUME NEW r \in Reprocessors, NextItem(r),
             \A q \in Reprocessors \ {r} : items'[q] = items[q],
             \A row \in items'[r] : row.id # None
      PROVE  ItemIsApplied'
  <2>1. /\ \A q \in Reprocessors \ {r} : rpc'[q] = rpc[q] /\ item'[q] = item[q]
        /\ rpc'[r] \in {"idle", "apply"}
    BY <1>t, <1>4, SMTT(30) DEF NextItem, TypeInv, TypeOK
  <2>2. QED
    BY <1>2, <1>4, <2>1, Zenon
<1>5. ASSUME NEW r \in Reprocessors, Select(r) PROVE Goal
  <2>1. /\ \A q \in Reprocessors \ {r} : items'[q] = items[q]
        /\ \A row \in items'[r] : row.id # None
    BY <1>t, <1>5, Zenon DEF Select, Isolated, TypeInv, TypeOK
  <2>2. QED
    BY <1>1, <1>4, <1>5, <2>1, Zenon DEF Select, history
<1>6. ASSUME NEW r \in Reprocessors, NEW row \in items[r], Reapply(r, row) PROVE Goal
  <2>1. row.id \in Ids /\ inbox'[row.id] # None
    <3>1. row.id \in Ids /\ row.content \in Contents
      BY <1>t, RowType, Zenon DEF ItemIsApplied
    <3>2. QED
      BY <1>t, <1>6, <3>1, ApplyKeeps, ConfigAssumption DEF Reapply, Reapplies
  <2>2. /\ \A q \in Reprocessors \ {r} :
             rpc'[q] = rpc[q] /\ items'[q] = items[q] /\ item'[q] = item[q]
        /\ items'[r] \subseteq items[r] /\ item'[r] = row
    BY <1>t, <1>6, Zenon DEF Reapply, TypeInv, TypeOK
  <2>3. ItemIsApplied'
    BY <1>t, <1>2, <2>1, <2>2, Zenon DEF ItemIsApplied
  <2>4. QED
    BY <1>1, <1>6, <2>3, Zenon DEF Reapply, history
<1>7. ASSUME NEW r \in Reprocessors, NEW row \in items[r], Skip(r, row), UNCHANGED dropped
      PROVE  Goal
  <2>1. /\ \A q \in Reprocessors \ {r} : items'[q] = items[q]
        /\ items'[r] \subseteq items[r]
    BY <1>t, <1>7, Zenon DEF Skip, TypeInv, TypeOK
  <2>2. QED
    BY <1>t, <1>1, <1>4, <1>7, <2>1 DEF Skip, ItemIsApplied
<1>8. ASSUME NEW r \in Reprocessors, DeletePending(r) PROVE Goal
  <2>1. /\ \A q \in Reprocessors \ {r} : rpc'[q] = rpc[q]
        /\ rpc[r] = "unmark" /\ UNCHANGED <<items, item, dropped>>
    BY <1>t, <1>8, Zenon DEF DeletePending, TypeInv, TypeOK, history
  <2>2. ItemIsApplied'
    BY <1>t, <1>k, <1>2, <2>1, Zenon DEF ItemIsApplied
  <2>3. QED
    BY <1>1, <2>1, <2>2, Zenon
<1>9. ASSUME NEW r \in Reprocessors, DeletePendingFails(r) PROVE Goal
  BY <1>t, <1>1, <1>4, <1>9, Zenon DEF DeletePendingFails, ItemIsApplied, history
<1>10. ASSUME NEW r \in Reprocessors, DeleteDeadLetter(r) \/ DeleteDeadLetterFails(r) PROVE Goal
  <2>1. rpc[r] = "drop" /\ NextItem(r) /\ UNCHANGED items
    BY <1>10, Zenon DEF DeleteDeadLetter, DeleteDeadLetterFails
  <2>2. ItemIsApplied'
    BY <1>t, <1>4, <2>1, Zenon DEF ItemIsApplied
  <2>3. \A row \in dropped' : row \in dropped \/ row.id = item[r].id
    BY <1>10, Zenon DEF DeleteDeadLetter, DeleteDeadLetterFails, Drop
  <2>4. item[r].id \in Ids /\ inbox'[item[r].id] # None
    BY <1>t, <1>k, <2>1, Zenon DEF ItemIsApplied
  <2>5. Applied'
    BY <1>t, <1>k, <2>3, <2>4, Zenon
  <2>6. QED
    BY <2>2, <2>5, Zenon
<1>11. ASSUME NEW r \in Reprocessors, CrashReprocess(r) PROVE Goal
  <2>1. /\ \A q \in Reprocessors \ {r} :
             rpc'[q] = rpc[q] /\ items'[q] = items[q] /\ item'[q] = item[q]
        /\ items'[r] = {} /\ rpc'[r] = "idle" /\ UNCHANGED dropped
    BY <1>t, <1>11, Zenon DEF CrashReprocess, TypeInv, TypeOK, history
  <2>2. QED
    BY <1>1, <1>2, <2>1, Zenon
<1> HIDE DEF Goal
<1>12. ASSUME NEW r \in Reprocessors, ReprocessStep(r) \/ ReprocessFault(r) PROVE Goal
  <2>1. ASSUME NEW row \in items[r], ReapplyRefused(r, row) \/ ReapplyFails(r, row) PROVE Goal
    BY <1>7, <2>1, Zenon DEF ReapplyRefused, ReapplyFails, history
  <2>2. QED
    BY <1>5, <1>6, <1>8, <1>9, <1>10, <1>11, <1>12, <2>1 DEF ReprocessStep, ReprocessFault
<1>13. ASSUME NEW c \in Consumers, ConsumerStep(c) \/ ConsumerFault(c) PROVE Goal
  <2>1. ConsumerStep(c) => UNCHANGED <<rpc, items, item, dropped>>
    BY Zenon DEF ConsumerStep, Deliver, Refuse, Apply, ApplyConflict, RecordRetry,
           RecordDeadLetter, RecordDLQ, Clear, Ack, Requeue, Reject, reprocess, history
  <2>2. ConsumerFault(c) => UNCHANGED <<rpc, items, item, dropped>>
    BY Zenon DEF ConsumerFault, ApplyFails, RecordRetryFails, RecordDeadLetterFails,
           RecordDLQFails, ClearFails, Disconnect, Crash, reprocess, history
  <2>3. QED
    BY <1>3, <1>13, <2>1, <2>2, Zenon
<1>14. CASE UNCHANGED vars
  BY <1>3, <1>14, Zenon DEF vars, reprocess, history
<1>15. QED
  BY <1>12, <1>13, <1>14, Zenon DEF Next

LEMMA InitDrop == Init => DropInv
<1>1. Init => ItemIsApplied /\ dropped = {}
  BY Zenon DEF Init, ItemIsApplied
<1>2. QED
  BY <1>1, InitType, Zenon DEF DropInv

\* The reprocessor deletes no dead letter of an event that was not applied, also
\* when its own statements fail and when consumers work on the same event.
THEOREM DeletedAfterCommit == Spec => []DroppedIsApplied
<1>1. DropInv => DroppedIsApplied
  BY Zenon DEF DropInv, DroppedIsApplied, Unapplied
<1>2. QED
  BY <1>1, InitDrop, NextDrop, PTL DEF Spec
-----------------------------------------------------------------------------
(* Retries are bounded *)

\* The consumers about to give event i back to the queue.
Waiting(i) == {c \in Consumers : pc[c] = "requeue" /\ hand[c].id = i}

\* How many of the attempts recorded for event i may have led to a requeue.
Ceiling(i) ==
  LET n == IF pending[i] = None THEN 0 ELSE pending[i].attempts
  IN  IF n < MaxAttempts THEN n ELSE MaxAttempts - 1

\* The inductive invariant behind RetriesBounded.
RetryInv ==
  \A i \in Ids :
    /\ IsFiniteSet(Waiting(i))
    /\ Unapplied(i) => requeued[i] + Cardinality(Waiting(i)) <= Ceiling(i) + uncounted

LEMMA CeilingType ==
  ASSUME TypeOK, NEW i \in Ids
  PROVE  Ceiling(i) \in Nat /\ Ceiling(i) < MaxAttempts
<1>1. pending[i] = None \/ pending[i].attempts \in Nat
  BY Zenon DEF TypeOK
<1>2. QED
  BY <1>1, ConfigAssumption DEF Ceiling

\* An attempt recorded for event j raises its ceiling, unless it is exhausted,
\* and lowers nothing.
LEMMA CeilingGrows ==
  ASSUME TypeOK, NEW j, NEW class \in {"retry", "dlq"}, RecordPending(j, class), NEW i \in Ids
  PROVE  /\ Ceiling(i)' \in Nat /\ Ceiling(i)' >= Ceiling(i)
         /\ i = j /\ ~Exhausted(Attempts(j)) => Ceiling(i)' = Ceiling(i) + 1
<1>1. pending[i] = None \/ pending[i].attempts \in Nat \ {0}
  BY Zenon DEF TypeOK
<1>2. pending'[i] = IF i = j THEN [class |-> class, attempts |-> Attempts(j)] ELSE pending[i]
  BY Zenon DEF TypeOK, RecordPending
<1>3. Attempts(i) = IF pending[i] = None THEN 1 ELSE pending[i].attempts + 1
  BY Zenon DEF Attempts
<1>4. CASE i # j
  <2>1. pending'[i] = pending[i]
    BY <1>2, <1>4, Zenon
  <2>2. QED
    BY <1>4, <2>1, CeilingType DEF Ceiling
<1>5. CASE i = j
  <2>1. pending'[i] # None
    BY <1>1, <1>2, <1>3, <1>5, ConfigAssumption
  <2>2. pending'[i].attempts = Attempts(i)
    BY <1>2, <1>5
  <2>3. QED
    BY <1>1, <1>3, <1>5, <2>1, <2>2, ConfigAssumption DEF Ceiling, Exhausted
<1>6. QED
  BY <1>4, <1>5, Zenon

Bounded(i) ==
  /\ IsFiniteSet(Waiting(i))
  /\ Unapplied(i) => requeued[i] + Cardinality(Waiting(i)) <= Ceiling(i) + uncounted

\* A step that gives nobody a reason to requeue event i.
LEMMA RetryFrame ==
  ASSUME TypeInv, TypeInv', NEW i \in Ids, Bounded(i), Unapplied(i)' => Unapplied(i),
         Waiting(i)' \subseteq Waiting(i), requeued'[i] = requeued[i], uncounted' >= uncounted,
         Unapplied(i)' => Ceiling(i)' >= Ceiling(i)
  PROVE  Bounded(i)'
<1>1. IsFiniteSet(Waiting(i)') /\ Cardinality(Waiting(i)') <= Cardinality(Waiting(i))
  BY FS_Subset, Zenon DEF Bounded
<1>2. Cardinality(Waiting(i)') \in Nat /\ Cardinality(Waiting(i)) \in Nat
  BY <1>1, FS_CardinalityType, Zenon DEF Bounded
<1>3. requeued[i] \in Nat /\ uncounted \in Nat /\ uncounted' \in Nat
  BY Zenon DEF TypeInv, TypeOK
<1>4. Ceiling(i) \in Nat /\ Ceiling(i)' \in Nat
  <2>1. TypeOK /\ TypeOK'
    BY Zenon DEF TypeInv
  <2>2. \A j \in Ids : Ceiling(j) \in Nat
    BY <2>1, CeilingType, Zenon
  <2>3. pending'[i] = None \/ pending'[i].attempts \in Nat
    BY <2>1, Zenon DEF TypeOK
  <2>4. Ceiling(i)' \in Nat
    BY <2>3, ConfigAssumption DEF Ceiling
  <2>5. QED
    BY <2>2, <2>4, Zenon
<1>5. QED
  BY <1>1, <1>2, <1>3, <1>4 DEF Bounded

LEMMA NextRetry ==
  ASSUME TypeInv, TypeInv', ClearedIsApplied, ItemIsApplied, RetryInv, [Next]_vars,
         NEW i \in Ids
  PROVE  Bounded(i)'
<1>t. Bounded(i) /\ uncounted \in Nat /\ requeued[i] \in Nat /\ TypeOK
  BY Zenon DEF RetryInv, Bounded, TypeInv, TypeOK
<1>k. Unapplied(i)' => Unapplied(i)
  BY InboxKept, Zenon DEF Unapplied
<1>p. pending' = pending => Ceiling(i)' >= Ceiling(i)
  <2>1. Ceiling(i) \in Nat
    BY <1>t, CeilingType, Zenon
  <2>2. pending' = pending => Ceiling(i)' = Ceiling(i)
    BY Zenon DEF Ceiling
  <2>3. QED
    BY <2>1, <2>2
<1>w. ASSUME NEW c \in Consumers, pc'[c] # "requeue",
             \A d \in Consumers \ {c} : pc'[d] = pc[d] /\ hand'[d] = hand[d]
      PROVE  Waiting(i)' \subseteq Waiting(i)
  BY <1>w, Zenon DEF Waiting
<1>1. ASSUME NEW c \in Consumers,
             \/ \E m \in Messages : Deliver(c, m)
             \/ Refuse(c) \/ Apply(c) \/ ApplyConflict(c) \/ ApplyFails(c)
             \/ RecordDeadLetter(c) \/ RecordDeadLetterFails(c)
             \/ Ack(c) \/ Reject(c) \/ Crash(c)
      PROVE  Bounded(i)'
  <2>1. /\ UNCHANGED <<pending, requeued, uncounted>> /\ pc'[c] # "requeue"
        /\ \A d \in Consumers \ {c} : pc'[d] = pc[d] /\ hand'[d] = hand[d]
    BY <1>1 DEF Deliver, Refuse, Apply, ApplyConflict, ApplyFails, AfterFailure, RecordDeadLetter,
                RecordDeadLetterFails, AfterDeadLetter, Ack, Reject, Crash, Go, Settle, tables, history,
                TypeInv, TypeOK
  <2>2. QED
    BY <1>t, <1>k, <1>p, <1>w, <2>1, RetryFrame
<1>2. ASSUME NEW c \in Consumers, RecordDLQ(c) \/ RecordDLQFails(c) \/ Clear(c) \/ ClearFails(c)
      PROVE  Bounded(i)'
  <2>1. /\ UNCHANGED <<requeued, uncounted>> /\ pc'[c] # "requeue"
        /\ \A d \in Consumers \ {c} : pc'[d] = pc[d] /\ hand'[d] = hand[d]
    BY <1>2, Zenon DEF RecordDLQ, RecordDLQFails, Clear, ClearFails, Go, history, TypeInv, TypeOK
  <2>2. RecordDLQ(c) \/ RecordDLQFails(c) => Ceiling(i)' >= Ceiling(i)
    BY <1>t, <1>p, CeilingGrows, Zenon DEF RecordDLQ, RecordDLQFails
  <2>3. ASSUME Clear(c) \/ ClearFails(c), Unapplied(i)' PROVE Ceiling(i)' >= Ceiling(i)
    <3>1. hand[c] \in Messages /\ inbox[hand[c].id] = hand[c].content /\ hand[c].kind = "good"
      BY <2>3, Zenon DEF Clear, ClearFails, ClearedIsApplied, TypeInv, Busy
    <3>2. i # hand[c].id
      BY <1>k, <2>3, <3>1, MessageType, ConfigAssumption, Zenon DEF Unapplied
    <3>3. pending'[i] = pending[i]
      BY <2>3, <3>2, Zenon DEF Clear, ClearFails, ClearPending, TypeInv, TypeOK
    <3>4. Ceiling(i) \in Nat /\ Ceiling(i)' = Ceiling(i)
      BY <1>t, <3>3, CeilingType, Zenon DEF Ceiling
    <3>5. QED
      BY <3>4
  <2>4. QED
    BY <1>2, <1>t, <1>k, <1>w, <2>1, <2>2, <2>3, RetryFrame
<1>3. ASSUME NEW c \in Consumers, Disconnect(c) PROVE Bounded(i)'
  <2>1. UNCHANGED <<pending, requeued, uncounted, pc, hand>>
    BY <1>3, Zenon DEF Disconnect, tables, consumers, history
  <2>2. Waiting(i)' = Waiting(i)
    BY <2>1, Zenon DEF Waiting
  <2>3. QED
    BY <1>t, <1>k, <1>p, <2>1, <2>2, RetryFrame
<1>4. ASSUME NEW c \in Consumers, RecordRetry(c) \/ RecordRetryFails(c) PROVE Bounded(i)'
  <2>1. /\ \A d \in Consumers \ {c} : pc'[d] = pc[d] /\ hand'[d] = hand[d]
        /\ hand'[c] = hand[c] /\ UNCHANGED requeued /\ uncounted' \in Nat /\ uncounted' >= uncounted
    BY <1>4, <1>t DEF RecordRetry, RecordRetryFails, Go, TypeInv, TypeOK
  <2>2. Ceiling(i)' \in Nat /\ Ceiling(i) \in Nat /\ Ceiling(i)' >= Ceiling(i)
    <3>1. Ceiling(i) \in Nat /\ (pending' = pending => Ceiling(i)' = Ceiling(i))
      BY <1>t, CeilingType, Zenon DEF Ceiling
    <3>2. CASE RecordPending(hand[c].id, "retry")
      BY <1>t, <3>1, <3>2, CeilingGrows, Zenon
    <3>3. QED
      BY <1>4, <3>1, <3>2 DEF RecordRetry, RecordRetryFails, RecordRetryOf
  <2>3. CASE pc'[c] # "requeue" \/ hand[c].id # i
    <3>1. Waiting(i)' \subseteq Waiting(i)
      BY <2>1, <2>3, Zenon DEF Waiting
    <3>2. QED
      BY <1>t, <1>k, <2>1, <2>2, <3>1, RetryFrame, Zenon
  <2>4. CASE pc'[c] = "requeue" /\ hand[c].id = i
    <3>1. Ceiling(i)' + uncounted' >= Ceiling(i) + uncounted + 1
      <4>1. CASE RecordRetry(c)
        <5>1. ~Exhausted(Attempts(i)) /\ RecordPending(i, "retry") /\ uncounted' = uncounted
          BY <2>4, <4>1, Zenon DEF RecordRetry, RecordRetryOf, Go, TypeInv, TypeOK
        <5>2. QED
          BY <1>t, <2>2, <5>1, CeilingGrows
      <4>2. CASE RecordRetryFails(c)
        BY <1>t, <2>2, <4>2 DEF RecordRetryFails
      <4>3. QED
        BY <1>4, <4>1, <4>2, Zenon
    <3>2. Waiting(i)' \subseteq Waiting(i) \cup {c}
      BY <2>1, Zenon DEF Waiting
    <3>3. /\ IsFiniteSet(Waiting(i) \cup {c}) /\ Cardinality(Waiting(i)) \in Nat
          /\ Cardinality(Waiting(i) \cup {c}) <= Cardinality(Waiting(i)) + 1
      <4>1. IsFiniteSet(Waiting(i))
        BY <1>t, Zenon DEF Bounded
      <4>2. Cardinality(Waiting(i)) \in Nat
        BY <4>1, FS_CardinalityType, Zenon
      <4>3. /\ IsFiniteSet(Waiting(i) \cup {c})
            /\ \/ Cardinality(Waiting(i) \cup {c}) = Cardinality(Waiting(i))
               \/ Cardinality(Waiting(i) \cup {c}) = Cardinality(Waiting(i)) + 1
        BY <4>1, FS_AddElement, Zenon
      <4>4. QED
        BY <4>2, <4>3
    <3>4. /\ IsFiniteSet(Waiting(i)') /\ Cardinality(Waiting(i)') \in Nat
          /\ Cardinality(Waiting(i)') <= Cardinality(Waiting(i) \cup {c})
          /\ Cardinality(Waiting(i) \cup {c}) \in Nat
      BY <3>2, <3>3, FS_Subset, FS_CardinalityType, Zenon
    <3>5. QED
      BY <1>t, <1>k, <2>1, <2>2, <3>1, <3>3, <3>4 DEF Bounded
  <2>5. QED
    BY <2>3, <2>4, Zenon
<1>5. ASSUME NEW c \in Consumers, Requeue(c) PROVE Bounded(i)'
  <2>1. /\ \A d \in Consumers \ {c} : pc'[d] = pc[d] /\ hand'[d] = hand[d]
        /\ pc[c] = "requeue" /\ pc'[c] = "idle" /\ UNCHANGED <<pending, uncounted>>
        /\ requeued'[i] = IF i = hand[c].id THEN requeued[i] + 1 ELSE requeued[i]
    BY <1>5 DEF Requeue, Settle, tables, TypeInv, TypeOK
  <2>2. CASE i # hand[c].id
    BY <1>t, <1>k, <1>p, <1>w, <2>1, <2>2, RetryFrame
  <2>3. CASE i = hand[c].id
    <3>1. Waiting(i)' = Waiting(i) \ {c} /\ c \in Waiting(i)
      BY <2>1, <2>3, Zenon DEF Waiting
    <3>2. /\ IsFiniteSet(Waiting(i)') /\ Cardinality(Waiting(i)') = Cardinality(Waiting(i)) - 1
          /\ Cardinality(Waiting(i)) \in Nat
      BY <1>t, <3>1, FS_RemoveElement, FS_CardinalityType DEF Bounded
    <3>3. Ceiling(i)' = Ceiling(i) /\ Ceiling(i) \in Nat
      BY <1>t, <2>1, CeilingType, Zenon DEF Ceiling
    <3>4. QED
      BY <1>t, <1>k, <2>1, <2>3, <3>2, <3>3 DEF Bounded
  <2>4. QED
    BY <2>2, <2>3, Zenon
<1>6. ASSUME NEW r \in Reprocessors, ReprocessStep(r) \/ ReprocessFault(r) PROVE Bounded(i)'
  <2>1. UNCHANGED <<pc, hand, requeued, uncounted>>
    BY <1>6, Zenon DEF ReprocessStep, ReprocessFault, Select, DeletePending, DeleteDeadLetter, Reapply,
                ReapplyRefused, DeletePendingFails, DeleteDeadLetterFails, CrashReprocess, ReapplyFails,
                consumers, history
  <2>2. \/ UNCHANGED pending
        \/ rpc[r] = "unmark" /\ Unmark(item[r])
    BY <1>6, Zenon DEF ReprocessStep, ReprocessFault, Select, DeletePending, DeleteDeadLetter, Reapply,
                ReapplyRefused, DeletePendingFails, DeleteDeadLetterFails, CrashReprocess, ReapplyFails,
                tables
  <2>3. ASSUME Unapplied(i)' PROVE Ceiling(i)' >= Ceiling(i)
    <3>1. rpc[r] = "unmark" => item[r].id # i
      BY <1>k, <2>3, Zenon DEF ItemIsApplied, Unapplied
    <3>2. pending'[i] = pending[i]
      BY <2>2, <3>1 DEF Unmark, TypeInv, TypeOK
    <3>3. Ceiling(i) \in Nat /\ Ceiling(i)' = Ceiling(i)
      BY <1>t, <3>2, CeilingType DEF Ceiling
    <3>4. QED
      BY <3>3
  <2>4. Waiting(i)' = Waiting(i)
    BY <2>1, Zenon DEF Waiting
  <2>5. QED
    BY <1>t, <1>k, <2>1, <2>3, <2>4, RetryFrame
<1>7. CASE UNCHANGED vars
  <2>1. UNCHANGED <<pc, hand, pending, requeued, uncounted>>
    BY <1>7, Zenon DEF vars, tables, consumers, history
  <2>2. Waiting(i)' = Waiting(i)
    BY <2>1, Zenon DEF Waiting
  <2>3. QED
    BY <1>t, <1>k, <1>p, <2>1, <2>2, RetryFrame
<1>8. QED
  BY <1>1, <1>2, <1>3, <1>4, <1>5, <1>6, <1>7, Zenon DEF Next, ConsumerStep, ConsumerFault

\* While an event is not applied it is requeued less than MaxAttempts times,
\* not counting attempts that RecordPending failed to count, for any number of
\* consumers that have copies of it.
THEOREM RetriesStop == Spec => []RetriesBounded
<1>1. Spec => []AckInv
  BY InitAck, NextAck, PTL DEF Spec
<1>2. Spec => []DropInv
  BY InitDrop, NextDrop, PTL DEF Spec
<1>3. Init => RetryInv
  <2> SUFFICES ASSUME Init, NEW i \in Ids
               PROVE  /\ IsFiniteSet(Waiting(i))
                      /\ requeued[i] + Cardinality(Waiting(i)) <= Ceiling(i) + uncounted
    BY Zenon DEF RetryInv
  <2>1. Waiting(i) = {} /\ requeued[i] = 0 /\ Ceiling(i) = 0 /\ uncounted = 0
    BY ConfigAssumption DEF Init, Waiting, Ceiling
  <2>2. QED
    BY <2>1, FS_EmptySet
<1>4. AckInv /\ AckInv' /\ DropInv /\ RetryInv /\ [Next]_vars => RetryInv'
  <2> SUFFICES ASSUME AckInv, AckInv', DropInv, RetryInv, [Next]_vars, NEW i \in Ids
               PROVE  Bounded(i)'
    BY Zenon DEF RetryInv, Bounded
  <2>1. TypeInv /\ TypeInv' /\ ClearedIsApplied /\ ItemIsApplied
    BY Zenon DEF AckInv, DropInv
  <2>2. QED
    BY <2>1, NextRetry, Zenon
<1>5. AckInv /\ RetryInv => RetriesBounded
  <2> SUFFICES ASSUME AckInv, RetryInv, NEW i \in Ids, Unapplied(i)
               PROVE  requeued[i] < MaxAttempts + uncounted
    BY Zenon DEF RetriesBounded
  <2>1. TypeOK /\ requeued[i] \in Nat /\ uncounted \in Nat
    BY Zenon DEF AckInv, TypeInv, TypeOK
  <2>2. Cardinality(Waiting(i)) \in Nat
    BY FS_CardinalityType, Zenon DEF RetryInv
  <2>3. Ceiling(i) \in Nat /\ Ceiling(i) < MaxAttempts
    BY <2>1, CeilingType, Zenon
  <2>4. QED
    BY <2>1, <2>2, <2>3, ConfigAssumption DEF RetryInv
<1>6. QED
  BY <1>1, <1>2, <1>3, <1>4, <1>5, PTL DEF Spec
-----------------------------------------------------------------------------
(* Isolated events stay known *)

\* The event has its evidence, and it counts as pending.
Recorded(m) == DeadLetter(m) \in dead /\ pending[m.id] # None

Rejecting(m) == \E c \in Consumers : hand[c] = m /\ pc[c] = "reject"
Marking(m)   == \E c \in Consumers : hand[c] = m /\ pc[c] = "mark"

\* What escalate has written for a message it has not given up on yet.
Evident(m) ==
  m.kind = "good" /\ Unapplied(m.id) /\ m.id \notin unrecorded =>
    /\ Marking(m) => DeadLetter(m) \in dead
    /\ place[m] = "dlq" \/ Rejecting(m) => Recorded(m)

\* The inductive invariant behind PendencyKnown.
PendencyInv == \A m \in Messages : Evident(m)

\* An upsert leaves a row.
LEMMA RecordPendingKeeps ==
  ASSUME TypeInv, NEW i, NEW class \in {"retry", "dlq"}, RecordPending(i, class)
  PROVE  \A j \in Ids : pending[j] # None \/ j = i => pending'[j] # None
<1>1. \A j \in Ids : Attempts(j) \in Nat \ {0}
  BY DEF TypeInv, TypeOK, Attempts
<1>2. \A j \in Ids : pending'[j] = IF j = i THEN [class |-> class, attempts |-> Attempts(j)]
                                          ELSE pending[j]
  BY Zenon DEF TypeInv, TypeOK, RecordPending
<1>3. \A j \in Ids : [class |-> class, attempts |-> Attempts(j)] # None
  <2>1. ASSUME NEW n \in Nat \ {0} PROVE [class |-> class, attempts |-> n] # None
    <3>1. [class |-> class, attempts |-> n] \in [class: {"retry", "dlq"}, attempts: Nat \ {0}]
      OBVIOUS
    <3>2. QED
      BY <3>1, ConfigAssumption, Zenon
  <2>2. QED
    BY <1>1, <2>1, Zenon
<1>4. QED
  BY <1>2, <1>3, Zenon

\* Until an event is applied, nobody takes a record of it away: neither another
\* consumer, with or without its delivery, nor a reprocessor.
LEMMA RecordsStay ==
  ASSUME TypeInv, ClearedIsApplied, ItemIsApplied, [Next]_vars, NEW i \in Ids, Unapplied(i)
  PROVE  /\ pending[i] # None => pending'[i] # None
         /\ \A row \in dead : row.id = i => row \in dead'
         /\ unrecorded \subseteq unrecorded'
<1> USE DEF tables, history, consumers
<1>d. inbox[i] = None
  BY Zenon DEF Unapplied
<1> DEFINE P == pending[i] # None => pending'[i] # None
           D == \A row \in dead : row.id = i => row \in dead'
           U == unrecorded \subseteq unrecorded'
<1>0. (UNCHANGED pending => P) /\ (UNCHANGED dead => D) /\ (UNCHANGED unrecorded => U)
  BY Zenon
<1>1. ASSUME NEW c \in Consumers, ConsumerStep(c) \/ ConsumerFault(c) PROVE P /\ D /\ U
  <2>1. D
    BY <1>1, Zenon
    DEF ConsumerStep, ConsumerFault, Deliver, Refuse, Apply, ApplyConflict, RecordRetry,
        RecordDeadLetter, RecordDLQ, Clear, Ack, Requeue, Reject, ApplyFails, RecordRetryFails,
        RecordDeadLetterFails, RecordDLQFails, ClearFails, Disconnect, Crash
  <2>2. U
    BY <1>1, Zenon
    DEF ConsumerStep, ConsumerFault, Deliver, Refuse, Apply, ApplyConflict, RecordRetry,
        RecordDeadLetter, RecordDLQ, Clear, Ack, Requeue, Reject, ApplyFails, RecordRetryFails,
        RecordDeadLetterFails, RecordDLQFails, ClearFails, Disconnect, Crash
  <2>3. CASE Clear(c) \/ ClearFails(c)
    <3>1. hand[c] \in Messages /\ inbox[hand[c].id] = hand[c].content
      BY <2>3, Zenon DEF Clear, ClearFails, TypeInv, Busy, ClearedIsApplied
    <3>2. hand[c].id # i
      BY <1>d, <3>1, MessageType, ConfigAssumption, Zenon
    <3>3. ClearPending(hand[c].id) => pending'[i] = pending[i]
      BY <3>2, Zenon DEF ClearPending, TypeInv, TypeOK
    <3>4. P
      BY <2>3, <3>3, Zenon DEF Clear, ClearFails
    <3>5. QED
      BY <2>1, <2>2, <3>4, Zenon
  <2> HIDE DEF P, D, U
  <2>4. CASE RecordRetry(c) \/ RecordRetryFails(c) \/ RecordDLQ(c) \/ RecordDLQFails(c)
    <3>1. UNCHANGED pending \/ \E class \in {"retry", "dlq"} : RecordPending(hand[c].id, class)
      BY <2>4, Zenon DEF RecordRetry, RecordRetryFails, RecordRetryOf, RecordDLQ, RecordDLQFails
    <3>2. P
      BY <1>0, <3>1, RecordPendingKeeps, Zenon DEF P
    <3>3. QED
      BY <2>1, <2>2, <3>2, Zenon
  <2>5. CASE ~(\/ Clear(c) \/ ClearFails(c) \/ RecordRetry(c) \/ RecordRetryFails(c)
               \/ RecordDLQ(c) \/ RecordDLQFails(c))
    <3>1. UNCHANGED pending
      BY <1>1, <2>5, Zenon
      DEF ConsumerStep, ConsumerFault, Deliver, Refuse, Apply, ApplyConflict, RecordDeadLetter,
          Ack, Requeue, Reject, ApplyFails, RecordDeadLetterFails, Disconnect, Crash
    <3>2. QED
      BY <1>0, <2>1, <2>2, <3>1, Zenon
  <2>6. QED
    BY <2>3, <2>4, <2>5, Zenon
<1>2. ASSUME NEW r \in Reprocessors, ReprocessStep(r) \/ ReprocessFault(r) PROVE P /\ D /\ U
  <2>1. U
    BY <1>2, Zenon DEF ReprocessStep, ReprocessFault, Select, Reapply, ReapplyRefused, DeletePending,
         DeleteDeadLetter, ReapplyFails, DeletePendingFails, DeleteDeadLetterFails, CrashReprocess
  <2>2. rpc[r] \in {"unmark", "drop"} => item[r].id # i
    BY <1>d, Zenon DEF ItemIsApplied
  <2>3. CASE DeletePending(r) \/ DeletePendingFails(r)
    <3>1. Unmark(item[r]) => pending'[i] = pending[i]
      BY <2>2, <2>3, Zenon DEF DeletePending, DeletePendingFails, Unmark, TypeInv, TypeOK
    <3>2. P /\ UNCHANGED dead
      BY <2>3, <3>1, Zenon DEF DeletePending, DeletePendingFails
    <3>3. QED
      BY <1>0, <2>1, <3>2, Zenon
  <2>4. CASE DeleteDeadLetter(r) \/ DeleteDeadLetterFails(r)
    <3>1. item[r].id # i /\ UNCHANGED pending
      BY <2>2, <2>4, Zenon DEF DeleteDeadLetter, DeleteDeadLetterFails
    <3>2. Drop(item[r]) => D
      BY <3>1, Zenon DEF Drop
    <3>3. Drop(item[r]) \/ UNCHANGED dead
      BY <2>4, Zenon DEF DeleteDeadLetter, DeleteDeadLetterFails
    <3> HIDE DEF P, D, U
    <3>4. QED
      BY <1>0, <2>1, <3>1, <3>2, <3>3, Zenon
  <2>5. CASE ~(\/ DeletePending(r) \/ DeletePendingFails(r) \/ DeleteDeadLetter(r)
               \/ DeleteDeadLetterFails(r))
    <3>1. UNCHANGED <<pending, dead>>
      BY <1>2, <2>5, Zenon DEF ReprocessStep, ReprocessFault, Select, Reapply, ReapplyRefused,
         ReapplyFails, CrashReprocess
    <3>2. QED
      BY <1>0, <2>1, <3>1, Zenon
  <2>6. QED
    BY <2>3, <2>4, <2>5, Zenon
<1>3. ASSUME UNCHANGED vars PROVE P /\ D /\ U
  BY <1>0, <1>3, Zenon DEF vars
<1> HIDE DEF P, D, U
<1>4. P /\ D /\ U
  BY <1>1, <1>2, <1>3, Zenon DEF Next
<1>5. QED
  BY <1>4 DEF P, D, U

\* Who may newly be in the dead-letter queue, or on the way there.
LEMMA Entrants ==
  ASSUME TypeInv, [Next]_vars, NEW m \in Messages, m.kind = "good"
  PROVE  /\ place'[m] = "dlq" => place[m] = "dlq" \/ Rejecting(m)
         /\ Rejecting(m)' => \/ Rejecting(m)
                             \/ \E c \in Consumers : hand[c] = m /\ (RecordDLQ(c) \/ RecordDLQFails(c))
         /\ Marking(m)' => \/ Marking(m)
                           \/ \E c \in Consumers : /\ hand[c] = m
                                                   /\ RecordDeadLetter(c) \/ RecordDeadLetterFails(c)
<1> USE DEF tables, history, consumers
<1> DEFINE L == place'[m] = "dlq" => place[m] = "dlq" \/ Rejecting(m)
           R == Rejecting(m)' => \/ Rejecting(m)
                   \/ \E c \in Consumers : hand[c] = m /\ (RecordDLQ(c) \/ RecordDLQFails(c))
           K == Marking(m)' => \/ Marking(m)
                   \/ \E c \in Consumers : hand[c] = m /\ (RecordDeadLetter(c) \/ RecordDeadLetterFails(c))
<1>0. UNCHANGED <<place, pc, hand>> => L /\ R /\ K
  BY Zenon DEF Rejecting, Marking
<1>1. ASSUME NEW c \in Consumers, ConsumerStep(c) \/ ConsumerFault(c) PROVE L /\ R /\ K
  <2>g. ASSUME NEW s, Go(c, s), UNCHANGED place
        PROVE  /\ L
               /\ s # "reject" \/ (hand[c] = m => RecordDLQ(c) \/ RecordDLQFails(c)) => R
               /\ s # "mark" \/ RecordDeadLetter(c) \/ RecordDeadLetterFails(c) => K
    <3>1. \A d \in Consumers : hand'[d] = hand[d] /\ pc'[d] = IF d = c THEN s ELSE pc[d]
      BY <2>g, Zenon DEF Go, TypeInv, TypeOK
    <3>2. QED
      BY <2>g, <3>1, Zenon DEF Rejecting, Marking
  <2>s. ASSUME NEW to, Settle(c, to), to # "dlq" \/ pc[c] = "reject"
        PROVE  L /\ R /\ K
    <3>1. \A d \in Consumers : d # c => hand'[d] = hand[d] /\ pc'[d] = pc[d]
      BY <2>s, Zenon DEF Settle, TypeInv, TypeOK
    <3>2. pc'[c] = "idle"
      BY <2>s, Zenon DEF Settle, TypeInv, TypeOK
    <3>3. place'[m] = place[m] \/ (hand[c] = m /\ place'[m] = to)
      BY <2>s, Zenon DEF Settle, TypeInv, TypeOK
    <3>4. QED
      BY <2>s, <3>1, <3>2, <3>3, Zenon DEF Rejecting, Marking
  <2>d. ASSUME NEW n \in Messages, Deliver(c, n) PROVE L /\ R /\ K
    <3>1. /\ pc'[c] = "process" /\ place'[n] = c /\ c # "dlq"
          /\ \A d \in Consumers : d # c => hand'[d] = hand[d] /\ pc'[d] = pc[d]
          /\ \A y \in Messages : y # n => place'[y] = place[y]
      BY <2>d, ConfigAssumption, Zenon DEF Deliver, TypeInv, TypeOK
    <3>2. QED
      BY <3>1, Zenon DEF Rejecting, Marking
  <2>x. ASSUME Disconnect(c) PROVE L /\ R /\ K
    <3>1. UNCHANGED <<pc, hand>> /\ (place'[m] = place[m] \/ place'[m] = "queue")
      BY <2>x, Zenon DEF Disconnect, TypeInv, TypeOK
    <3>2. QED
      BY <3>1, Zenon DEF Rejecting, Marking
  <2> HIDE DEF L, R, K
  <2>1. CASE Refuse(c) \/ Apply(c) \/ ApplyConflict(c) \/ ApplyFails(c) \/ Clear(c) \/ ClearFails(c)
             \/ RecordRetry(c) \/ RecordRetryFails(c)
    <3>1. PICK s : s \notin {"reject", "mark"} /\ Go(c, s) /\ UNCHANGED place
      BY <2>1, Zenon DEF Refuse, Apply, ApplyConflict, ApplyFails, AfterFailure, Clear, ClearFails,
           RecordRetry, RecordRetryFails
    <3>2. QED
      BY <2>g, <3>1, Zenon
  <2>2. CASE RecordDLQ(c) \/ RecordDLQFails(c)
    <3>1. Go(c, "reject") /\ UNCHANGED place
      BY <2>2, Zenon DEF RecordDLQ, RecordDLQFails
    <3>2. "reject" # "mark"
      OBVIOUS
    <3>3. L /\ R
      BY <2>2, <2>g, <3>1, Zenon
    <3>4. K
      BY <2>g, <3>1, <3>2, Zenon
    <3>5. QED
      BY <3>3, <3>4, Zenon
  <2>3. CASE RecordDeadLetter(c) \/ RecordDeadLetterFails(c)
    <3>1. Go(c, AfterDeadLetter(hand[c])) /\ UNCHANGED place
      BY <2>3, Zenon DEF RecordDeadLetter, RecordDeadLetterFails
    <3>2. hand[c] = m => AfterDeadLetter(hand[c]) = "mark"
      BY MessageType, ConfigAssumption, Zenon DEF AfterDeadLetter
    <3>3. CASE hand[c] = m
      BY <2>3, <2>g, <3>1, <3>2, <3>3, Zenon
    <3>4. CASE hand[c] # m
      BY <2>3, <2>g, <3>1, <3>4, Zenon
    <3>5. QED
      BY <3>3, <3>4, Zenon
  <2>4. CASE Ack(c) \/ Requeue(c) \/ Reject(c) \/ Crash(c)
    BY <2>4, <2>s, Zenon DEF Ack, Requeue, Reject, Crash
  <2>5. QED
    BY <1>1, <2>1, <2>2, <2>3, <2>4, <2>d, <2>x, Zenon DEF ConsumerStep, ConsumerFault
<1>2. ASSUME NEW r \in Reprocessors, ReprocessStep(r) \/ ReprocessFault(r) PROVE L /\ R /\ K
  <2>1. UNCHANGED <<place, pc, hand>>
    BY <1>2, Zenon DEF ReprocessStep, ReprocessFault, Select, Reapply, ReapplyRefused, DeletePending,
         DeleteDeadLetter, ReapplyFails, DeletePendingFails, DeleteDeadLetterFails, CrashReprocess
  <2>2. QED
    BY <1>0, <2>1, Zenon
<1>3. ASSUME UNCHANGED vars PROVE L /\ R /\ K
  BY <1>0, <1>3, Zenon DEF vars
<1> HIDE DEF L, R, K
<1>4. L /\ R /\ K
  BY <1>1, <1>2, <1>3, Zenon DEF Next
<1>5. QED
  BY <1>4 DEF L, R, K

LEMMA NextPendency ==
  ASSUME TypeInv, ClearedIsApplied, ItemIsApplied, PendencyInv, [Next]_vars
  PROVE  PendencyInv'
<1> SUFFICES ASSUME NEW m \in Messages, m.kind = "good", Unapplied(m.id)', m.id \notin unrecorded'
             PROVE  /\ Marking(m)' => DeadLetter(m) \in dead'
                    /\ place'[m] = "dlq" \/ Rejecting(m)' => DeadLetter(m) \in dead' /\ pending'[m.id] # None
  BY Zenon DEF PendencyInv, Evident, Recorded, DeadLetter
<1>1. m.id \in Ids /\ DeadLetter(m).id = m.id
  BY MessageType, Zenon DEF DeadLetter
<1>2. Unapplied(m.id)
  BY <1>1, InboxKept, Zenon DEF Unapplied
<1>3. /\ pending[m.id] # None => pending'[m.id] # None
      /\ DeadLetter(m) \in dead => DeadLetter(m) \in dead'
      /\ m.id \notin unrecorded
  BY <1>1, <1>2, RecordsStay, Zenon
<1>4. /\ Marking(m) => DeadLetter(m) \in dead
      /\ place[m] = "dlq" \/ Rejecting(m) => DeadLetter(m) \in dead /\ pending[m.id] # None
  BY <1>2, <1>3, Zenon DEF PendencyInv, Evident, Recorded
<1>5. ASSUME NEW c \in Consumers, hand[c] = m, RecordDeadLetter(c) \/ RecordDeadLetterFails(c)
      PROVE  DeadLetter(m) \in dead'
  BY <1>5, Zenon DEF RecordDeadLetter, RecordDeadLetterFails
<1>6. ASSUME NEW c \in Consumers, hand[c] = m, RecordDLQ(c) \/ RecordDLQFails(c)
      PROVE  DeadLetter(m) \in dead' /\ pending'[m.id] # None
  <2>1. Marking(m)
    BY <1>6, Zenon DEF Marking, RecordDLQ, RecordDLQFails
  <2>2. RecordPending(m.id, "dlq")
    BY <1>6, Zenon DEF RecordDLQ, RecordDLQFails
  <2>3. pending'[m.id] # None
    BY <1>1, <2>2, RecordPendingKeeps, Zenon
  <2>4. QED
    BY <1>3, <1>4, <2>1, <2>3, Zenon
<1>7. QED
  BY <1>3, <1>4, <1>5, <1>6, Entrants, Zenon

\* A good event that was isolated and not applied has its dead letter and its row of
\* event_pending, for any number of consumers and reprocessors and any failures but
\* that of the very writes; lost deliveries and repeated runs take nothing away.
THEOREM IsolatedStaysKnown == Spec => []PendencyKnown
<1>1. Spec => []AckInv
  BY InitAck, NextAck, PTL DEF Spec
<1>2. Spec => []DropInv
  BY InitDrop, NextDrop, PTL DEF Spec
<1>3. Init => PendencyInv
  BY ConfigAssumption, Zenon DEF Init, PendencyInv, Evident, Marking, Rejecting
<1>4. AckInv /\ DropInv /\ PendencyInv /\ [Next]_vars => PendencyInv'
  BY NextPendency, Zenon DEF AckInv, DropInv
<1>5. PendencyInv => PendencyKnown
  BY Zenon DEF PendencyInv, PendencyKnown, Evident, Recorded
<1>6. QED
  BY <1>1, <1>2, <1>3, <1>4, <1>5, PTL DEF Spec
=============================================================================
