---------------------------- MODULE OutboxProofs ----------------------------
(***************************************************************************)
(* Proofs about Outbox, for any number of workers and rows and any budgets.*)
(***************************************************************************)
EXTENDS Outbox, TLAPS

USE DEF Valid

\* A worker in flight has a row, a valid one once it is past the checks of
\* Publish, and it holds its mutex while it uses the channel.
LocalsSet ==
  \A w \in Workers :
    /\ pc[w] \in InFlight => event[w] \in Events
    /\ pc[w] \in {"connecting", "sent", "confirmed"} => event[w] \notin Invalid
    /\ pc[w] \in {"connecting", "sent"} => holder[w] = "worker"

TypeInv == TypeOK /\ LocalsSet

\* The message behind a confirmed publication is in the queue.
ConfirmedIsQueued ==
  \A w \in Workers :
    \/ pc[w] = "confirmed"
    \/ pc[w] = "sent" /\ confirm[w] = "ack" /\ ~returned[w]
    => copies[event[w]] > 0

\* The inductive invariant behind PublishedIsQueued.
QueueInv == TypeInv /\ ConfirmedIsQueued /\ PublishedIsQueued

\* How long n probes may keep the mutex between them.
Turns(n) == n * ConnectBudget

\* The longest a worker may still take before it is done with its row.
WorkLeft(w) ==
  CASE pc[w] = "waiting"    -> hold[w] + Turns(ahead[w]) + Max2(ConnectBudget, PublishBudget)
                                 + PersistBudget
    [] pc[w] = "connecting" -> Max2(hold[w], budget[w]) + PersistBudget
    [] pc[w] = "sent"       -> budget[w] + PersistBudget
    [] OTHER                -> budget[w]

\* The inductive invariant behind LeaseCoversWork: a worker's lease outlasts all
\* it may still have to do.
LeaseInv ==
  /\ TypeInv
  /\ \A w \in Workers : pc[w] \in InFlight =>
       owner[event[w]] = w /\ lease[event[w]] > WorkLeft(w)

\* What a configuration must satisfy for the lease to cover the wait for the
\* broker's mutex as well: a probe that holds it, and those that overtake the worker.
LeaseCoversWait ==
  Lease > ConnectBudget + Turns(Overtakes) + Max2(ConnectBudget, PublishBudget) + PersistBudget

\* The queue has accepted the message of a worker that has not yet marked it.
Accepted(w) ==
  \/ pc[w] = "confirmed"
  \/ pc[w] = "sent" /\ confirm[w] = "ack" /\ ~returned[w]

Delivered(e) == published[e] \/ \E w \in Workers : event[w] = e /\ Accepted(w)

\* The inductive invariant behind DuplicatesNeedFaults: the copy that no failure
\* accounts for belongs to a row that is published or about to be.
CopiesInv ==
  /\ \A w \in Workers : pc[w] \in InFlight => ~published[event[w]]
  /\ \A e \in Events : copies[e] <= faults \/ (copies[e] <= faults + 1 /\ Delivered(e))

-----------------------------------------------------------------------------
(* Type correctness *)

LEMMA TurnsTaken ==
  /\ \A n \in Nat : Turns(n) \in Nat
  /\ \A n \in Nat : n > 0 => n - 1 \in Nat /\ Turns(n - 1) + ConnectBudget = Turns(n)
BY ConfigAssumption DEF Turns

LEMMA InitType == Init => TypeInv
BY ConfigAssumption
DEF Init, TypeInv, TypeOK, LocalsSet, Steps, InFlight, Max2

LEMMA RetryDelayType ==
  ASSUME NEW n, NEW d \in RetryDelays(n)
  PROVE  d \in Int
BY ConfigAssumption DEF RetryDelays, Min2

LEMMA NextType == TypeInv /\ [Next]_vars => TypeInv'
<1> SUFFICES ASSUME TypeInv, [Next]_vars PROVE TypeInv'
  BY Zenon
<1> USE DEF TypeInv
<1>a. Max2(PublishBudget, PersistBudget) \in Nat
      /\ PublishBudget \in 0..Max2(PublishBudget, PersistBudget)
      /\ PersistBudget \in 0..Max2(PublishBudget, PersistBudget)
      /\ Lease \in Nat /\ ConnectBudget \in Nat /\ MaxFaults \in Nat /\ MaxAttempts \in Nat
      /\ Overtakes \in Nat
  BY ConfigAssumption DEF Max2
<1>f. Fault => faults' \in 0..MaxFaults
  BY <1>a DEF Fault, TypeOK
<1>l. ASSUME NEW w \in Workers, NEW e \in Events, LeaseRow(w, e)
      PROVE  /\ owner' \in [Events -> Workers \cup {None}]
             /\ lease' \in [Events -> 0..Lease]
             /\ attempts' \in [Events -> 0..MaxAttempts]
             /\ UNCHANGED <<published, available, before>>
  <2>1. attempts[e] \in 0..MaxAttempts
    BY Zenon DEF TypeOK
  <2>2. Min2(attempts[e] + 1, MaxAttempts) \in 0..MaxAttempts
    BY <1>a, <2>1 DEF Min2
  <2>3. QED
    BY <1>a, <1>l, <2>2 DEF LeaseRow, TypeOK
<1>1. ASSUME NEW w \in Workers, Claim(w) PROVE TypeInv'
  BY <1>a, <1>l, <1>1 DEF Claim, TypeOK, LocalsSet, Steps, InFlight, mutex, wire
<1>2. ASSUME NEW w \in Workers, ClaimLost(w) PROVE TypeInv'
  BY <1>f, <1>l, <1>2, Zenon DEF ClaimLost, TypeOK, LocalsSet, mutex, wire
<1>3. ASSUME NEW w \in Workers, Publish(w) PROVE TypeInv'
  BY <1>a, <1>3 DEF Publish, Enter, TypeOK, LocalsSet, Steps, InFlight, rows, mutex, wire
<1>4. ASSUME NEW w \in Workers, Send(w) PROVE TypeInv'
  BY <1>4, Zenon DEF Send, TypeOK, LocalsSet, Steps, InFlight, rows, mutex
<1>5. ASSUME NEW w \in Workers, ConnectLate(w) PROVE TypeInv'
  BY <1>a, <1>5 DEF ConnectLate, Enter, Unlock, TypeOK, LocalsSet, Steps, InFlight, rows, wire
<1>6. ASSUME NEW w \in Workers, PublishFails(w) PROVE TypeInv'
  BY <1>a, <1>f, <1>6
  DEF PublishFails, Enter, Unlock, TypeOK, LocalsSet, Steps, InFlight, rows, wire
<1>s. ASSUME NEW w \in Workers, Spin(w) PROVE TypeInv'
  BY <1>f, <1>s, Zenon DEF Spin, TypeOK, LocalsSet, Steps, InFlight, rows, mutex, wire
<1>7. ASSUME NEW w \in Workers, ReceiveReturn(w) PROVE TypeInv'
  BY <1>a, <1>7 DEF ReceiveReturn, Enter, Unlock, TypeOK, LocalsSet, Steps, InFlight, rows, wire
<1>8. ASSUME NEW w \in Workers, ReceiveConfirm(w) PROVE TypeInv'
  BY <1>a, <1>8 DEF ReceiveConfirm, Enter, Unlock, TypeOK, LocalsSet, Steps, InFlight, rows, wire
<1>9. ASSUME NEW w \in Workers, MarkPublished(w) PROVE TypeInv'
  <2>1. published' \in [Events -> BOOLEAN]
    BY <1>9, Zenon DEF MarkPublished, TypeOK, rows
  <2>2. owner' \in [Events -> Workers \cup {None}] /\ lease' \in [Events -> 0..Lease]
    BY <1>a, <1>9 DEF MarkPublished, ReleaseRow, TypeOK, rows
  <2>3. UNCHANGED <<attempts, available, before>>
    BY <1>9, Zenon DEF MarkPublished, rows
  <2>4. QED
    BY <1>9, <2>1, <2>2, <2>3, Zenon
     DEF MarkPublished, Idle, TypeOK, LocalsSet, Steps, InFlight, mutex, wire
<1>10. ASSUME NEW w \in Workers, MarkFailed(w) PROVE TypeInv'
  <2>1. event[w] \in Events
    BY <1>10, Zenon DEF MarkFailed, LocalsSet, InFlight
  <2>2. ASSUME NEW d \in Int, Postpone(event[w], d)
        PROVE  available' \in [Events -> Int] /\ before' \subseteq Events \X Events
    BY <2>1, <2>2 DEF Postpone, TypeOK
  <2>3. available' \in [Events -> Int] /\ before' \subseteq Events \X Events
    BY <1>10, <2>2, RetryDelayType, Zenon DEF MarkFailed, TypeOK, rows
  <2>4. owner' \in [Events -> Workers \cup {None}] /\ lease' \in [Events -> 0..Lease]
    BY <1>a, <1>10 DEF MarkFailed, ReleaseRow, TypeOK, rows
  <2>5. QED
    BY <1>10, <2>3, <2>4, Zenon
     DEF MarkFailed, Idle, TypeOK, LocalsSet, Steps, InFlight, rows, mutex, wire
<1>11. ASSUME NEW w \in Workers, MarkLost(w) PROVE TypeInv'
  BY <1>f, <1>11, Zenon DEF MarkLost, Idle, TypeOK, LocalsSet, Steps, InFlight, rows, mutex, wire
<1>12. ASSUME NEW w \in Workers, Crash(w) PROVE TypeInv'
  BY <1>a, <1>f, <1>12 DEF Crash, Unlock, TypeOK, LocalsSet, Steps, InFlight, rows, wire
<1>13. ASSUME NEW w \in Workers, Restart(w) PROVE TypeInv'
  BY <1>13, Zenon DEF Restart, Idle, TypeOK, LocalsSet, Steps, InFlight, rows, mutex, wire
<1>14. ASSUME NEW w \in Workers, ProbeStart(w) PROVE TypeInv'
  BY <1>a, <1>14 DEF ProbeStart, TypeOK, LocalsSet, rows, wire
<1>15. ASSUME NEW w \in Workers, ProbeEnd(w) PROVE TypeInv'
  BY <1>a, <1>15 DEF ProbeEnd, Unlock, TypeOK, LocalsSet, rows, wire
<1>16. ASSUME NEW w \in Workers, BrokerStep(w) PROVE TypeInv'
  <2>1. pc[w] = "sent" /\ event[w] \in Events
    BY <1>16, Zenon DEF BrokerStep, Accept, Return, AckReturned, Nack, Unanswered, LocalsSet, InFlight
  <2>2. copies' \in [Events -> Nat] /\ faults' \in 0..MaxFaults
    BY <1>16, <1>f, <2>1 DEF BrokerStep, Accept, Return, AckReturned, Nack, TypeOK
  <2>3. QED
    BY <1>16, <2>2, Zenon
     DEF BrokerStep, Accept, Return, AckReturned, Nack, TypeOK, LocalsSet, rows, mutex
<1>17. CASE Tick
  <2>1. /\ lease' \in [Events -> 0..Lease] /\ available' \in [Events -> Int]
        /\ hold' \in [Workers -> 0..ConnectBudget]
        /\ budget' \in [Workers -> 0..Max2(PublishBudget, PersistBudget)]
    <3>1. \A n \in Nat : \A i \in 0..n : Max2(i - 1, 0) \in 0..n
      BY DEF Max2
    <3>2. \A i \in Int : Max2(i - 1, 0) \in Int
      BY DEF Max2
    <3>3. QED
      BY <1>a, <1>17, <3>1, <3>2, Zenon DEF Tick, TypeOK
  <2>2. QED
    BY <1>17, <2>1, Zenon DEF Tick, TypeOK, LocalsSet, wire
<1>18. CASE UNCHANGED vars
  BY <1>18, Zenon DEF vars, TypeOK, LocalsSet, rows, mutex, wire
<1>19. QED
  BY <1>1, <1>2, <1>3, <1>4, <1>5, <1>6, <1>s, <1>7, <1>8, <1>9, <1>10, <1>11, <1>12,
     <1>13, <1>14, <1>15, <1>16, <1>17, <1>18, Zenon
   DEF Next, WorkerStep, Failure

\* Every column, timer and local of a worker keeps its type.
THEOREM TypeCorrect == Spec => []TypeOK
<1>1. Spec => []TypeInv
  BY InitType, NextType, PTL DEF Spec
<1>2. TypeInv => TypeOK
  BY Zenon DEF TypeInv
<1>3. QED
  BY <1>1, <1>2, PTL

-----------------------------------------------------------------------------
(* No event disappears *)

LEMMA NextQueue == QueueInv /\ [Next]_vars => QueueInv'
<1> DEFINE Goal == ConfirmedIsQueued' /\ PublishedIsQueued'
<1> SUFFICES ASSUME QueueInv, [Next]_vars PROVE Goal
  BY NextType, Zenon DEF QueueInv
<1> USE DEF QueueInv
\* Only MarkPublished and the broker touch what the two facts speak of.
<1>f. ASSUME NEW w \in Workers, UNCHANGED <<published, copies, returned, confirm>>,
             \A v \in Workers \ {w} : pc'[v] = pc[v] /\ event'[v] = event[v],
             pc'[w] \in {"idle", "waiting", "connecting", "failed", "spinning", "down"}
      PROVE  Goal
  BY <1>f, Zenon DEF ConfirmedIsQueued, PublishedIsQueued
<1>1. ASSUME NEW w \in Workers, Claim(w) PROVE Goal
  BY <1>f, <1>1, Zenon DEF Claim, LeaseRow, TypeInv, TypeOK, wire
<1>2. ASSUME NEW w \in Workers, ClaimLost(w) PROVE Goal
  BY <1>2, Zenon DEF ClaimLost, LeaseRow, ConfirmedIsQueued, PublishedIsQueued, wire
<1>3. ASSUME NEW w \in Workers, Publish(w) PROVE Goal
  BY <1>f, <1>3, Zenon DEF Publish, Enter, TypeInv, TypeOK, rows, wire
<1>4. ASSUME NEW w \in Workers, Send(w) PROVE Goal
  BY <1>4, Zenon DEF Send, TypeInv, TypeOK, ConfirmedIsQueued, PublishedIsQueued, rows
<1>5. ASSUME NEW w \in Workers, ConnectLate(w) PROVE Goal
  BY <1>f, <1>5, Zenon DEF ConnectLate, Enter, TypeInv, TypeOK, rows, wire
<1>6. ASSUME NEW w \in Workers, PublishFails(w) PROVE Goal
  BY <1>f, <1>6, Zenon DEF PublishFails, Enter, TypeInv, TypeOK, rows, wire
<1>s. ASSUME NEW w \in Workers, Spin(w) PROVE Goal
  BY <1>f, <1>s, Zenon DEF Spin, TypeInv, TypeOK, rows, wire
<1>7. ASSUME NEW w \in Workers, ReceiveReturn(w) PROVE Goal
  BY <1>f, <1>7, Zenon DEF ReceiveReturn, Enter, TypeInv, TypeOK, rows, wire
<1>8. ASSUME NEW w \in Workers, ReceiveConfirm(w) PROVE Goal
  BY <1>8, Zenon
   DEF ReceiveConfirm, Confirmed, Enter, TypeInv, TypeOK, ConfirmedIsQueued, PublishedIsQueued,
      rows, wire
<1>9. ASSUME NEW w \in Workers, MarkPublished(w) PROVE Goal
  <2>1. /\ \A e \in Events : published'[e] => published[e] \/ e = event[w]
        /\ copies' = copies /\ UNCHANGED <<returned, confirm>>
        /\ \A v \in Workers \ {w} : pc'[v] = pc[v] /\ event'[v] = event[v]
        /\ pc'[w] = "idle"
    BY <1>9, Zenon DEF MarkPublished, Idle, TypeInv, TypeOK, rows, wire
  <2>2. copies[event[w]] > 0 /\ event[w] \notin Invalid
    BY <1>9, Zenon DEF MarkPublished, TypeInv, LocalsSet, ConfirmedIsQueued
  <2>3. QED
    BY <2>1, <2>2, Zenon DEF ConfirmedIsQueued, PublishedIsQueued
<1>10. ASSUME NEW w \in Workers, MarkFailed(w) PROVE Goal
  BY <1>f, <1>10, Zenon DEF MarkFailed, Idle, TypeInv, TypeOK, rows, wire
<1>11. ASSUME NEW w \in Workers, MarkLost(w) PROVE Goal
  BY <1>f, <1>11, Zenon DEF MarkLost, Idle, TypeInv, TypeOK, rows, wire
<1>12. ASSUME NEW w \in Workers, Crash(w) PROVE Goal
  BY <1>f, <1>12, Zenon DEF Crash, TypeInv, TypeOK, rows, wire
<1>13. ASSUME NEW w \in Workers, Restart(w) PROVE Goal
  BY <1>f, <1>13, Zenon DEF Restart, Idle, TypeInv, TypeOK, rows, wire
<1>14. ASSUME NEW w \in Workers, ProbeStart(w) \/ ProbeEnd(w) PROVE Goal
  BY <1>14, Zenon DEF ProbeStart, ProbeEnd, ConfirmedIsQueued, PublishedIsQueued, rows, wire
<1>15. ASSUME NEW w \in Workers, Accept(w) PROVE Goal
  <2>1. event[w] \in Events
    BY <1>15, Zenon DEF Accept, Unanswered, TypeInv, LocalsSet, InFlight
  <2>2. /\ copies'[event[w]] = copies[event[w]] + 1
        /\ \A e \in Events : /\ copies'[e] >= copies[e]
                              /\ copies[e] \in Nat /\ copies'[e] \in Nat
    BY <1>15, <2>1 DEF Accept, TypeInv, TypeOK
  <2>3. \A v \in Workers : pc[v] \in {"sent", "confirmed"} => event[v] \in Events
    BY Zenon DEF TypeInv, LocalsSet, InFlight
  <2>4. /\ \A e \in Events : copies[e] > 0 => copies'[e] > 0
        /\ copies'[event[w]] > 0
    BY <2>1, <2>2
  <2>5. QED
    BY <1>15, <2>3, <2>4, Zenon
     DEF Accept, TypeInv, TypeOK, ConfirmedIsQueued, PublishedIsQueued, rows
<1>16. ASSUME NEW w \in Workers, Return(w) \/ AckReturned(w) \/ Nack(w) PROVE Goal
  BY <1>16
  DEF Return, AckReturned, Nack, TypeInv, TypeOK, ConfirmedIsQueued, PublishedIsQueued, rows
<1>17. CASE Tick
  BY <1>17, Zenon DEF Tick, ConfirmedIsQueued, PublishedIsQueued, wire
<1>18. CASE UNCHANGED vars
  BY <1>18, Zenon DEF vars, ConfirmedIsQueued, PublishedIsQueued, rows, wire
<1> HIDE DEF Goal
<1>19. QED
  BY <1>1, <1>2, <1>3, <1>4, <1>5, <1>6, <1>s, <1>7, <1>8, <1>9, <1>10, <1>11, <1>12,
     <1>13, <1>14, <1>15, <1>16, <1>17, <1>18, Zenon
   DEF Next, WorkerStep, BrokerStep, Failure

\* A row is marked published only when the queue has its message, whatever is
\* returned, lost or taken over, and whatever the lease.
THEOREM NoEventDisappears == Spec => []PublishedIsQueued
<1>1. Init => QueueInv
  BY InitType, Zenon DEF Init, QueueInv, ConfirmedIsQueued, PublishedIsQueued
<1>2. Spec => []QueueInv
  BY <1>1, NextQueue, PTL DEF Spec
<1>3. QueueInv => PublishedIsQueued
  BY Zenon DEF QueueInv
<1>4. QED
  BY <1>2, <1>3, PTL

-----------------------------------------------------------------------------
(* The lease covers the work *)

LEMMA NextLease ==
  ASSUME LeaseCoversWait
  PROVE  LeaseInv /\ [Next]_vars => LeaseInv'
<1> DEFINE Covered(w) == pc[w] \in InFlight =>
                           owner[event[w]] = w /\ lease[event[w]] > WorkLeft(w)
           Goal == \A w \in Workers : Covered(w)'
           Waits(w) == hold'[w] = hold[w] /\ ahead'[w] = ahead[w] /\ budget'[w] = budget[w]
<1> SUFFICES ASSUME LeaseInv, [Next]_vars PROVE Goal
  BY NextType, Zenon DEF LeaseInv
<1>t. TypeInv /\ \A w \in Workers : Covered(w)
  BY Zenon DEF LeaseInv
<1>a. /\ Lease \in Nat /\ ConnectBudget \in Nat /\ PublishBudget \in Nat /\ PersistBudget \in Nat
      /\ Overtakes \in Nat
  BY ConfigAssumption, Zenon
<1>b. \A w \in Workers :
        /\ hold[w] \in Nat /\ hold[w] <= ConnectBudget /\ budget[w] \in Nat
        /\ pc[w] \in InFlight => event[w] \in Events
        /\ \A e \in Events : lease[e] \in Nat
        /\ ahead[w] \in Nat /\ Turns(ahead[w]) \in Nat
  BY <1>a, <1>t, TurnsTaken, ConfigAssumption DEF TypeInv, TypeOK, LocalsSet, Max2
\* A step of w that leaves rows and every other worker alone, and gives w no
\* more to do than it had.
<1>f. ASSUME NEW w \in Workers, UNCHANGED <<owner, lease>>,
             \A v \in Workers \ {w} : /\ pc'[v] = pc[v] /\ event'[v] = event[v]
                                      /\ Waits(v),
             pc'[w] \in InFlight => /\ pc[w] \in InFlight /\ event'[w] = event[w]
                                    /\ WorkLeft(w)' <= WorkLeft(w)
                                    /\ WorkLeft(w)' \in Int
      PROVE  Goal
  <2>1. \A v \in Workers \ {w} : WorkLeft(v)' = WorkLeft(v)
    BY <1>f, Zenon DEF WorkLeft
  <2>2. pc[w] \in InFlight => WorkLeft(w) \in Int
    BY <1>a, <1>b DEF WorkLeft, Max2, InFlight
  <2>3. QED
    BY <1>b, <1>f, <1>t, <2>1, <2>2
<1>1. ASSUME NEW w \in Workers, Claim(w) \/ ClaimLost(w) PROVE Goal
  <2>1. PICK e \in Events : LeaseRow(w, e) /\ (Claim(w) => event' = [event EXCEPT ![w] = e])
    BY <1>1, Zenon DEF Claim, ClaimLost
  <2>2. /\ \A d \in Events : d # e => owner'[d] = owner[d] /\ lease'[d] = lease[d]
        /\ owner'[e] = w /\ lease'[e] = Lease /\ lease[e] = 0
    BY <1>t, <2>1, Zenon DEF LeaseRow, Claimable, LeaseExpired, TypeInv, TypeOK
  <2>3. \A v \in Workers \ {w} : /\ pc'[v] = pc[v] /\ event'[v] = event[v]
                                 /\ WorkLeft(v)' = WorkLeft(v)
    BY <1>1, <1>t, <2>1 DEF Claim, ClaimLost, WorkLeft, TypeInv, TypeOK, mutex
  <2>4. \A v \in Workers : pc[v] \in InFlight => event[v] # e
    <3>1. \A v \in Workers : pc[v] \in InFlight => WorkLeft(v) \in Nat
      BY <1>a, <1>b DEF WorkLeft, Max2, InFlight
    <3>2. QED
      BY <1>t, <2>2, <3>1
  <2>5. CASE ClaimLost(w)
    <3>1. pc' = pc /\ event' = event /\ WorkLeft(w)' = WorkLeft(w)
      BY <2>5, Zenon DEF ClaimLost, WorkLeft, mutex
    <3>2. QED
      BY <1>b, <1>t, <2>2, <2>3, <2>4, <3>1
  <2>6. CASE Claim(w)
    <3>1. pc'[w] = "waiting" /\ event'[w] = e /\ hold' = hold /\ ahead'[w] = Overtakes
      BY <1>t, <2>1, <2>6, Zenon DEF Claim, TypeInv, TypeOK, mutex
    <3>2. Lease > WorkLeft(w)'
      <4>1. WorkLeft(w)' = hold[w] + Turns(Overtakes) + Max2(ConnectBudget, PublishBudget) + PersistBudget
        BY <3>1 DEF WorkLeft, Turns
      <4>2. QED
        BY <1>a, <1>b, <4>1, TurnsTaken DEF LeaseCoversWait, Max2
    <3>3. Covered(w)'
      BY <2>2, <3>1, <3>2, Zenon
    <3>4. QED
      BY <1>b, <1>t, <2>2, <2>3, <2>4, <3>3
  <2>7. QED
    BY <1>1, <2>5, <2>6, Zenon
<1>2. ASSUME NEW w \in Workers, Publish(w) PROVE Goal
  <2>1. /\ pc[w] = "waiting" /\ UNCHANGED <<owner, lease, event>>
        /\ \A v \in Workers \ {w} : pc'[v] = pc[v] /\ Waits(v)
        /\ \/ pc'[w] = "failed" /\ budget'[w] = PersistBudget
           \/ pc'[w] = "connecting" /\ budget'[w] = PublishBudget /\ hold'[w] = ConnectBudget
    BY <1>2, <1>t DEF Publish, Enter, TypeInv, TypeOK, rows, mutex
  <2>2. WorkLeft(w)' <= WorkLeft(w) /\ WorkLeft(w)' \in Int
    BY <1>a, <1>b, <2>1 DEF WorkLeft, Max2
  <2>3. QED
    BY <1>f, <2>1, <2>2, Zenon DEF InFlight
<1>3. ASSUME NEW w \in Workers, Send(w) PROVE Goal
  <2>1. /\ pc[w] = "connecting" /\ pc'[w] = "sent" /\ UNCHANGED <<owner, lease, event, hold, ahead, budget>>
        /\ \A v \in Workers \ {w} : pc'[v] = pc[v]
    BY <1>3, <1>t, Zenon DEF Send, TypeInv, TypeOK, rows, mutex
  <2>2. WorkLeft(w)' <= WorkLeft(w) /\ WorkLeft(w)' \in Int
    BY <1>a, <1>b, <2>1 DEF WorkLeft, Max2
  <2>3. QED
    BY <1>f, <2>1, <2>2, Zenon DEF InFlight
<1>4. ASSUME NEW w \in Workers,
             ConnectLate(w) \/ PublishFails(w) \/ ReceiveReturn(w) \/ ReceiveConfirm(w)
      PROVE  Goal
  <2>1. /\ pc[w] \in {"connecting", "sent"} /\ pc'[w] \in {"failed", "confirmed"}
        /\ budget'[w] = PersistBudget
        /\ UNCHANGED <<owner, lease, event>>
        /\ \A v \in Workers \ {w} : pc'[v] = pc[v] /\ Waits(v)
    BY <1>4, <1>t
    DEF ConnectLate, PublishFails, ReceiveReturn, ReceiveConfirm, Enter, Unlock,
        TypeInv, TypeOK, rows
  <2>2. WorkLeft(w)' <= WorkLeft(w) /\ WorkLeft(w)' \in Int
    BY <1>a, <1>b, <2>1, SMTT(30) DEF WorkLeft, Max2
  <2>3. QED
    BY <1>f, <2>1, <2>2, Zenon DEF InFlight
<1>5. ASSUME NEW w \in Workers, MarkPublished(w) \/ MarkFailed(w) PROVE Goal
  <2>1. /\ pc[w] \in InFlight /\ pc'[w] = "idle" /\ UNCHANGED <<hold, ahead, budget>>
        /\ \A v \in Workers \ {w} : pc'[v] = pc[v] /\ event'[v] = event[v]
        /\ \A e \in Events : e # event[w] => owner'[e] = owner[e] /\ lease'[e] = lease[e]
    BY <1>5, <1>t, SMTT(30)
    DEF MarkPublished, MarkFailed, ReleaseRow, Idle, InFlight, TypeInv, TypeOK, rows, mutex
  <2>2. \A v \in Workers \ {w} : pc[v] \in InFlight => event[v] # event[w]
    BY <1>t, <2>1, Zenon
  <2>3. \A v \in Workers \ {w} : WorkLeft(v)' = WorkLeft(v)
    BY <2>1, Zenon DEF WorkLeft
  <2>4. pc'[w] \notin InFlight
    BY <2>1, Zenon DEF InFlight
  <2>5. ASSUME NEW v \in Workers \ {w}, pc[v] \in InFlight
        PROVE  owner'[event[v]] = owner[event[v]] /\ lease'[event[v]] = lease[event[v]]
    BY <1>b, <2>1, <2>2, <2>5, Zenon
  <2>6. ASSUME NEW v \in Workers \ {w} PROVE Covered(v)'
    BY <1>t, <2>1, <2>3, <2>5
  <2>7. QED
    BY <2>4, <2>6, Zenon
<1>6. ASSUME NEW w \in Workers, Spin(w) \/ MarkLost(w) \/ Crash(w) \/ Restart(w)
      PROVE  Goal
  <2>1. /\ pc'[w] \in {"spinning", "idle", "down"} /\ UNCHANGED <<owner, lease>>
        /\ \A v \in Workers \ {w} : /\ pc'[v] = pc[v] /\ event'[v] = event[v]
                                    /\ Waits(v)
    BY <1>6, <1>t DEF Spin, MarkLost, Crash, Restart, Idle, Unlock, TypeInv, TypeOK, rows, mutex
  <2>2. QED
    BY <1>f, <2>1, Zenon DEF InFlight
<1>7. ASSUME NEW w \in Workers, ProbeStart(w) \/ ProbeEnd(w) PROVE Goal
  <2>1. /\ UNCHANGED <<owner, lease, pc, event, budget>>
        /\ \A v \in Workers \ {w} : hold'[v] = hold[v] /\ ahead'[v] = ahead[v]
        /\ pc[w] # "connecting"
    BY <1>7, <1>t DEF ProbeStart, ProbeEnd, Unlock, TypeInv, TypeOK, LocalsSet, rows
  <2>2. ASSUME pc[w] = "waiting"
        PROVE  /\ hold'[w] + Turns(ahead'[w]) <= hold[w] + Turns(ahead[w])
               /\ hold'[w] \in Nat /\ Turns(ahead'[w]) \in Nat
    <3>1. CASE ProbeStart(w)
      <4>1. /\ ahead[w] > 0 /\ ahead'[w] = ahead[w] - 1 /\ hold'[w] = ConnectBudget
        BY <1>t, <2>2, <3>1 DEF ProbeStart, TypeInv, TypeOK
      <4>2. /\ Turns(ahead'[w]) + ConnectBudget = Turns(ahead[w])
            /\ Turns(ahead'[w]) \in Nat
        BY <1>b, <4>1, TurnsTaken
      <4>3. QED
        BY <1>a, <1>b, <4>1, <4>2
    <3>2. CASE ProbeEnd(w)
      <4>1. hold'[w] = 0 /\ ahead' = ahead
        BY <1>t, <3>2, Zenon DEF ProbeEnd, Unlock, TypeInv, TypeOK
      <4>2. Turns(ahead'[w]) = Turns(ahead[w])
        BY <4>1 DEF Turns
      <4>3. QED
        BY <1>b, <4>1, <4>2
    <3>3. QED
      BY <1>7, <3>1, <3>2, Zenon
  <2>3. pc[w] \in InFlight => WorkLeft(w)' <= WorkLeft(w) /\ WorkLeft(w)' \in Int
    <3>1. CASE pc[w] = "waiting"
      <4>1. /\ WorkLeft(w) = hold[w] + Turns(ahead[w]) + Max2(ConnectBudget, PublishBudget)
                                 + PersistBudget
            /\ WorkLeft(w)' = hold'[w] + Turns(ahead'[w]) + Max2(ConnectBudget, PublishBudget)
                                 + PersistBudget
        BY <2>1, <3>1 DEF WorkLeft, Turns
      <4>2. QED
        BY <1>a, <1>b, <2>2, <3>1, <4>1 DEF Max2
    <3>2. CASE pc[w] # "waiting"
      BY <1>a, <1>b, <2>1, <3>2 DEF WorkLeft, Max2, InFlight
    <3>3. QED
      BY <3>1, <3>2, Zenon
  <2>4. QED
    BY <1>f, <2>1, <2>3, Zenon
<1>8. ASSUME NEW w \in Workers, BrokerStep(w) PROVE Goal
  <2>1. UNCHANGED <<owner, lease, pc, event, hold, ahead, budget>>
    BY <1>8, Zenon DEF BrokerStep, Accept, Return, AckReturned, Nack, rows, mutex
  <2>2. \A v \in Workers : WorkLeft(v)' = WorkLeft(v)
    BY <2>1, Zenon DEF WorkLeft
  <2>3. QED
    BY <1>t, <2>1, <2>2, Zenon
<1>9. CASE Tick
  <2>1. /\ TimeMayPass /\ UNCHANGED <<owner, pc, event, ahead>>
        /\ \A e \in Events : lease'[e] = Max2(lease[e] - 1, 0)
        /\ \A w \in Workers : /\ hold'[w] = Max2(hold[w] - 1, 0)
                              /\ budget'[w] = Max2(budget[w] - 1, 0)
    BY <1>9, Zenon DEF Tick
  <2>2. ASSUME NEW w \in Workers, pc[w] \in InFlight
        PROVE  WorkLeft(w) \in Int /\ WorkLeft(w)' = WorkLeft(w) - 1 /\ WorkLeft(w)' >= 0
    <3>1. CASE pc[w] = "waiting"
      <4>1. hold[w] > 0
        BY <2>1, <3>1, Zenon DEF TimeMayPass
      <4>2. QED
        BY <1>a, <1>b, <2>1, <3>1, <4>1 DEF WorkLeft, Max2
    <3>2. CASE pc[w] = "connecting"
      <4>1. hold[w] > 0
        BY <2>1, <3>2, Zenon DEF TimeMayPass
      <4>2. QED
        BY <1>a, <1>b, <2>1, <3>2, <4>1 DEF WorkLeft, Max2
    <3>3. CASE pc[w] \in {"sent", "confirmed", "failed"}
      <4>1. budget[w] > 0
        BY <2>1, <3>3, Zenon DEF TimeMayPass
      <4>2. QED
        BY <1>a, <1>b, <2>1, <3>3, <4>1 DEF WorkLeft, Max2
    <3>4. QED
      BY <2>2, <3>1, <3>2, <3>3, Zenon DEF InFlight
  <2>3. QED
    BY <1>b, <1>t, <2>1, <2>2, SMTT(30) DEF Max2
<1>10. CASE UNCHANGED vars
  <2>1. UNCHANGED <<owner, lease, pc, event, hold, ahead, budget>>
    BY <1>10, Zenon DEF vars, rows, mutex
  <2>2. \A v \in Workers : WorkLeft(v)' = WorkLeft(v)
    BY <2>1, Zenon DEF WorkLeft
  <2>3. QED
    BY <1>t, <2>1, <2>2, Zenon
<1> HIDE DEF Goal
<1>11. QED
  BY <1>1, <1>2, <1>3, <1>4, <1>5, <1>6, <1>7, <1>8, <1>9, <1>10, Zenon
   DEF Next, WorkerStep, Failure

\* With a lease that also covers the wait for the broker's mutex, no two workers
\* ever work on the same row and no mark meets ErrLeaseLost.
THEOREM LeaseIsEnough == LeaseCoversWait => (Spec => []LeaseCoversWork)
<1> SUFFICES ASSUME LeaseCoversWait PROVE Spec => []LeaseCoversWork
  BY Zenon
<1>1. Init => LeaseInv
  BY InitType, Zenon DEF Init, LeaseInv, InFlight
<1>2. LeaseInv /\ [Next]_vars => LeaseInv'
  BY NextLease, Zenon
<1>3. Spec => []LeaseInv
  BY <1>1, <1>2, PTL DEF Spec
<1>4. LeaseInv => LeaseCoversWork
  <2> SUFFICES ASSUME LeaseInv, NEW w \in Workers, pc[w] \in InFlight
               PROVE  owner[event[w]] = w /\ lease[event[w]] > 0
    BY Zenon DEF LeaseCoversWork
  <2>1. /\ hold[w] \in Nat /\ budget[w] \in Nat /\ lease[event[w]] \in Nat
        /\ ConnectBudget \in Nat /\ PublishBudget \in Nat /\ PersistBudget \in Nat
        /\ Turns(ahead[w]) \in Nat
    BY ConfigAssumption, TurnsTaken DEF LeaseInv, TypeInv, TypeOK, LocalsSet, Max2
  <2>2. WorkLeft(w) \in Nat
    BY <2>1 DEF WorkLeft, Max2, InFlight
  <2>3. QED
    BY <2>1, <2>2 DEF LeaseInv
<1>5. QED
  BY <1>3, <1>4, PTL
-----------------------------------------------------------------------------
(* Duplicates need failures *)

LEMMA NextCopies ==
  ASSUME TypeInv, LeaseCoversWork, CopiesInv, [Next]_vars
  PROVE  CopiesInv'
<1>a. /\ faults \in Nat /\ \A e \in Events : copies[e] \in Nat
      /\ \A w \in Workers : pc[w] \in InFlight => /\ event[w] \in Events /\ owner[event[w]] = w
                                                  /\ ~published[event[w]]
  BY ConfigAssumption DEF TypeInv, TypeOK, LocalsSet, LeaseCoversWork, CopiesInv
<1> DEFINE Fresh  == \A w \in Workers : pc[w] \in InFlight => ~published[event[w]]
           Few    == \A e \in Events : copies[e] <= faults \/ (copies[e] <= faults + 1 /\ Delivered(e))
           Kept(w) == pc'[w] \in InFlight => pc[w] \in InFlight /\ event'[w] = event[w]
<1>i. Fresh /\ Few
  BY Zenon DEF CopiesInv
<1>p. ASSUME UNCHANGED published, \A v \in Workers : Kept(v) PROVE Fresh'
  BY <1>a, <1>p, Zenon
\* A failure pays for the copy it leaves unaccounted for.
<1>f. ASSUME Fault, UNCHANGED copies PROVE Few'
  BY <1>a, <1>f, <1>i DEF Fault
\* Other steps keep what the queue has accepted in hand, or mark it.
<1>d. ASSUME UNCHANGED <<copies, faults>>,
             \A e \in Events : published[e] => published'[e],
             \A v \in Workers : Accepted(v) => \/ Accepted(v)' /\ event'[v] = event[v]
                                               \/ published'[event[v]]
      PROVE  Few'
  <2>1. \A e \in Events : Delivered(e) => Delivered(e)'
    BY <1>d, Zenon DEF Delivered
  <2>2. QED
    BY <1>d, <1>i, <2>1, Zenon
<1> HIDE DEF Fresh, Few
<1>1. ASSUME NEW w \in Workers, Claim(w) \/ ClaimLost(w) PROVE Fresh' /\ Few'
  <2>1. PICK e \in Events : LeaseRow(w, e) /\ (Claim(w) => event' = [event EXCEPT ![w] = e])
    BY <1>1, Zenon DEF Claim, ClaimLost
  <2>2. UNCHANGED <<published, copies, confirm, returned>> /\ ~published[e]
    BY <1>1, <2>1, Zenon DEF LeaseRow, Claimable, Claim, ClaimLost, wire
  <2>3. CASE Claim(w)
    <3>1. /\ pc[w] = "idle" /\ pc'[w] = "waiting" /\ event'[w] = e /\ UNCHANGED faults
          /\ \A v \in Workers \ {w} : pc'[v] = pc[v] /\ event'[v] = event[v]
      BY <2>1, <2>3, Zenon DEF Claim, TypeInv, TypeOK
    <3>2. Fresh'
      BY <1>a, <2>2, <3>1, Zenon DEF Fresh
    <3>3. \A v \in Workers : Accepted(v) => Accepted(v)' /\ event'[v] = event[v]
      BY <2>2, <3>1, Zenon DEF Accepted
    <3>4. QED
      BY <1>d, <2>2, <3>1, <3>2, <3>3, Zenon
  <2>4. CASE ClaimLost(w)
    BY <1>f, <1>p, <2>2, <2>4, Zenon DEF ClaimLost
  <2>5. QED
    BY <1>1, <2>3, <2>4, Zenon
\* A worker between Claim and its mark that takes none of the last steps.
<1>2. ASSUME NEW w \in Workers, Publish(w) \/ Send(w) \/ ConnectLate(w) \/ ReceiveReturn(w)
             \/ ReceiveConfirm(w)
      PROVE  Fresh' /\ Few'
  <2>1. /\ UNCHANGED <<published, event, copies, faults>>
        /\ pc[w] \in InFlight /\ \A v \in Workers \ {w} : pc'[v] = pc[v]
    BY <1>2, Zenon DEF Publish, Send, ConnectLate, ReceiveReturn, ReceiveConfirm, Enter, rows, InFlight,
                TypeInv, TypeOK
  <2>2. \A v \in Workers \ {w} : confirm'[v] = confirm[v] /\ returned'[v] = returned[v]
    BY <1>2 DEF Publish, Send, ConnectLate, ReceiveReturn, ReceiveConfirm, wire, TypeInv, TypeOK
  <2>3. Accepted(w) => Accepted(w)'
    BY <1>2, Zenon DEF Publish, Send, ConnectLate, ReceiveReturn, ReceiveConfirm, Confirmed, Enter,
                Accepted, TypeInv, TypeOK
  <2>4. \A v \in Workers : Accepted(v) => Accepted(v)'
    BY <2>1, <2>2, <2>3, Zenon DEF Accepted
  <2>5. QED
    BY <1>d, <1>p, <2>1, <2>4, Zenon
<1>3. ASSUME NEW w \in Workers, MarkPublished(w) PROVE Fresh' /\ Few'
  <2>1. /\ pc[w] = "confirmed" /\ pc[w] \in InFlight /\ event[w] \in Events /\ Owned(w)
    BY <1>3, <1>a, Zenon DEF MarkPublished, InFlight, Owned
  <2>2. /\ \A e \in Events : published'[e] <=> (e = event[w] \/ published[e])
        /\ UNCHANGED <<copies, faults, confirm, returned>>
    BY <1>3, <2>1, Zenon DEF MarkPublished, wire, TypeInv, TypeOK
  <2>3. /\ pc'[w] = "idle" /\ \A v \in Workers \ {w} : pc'[v] = pc[v] /\ event'[v] = event[v]
    BY <1>3, Zenon DEF MarkPublished, Idle, TypeInv, TypeOK
  <2>4. \A v \in Workers \ {w} : pc[v] \in InFlight => event[v] # event[w]
    BY <1>a, <2>1, Zenon
  <2>5. Fresh'
    BY <1>a, <2>2, <2>3, <2>4, Zenon DEF Fresh, InFlight
  <2>6. \A v \in Workers : Accepted(v) => \/ Accepted(v)' /\ event'[v] = event[v]
                                          \/ published'[event[v]]
    BY <2>1, <2>2, <2>3, Zenon DEF Accepted
  <2>7. QED
    BY <1>d, <2>2, <2>5, <2>6, Zenon
<1>4. ASSUME NEW w \in Workers, MarkFailed(w) \/ Restart(w) PROVE Fresh' /\ Few'
  <2>1. /\ UNCHANGED <<published, copies, faults, confirm, returned>>
        /\ pc[w] \in {"failed", "down"} /\ pc'[w] = "idle"
        /\ \A v \in Workers \ {w} : pc'[v] = pc[v] /\ event'[v] = event[v]
    BY <1>4, Zenon DEF MarkFailed, Restart, Idle, rows, wire, TypeInv, TypeOK
  <2>2. \A v \in Workers : Accepted(v) => Accepted(v)' /\ event'[v] = event[v]
    BY <2>1, Zenon DEF Accepted
  <2>3. QED
    BY <1>d, <1>p, <2>1, <2>2, Zenon DEF InFlight
<1>5. ASSUME NEW w \in Workers, PublishFails(w) \/ Spin(w) \/ MarkLost(w) \/ Crash(w)
      PROVE  Fresh' /\ Few'
  <2>1. /\ UNCHANGED <<published, copies>> /\ Fault
        /\ \A v \in Workers : Kept(v)
    BY <1>5 DEF PublishFails, Spin, MarkLost, Crash, Enter, Idle, rows, InFlight, TypeInv, TypeOK
  <2>2. QED
    BY <1>f, <1>p, <2>1, Zenon
<1>6. ASSUME NEW w \in Workers, Accept(w) PROVE Fresh' /\ Few'
  <2>1. /\ UNCHANGED <<published, pc, event, faults, returned>>
        /\ pc[w] = "sent" /\ ~returned[w] /\ confirm[w] = "pending" /\ event[w] \in Events
    BY <1>6, <1>a, Zenon DEF Accept, Unanswered, rows, InFlight
  <2>2. /\ confirm'[w] = "ack" /\ \A v \in Workers \ {w} : confirm'[v] = confirm[v]
        /\ \A e \in Events : copies'[e] = IF e = event[w] THEN copies[e] + 1 ELSE copies[e]
    BY <1>6, Zenon DEF Accept, TypeInv, TypeOK
  <2>3. ~Delivered(event[w]) /\ Delivered(event[w])'
    <3>1. \A v \in Workers : event[v] = event[w] /\ Accepted(v) => v = w
      BY <1>a, <2>1 DEF Accepted, InFlight
    <3>2. ~published[event[w]]
      BY <1>a, <2>1, Zenon DEF InFlight
    <3>3. QED
      BY <2>1, <2>2, <3>1, <3>2, Zenon DEF Delivered, Accepted
  <2>4. \A e \in Events : Delivered(e) => Delivered(e)'
    BY <2>1, <2>2, Zenon DEF Delivered, Accepted
  <2>5. Few'
    BY <1>a, <1>i, <2>1, <2>2, <2>3, <2>4 DEF Few
  <2>6. QED
    BY <1>p, <2>1, <2>5, Zenon
<1>7. ASSUME NEW w \in Workers, Return(w) \/ Nack(w) PROVE Fresh' /\ Few'
  BY <1>7, <1>f, <1>p, Zenon DEF Return, Nack, rows
<1>8. ASSUME NEW w \in Workers, AckReturned(w) PROVE Fresh' /\ Few'
  <2>1. /\ UNCHANGED <<published, pc, event, copies, faults, returned>> /\ returned[w]
        /\ \A v \in Workers \ {w} : confirm'[v] = confirm[v]
    BY <1>8, Zenon DEF AckReturned, rows, TypeInv, TypeOK
  <2>2. \A v \in Workers : Accepted(v) => Accepted(v)' /\ event'[v] = event[v]
    BY <1>8, <2>1, Zenon DEF AckReturned, Accepted
  <2>3. QED
    BY <1>d, <1>p, <2>1, <2>2, Zenon
<1>9. ASSUME \/ \E w \in Workers : ProbeStart(w) \/ ProbeEnd(w)
             \/ Tick
             \/ UNCHANGED vars
      PROVE  Fresh' /\ Few'
  <2>1. UNCHANGED <<published, pc, event, copies, faults, confirm, returned>>
    BY <1>9, Zenon DEF ProbeStart, ProbeEnd, Tick, vars, rows, wire
  <2>2. \A v \in Workers : Accepted(v)' <=> Accepted(v)
    BY <2>1, Zenon DEF Accepted
  <2>3. QED
    BY <1>d, <1>p, <2>1, <2>2, Zenon
<1>10. Fresh' /\ Few'
  BY <1>1, <1>2, <1>3, <1>4, <1>5, <1>6, <1>7, <1>8, <1>9, Zenon
   DEF Next, WorkerStep, BrokerStep, Failure
<1>11. QED
  BY <1>10, Zenon DEF CopiesInv, Fresh, Few

\* With such a lease the queue holds at most as many duplicates of an event as
\* there were failures, for any number of workers and rows.
THEOREM DuplicatesAreFailures == LeaseCoversWait => (Spec => []DuplicatesNeedFaults)
<1> SUFFICES ASSUME LeaseCoversWait PROVE Spec => []DuplicatesNeedFaults
  OBVIOUS
<1>1. Spec => []TypeInv
  BY InitType, NextType, PTL DEF Spec
<1>2. Spec => []LeaseCoversWork
  BY LeaseIsEnough, Zenon
<1>3. Init => CopiesInv
  BY DEF Init, CopiesInv, InFlight
<1>4. TypeInv /\ LeaseCoversWork /\ CopiesInv /\ [Next]_vars => CopiesInv'
  BY NextCopies, Zenon
<1>5. Spec => []CopiesInv
  BY <1>1, <1>2, <1>3, <1>4, PTL DEF Spec
<1>6. TypeInv /\ CopiesInv => DuplicatesNeedFaults
  <2> SUFFICES ASSUME TypeInv, CopiesInv, NEW e \in Events PROVE copies[e] <= 1 + faults
    BY Zenon DEF DuplicatesNeedFaults
  <2>1. copies[e] \in Nat /\ faults \in Nat
    BY ConfigAssumption DEF TypeInv, TypeOK
  <2>2. QED
    BY <2>1 DEF CopiesInv
<1>7. QED
  BY <1>1, <1>5, <1>6, PTL
=============================================================================
