------------------------------ MODULE Process ------------------------------
(***************************************************************************)
(* The life of one process of the system: what it does on a signal or an   *)
(* error, and what becomes of the work under way.                          *)
(*                                                                         *)
(* A unit of work is an internal call, a public request, the job of the    *)
(* reconciliation worker or the loop of a publisher or consumer.  It holds *)
(* a connection of the pool while it is "storing".  A stop goes through    *)
(* stages: each waits for some units, and some of them may time out.  Last *)
(* come the deferred calls of run, among them pool.Close, which waits for  *)
(* the connections; then the process is gone.                              *)
(***************************************************************************)
EXTENDS Sequences, Naturals

CONSTANT Units

\* What run of a process opens, in order, the work it then does, and the stages of its stop.
Program(setup, roles, stop) == [setup |-> setup, roles |-> roles, stop |-> stop]

LedgerAPI ==
  Program(<<"tracing", "verifiers", "pool", "gRPC", "HTTP", "listeners">>,
          {"internal", "public"}, <<"grpc", "http", "pool">>)

ConsolidationAPI ==
  Program(<<"tracing", "verifier", "tokens", "ledger client", "pool", "HTTP", "listeners">>,
          {"public"}, <<"http", "pool">>)

ReconciliationWorker ==
  Program(<<"tracing", "pool", "tokens", "ledger client", "listener">>, {"job"}, <<"pool">>)

\* Mutant of OutboxPublisher: the loops are not waited for.
OutboxPublisherUnjoined ==
  Program(<<"configuration", "tracing", "pool", "schema", "brokers">>, {"loop"}, <<"pool">>)

OutboxPublisher ==
  Program(<<"configuration", "tracing", "pool", "schema", "brokers">>, {"loop"}, <<"join", "pool">>)

ConsumerProcess ==
  Program(<<"configuration", "tracing", "pool", "schema", "consumers">>, {"loop"}, <<"join", "pool">>)

APIs     == {"ledger-api", "consolidation-api"}
Runtimes == {"outbox-publisher", "consumer"}

ProgramOf(k) ==
  CASE k = "ledger-api"            -> LedgerAPI
    [] k = "consolidation-api"     -> ConsolidationAPI
    [] k = "reconciliation-worker" -> ReconciliationWorker
    [] k = "outbox-publisher"      -> OutboxPublisher
    [] k = "consumer"              -> ConsumerProcess

VARIABLES
  kind,
  role,    \* the unit is "internal", "public", "job" or "loop"
  unit,    \* what the unit does
  setup,   \* what run has still to open
  stages,  \* what is left of the stop
  result   \* what run returns

processVars == <<kind, role, unit, setup, stages, result>>

Serving == result = "none" /\ setup = <<>>
Stopping == result # "none" /\ stages # <<>>
Gone    == result # "none" /\ stages = <<>>

ProcessInit ==
  /\ kind \in APIs \cup Runtimes \cup {"reconciliation-worker"}
  /\ role \in [Units -> ProgramOf(kind).roles]
  /\ unit = [u \in Units |-> "idle"]
  /\ setup = ProgramOf(kind).setup
  /\ stages = ProgramOf(kind).stop
  /\ result = "none"

Open ==
  /\ result = "none" /\ setup # <<>>
  /\ setup' = Tail(setup)
  /\ UNCHANGED <<kind, role, unit, stages, result>>

\* What was opened before the failing step is closed by the deferred calls.
SetupFails ==
  /\ result = "none" /\ setup # <<>>
  /\ result' = "error" /\ stages' = <<"pool">>
  /\ UNCHANGED <<kind, role, unit, setup>>

-----------------------------------------------------------------------------
(* Units of work *)

\* A listener is open until its own stage of the stop; its connections outlive a return on
\* an error.  The job's context is cancelled last.
Accepting(u) ==
  \/ Serving
  \/ Stopping /\ Head(stages) = "return" /\ kind \in APIs
  \/ Stopping /\ Head(stages) = "grpc" /\ role[u] = "public"
  \/ Stopping /\ role[u] = "job" /\ setup = <<>>

Do(u, from, to) ==
  /\ unit[u] = from
  /\ unit' = [unit EXCEPT ![u] = to]
  /\ UNCHANGED <<kind, role, setup, stages, result>>

Begin(u) == Accepting(u) /\ Do(u, "idle", "running")

\* A connection is taken from an open pool only.
Acquire(u) ==
  /\ Serving \/ (Stopping /\ Head(stages) \notin {"pool", "return"})
  /\ Do(u, "running", "storing")

Release(u) == Do(u, "storing", "running")

Finish(u) == Do(u, "running", "idle")

\* A loop ends once its context is cancelled.
Join(u) == role[u] = "loop" /\ Stopping /\ Do(u, "idle", "joined")

-----------------------------------------------------------------------------
(* The end of the process *)

Signalled ==
  /\ Serving
  /\ result' = "nil"
  /\ UNCHANGED <<kind, role, unit, setup, stages>>

\* The runtimes stop in order on an error too, the others return at once.
AfterError == IF kind \in Runtimes THEN stages ELSE <<"return">>

ListenerFails ==
  /\ Serving
  /\ result' = "error" /\ stages' = AfterError
  /\ UNCHANGED <<kind, role, unit, setup>>

\* A loop or the job returns by itself; the commands of the reconciliation worker do so
\* without an error when they are done.
WorkEnds(u) ==
  /\ Serving
  /\ role[u] \in {"job", "loop"} /\ unit[u] = "running"
  /\ unit' = [unit EXCEPT ![u] = "joined"]
  /\ \/ result' = "error" /\ stages' = AfterError
     \/ role[u] = "job" /\ result' = "nil" /\ UNCHANGED stages
  /\ UNCHANGED <<kind, role, setup>>

WaitsFor(stage) ==
  CASE stage = "grpc" -> {u \in Units : role[u] = "internal" /\ unit[u] # "idle"}
    [] stage = "http" -> {u \in Units : role[u] = "public" /\ unit[u] # "idle"}
    [] stage = "join" -> {u \in Units : unit[u] # "joined"}
    [] stage \in {"pool", "return"} -> {u \in Units : unit[u] = "storing"}

\* A unit that is cut off in a transaction is "torn".
End(u) == CASE unit[u] = "storing" -> "torn" [] unit[u] = "running" -> "cut" [] OTHER -> unit[u]

Leave(rest) ==
  /\ stages' = rest
  /\ unit' = IF rest = <<>> THEN [u \in Units |-> End(u)] ELSE unit

StageEnds ==
  /\ Stopping
  /\ WaitsFor(Head(stages)) = {}
  /\ Leave(Tail(stages))
  /\ UNCHANGED <<kind, role, setup, result>>

\* The shutdown's budget ends first, of which GracefulStop and the operations server may have
\* used any part: run returns an error.
TimesOut ==
  /\ Stopping
  /\ Head(stages) \in {"http", "join"}
  /\ Leave(Tail(stages)) /\ result' = "error"
  /\ UNCHANGED <<kind, role, setup>>

ProcessNext ==
  \/ Open \/ SetupFails
  \/ \E u \in Units : Begin(u) \/ Acquire(u) \/ Release(u) \/ Finish(u) \/ Join(u) \/ WorkEnds(u)
  \/ Signalled \/ ListenerFails \/ StageEnds \/ TimesOut

ProcessSpec == ProcessInit /\ [][ProcessNext]_processVars

-----------------------------------------------------------------------------
(* Correctness *)

\* No process ends inside a transaction of its own, however it ends, and when an API or a
\* worker runtime returns nil every call it took was answered and every loop has joined.
CleanExit ==
  Gone =>
    /\ \A u \in Units : unit[u] # "torn"
    /\ result = "nil" /\ kind \in APIs => \A u \in Units : unit[u] = "idle"
    /\ result = "nil" /\ kind \in Runtimes => \A u \in Units : unit[u] = "joined"
=============================================================================
