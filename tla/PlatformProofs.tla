--------------------------- MODULE PlatformProofs ---------------------------
(***************************************************************************)
(* The stop of a process, the migrations of a database and the cutover of  *)
(* the broker are correct for any number of units of work, migrations,     *)
(* releases, runners and events.                                           *)
(***************************************************************************)
EXTENDS Process, Migrations, Topology, TLAPS

-----------------------------------------------------------------------------
(* The stop of a process *)

Kinds == APIs \cup Runtimes \cup {"reconciliation-worker"}

UnitStates == {"idle", "running", "storing", "joined", "cut"}

\* What can be left of a stop.
Stops(k) ==
  CASE k = "ledger-api" -> {<<"grpc", "http", "pool">>, <<"http", "pool">>, <<"pool">>, <<"return">>, <<>>}
    [] k = "consolidation-api" -> {<<"http", "pool">>, <<"pool">>, <<"return">>, <<>>}
    [] k = "reconciliation-worker" -> {<<"pool">>, <<"return">>, <<>>}
    [] k \in Runtimes -> {<<"join", "pool">>, <<"pool">>, <<>>}

\* No unit is ever torn: a stage that may time out is followed by one that waits for the pool.
ProcessTypeOK ==
  /\ kind \in Kinds
  /\ role \in [Units -> ProgramOf(kind).roles]
  /\ unit \in [Units -> UnitStates]
  /\ stages \in Stops(kind)
  /\ result \in {"none", "nil", "error"}

\* With result nil every stage so far has seen its units end, and they stay ended.
ProcessInv ==
  /\ ProcessTypeOK
  /\ result = "none" => stages = ProgramOf(kind).stop
  /\ Gone => \A u \in Units : unit[u] \notin {"running", "storing"}
  /\ result = "nil" /\ kind \in APIs => stages # <<"return">>
  /\ result = "nil" /\ kind = "ledger-api" /\ stages # <<"grpc", "http", "pool">> =>
       \A u \in Units : role[u] = "internal" => unit[u] = "idle"
  /\ result = "nil" /\ kind \in APIs /\ stages \in {<<"pool">>, <<>>} =>
       \A u \in Units : unit[u] = "idle"
  /\ result = "nil" /\ kind \in Runtimes /\ stages \in {<<"pool">>, <<>>} =>
       \A u \in Units : unit[u] = "joined"
\* The first stage of a stop and the stages after it.
LEMMA StageFacts ==
  /\ Head(<<"grpc", "http", "pool">>) = "grpc" /\ Tail(<<"grpc", "http", "pool">>) = <<"http", "pool">>
  /\ Head(<<"http", "pool">>) = "http" /\ Tail(<<"http", "pool">>) = <<"pool">>
  /\ Head(<<"join", "pool">>) = "join" /\ Tail(<<"join", "pool">>) = <<"pool">>
  /\ Head(<<"pool">>) = "pool" /\ Tail(<<"pool">>) = <<>>
  /\ Head(<<"return">>) = "return" /\ Tail(<<"return">>) = <<>>
OBVIOUS

\* What is left of a stop tells them apart.
LEMMA StagesDiffer ==
  /\ <<"grpc", "http", "pool">> \notin {<<"http", "pool">>, <<"join", "pool">>, <<"pool">>, <<"return">>, <<>>}
  /\ <<"http", "pool">> \notin {<<"join", "pool">>, <<"pool">>, <<"return">>, <<>>}
  /\ <<"join", "pool">> \notin {<<"pool">>, <<"return">>, <<>>}
  /\ <<"pool">> \notin {<<"return">>, <<>>}
  /\ <<"return">> # <<>>
BY Zenon
\* Which roles and stages go with a process.
LEMMA ProgramFacts ==
  ASSUME kind \in Kinds
  PROVE  /\ "job" \in ProgramOf(kind).roles => kind = "reconciliation-worker"
         /\ "loop" \in ProgramOf(kind).roles => kind \in Runtimes
         /\ kind = "ledger-api" => ProgramOf(kind).roles = {"internal", "public"}
         /\ kind = "consolidation-api" => ProgramOf(kind).roles = {"public"}
         /\ ProgramOf(kind).stop \in Stops(kind) \ {<<>>}
         /\ kind = "ledger-api" => ProgramOf(kind).stop = <<"grpc", "http", "pool">>
         /\ kind = "consolidation-api" => ProgramOf(kind).stop = <<"http", "pool">>
         /\ kind \in Runtimes => ProgramOf(kind).stop = <<"join", "pool">>
         /\ kind \notin Runtimes => <<"return">> \in Stops(kind)
         /\ <<"pool">> \in Stops(kind)
BY StagesDiffer, Zenon
    DEF Kinds, APIs, Runtimes, ProgramOf, Program, LedgerAPI, ConsolidationAPI, ReconciliationWorker,
       OutboxPublisher, ConsumerProcess, Stops

\* A unit that goes from one state to another keeps the invariant where the stop allows it.
LEMMA DoKeeps ==
  ASSUME ProcessInv, NEW u \in Units, NEW from \in {"idle", "running", "storing"},
         NEW to \in {"idle", "running", "storing", "joined"}, Do(u, from, to),
         Gone => to \notin {"running", "storing"},
         \/ result # "nil"
         \/ kind = "reconciliation-worker"
         \/ kind = "ledger-api" /\ stages = <<"grpc", "http", "pool">>
         \/ kind \in APIs /\ from # "idle"
         \/ kind \in Runtimes /\ from # "joined"
  PROVE  ProcessInv'
<1>1. /\ unit[u] = from /\ unit' = [unit EXCEPT ![u] = to]
      /\ UNCHANGED <<kind, role, setup, stages, result>>
  BY Zenon DEF Do
<1>2. ProcessTypeOK'
  BY <1>1, Zenon DEF ProcessInv, ProcessTypeOK, UnitStates
<1>3. unit'[u] = to /\ \A v \in Units \ {u} : unit'[v] = unit[v]
  BY <1>1, Zenon DEF ProcessInv, ProcessTypeOK
<1>4. (Gone => \A v \in Units : unit[v] \notin {"running", "storing"})'
  BY <1>1, <1>3, Zenon DEF ProcessInv, Gone
<1>5. (result = "nil" /\ kind = "ledger-api" /\ stages # <<"grpc", "http", "pool">> =>
         \A v \in Units : role[v] = "internal" => unit[v] = "idle")'
  BY <1>1, <1>3, Zenon DEF ProcessInv, Kinds, APIs, Runtimes
<1>6. (result = "nil" /\ kind \in APIs /\ stages \in {<<"pool">>, <<>>} =>
         \A v \in Units : unit[v] = "idle")'
  BY <1>1, <1>3, StagesDiffer, Zenon DEF ProcessInv, Kinds, APIs, Runtimes
<1>7. (result = "nil" /\ kind \in Runtimes /\ stages \in {<<"pool">>, <<>>} =>
         \A v \in Units : unit[v] = "joined")'
  BY <1>1, <1>3, Zenon DEF ProcessInv, Kinds, APIs, Runtimes
<1>8. result' = "none" => stages' = ProgramOf(kind').stop
  BY <1>1, Zenon DEF ProcessInv
<1>9. result' = "nil" /\ kind' \in APIs => stages' # <<"return">>
  BY <1>1, Zenon DEF ProcessInv
<1> QED BY <1>1, <1>2, <1>4, <1>5, <1>6, <1>7, <1>8, <1>9 DEF ProcessInv
\* What a unit does keeps the invariant: it begins only where its stage still accepts.
LEMMA UnitSteps ==
  ASSUME ProcessInv, NEW u \in Units,
         Begin(u) \/ Acquire(u) \/ Release(u) \/ Finish(u) \/ Join(u)
  PROVE  ProcessInv'
<1>1. kind \in Kinds /\ role[u] \in ProgramOf(kind).roles /\ stages \in Stops(kind)
  BY Zenon DEF ProcessInv, ProcessTypeOK
<1>2. kind \in APIs \/ kind \in Runtimes \/ kind = "reconciliation-worker"
  BY <1>1, Zenon DEF Kinds
<1>3. CASE Begin(u)
  <2>1. Do(u, "idle", "running") /\ ~Gone
    BY <1>3, Zenon DEF Begin, Accepting, Serving, Stopping, Gone
  <2>2. CASE Serving
    BY <2>1, <2>2, DoKeeps, Zenon DEF Serving
  <2>3. CASE Head(stages) = "return" /\ kind \in APIs
    <3>1. stages = <<"return">> \/ stages = <<>>
      BY <1>1, <2>3, StageFacts, Zenon DEF Stops, APIs, Runtimes
    <3>2. result # "nil"
      BY <2>1, <2>3, <3>1, Zenon DEF ProcessInv, Gone
    <3> QED BY <2>1, <3>2, DoKeeps
  <2>4. CASE Head(stages) = "grpc" /\ role[u] = "public" /\ Stopping
    <3>1. stages = <<"grpc", "http", "pool">> /\ kind = "ledger-api"
      <4>1. kind \in APIs /\ stages # <<>>
        BY <1>1, <2>4, Zenon
            DEF Stopping, Kinds, Runtimes, ProgramOf, Program, ReconciliationWorker, OutboxPublisher, ConsumerProcess
      <4> QED BY <1>1, <2>4, <4>1, StageFacts DEF Stops, APIs, Runtimes
    <3> QED BY <2>1, <3>1, DoKeeps
  <2>5. CASE role[u] = "job"
    BY <1>1, <2>1, <2>5, ProgramFacts, DoKeeps, Zenon
  <2> QED BY <1>3, <2>2, <2>3, <2>4, <2>5 DEF Begin, Accepting
<1>4. CASE Acquire(u)
  <2>1. Do(u, "running", "storing") /\ ~Gone
    BY <1>4, Zenon DEF Acquire, Serving, Stopping, Gone
  <2> QED BY <1>2, <2>1, DoKeeps
<1>5. CASE Release(u)
  <2>1. Do(u, "storing", "running") /\ ~Gone
    BY <1>5, Zenon DEF Release, Do, ProcessInv
  <2> QED BY <1>2, <2>1, DoKeeps
<1>6. CASE Finish(u)
  BY <1>2, <1>6, DoKeeps, Zenon DEF Finish
<1>7. CASE Join(u)
  <2>1. Do(u, "idle", "joined") /\ kind \in Runtimes
    BY <1>1, <1>7, ProgramFacts, Zenon DEF Join
  <2> QED BY <2>1, DoKeeps
<1> QED BY <1>3, <1>4, <1>5, <1>6, <1>7

\* Setup, a signal or an error starts the stop at its first stage.
LEMMA StopSteps ==
  ASSUME ProcessInv,
         \/ Open \/ SetupFails \/ Signalled \/ ListenerFails
         \/ \E u \in Units : WorkEnds(u)
  PROVE  ProcessInv'
<1>1. kind \in Kinds /\ stages \in Stops(kind)
  BY Zenon DEF ProcessInv, ProcessTypeOK
<1>2. stages = ProgramOf(kind).stop /\ result = "none"
  BY Zenon DEF ProcessInv, Open, SetupFails, Signalled, ListenerFails, WorkEnds, Serving
<1>3. AfterError \in Stops(kind) \ {<<>>}
  BY <1>1, <1>2, ProgramFacts, StagesDiffer, Zenon DEF AfterError
<1>4. CASE Open
  BY <1>4, Zenon DEF Open, ProcessInv, ProcessTypeOK, Gone
<1>5. CASE SetupFails
  BY <1>1, <1>5, ProgramFacts, StagesDiffer, Zenon DEF SetupFails, ProcessInv, ProcessTypeOK, Gone
<1>6. CASE Signalled
  <2>1. kind \in APIs => stages \notin {<<"pool">>, <<>>, <<"return">>}
    BY <1>1, <1>2, ProgramFacts, StagesDiffer, Zenon DEF APIs
  <2>2. kind \in Runtimes => stages \notin {<<"pool">>, <<>>}
    BY <1>1, <1>2, ProgramFacts, StagesDiffer, Zenon
  <2>3. kind = "ledger-api" => stages = <<"grpc", "http", "pool">>
    BY <1>1, <1>2, ProgramFacts, Zenon
  <2>4. stages # <<>>
    BY <1>1, <1>2, ProgramFacts, Zenon
  <2> QED BY <1>6, <2>1, <2>2, <2>3, <2>4 DEF Signalled, ProcessInv, ProcessTypeOK, Gone
<1>7. CASE ListenerFails
  BY <1>3, <1>7, Zenon DEF ListenerFails, ProcessInv, ProcessTypeOK, Gone
<1>8. ASSUME NEW u \in Units, WorkEnds(u)
      PROVE  ProcessInv'
  <2>1. /\ unit' = [unit EXCEPT ![u] = "joined"]
        /\ UNCHANGED <<kind, role>>
        /\ \/ result' = "error" /\ stages' = AfterError
           \/ role[u] = "job" /\ result' = "nil" /\ UNCHANGED stages
    BY <1>8, Zenon DEF WorkEnds
  <2>2. role[u] = "job" => kind = "reconciliation-worker"
    BY <1>1, ProgramFacts, Zenon DEF ProcessInv, ProcessTypeOK
  <2>3. ProcessTypeOK' /\ stages' # <<>>
    BY <1>1, <1>2, <1>3, <2>1, ProgramFacts, Zenon DEF ProcessInv, ProcessTypeOK, UnitStates
  <2>4. CASE result' = "error"
    BY <2>3, <2>4, Zenon DEF ProcessInv, Gone
  <2>5. CASE result' = "nil"
    BY <2>1, <2>2, <2>3, <2>5, Zenon DEF ProcessInv, Gone, APIs, Runtimes
  <2> QED BY <2>1, <2>4, <2>5
<1> QED BY <1>4, <1>5, <1>6, <1>7, <1>8
\* A stage that ends has seen its units end; the last one waits for the pool.
LEMMA StageSteps ==
  ASSUME ProcessInv, StageEnds \/ TimesOut
  PROVE  ProcessInv'
<1>1. kind \in Kinds /\ stages \in Stops(kind) \ {<<>>} /\ result \in {"nil", "error"}
  BY Zenon DEF ProcessInv, ProcessTypeOK, StageEnds, TimesOut, Stopping
<1>2. /\ UNCHANGED <<kind, role, setup>>
      /\ stages' = Tail(stages)
      /\ unit' = IF stages' = <<>> THEN [u \in Units |-> End(u)] ELSE unit
      /\ result' \in {result, "error"}
  BY Zenon DEF StageEnds, TimesOut, Leave
<1>3. Tail(stages) \in Stops(kind)
  BY <1>1, StageFacts, StagesDiffer, Zenon DEF Stops, Kinds, APIs, Runtimes
<1>4. Tail(stages) = <<>> => Head(stages) \in {"pool", "return"}
  BY <1>1, StageFacts, StagesDiffer, Zenon DEF Stops, Kinds, APIs, Runtimes
<1>5. Tail(stages) = <<>> => \A u \in Units : unit[u] # "storing"
  <2>1. Tail(stages) = <<>> => StageEnds
    BY <1>4, Zenon DEF TimesOut
  <2> QED BY <1>4, <2>1 DEF StageEnds, WaitsFor
<1>6. Tail(stages) = <<>> => \A u \in Units : End(u) \in UnitStates \ {"running", "storing"}
  BY <1>5, Zenon DEF End, ProcessInv, ProcessTypeOK, UnitStates
<1>7. ProcessTypeOK'
  BY <1>1, <1>2, <1>3, <1>6, Zenon DEF ProcessInv, ProcessTypeOK
<1>8. (Gone => \A u \in Units : unit[u] \notin {"running", "storing"})'
  BY <1>2, <1>6, Zenon DEF Gone
<1>9. CASE result' = "error"
  BY <1>1, <1>7, <1>8, <1>9, Zenon DEF ProcessInv
<1>10. CASE result' = "nil"
  <2>1. StageEnds /\ result = "nil" /\ WaitsFor(Head(stages)) = {}
    BY <1>10, Zenon DEF StageEnds, TimesOut
  <2>2. \A u \in Units : unit[u] \in {"idle", "joined"} => End(u) = unit[u]
    BY Zenon DEF End
  <2>3. CASE kind \in APIs
    <3>1. stages # <<"return">> /\ Tail(stages) # <<"return">>
      BY <1>1, <1>10, <2>1, <2>3, StageFacts, StagesDiffer, Zenon DEF ProcessInv, Stops, APIs, Runtimes
    <3>2. kind = "ledger-api" => \A u \in Units : role[u] = "internal" => unit[u] = "idle"
      <4>1. kind = "ledger-api" /\ stages = <<"grpc", "http", "pool">> =>
              \A u \in Units : role[u] = "internal" => unit[u] = "idle"
        BY <2>1, StageFacts, Zenon DEF WaitsFor
      <4> QED BY <2>1, <4>1 DEF ProcessInv
    <3>3. Tail(stages) \in {<<"pool">>, <<>>} => \A u \in Units : unit[u] = "idle"
      <4>1. stages = <<"http", "pool">> => \A u \in Units : role[u] = "public" => unit[u] = "idle"
        BY <2>1, StageFacts, Zenon DEF WaitsFor
      <4>2. \A u \in Units : role[u] = "public" \/ (kind = "ledger-api" /\ role[u] = "internal")
        BY <1>1, <2>3, ProgramFacts, Zenon DEF ProcessInv, ProcessTypeOK, APIs
      <4>3. stages = <<"pool">> => \A u \in Units : unit[u] = "idle"
        BY <2>1, <2>3, Zenon DEF ProcessInv
      <4>4. Tail(stages) \in {<<"pool">>, <<>>} => stages \in {<<"http", "pool">>, <<"pool">>}
        BY <1>1, <2>3, <3>1, StageFacts, StagesDiffer, Zenon DEF Stops, APIs, Runtimes
      <4> QED BY <3>2, <4>1, <4>2, <4>3, <4>4
    <3>4. (kind = "ledger-api" => \A u \in Units : role[u] = "internal" => unit[u] = "idle")'
      BY <1>2, <2>2, <3>2, Zenon
    <3>5. (stages \in {<<"pool">>, <<>>} => \A u \in Units : unit[u] = "idle")'
      BY <1>2, <2>2, <3>3, Zenon
    <3>6. kind' \in APIs /\ kind' \notin Runtimes
      BY <1>2, <2>3, Zenon DEF APIs, Runtimes
    <3> QED BY <1>2, <1>7, <1>8, <1>10, <3>1, <3>4, <3>5, <3>6 DEF ProcessInv
  <2>4. CASE kind \in Runtimes
    <3>1. \A u \in Units : unit[u] = "joined"
      <4>1. stages = <<"join", "pool">> \/ stages = <<"pool">>
        BY <1>1, <2>4, StagesDiffer, Zenon DEF Stops, Runtimes
      <4>2. stages = <<"join", "pool">> => \A u \in Units : unit[u] = "joined"
        BY <2>1, StageFacts, Zenon DEF WaitsFor
      <4> QED BY <2>1, <2>4, <4>1, <4>2 DEF ProcessInv
    <3>2. \A u \in Units : unit'[u] = "joined"
      BY <1>2, <2>2, <3>1, Zenon
    <3>3. kind' \notin APIs /\ kind' # "ledger-api"
      BY <1>2, <2>4, Zenon DEF APIs, Runtimes
    <3> QED BY <1>7, <1>8, <1>10, <3>2, <3>3 DEF ProcessInv
  <2>5. CASE kind = "reconciliation-worker"
    <3>1. kind' \notin APIs \cup Runtimes \cup {"ledger-api"}
      BY <1>2, <2>5, Zenon DEF APIs, Runtimes
    <3> QED BY <1>7, <1>8, <1>10, <3>1 DEF ProcessInv
  <2> QED BY <1>1, <2>3, <2>4, <2>5 DEF Kinds
<1> QED BY <1>1, <1>2, <1>9, <1>10

\* However many units are at work when a signal or an error arrives, and whatever they do
\* until the deferred calls have run, no transaction is torn, and run returns nil only when
\* the work it took on has ended (the shutdown of cmd/ledger-api, cmd/consolidation-api and
\* the two worker runtimes).
THEOREM ProcessesExitCleanly == ProcessSpec => []CleanExit
<1>1. ProcessInit => ProcessInv
  <2> SUFFICES ASSUME ProcessInit PROVE ProcessInv
    BY Zenon
  <2>1. kind \in Kinds
    BY Zenon DEF ProcessInit, Kinds
  <2> QED BY <2>1, ProgramFacts DEF ProcessInit, ProcessInv, ProcessTypeOK, UnitStates, Gone
<1>2. ProcessInv /\ [ProcessNext]_processVars => ProcessInv'
  <2> SUFFICES ASSUME ProcessInv, [ProcessNext]_processVars PROVE ProcessInv'
    BY Zenon
  <2>1. CASE UNCHANGED processVars
    BY <2>1, Zenon DEF processVars, ProcessInv, ProcessTypeOK, Gone
  <2>2. CASE ProcessNext
    BY <2>2, UnitSteps, StopSteps, StageSteps, Zenon DEF ProcessNext
  <2> QED BY <2>1, <2>2
<1>3. ProcessInv => CleanExit
  BY Zenon DEF ProcessInv, ProcessTypeOK, UnitStates, CleanExit, Gone
<1> QED BY <1>1, <1>2, <1>3, PTL DEF ProcessSpec
-----------------------------------------------------------------------------
(* Migrations *)

Texts == {<<>>, <<"published">>, <<"edited">>}

MigrationSteps == {"idle", "create", "blocked", "lock", "check", "commit", "done", "failed"}

RunnerType ==
  [pc : MigrationSteps, job : {"", "apply", "rollback"}, plan : SUBSET Migrations,
   release : [count : 2 .. LastMigration, edited : 0 .. LastMigration],
   saw : [Migrations -> Texts] \cup {<<>>}]

MigrationsTypeOK ==
  /\ database \in {"ledger", "consolidation"}
  /\ tracker \in BOOLEAN
  /\ stored \in [Migrations -> {"", "unchecked", "published", "edited"}]
  /\ effect \in [Migrations -> Texts]
  /\ runner \in [Runners -> RunnerType]

\* The tracker and the schema agree, and in the ledger the checksums are those of the texts
\* that were executed, once there are checksums.
TrackerInv ==
  /\ \A m \in Migrations : Recorded(m) <=> effect[m] # <<>>
  /\ database = "ledger" /\ (\E m \in Migrations : Recorded(m)) => tracker
  /\ database = "ledger" /\ Recorded(2) =>
       \A m \in Migrations : Recorded(m) => effect[m] = <<stored[m]>>

\* A runner between its check and its commit holds the lock, so what it checked still holds.
RunnerInv(r) ==
  /\ runner[r].pc \in {"check", "commit"} => holder = r
  /\ runner[r].pc = "commit" /\ runner[r].job = "apply" =>
       /\ runner[r].plan = {m \in Files(r) : ~Recorded(m)}
       /\ database = "ledger" => (HasChecksum \/ LegacyTracker) /\ ChecksumsMatch(r)
  /\ database = "ledger" /\ runner[r].job = "apply" /\ runner[r].pc \notin {"idle", "failed"} =>
       runner[r].release.edited # 1
  /\ runner[r].pc = "done" /\ runner[r].job = "apply" =>
       \A m \in Files(r) :
         /\ runner[r].saw[m] \in Texts \ {<<>>}
         /\ database = "ledger" => runner[r].saw[m] = <<Text(r, m)>>

MigrationsInv == MigrationsTypeOK /\ TrackerInv /\ \A r \in Runners : RunnerInv(r)
\* Texts are told apart, and a migration that is not in effect is executed once.
LEMMA TextFacts ==
  /\ \A t \in {"published", "edited"} : Append(<<>>, t) = <<t>> /\ <<t>> \in Texts \ {<<>>}
  /\ \A t \in Texts : Len(t) = IF t = <<>> THEN 0 ELSE 1
BY DEF Texts

\* The migrations of a release are migrations, the first two among them.
LEMMA FileFacts ==
  ASSUME MigrationsTypeOK, NEW r \in Runners
  PROVE  /\ Files(r) \subseteq Migrations /\ 1 \in Files(r) /\ 2 \in Files(r)
         /\ \A m \in Files(r) : Text(r, m) \in {"published", "edited"}
<1>1. runner[r].release.count \in 2 .. LastMigration
  BY Zenon DEF MigrationsTypeOK, RunnerType
<1>2. Files(r) \subseteq Migrations /\ 1 \in Files(r) /\ 2 \in Files(r)
  BY <1>1, MigrationAssumption DEF Files, Migrations
<1> QED BY <1>2 DEF Text

\* A runner that only moves on to a step before the lock, or stays where it is while nobody
\* changes the database under its lock, keeps its invariant.
LEMMA RunnerKept ==
  ASSUME NEW q \in Runners, RunnerInv(q), database' = database,
         /\ runner'[q].job = runner[q].job /\ runner'[q].release = runner[q].release
         /\ runner'[q].plan = runner[q].plan /\ runner'[q].saw = runner[q].saw,
         \/ runner'[q].pc = runner[q].pc
         \/ runner'[q].pc \in {"create", "blocked", "lock", "failed"} /\ runner[q].pc \notin {"idle", "failed"},
         runner[q].pc \in {"check", "commit"} => holder' = q /\ UNCHANGED <<tracker, stored, effect>>
  PROVE  RunnerInv(q)'
<1>1. CASE runner'[q].pc = runner[q].pc
  <2>1. Files(q)' = Files(q) /\ \A m : Text(q, m)' = Text(q, m)
    BY Zenon DEF Files, Text
  <2>2. CASE runner[q].pc \in {"check", "commit"}
    <3>0. tracker' = tracker /\ stored' = stored /\ effect' = effect
      BY <2>2, Zenon
    <3>1. (HasChecksum' <=> HasChecksum) /\ (LegacyTracker' <=> LegacyTracker)
      BY <3>0, Zenon DEF Recorded, HasChecksum, LegacyTracker
    <3>2. ChecksumsMatch(q)' <=> ChecksumsMatch(q)
      BY <2>1, <2>2, <3>1 DEF ChecksumsMatch, Recorded
    <3>3. {m \in Files(q) : ~Recorded(m)}' = {m \in Files(q) : ~Recorded(m)}
      BY <2>1, <2>2, Zenon DEF Recorded
    <3> QED BY <1>1, <2>2, <3>1, <3>2, <3>3 DEF RunnerInv
  <2>3. CASE runner[q].pc \notin {"check", "commit"}
    BY <1>1, <2>1, <2>3, Zenon DEF RunnerInv
  <2> QED BY <2>2, <2>3
<1>2. CASE runner'[q].pc \in {"create", "blocked", "lock", "failed"} /\ runner[q].pc \notin {"idle", "failed"}
  BY <1>2, Zenon DEF RunnerInv
<1> QED BY <1>1, <1>2

\* The same for a runner that does nothing.
LEMMA RunnerStays ==
  ASSUME NEW q \in Runners, RunnerInv(q), database' = database, runner'[q] = runner[q],
         runner[q].pc \in {"check", "commit"} => holder' = q /\ UNCHANGED <<tracker, stored, effect>>
  PROVE  RunnerInv(q)'
BY RunnerKept, Zenon

\* What the end of a transaction does to the lock and to the runners.
LEMMA EndFacts ==
  ASSUME MigrationsTypeOK, NEW r \in Runners, NEW committed \in BOOLEAN, EndTransaction(r, committed),
         committed => effect' \in [Migrations -> Texts]
  PROVE  /\ runner' \in [Runners -> RunnerType]
         /\ runner'[r].pc = (IF committed THEN "done" ELSE "failed")
         /\ runner'[r].job = runner[r].job /\ runner'[r].release = runner[r].release
         /\ committed => runner'[r].saw = effect'
         /\ \A q \in Runners \ {r} :
              /\ runner'[q].job = runner[q].job /\ runner'[q].release = runner[q].release
              /\ runner'[q].plan = runner[q].plan /\ runner'[q].saw = runner[q].saw
              /\ \/ runner'[q].pc = runner[q].pc
                 \/ runner[q].pc = "blocked" /\ runner'[q].pc \in {"create", "failed"}
         /\ \A q \in Runners \ {r} : holder = q => holder' = q
<1>1. runner' = [q \in Runners |->
         CASE q = r -> [runner[r] EXCEPT !.pc = IF committed THEN "done" ELSE "failed",
                                         !.plan = {}, !.saw = IF committed THEN effect' ELSE <<>>]
           [] q # r /\ creator = r /\ runner[q].pc = "blocked" ->
                [runner[q] EXCEPT !.pc = IF committed THEN "failed" ELSE "create"]
           [] OTHER -> runner[q]]
  BY Zenon DEF EndTransaction
<1>2. \A q \in Runners : runner[q] \in RunnerType
  BY Zenon DEF MigrationsTypeOK
<1>3. runner'[r] = [runner[r] EXCEPT !.pc = IF committed THEN "done" ELSE "failed",
                                     !.plan = {}, !.saw = IF committed THEN effect' ELSE <<>>]
  BY <1>1, Zenon
<1>4. runner'[r] \in RunnerType
  BY <1>2, <1>3, Zenon DEF RunnerType, MigrationSteps
<1>5. ASSUME NEW q \in Runners \ {r}
      PROVE  \/ runner'[q] = runner[q]
             \/ /\ runner[q].pc = "blocked"
                /\ runner'[q] = [runner[q] EXCEPT !.pc = IF committed THEN "failed" ELSE "create"]
  BY <1>1, Zenon
<1>6. ASSUME NEW q \in Runners \ {r}
      PROVE  /\ runner'[q] \in RunnerType
             /\ runner'[q].job = runner[q].job /\ runner'[q].release = runner[q].release
             /\ runner'[q].plan = runner[q].plan /\ runner'[q].saw = runner[q].saw
             /\ \/ runner'[q].pc = runner[q].pc
                \/ runner[q].pc = "blocked" /\ runner'[q].pc \in {"create", "failed"}
  <2>1. runner[q] \in RunnerType
    BY <1>2, Zenon
  <2>2. CASE runner'[q] = runner[q]
    BY <2>1, <2>2, Zenon
  <2>3. CASE runner[q].pc = "blocked" /\ runner'[q] = [runner[q] EXCEPT !.pc = IF committed THEN "failed" ELSE "create"]
    BY <2>1, <2>3, Zenon DEF RunnerType, MigrationSteps
  <2> QED BY <1>5, <2>2, <2>3
<1>7. runner' \in [Runners -> RunnerType]
  <2>1. \A q \in Runners : runner'[q] \in RunnerType
    BY <1>4, <1>6, Zenon
  <2> QED BY <1>1, <2>1
<1>8. \A q \in Runners \ {r} : holder = q => holder' = q
  BY Zenon DEF EndTransaction
<1>9. /\ runner'[r].pc = (IF committed THEN "done" ELSE "failed")
      /\ runner'[r].job = runner[r].job /\ runner'[r].release = runner[r].release
      /\ committed => runner'[r].saw = effect'
  <2>1. runner[r] \in RunnerType
    BY <1>2, Zenon
  <2>2. CASE committed
    BY <1>3, <2>1, <2>2, Zenon DEF RunnerType
  <2>3. CASE ~committed
    BY <1>3, <2>1, <2>3, Zenon DEF RunnerType
  <2> QED BY <2>2, <2>3
<1> QED BY <1>6, <1>7, <1>8, <1>9
\* The steps before the commit touch neither the tracker nor the schema.
LEMMA WaitingSteps ==
  ASSUME MigrationsInv, NEW r \in Runners, BeginMigration(r) \/ Create(r) \/ Lock(r) \/ Abort(r) \/ Check(r)
  PROVE  MigrationsInv'
<1> USE DEF MigrationsInv
<1>1. UNCHANGED <<database, tracker, stored, effect>>
  BY Zenon DEF BeginMigration, Create, Lock, Abort, Check
<1>2. TrackerInv'
  BY <1>1, Zenon DEF TrackerInv, Recorded
<1>3. runner[r] \in RunnerType
  BY Zenon DEF MigrationsTypeOK
<1>4. SUFFICES runner' \in [Runners -> RunnerType] /\ \A q \in Runners : RunnerInv(q)'
  BY <1>1, <1>2, Zenon DEF MigrationsTypeOK
<1>5. CASE BeginMigration(r)
  <2> DEFINE FirstStep(release, job) ==
               IF database = "consolidation" THEN "lock"
               ELSE IF job = "apply" THEN IF release.edited = 1 THEN "failed" ELSE "create"
               ELSE IF tracker THEN "lock" ELSE "done"
  <2>0. PICK release \in Releases, job \in {"apply", "rollback"} :
          runner' = [runner EXCEPT ![r] = [Idle EXCEPT !.pc = FirstStep(release, job), !.job = job, !.release = release]]
    BY <1>5, Zenon DEF BeginMigration
  <2>1. PICK start \in {"lock", "failed", "create", "done"} :
          /\ runner' = [runner EXCEPT ![r] = [Idle EXCEPT !.pc = start, !.job = job, !.release = release]]
          /\ start = "done" => job = "rollback"
          /\ database = "ledger" /\ job = "apply" /\ release.edited = 1 => start = "failed"
    <3>1. /\ FirstStep(release, job) \in {"lock", "failed", "create", "done"}
          /\ FirstStep(release, job) = "done" => job = "rollback"
          /\ database = "ledger" /\ job = "apply" /\ release.edited = 1 => FirstStep(release, job) = "failed"
      BY Zenon DEF MigrationsTypeOK
    <3> HIDE DEF FirstStep
    <3> QED BY <2>0, <3>1
  <2> HIDE DEF FirstStep
  <2>2. release \in [count : 2 .. LastMigration, edited : 0 .. LastMigration]
    BY MigrationAssumption, Zenon
  <2>3. [Idle EXCEPT !.pc = start, !.job = job, !.release = release] \in RunnerType
    BY <2>2, Zenon DEF Idle, RunnerType, MigrationSteps
  <2>4. /\ runner'[r].pc = start /\ runner'[r].job = job /\ runner'[r].release = release
        /\ \A q \in Runners \ {r} : runner'[q] = runner[q]
    BY <2>1, Zenon DEF Idle, MigrationsTypeOK
  <2>5. runner' \in [Runners -> RunnerType]
    BY <2>1, <2>3, Zenon DEF MigrationsTypeOK
  <2>6. RunnerInv(r)'
    BY <1>1, <2>1, <2>4, Zenon DEF RunnerInv
  <2>7. ASSUME NEW q \in Runners \ {r} PROVE RunnerInv(q)'
    <3>1. RunnerInv(q) /\ runner'[q] = runner[q]
      BY <2>4, Zenon
    <3>2. holder' = holder
      BY <1>5, Zenon DEF BeginMigration
    <3>3. runner[q].pc \in {"check", "commit"} => holder = q
      BY <3>1, Zenon DEF RunnerInv
    <3> QED BY <1>1, <3>1, <3>2, <3>3, RunnerStays
  <2> QED BY <2>5, <2>6, <2>7
<1>6. CASE Create(r)
  <2>1. PICK pc \in {"blocked", "lock"} : runner' = [runner EXCEPT ![r].pc = pc]
    BY <1>6, Zenon DEF Create, Advance
  <2>2. runner[r].pc = "create" /\ holder' = holder
    BY <1>6, Zenon DEF Create
  <2>3. runner' \in [Runners -> RunnerType]
    BY <2>1, <1>3, Zenon DEF MigrationsTypeOK, RunnerType, MigrationSteps
  <2>4. /\ runner'[r].pc = pc /\ runner'[r].job = runner[r].job /\ runner'[r].release = runner[r].release
        /\ runner'[r].plan = runner[r].plan /\ runner'[r].saw = runner[r].saw
        /\ \A q \in Runners \ {r} : runner'[q] = runner[q]
    BY <2>1, <1>3, Zenon DEF MigrationsTypeOK, RunnerType
  <2>5. RunnerInv(r)'
    BY <1>1, <2>2, <2>4, RunnerKept, Zenon
  <2>6. ASSUME NEW q \in Runners \ {r} PROVE RunnerInv(q)'
    <3>1. RunnerInv(q) /\ runner'[q] = runner[q]
      BY <2>4, Zenon
    <3>2. runner[q].pc \in {"check", "commit"} => holder = q
      BY <3>1, Zenon DEF RunnerInv
    <3> QED BY <1>1, <2>2, <3>1, <3>2, RunnerStays
  <2> QED BY <2>3, <2>5, <2>6
<1>7. CASE Lock(r)
  <2>1. runner' = [runner EXCEPT ![r].pc = "check"] /\ runner[r].pc = "lock" /\ holder = Nobody /\ holder' = r
    BY <1>7, Zenon DEF Lock, Advance
  <2>2. runner' \in [Runners -> RunnerType]
    BY <2>1, <1>3, Zenon DEF MigrationsTypeOK, RunnerType, MigrationSteps
  <2>3. /\ runner'[r].pc = "check" /\ runner'[r].job = runner[r].job /\ runner'[r].release = runner[r].release
        /\ \A q \in Runners \ {r} : runner'[q] = runner[q]
    BY <2>1, <1>3, Zenon DEF MigrationsTypeOK, RunnerType
  <2>4. RunnerInv(r)'
    BY <1>1, <2>1, <2>3, Zenon DEF RunnerInv
  <2>5. ASSUME NEW q \in Runners \ {r} PROVE RunnerInv(q)'
    <3>1. RunnerInv(q) /\ runner'[q] = runner[q]
      BY <2>3, Zenon
    <3>2. runner[q].pc \notin {"check", "commit"}
      BY <2>1, <3>1, MigrationAssumption, Zenon DEF RunnerInv
    <3> QED BY <1>1, <3>1, <3>2, RunnerStays
  <2> QED BY <2>2, <2>4, <2>5
<1>8. CASE Abort(r)
  <2>1. EndTransaction(r, FALSE)
    BY <1>8, Zenon DEF Abort
  <2>2. runner' \in [Runners -> RunnerType] /\ runner'[r].pc = "failed"
    BY <2>1, EndFacts, Zenon
  <2>3. RunnerInv(r)'
    BY <2>2, Zenon DEF RunnerInv
  <2>4. ASSUME NEW q \in Runners \ {r} PROVE RunnerInv(q)'
    <3>1. /\ runner'[q].job = runner[q].job /\ runner'[q].release = runner[q].release
          /\ runner'[q].plan = runner[q].plan /\ runner'[q].saw = runner[q].saw
          /\ \/ runner'[q].pc = runner[q].pc
             \/ runner[q].pc = "blocked" /\ runner'[q].pc \in {"create", "failed"}
      BY <2>1, EndFacts, Zenon
    <3>2. holder = q => holder' = q
      BY <2>1, EndFacts, Zenon
    <3>3. RunnerInv(q) /\ (runner[q].pc \in {"check", "commit"} => holder' = q)
      BY <3>2, Zenon DEF RunnerInv
    <3> QED BY <1>1, <3>1, <3>3, RunnerKept
  <2> QED BY <2>2, <2>3, <2>4
<1>9. CASE Check(r)
  <2>1. PICK plan \in Plans(r) : runner' = [runner EXCEPT ![r].pc = "commit", ![r].plan = plan]
    BY <1>9, Zenon DEF Check
  <2>2. runner[r].pc = "check" /\ holder' = holder /\ Checked(r)
    BY <1>9, Zenon DEF Check
  <2>3. plan \subseteq Migrations /\ (runner[r].job = "apply" => plan = {m \in Files(r) : ~Recorded(m)})
    <3>1. Files(r) \subseteq Migrations
      BY FileFacts, Zenon
    <3>2. CASE runner[r].job = "apply"
      <4>1. Plans(r) = {Files(r) \ {m \in Files(r) : Recorded(m)}}
        BY <3>2, Zenon DEF Plans
      <4> QED BY <3>1, <4>1
    <3>3. CASE runner[r].job # "apply"
      BY <3>1, <3>3, Zenon DEF Plans
    <3> QED BY <3>2, <3>3
  <2>4. runner' \in [Runners -> RunnerType]
    BY <2>1, <2>3, <1>3 DEF MigrationsTypeOK, RunnerType, MigrationSteps
  <2>5. /\ runner'[r].pc = "commit" /\ runner'[r].job = runner[r].job /\ runner'[r].release = runner[r].release
        /\ runner'[r].plan = plan
        /\ \A q \in Runners \ {r} : runner'[q] = runner[q]
    BY <2>1, <1>3, Zenon DEF MigrationsTypeOK, RunnerType
  <2>6. RunnerInv(r)'
    <3>1. holder = r
      BY <2>2, Zenon DEF RunnerInv
    <3>2. Files(r)' = Files(r) /\ \A m : Text(r, m)' = Text(r, m)
      BY <2>5, Zenon DEF Files, Text
    <3>3. {m \in Files(r) : ~Recorded(m)}' = {m \in Files(r) : ~Recorded(m)}
      BY <1>1, <3>2, Zenon DEF Recorded
    <3>4. (HasChecksum' <=> HasChecksum) /\ (LegacyTracker' <=> LegacyTracker)
      BY <1>1, Zenon DEF Recorded, HasChecksum, LegacyTracker
    <3>5. ChecksumsMatch(r)' <=> ChecksumsMatch(r)
      BY <1>1, <3>2, <3>4, Zenon DEF ChecksumsMatch, Recorded
    <3>6. runner[r].job = "apply" /\ database = "ledger" => (HasChecksum \/ LegacyTracker) /\ ChecksumsMatch(r)
      BY <2>2, Zenon DEF Checked
    <3>7. database = "ledger" /\ runner[r].job = "apply" => runner[r].release.edited # 1
      BY <2>2 DEF RunnerInv
    <3> QED BY <1>1, <2>2, <2>3, <2>5, <3>1, <3>3, <3>4, <3>5, <3>6, <3>7 DEF RunnerInv
  <2>7. ASSUME NEW q \in Runners \ {r} PROVE RunnerInv(q)'
    <3>1. RunnerInv(q) /\ runner'[q] = runner[q]
      BY <2>5, Zenon
    <3>2. runner[q].pc \in {"check", "commit"} => holder = q
      BY <3>1, Zenon DEF RunnerInv
    <3> QED BY <1>1, <2>2, <3>1, <3>2, RunnerStays
  <2> QED BY <2>4, <2>6, <2>7
<1> QED BY <1>5, <1>6, <1>7, <1>8, <1>9
\* A commit of an apply executes what was missing, under the lock it checked with.
LEMMA ApplyStep ==
  ASSUME MigrationsInv, NEW r \in Runners, CommitApply(r)
  PROVE  MigrationsInv'
<1> DEFINE plan == runner[r].plan
<1>1. MigrationsTypeOK /\ TrackerInv /\ RunnerInv(r)
  BY Zenon DEF MigrationsInv
<1>2. /\ runner[r].pc = "commit" /\ runner[r].job = "apply" /\ EndTransaction(r, TRUE)
      /\ tracker' = TRUE /\ database' = database
      /\ effect' = [m \in Migrations |-> IF m \in plan THEN Append(effect[m], Text(r, m)) ELSE effect[m]]
      /\ stored' = [m \in Migrations |->
           IF m \in plan \/ (database = "ledger" /\ 2 \in plan /\ Recorded(1) /\ m = 1)
           THEN StoredBy(r, m) ELSE stored[m]]
  BY Zenon DEF CommitApply
<1>3. holder = r /\ plan = {m \in Files(r) : ~Recorded(m)}
  BY <1>1, <1>2, Zenon DEF RunnerInv
<1>4. /\ Files(r) \subseteq Migrations /\ 1 \in Files(r) /\ 2 \in Files(r)
      /\ \A m \in Files(r) : Text(r, m) \in {"published", "edited"}
  BY <1>1, FileFacts, Zenon
<1>5. \A m \in plan : effect[m] = <<>>
  BY <1>1, <1>3, <1>4, Zenon DEF TrackerInv, Recorded
<1>6. \A m \in Migrations : effect'[m] = IF m \in plan THEN <<Text(r, m)>> ELSE effect[m]
  BY <1>2, <1>3, <1>4, <1>5, TextFacts, Zenon
<1>7. effect' \in [Migrations -> Texts]
  <2>1. \A m \in Migrations : effect'[m] \in Texts
    BY <1>1, <1>3, <1>4, <1>6, TextFacts DEF MigrationsTypeOK
  <2> QED BY <1>2, <2>1
<1>8. \A m \in Files(r) : StoredBy(r, m) \in {"unchecked", "published", "edited"}
  BY <1>4, Zenon DEF StoredBy
<1>9. stored' \in [Migrations -> {"", "unchecked", "published", "edited"}]
  BY <1>1, <1>2, <1>3, <1>4, <1>8, Zenon DEF MigrationsTypeOK
<1>10. MigrationsTypeOK'
  BY <1>1, <1>2, <1>7, <1>9, EndFacts, Zenon DEF MigrationsTypeOK
<1>11. \A m \in Migrations : Recorded(m)' <=> m \in plan \/ Recorded(m)
  BY <1>2, <1>3, <1>4, <1>8, Zenon DEF Recorded
<1>12. database = "ledger" => runner[r].release.edited # 1 /\ (HasChecksum \/ LegacyTracker) /\ ChecksumsMatch(r)
  BY <1>1, <1>2, Zenon DEF RunnerInv
<1>13. database = "ledger" => Text(r, 1) = "published"
  BY <1>12, Zenon DEF Text
<1>14. TrackerInv'
  <2>1. \A m \in Migrations : Recorded(m)' <=> effect'[m] # <<>>
    BY <1>1, <1>3, <1>4, <1>6, <1>11, TextFacts, Zenon DEF TrackerInv
  <2>2. ASSUME database = "ledger", 2 \in plan, NEW m \in Migrations, Recorded(m)'
        PROVE  effect'[m] = <<stored'[m]>>
    <3>1. LegacyTracker
      BY <1>3, <1>12, <2>2, Zenon DEF HasChecksum
    <3>2. CASE m = 1
      <4>1. stored'[1] = "published"
        BY <1>2, <1>11, <2>2, <3>2, Zenon DEF StoredBy
      <4>2. effect'[1] = <<"published">>
        <5>1. CASE 1 \in plan
          BY <1>6, <1>13, <2>2, <3>2, <5>1, Zenon
        <5>2. CASE 1 \notin plan
          <6>1. Recorded(1)
            BY <1>11, <2>2, <3>2, <5>2, Zenon
          <6> QED BY <1>6, <2>2, <3>1, <3>2, <5>2, <6>1 DEF LegacyTracker
        <5> QED BY <5>1, <5>2
      <4> QED BY <3>2, <4>1, <4>2
    <3>3. CASE m # 1
      <4>1. m \in plan
        BY <1>11, <2>2, <3>1, <3>3, Zenon DEF LegacyTracker
      <4> QED BY <1>2, <1>6, <2>2, <3>3, <4>1 DEF StoredBy
    <3> QED BY <3>2, <3>3
  <2>3. ASSUME database = "ledger", 2 \notin plan, NEW m \in Migrations, Recorded(m)'
        PROVE  effect'[m] = <<stored'[m]>>
    <3>1. Recorded(2)
      BY <1>3, <1>4, <2>3, Zenon
    <3>2. CASE m \in plan
      BY <1>2, <1>6, <2>3, <3>2, Zenon DEF StoredBy
    <3>3. CASE m \notin plan
      BY <1>1, <1>2, <1>6, <1>11, <2>3, <3>1, <3>3 DEF TrackerInv
    <3> QED BY <3>2, <3>3
  <2> QED BY <1>2, <2>1, <2>2, <2>3 DEF TrackerInv
<1>15. RunnerInv(r)'
  <2>1. /\ runner'[r].pc = "done" /\ runner'[r].job = "apply" /\ runner'[r].saw = effect'
        /\ runner'[r].release = runner[r].release
    BY <1>1, <1>2, <1>7, EndFacts, Zenon
  <2>2. Files(r)' = Files(r) /\ \A m : Text(r, m)' = Text(r, m)
    BY <2>1, Zenon DEF Files, Text
  <2>3. \A m \in Files(r) : effect'[m] \in Texts \ {<<>>}
    BY <1>1, <1>3, <1>4, <1>6, <1>7, TextFacts, Zenon DEF TrackerInv
  <2>4. ASSUME database = "ledger", NEW m \in Files(r)
        PROVE  effect'[m] = <<Text(r, m)>>
    <3>1. CASE m \in plan
      BY <1>4, <1>6, <3>1, Zenon
    <3>2. CASE m \notin plan
      <4>1. Recorded(m) /\ m \in Migrations
        BY <1>3, <1>4, <3>2, Zenon
      <4>2. CASE HasChecksum
        BY <1>1, <1>6, <1>12, <2>4, <3>2, <4>1, <4>2, Zenon DEF TrackerInv, HasChecksum, ChecksumsMatch
      <4>3. CASE LegacyTracker
        BY <1>6, <1>13, <2>4, <3>2, <4>1, <4>3, Zenon DEF LegacyTracker
      <4> QED BY <1>12, <2>4, <4>2, <4>3
    <3> QED BY <3>1, <3>2
  <2>5. database = "ledger" => runner'[r].release.edited # 1
    BY <1>12, <2>1, Zenon
  <2>6. \A m \in Files(r) :
          /\ runner'[r].saw[m] \in Texts \ {<<>>}
          /\ database = "ledger" => runner'[r].saw[m] = <<Text(r, m)>>
    BY <2>1, <2>3, <2>4, Zenon
  <2>7. \A m \in Files(r)' :
          /\ runner'[r].saw[m] \in Texts \ {<<>>}
          /\ database' = "ledger" => runner'[r].saw[m] = <<Text(r, m)'>>
    BY <1>2, <2>1, <2>6, Zenon DEF Files, Text
  <2> QED BY <1>2, <2>1, <2>5, <2>7 DEF RunnerInv
<1>16. ASSUME NEW q \in Runners \ {r} PROVE RunnerInv(q)'
  <2>1. RunnerInv(q) /\ runner[q].pc \notin {"check", "commit"}
    BY <1>3, Zenon DEF MigrationsInv, RunnerInv
  <2>2. /\ runner'[q].job = runner[q].job /\ runner'[q].release = runner[q].release
        /\ runner'[q].plan = runner[q].plan /\ runner'[q].saw = runner[q].saw
        /\ \/ runner'[q].pc = runner[q].pc
           \/ runner[q].pc = "blocked" /\ runner'[q].pc \in {"create", "failed"}
    BY <1>1, <1>2, <1>7, EndFacts, Zenon
  <2> QED BY <1>2, <2>1, <2>2, RunnerKept
<1> QED BY <1>10, <1>14, <1>15, <1>16 DEF MigrationsInv

\* A rollback takes the record of a migration away with its effect.
LEMMA RollbackStep ==
  ASSUME MigrationsInv, NEW r \in Runners, CommitRollback(r)
  PROVE  MigrationsInv'
<1> DEFINE undone == IF database = "ledger" THEN Migrations ELSE runner[r].plan
<1>1. MigrationsTypeOK /\ TrackerInv /\ RunnerInv(r)
  BY DEF MigrationsInv
<1>2. /\ runner[r].pc = "commit" /\ runner[r].job = "rollback" /\ EndTransaction(r, TRUE)
      /\ tracker' = (database = "consolidation") /\ database' = database
      /\ stored' = [m \in Migrations |-> IF m \in undone THEN "" ELSE stored[m]]
      /\ effect' = [m \in Migrations |-> IF m \in undone THEN <<>> ELSE effect[m]]
  BY Zenon DEF CommitRollback
<1>3. holder = r
  BY <1>1, <1>2, Zenon DEF RunnerInv
<1>4. effect' \in [Migrations -> Texts]
  BY <1>1, <1>2, Zenon DEF MigrationsTypeOK, Texts
<1>5. stored' \in [Migrations -> {"", "unchecked", "published", "edited"}]
  BY <1>1, <1>2, Zenon DEF MigrationsTypeOK
<1>6. MigrationsTypeOK'
  BY <1>1, <1>2, <1>4, <1>5, EndFacts, Zenon DEF MigrationsTypeOK
<1>7. TrackerInv'
  <2>1. \A m \in Migrations : Recorded(m)' <=> effect'[m] # <<>>
    BY <1>1, <1>2, Zenon DEF TrackerInv, Recorded
  <2>2. database = "ledger" => \A m \in Migrations : ~Recorded(m)'
    BY <1>2, Zenon DEF Recorded
  <2> QED BY <1>2, <2>1, <2>2 DEF TrackerInv
<1>8. RunnerInv(r)'
  <2>1. runner'[r].pc = "done" /\ runner'[r].job = "rollback"
    BY <1>1, <1>2, <1>4, EndFacts, Zenon
  <2> QED BY <2>1 DEF RunnerInv
<1>9. ASSUME NEW q \in Runners \ {r} PROVE RunnerInv(q)'
  <2>1. RunnerInv(q) /\ runner[q].pc \notin {"check", "commit"}
    BY <1>3, Zenon DEF MigrationsInv, RunnerInv
  <2>2. /\ runner'[q].job = runner[q].job /\ runner'[q].release = runner[q].release
        /\ runner'[q].plan = runner[q].plan /\ runner'[q].saw = runner[q].saw
        /\ \/ runner'[q].pc = runner[q].pc
           \/ runner[q].pc = "blocked" /\ runner'[q].pc \in {"create", "failed"}
    BY <1>1, <1>2, <1>4, EndFacts, Zenon
  <2> QED BY <1>2, <2>1, <2>2, RunnerKept
<1> QED BY <1>6, <1>7, <1>8, <1>9 DEF MigrationsInv

\* Whatever releases and rollbacks meet in one database, and wherever their transactions are
\* lost, the tracker lists what is in effect, each migration once, and a release that reports
\* success finds its own migrations in place (Apply and RollbackAll of the ledger, ApplyMigrations
\* and RevertMigration of the consolidation).
THEOREM MigrationsAppliedOnce == MigrationsSpec => []MigratedOnce
<1>1. MigrationsInit => MigrationsInv
  <2> SUFFICES ASSUME MigrationsInit PROVE MigrationsInv
    OBVIOUS
  <2>1. PICK old \in {{}, {1}} :
          /\ old # {} => database = "ledger"
          /\ tracker = (old # {})
          /\ stored = [m \in Migrations |-> IF m \in old THEN "unchecked" ELSE ""]
          /\ effect = [m \in Migrations |-> IF m \in old THEN <<"published">> ELSE <<>>]
    BY Zenon DEF MigrationsInit
  <2>2. runner = [r \in Runners |-> Idle] /\ database \in {"ledger", "consolidation"}
    BY Zenon DEF MigrationsInit
  <2>3. Idle \in RunnerType
    BY MigrationAssumption DEF Idle, RunnerType, MigrationSteps
  <2>4. MigrationsTypeOK
    BY <2>1, <2>2, <2>3, Zenon DEF MigrationsTypeOK, Texts
  <2>5. TrackerInv
    <3>1. \A m \in Migrations : (Recorded(m) <=> m \in old) /\ (effect[m] # <<>> <=> m \in old)
      BY <2>1, Zenon DEF Recorded
    <3>2. 2 \in Migrations /\ 2 \notin old
      BY MigrationAssumption DEF Migrations
    <3> QED BY <2>1, <3>1, <3>2 DEF TrackerInv
  <2>6. ASSUME NEW r \in Runners PROVE RunnerInv(r)
    BY <2>2, Zenon DEF RunnerInv, Idle
  <2> QED BY <2>4, <2>5, <2>6 DEF MigrationsInv
<1>2. MigrationsInv /\ [MigrationsNext]_migrationVars => MigrationsInv'
  <2> SUFFICES ASSUME MigrationsInv, [MigrationsNext]_migrationVars PROVE MigrationsInv'
    OBVIOUS
  <2>1. CASE UNCHANGED migrationVars
    <3>1. MigrationsTypeOK' /\ TrackerInv'
      BY <2>1, Zenon DEF migrationVars, MigrationsInv, MigrationsTypeOK, TrackerInv, Recorded
    <3>2. ASSUME NEW q \in Runners PROVE RunnerInv(q)'
      <4>1. RunnerInv(q) /\ (runner[q].pc \in {"check", "commit"} => holder = q)
        BY Zenon DEF MigrationsInv, RunnerInv
      <4> QED BY <2>1, <4>1, RunnerStays DEF migrationVars
    <3> QED BY <3>1, <3>2 DEF MigrationsInv
  <2>2. CASE MigrationsNext
    BY <2>2, WaitingSteps, ApplyStep, RollbackStep, Zenon DEF MigrationsNext
  <2> QED BY <2>1, <2>2
<1>3. MigrationsInv => MigratedOnce
  <2> SUFFICES ASSUME MigrationsInv PROVE MigratedOnce
    BY Zenon
  <2>1. \A m \in Migrations : Len(effect[m]) = IF Recorded(m) THEN 1 ELSE 0
    BY TextFacts, Zenon DEF MigrationsInv, MigrationsTypeOK, TrackerInv
  <2>2. ASSUME NEW r \in Runners, runner[r].pc = "done", runner[r].job = "apply", NEW m \in Files(r)
        PROVE  Len(runner[r].saw[m]) = 1 /\ (database = "ledger" => runner[r].saw[m] = <<Text(r, m)>>)
    <3>1. runner[r].saw[m] \in Texts \ {<<>>} /\ (database = "ledger" => runner[r].saw[m] = <<Text(r, m)>>)
      BY <2>2, Zenon DEF MigrationsInv, RunnerInv
    <3> QED BY <3>1, TextFacts
  <2> QED BY <2>1, <2>2 DEF MigratedOnce
<1> QED BY <1>1, <1>2, <1>3, PTL DEF MigrationsSpec

-----------------------------------------------------------------------------
(* The cutover of the broker *)

CutoverSteps ==
  {"none", "marker", "preflight", "get", "copy", "ack", "bind", "unbind", "bindDLQ", "unbindDLQ", "finish"}

TopologyTypeOK ==
  /\ queue \in [Queues -> SUBSET Events]
  /\ marker \in BOOLEAN
  /\ active \in {"", "v1", "v2"}
  /\ migration \in [direction : {"", "upgrade", "rollback"}, pc : CutoverSteps, held : Events \cup {NoEvent}]
  /\ migration.pc # "none" => migration.direction # ""
  /\ migration.held # NoEvent <=> migration.pc \in {"copy", "ack"}
  /\ publisher \in {"off", "checked", "open"}
  /\ consumer \in [connected : BOOLEAN, held : Events \cup {NoEvent}]
  /\ routed \subseteq Events

\* Nothing is in the other queue only, except what a consumer handed back to it.
Safe(q) == routed \subseteq consumed \cup {consumer.held} \cup queue[q] \cup handedBack

\* The backlog is moved, the bindings are being swapped.
Moved == migration.pc \in {"bind", "unbind", "bindDLQ", "unbindDLQ", "finish"}

\* A copy that is not yet acknowledged is already safe.
AckInv ==
  migration.pc = "ack" =>
    \/ migration.held \in queue[Destination]
    \/ Destination = "v2" /\ migration.held \in consumed \cup {consumer.held}

\* Every event is somewhere.
QueueInv ==
  /\ routed \subseteq consumed \cup InFlight \cup queue["v1"] \cup queue["v2"]
  /\ AckInv
  /\ active \in Queues => Safe(active)
  /\ Moved => Safe(Destination)

\* The old binding goes only after the new one is there.
BoundInv ==
  /\ bound \cap Queues # {}
  /\ bound \cap {DLQ(q) : q \in Queues} # {}
  /\ active \in Queues => active \in bound
  /\ migration.pc \in {"unbind", "bindDLQ", "unbindDLQ", "finish"} => Destination \in bound
  /\ migration.pc \in {"unbindDLQ", "finish"} => DLQ(Destination) \in bound
  /\ publisher = "open" => "v2" \in bound

\* Publishers of this release run only while "v2" is in service, and a queue that is left is
\* out of service before its bindings are touched.
ServiceInv ==
  /\ marker => active = "v2"
  /\ publisher # "off" => marker
  /\ Running /\ migration.direction = "rollback" => publisher = "off"
  /\ migration.pc = "marker" => migration.direction = "rollback"
  /\ Running /\ migration.direction = "rollback" /\ migration.pc # "marker" => ~marker
  /\ migration.pc \notin {"none", "marker", "preflight"} => active \in {"", Destination}

TopologyInv == TopologyTypeOK /\ QueueInv /\ BoundInv /\ ServiceInv

-----------------------------------------------------------------------------
(* The proof of the cutover *)

\* There are two dead-letter queues.
LEMMA DeadLetterQueues == {DLQ(q) : q \in Queues} = {"v1.dlq", "v2.dlq"}
BY DEF DLQ, Queues

\* The types are kept, and the command holds an event between Get and Ack only.
LEMMA TopologyTypes ==
  ASSUME TopologyTypeOK, [TopologyNext]_topologyVars
  PROVE  TopologyTypeOK'
<1> USE EventAssumption DEF TopologyTypeOK, CutoverSteps, Queues, Source, Destination
<1>1. CASE Start
  BY <1>1 DEF Start, Resting
<1>2. CASE DeleteMarker
  BY <1>2, Zenon DEF DeleteMarker, Step
<1>3. CASE Preflight
  BY <1>3, Zenon DEF Preflight, Step
<1>4. CASE Get
  <2>1. PICK e \in queue[Source] :
          /\ queue' = [queue EXCEPT ![Source] = @ \ {e}]
          /\ migration' = [migration EXCEPT !.pc = "copy", !.held = e]
    BY <1>4, Zenon DEF Get
  <2>2. e \in Events /\ e # NoEvent
    BY Zenon
  <2>3. queue' \in [Queues -> SUBSET Events]
    BY <2>1, Zenon
  <2>4. /\ migration' \in [direction : {"", "upgrade", "rollback"}, pc : CutoverSteps, held : Events \cup {NoEvent}]
        /\ migration'.pc = "copy" /\ migration'.held = e /\ migration'.direction = migration.direction
    BY <2>1, <2>2, Zenon
  <2> QED BY <1>4, <2>2, <2>3, <2>4 DEF Get
<1>5. CASE Copy
  BY <1>5, Zenon DEF Copy, Step
<1>6. CASE Ack
  BY <1>6, Zenon DEF Ack
<1>7. CASE Drained
  BY <1>7, Zenon DEF Drained, Step
<1>8. CASE Bind
  BY <1>8, Zenon DEF Bind, Rebind, Step
<1>9. CASE Unbind
  BY <1>9, Zenon DEF Unbind, Rebind, Step
<1>10. CASE BindDLQ
  BY <1>10, Zenon DEF BindDLQ, Rebind, Step
<1>11. CASE UnbindDLQ
  BY <1>11, Zenon DEF UnbindDLQ, Rebind, Step
<1>12. CASE Complete
  BY <1>12, Zenon DEF Complete, Resting
<1>13. CASE Fail
  BY <1>13 DEF Fail, Resting
<1>14. CASE RequireTopologyCutover
  BY <1>14, Zenon DEF RequireTopologyCutover
<1>15. CASE DeclareTopology
  BY <1>15, Zenon DEF DeclareTopology
<1>16. CASE Disconnect
  BY <1>16 DEF Disconnect
<1>17. CASE Publish
  <2>1. PICK e \in Events \ routed :
          /\ queue' = [q \in Queues |-> IF q \in bound THEN queue[q] \cup {e} ELSE queue[q]]
          /\ routed' = routed \cup {e}
    BY <1>17, Zenon DEF Publish
  <2>2. queue' \in [Queues -> SUBSET Events]
    BY <2>1, Zenon
  <2> QED BY <1>17, <2>1, <2>2 DEF Publish
<1>18. CASE ConnectConsumer
  BY <1>18, Zenon DEF ConnectConsumer
<1>19. CASE Deliver
  <2>1. PICK e \in queue["v2"] :
          /\ queue' = [queue EXCEPT !["v2"] = @ \ {e}]
          /\ consumer' = [consumer EXCEPT !.held = e]
    BY <1>19, Zenon DEF Deliver
  <2>2. queue' \in [Queues -> SUBSET Events]
    BY <2>1, Zenon
  <2>3. consumer' \in [connected : BOOLEAN, held : Events \cup {NoEvent}]
    BY <2>1, Zenon
  <2> QED BY <1>19, <2>2, <2>3 DEF Deliver
<1>20. CASE Consume
  BY <1>20, Zenon DEF Consume
<1>21. CASE ConsumerDies
  BY <1>21, Zenon DEF ConsumerDies
<1>22. CASE UNCHANGED topologyVars
  BY <1>22 DEF topologyVars
<1> QED BY <1>1, <1>2, <1>3, <1>4, <1>5, <1>6, <1>7, <1>8, <1>9, <1>10, <1>11, <1>12, <1>13, <1>14, <1>15, <1>16, <1>17, <1>18, <1>19, <1>20, <1>21, <1>22 DEF TopologyNext

\* The marker, the queue in service and the publishers stay in step.
LEMMA TopologyService ==
  ASSUME TopologyTypeOK, ServiceInv, [TopologyNext]_topologyVars
  PROVE  ServiceInv'
<1> USE EventAssumption DEF TopologyTypeOK, CutoverSteps, ServiceInv, Running, Destination
<1>1. CASE Start
  BY <1>1, Zenon DEF Start, Resting
<1>2. CASE DeleteMarker
  BY <1>2, Zenon DEF DeleteMarker, Step
<1>3. CASE Preflight
  BY <1>3, Zenon DEF Preflight, Step
<1>4. CASE Get
  BY <1>4, Zenon DEF Get
<1>5. CASE Copy
  BY <1>5, Zenon DEF Copy, Step
<1>6. CASE Ack
  BY <1>6, Zenon DEF Ack
<1>7. CASE Drained
  BY <1>7, Zenon DEF Drained, Step
<1>8. CASE Bind
  BY <1>8, Zenon DEF Bind, Rebind, Step
<1>9. CASE Unbind
  BY <1>9, Zenon DEF Unbind, Rebind, Step
<1>10. CASE BindDLQ
  BY <1>10, Zenon DEF BindDLQ, Rebind, Step
<1>11. CASE UnbindDLQ
  BY <1>11, Zenon DEF UnbindDLQ, Rebind, Step
<1>12. CASE Complete
  BY <1>12, Zenon DEF Complete, Resting
<1>13. CASE Fail
  BY <1>13, Zenon DEF Fail, Resting
<1>14. CASE RequireTopologyCutover
  BY <1>14, Zenon DEF RequireTopologyCutover
<1>15. CASE DeclareTopology
  BY <1>15, Zenon DEF DeclareTopology
<1>16. CASE Disconnect
  BY <1>16, Zenon DEF Disconnect
<1>17. CASE Publish
  BY <1>17, Zenon DEF Publish, LegacyPublishes
<1>18. CASE ConnectConsumer
  BY <1>18, Zenon DEF ConnectConsumer
<1>19. CASE Deliver
  BY <1>19, Zenon DEF Deliver
<1>20. CASE Consume
  BY <1>20, Zenon DEF Consume
<1>21. CASE ConsumerDies
  BY <1>21, Zenon DEF ConsumerDies
<1>22. CASE UNCHANGED topologyVars
  BY <1>22 DEF topologyVars
<1> QED BY <1>1, <1>2, <1>3, <1>4, <1>5, <1>6, <1>7, <1>8, <1>9, <1>10, <1>11, <1>12, <1>13, <1>14, <1>15, <1>16, <1>17, <1>18, <1>19, <1>20, <1>21, <1>22 DEF TopologyNext

\* A binding is removed only when its successor is in place.
LEMMA TopologyBound ==
  ASSUME TopologyTypeOK, ServiceInv, BoundInv, [TopologyNext]_topologyVars
  PROVE  BoundInv'
<1> USE EventAssumption DEF TopologyTypeOK, CutoverSteps, ServiceInv, BoundInv, Running, Queues, DLQ, Source, Destination
<1>1. CASE Start
  BY <1>1, Zenon DEF Start, Resting
<1>2. CASE DeleteMarker
  BY <1>2, Zenon DEF DeleteMarker, Step
<1>3. CASE Preflight
  BY <1>3, Zenon DEF Preflight, Step
<1>4. CASE Get
  <2>1. migration'.pc = "copy" /\ UNCHANGED <<bound, active, publisher>>
    BY <1>4, Zenon DEF Get
  <2> QED BY <2>1
<1>5. CASE Copy
  BY <1>5, Zenon DEF Copy, Step
<1>6. CASE Ack
  BY <1>6, Zenon DEF Ack
<1>7. CASE Drained
  BY <1>7, Zenon DEF Drained, Step
<1>8. CASE Bind
  BY <1>8, Zenon DEF Bind, Rebind, Step
<1>9. CASE Unbind
  <2>1. migration.pc = "unbind" /\ bound' = bound \ {Source}
    BY <1>9, Zenon DEF Unbind, Rebind, Step
  <2>2. migration'.pc = "bindDLQ" /\ migration'.direction = migration.direction
    BY <1>9, Zenon DEF Unbind, Rebind, Step
  <2>3. Destination \in bound' /\ DLQ("v1") # Source /\ DLQ("v2") # Source
    BY <2>1, Zenon
  <2>4. bound' \cap {DLQ(q) : q \in Queues} # {}
    BY <2>1, <2>3, DeadLetterQueues, Zenon
  <2>5. publisher = "open" => "v2" \in bound'
    BY <2>1, Zenon
  <2>6. active \in Queues => active \in bound'
    BY <2>1, <2>3, Zenon
  <2> QED BY <1>9, <2>2, <2>3, <2>4, <2>5, <2>6 DEF Unbind, Rebind
<1>10. CASE BindDLQ
  BY <1>10, Zenon DEF BindDLQ, Rebind, Step
<1>11. CASE UnbindDLQ
  <2>1. migration.pc = "unbindDLQ" /\ bound' = bound \ {DLQ(Source)}
    BY <1>11, Zenon DEF UnbindDLQ, Rebind, Step
  <2>2. migration'.pc = "finish" /\ migration'.direction = migration.direction
    BY <1>11, Zenon DEF UnbindDLQ, Rebind, Step
  <2>3. DLQ(Destination) \in bound' /\ \A q \in Queues : q \in bound => q \in bound'
    BY <2>1, Zenon
  <2>4. bound' \cap {DLQ(q) : q \in Queues} # {}
    BY <2>3, DeadLetterQueues, Zenon
  <2>5. bound' \cap Queues # {}
    BY <2>3
  <2> QED BY <1>11, <2>1, <2>2, <2>3, <2>4, <2>5 DEF UnbindDLQ, Rebind
<1>12. CASE Complete
  BY <1>12, Zenon DEF Complete, Resting
<1>13. CASE Fail
  BY <1>13, Zenon DEF Fail, Resting
<1>14. CASE RequireTopologyCutover
  BY <1>14, Zenon DEF RequireTopologyCutover
<1>15. CASE DeclareTopology
  BY <1>15, Zenon DEF DeclareTopology
<1>16. CASE Disconnect
  BY <1>16, Zenon DEF Disconnect
<1>17. CASE Publish
  BY <1>17, Zenon DEF Publish, LegacyPublishes
<1>18. CASE ConnectConsumer
  BY <1>18, Zenon DEF ConnectConsumer
<1>19. CASE Deliver
  BY <1>19, Zenon DEF Deliver
<1>20. CASE Consume
  BY <1>20, Zenon DEF Consume
<1>21. CASE ConsumerDies
  BY <1>21, Zenon DEF ConsumerDies
<1>22. CASE UNCHANGED topologyVars
  BY <1>22, Zenon DEF topologyVars
<1> QED BY <1>1, <1>2, <1>3, <1>4, <1>5, <1>6, <1>7, <1>8, <1>9, <1>10, <1>11, <1>12, <1>13, <1>14, <1>15, <1>16, <1>17, <1>18, <1>19, <1>20, <1>21, <1>22 DEF TopologyNext

\* No event gets out of the queues.
LEMMA TopologyQueue ==
  ASSUME TopologyTypeOK, ServiceInv, BoundInv, QueueInv, [TopologyNext]_topologyVars
  PROVE  QueueInv'
<1> USE EventAssumption DEF TopologyTypeOK, CutoverSteps, ServiceInv, BoundInv, QueueInv, AckInv, Safe, Moved, InFlight, Running, Queues, Source, Destination
<1>1. CASE Start
  <2>1. /\ migration'.pc \in {"marker", "preflight"}
        /\ migration'.held = NoEvent /\ migration.held = NoEvent
        /\ UNCHANGED <<queue, active, consumer, routed, consumed, handedBack>>
    BY <1>1, Zenon DEF Start, Resting
  <2> QED BY <2>1
<1>2. CASE DeleteMarker
  BY <1>2, Zenon DEF DeleteMarker, Step
<1>3. CASE Preflight
  <2>1. /\ migration'.pc = "get" /\ migration'.held = migration.held
        /\ active' \in {"", active}
        /\ UNCHANGED <<queue, consumer, routed, consumed, handedBack>>
    BY <1>3, Zenon DEF Preflight, Step
  <2> QED BY <2>1
<1>4. CASE Get
  <2>1. PICK e \in queue[Source] :
          /\ queue' = [queue EXCEPT ![Source] = @ \ {e}]
          /\ migration' = [migration EXCEPT !.pc = "copy", !.held = e]
    BY <1>4, Zenon DEF Get
  <2>2. /\ migration'.pc = "copy" /\ migration'.held = e /\ migration'.direction = migration.direction
        /\ migration.held = NoEvent /\ migration.pc = "get" /\ e # NoEvent
    <3>1. migration.pc = "get" /\ migration.held = NoEvent
      BY <1>4, Zenon DEF Get
    <3>2. e # NoEvent
      BY Zenon
    <3> QED BY <2>1, <3>1, <3>2
  <2>3. /\ queue'[Destination] = queue[Destination]
        /\ queue'[Source] = queue[Source] \ {e}
    BY <2>1, Zenon
  <2>4. UNCHANGED <<routed, consumed, consumer, active, handedBack>>
    BY <1>4, Zenon DEF Get
  <2>5. (routed \subseteq consumed \cup InFlight \cup queue["v1"] \cup queue["v2"])'
    BY <2>2, <2>3, <2>4
  <2>6. (active \in Queues => Safe(active))'
    BY <2>2, <2>3, <2>4, Zenon
  <2> QED BY <2>2, <2>5, <2>6
<1>5. CASE Copy
  BY <1>5, Zenon DEF Copy, Step
<1>6. CASE Ack
  BY <1>6 DEF Ack
<1>7. CASE Drained
  BY <1>7 DEF Drained, Step
<1>8. CASE Bind
  BY <1>8, Zenon DEF Bind, Rebind, Step
<1>9. CASE Unbind
  BY <1>9 DEF Unbind, Rebind, Step
<1>10. CASE BindDLQ
  BY <1>10, Zenon DEF BindDLQ, Rebind, Step
<1>11. CASE UnbindDLQ
  BY <1>11 DEF UnbindDLQ, Rebind, Step
<1>12. CASE Complete
  BY <1>12, Zenon DEF Complete, Resting
<1>13. CASE Fail
  <2>1. /\ queue' = [queue EXCEPT ![Source] = @ \cup ({migration.held} \ {NoEvent})]
        /\ migration' = Resting
        /\ UNCHANGED <<routed, consumed, consumer, active, handedBack>>
    BY <1>13, Zenon DEF Fail
  <2>2. /\ queue'[Destination] = queue[Destination]
        /\ queue'[Source] = queue[Source] \cup ({migration.held} \ {NoEvent})
    BY <2>1, Zenon
  <2>3. (routed \subseteq consumed \cup InFlight \cup queue["v1"] \cup queue["v2"])'
    BY <2>1, <2>2
  <2>4. (active \in Queues => Safe(active))'
    BY <2>1, <2>2, Zenon
  <2>5. migration'.pc = "none"
    BY <2>1, Zenon DEF Resting
  <2> QED BY <2>3, <2>4, <2>5
<1>14. CASE RequireTopologyCutover
  BY <1>14, Zenon DEF RequireTopologyCutover
<1>15. CASE DeclareTopology
  BY <1>15, Zenon DEF DeclareTopology
<1>16. CASE Disconnect
  BY <1>16, Zenon DEF Disconnect
<1>17. CASE Publish
  <2>1. PICK e \in Events \ routed :
          /\ queue' = [q \in Queues |-> IF q \in bound THEN queue[q] \cup {e} ELSE queue[q]]
          /\ routed' = routed \cup {e}
    BY <1>17, Zenon DEF Publish
  <2>2. UNCHANGED <<migration, consumed, consumer, active, handedBack>>
    BY <1>17, Zenon DEF Publish
  <2>3. /\ \A q \in Queues : queue[q] \subseteq queue'[q]
        /\ \A q \in Queues \cap bound : e \in queue'[q]
    BY <2>1, Zenon
  <2>4. (routed \subseteq consumed \cup InFlight \cup queue["v1"] \cup queue["v2"])'
    <3>1. PICK q \in Queues : e \in queue'[q]
      BY <2>3, Zenon
    <3> QED BY <2>1, <2>2, <2>3, <3>1
  <2>5. (active \in Queues => Safe(active))'
    BY <2>1, <2>2, <2>3, Zenon
  <2>6. Moved => Destination \in bound
    BY <1>17, Zenon DEF Publish, LegacyPublishes
  <2>7. (Moved => Safe(Destination))'
    BY <2>1, <2>2, <2>3, <2>6
  <2>8. AckInv'
    BY <2>2, <2>3, Zenon
  <2> QED BY <2>4, <2>5, <2>7, <2>8
<1>18. CASE ConnectConsumer
  BY <1>18, Zenon DEF ConnectConsumer
<1>19. CASE Deliver
  <2>1. PICK e \in queue["v2"] :
          /\ queue' = [queue EXCEPT !["v2"] = @ \ {e}]
          /\ consumer' = [consumer EXCEPT !.held = e]
    BY <1>19, Zenon DEF Deliver
  <2>2. /\ consumer.held = NoEvent /\ consumer'.held = e /\ e \in Events
        /\ UNCHANGED <<migration, routed, consumed, active, handedBack>>
    BY <1>19, <2>1, Zenon DEF Deliver
  <2>3. queue'["v1"] = queue["v1"] /\ queue'["v2"] = queue["v2"] \ {e}
    BY <2>1, Zenon
  <2>4. (routed \subseteq consumed \cup InFlight \cup queue["v1"] \cup queue["v2"])'
    BY <2>2, <2>3, Zenon
  <2>5. \A q \in Queues : Safe(q) => routed \subseteq consumed \cup {e} \cup queue'[q] \cup handedBack
    <3>1. \A q \in Queues : queue[q] \subseteq queue'[q] \cup {e}
      BY <2>3, Zenon
    <3>2. NoEvent \notin routed
      BY Zenon
    <3> SUFFICES ASSUME NEW q \in Queues, Safe(q), NEW x \in routed
                 PROVE  x \in consumed \cup {e} \cup queue'[q] \cup handedBack
      BY Zenon
    <3> QED BY <2>2, <3>1, <3>2
  <2>6. (active \in Queues => Safe(active))' /\ (Moved => Safe(Destination))'
    BY <2>2, <2>5, Zenon
  <2>7. AckInv'
    BY <2>2, <2>3, Zenon
  <2> QED BY <2>4, <2>6, <2>7
<1>20. CASE Consume
  BY <1>20 DEF Consume
<1>21. CASE ConsumerDies
  <2>1. /\ queue' = [queue EXCEPT !["v2"] = @ \cup ({consumer.held} \ {NoEvent})]
        /\ consumer'.held = NoEvent
        /\ UNCHANGED <<migration, routed, consumed, active>>
    BY <1>21, Zenon DEF ConsumerDies
  <2>2. queue'["v1"] = queue["v1"] /\ queue'["v2"] = queue["v2"] \cup ({consumer.held} \ {NoEvent})
    BY <2>1, Zenon
  <2>3. /\ handedBack \subseteq handedBack'
        /\ (Running \/ active # "v2") /\ consumer.held # NoEvent => consumer.held \in handedBack'
    BY <1>21, Zenon DEF ConsumerDies
  <2>4. (routed \subseteq consumed \cup InFlight \cup queue["v1"] \cup queue["v2"])'
    BY <2>1, <2>2, Zenon
  <2>5. (active \in Queues => Safe(active))'
    BY <2>1, <2>2, <2>3
  <2>6. (Moved => Safe(Destination))'
    BY <2>1, <2>2, <2>3
  <2>7. AckInv'
    BY <2>1, <2>2, Zenon
  <2> QED BY <2>4, <2>5, <2>6, <2>7
<1>22. CASE UNCHANGED topologyVars
  BY <1>22 DEF topologyVars
<1> QED BY <1>1, <1>2, <1>3, <1>4, <1>5, <1>6, <1>7, <1>8, <1>9, <1>10, <1>11, <1>12, <1>13, <1>14, <1>15, <1>16, <1>17, <1>18, <1>19, <1>20, <1>21, <1>22 DEF TopologyNext

\* The legacy topology satisfies the invariant.
LEMMA TopologyStart == TopologyInit => TopologyInv
<1> SUFFICES ASSUME TopologyInit PROVE TopologyInv
  BY Zenon
<1> USE EventAssumption DEF TopologyInit, Queues, Resting, DLQ
<1>1. TopologyTypeOK
  BY Zenon DEF TopologyTypeOK, CutoverSteps
<1>2. QueueInv
  BY Zenon DEF QueueInv, AckInv, Safe, Moved, InFlight
<1>3. BoundInv
  BY Zenon DEF BoundInv
<1>4. ServiceInv
  BY Zenon DEF ServiceInv, Running
<1> QED BY <1>1, <1>2, <1>3, <1>4 DEF TopologyInv

\* What the invariant says of a system at rest is the promise.
LEMMA TopologyPromise == TopologyInv => NothingStranded
<1> SUFFICES ASSUME TopologyInv PROVE NothingStranded
  BY Zenon
<1>1. routed \subseteq consumed \cup InFlight \cup queue["v1"] \cup queue["v2"]
  BY Zenon DEF TopologyInv, QueueInv
<1>2. bound \cap Queues # {} /\ bound \cap {DLQ(q) : q \in Queues} # {}
  BY Zenon DEF TopologyInv, BoundInv
<1>3. active \in Queues => Safe(active)
  BY Zenon DEF TopologyInv, QueueInv
<1>4. NoEvent \notin routed
  BY EventAssumption, Zenon DEF TopologyInv, TopologyTypeOK
<1>5. active \in Queues => routed \subseteq consumed \cup InFlight \cup queue[active] \cup handedBack
  BY <1>3, <1>4, Zenon DEF Safe, InFlight
<1> QED BY <1>1, <1>2, <1>5 DEF NothingStranded

\* For any events and any order of failures and retries of the two migrations next to
\* publishers and consumers, no event is lost and every publication finds a queue: cmd/
\* outbox-topology copies before it acknowledges, and binds before it unbinds.
THEOREM CutoverStrandsNothing == TopologySpec => []NothingStranded
<1>1. TopologyInv /\ [TopologyNext]_topologyVars => TopologyInv'
  BY TopologyTypes, TopologyService, TopologyBound, TopologyQueue, Zenon DEF TopologyInv
<1> QED BY <1>1, TopologyStart, TopologyPromise, PTL DEF TopologySpec
=============================================================================
