---------------------------- MODULE Migrations ----------------------------
(***************************************************************************)
(* The schema migrations of one of the two databases: releases of the      *)
(* migrate command run at the same time, next to the rollback of the       *)
(* ledger (RollbackAll) or of one consolidation migration                  *)
(* (RevertMigration).  Each is one transaction that may fail or be lost at *)
(* any point.                                                              *)
(*                                                                         *)
(* The ledger keeps a checksum with each migration, in a column that       *)
(* migration 2 adds, and creates its tracker before it takes the advisory  *)
(* lock; the consolidation keeps names only and takes the lock first.      *)
(***************************************************************************)
EXTENDS Integers, Sequences

CONSTANTS
  Runners,
  LastMigration,
  Releases,  \* the binaries: their number of migrations and the migration edited since
  Nobody

ASSUME MigrationAssumption ==
  /\ LastMigration \in Nat /\ LastMigration >= 2 /\ Nobody \notin Runners
  /\ Releases \subseteq [count : 2 .. LastMigration, edited : 0 .. LastMigration]

VARIABLES
  database,  \* "ledger" or "consolidation"
  tracker,   \* exists
  stored,    \* what the tracker says of a migration, "" if it is not recorded
  effect,    \* the texts of a migration that were executed and not undone
  creator,   \* creates the tracker in its open transaction
  holder,    \* of the advisory lock
  runner

migrationVars == <<database, tracker, stored, effect, creator, holder, runner>>

Migrations == 1 .. LastMigration

Idle == [pc |-> "idle", job |-> "", plan |-> {}, release |-> [count |-> 2, edited |-> 0], saw |-> <<>>]

\* A new database, or a ledger from before the checksums.
MigrationsInit ==
  /\ database \in {"ledger", "consolidation"}
  /\ \E old \in {{}} \cup (IF database = "ledger" THEN {{1}} ELSE {}) :
       /\ tracker = (old # {})
       /\ stored = [m \in Migrations |-> IF m \in old THEN "unchecked" ELSE ""]
       /\ effect = [m \in Migrations |-> IF m \in old THEN <<"published">> ELSE <<>>]
  /\ creator = Nobody /\ holder = Nobody
  /\ runner = [r \in Runners |-> Idle]

Files(r) == 1 .. runner[r].release.count

Text(r, m) == IF m = runner[r].release.edited THEN "edited" ELSE "published"

Advance(r, pc) == runner' = [runner EXCEPT ![r].pc = pc]

\* Apply refuses a binary whose first migration was modified; RollbackAll has nothing to do
\* without a tracker.
BeginMigration(r) ==
  /\ runner[r].pc = "idle"
  /\ \E release \in Releases, job \in {"apply", "rollback"} :
       LET start == IF database = "consolidation" THEN "lock"
                    ELSE IF job = "apply" THEN IF release.edited = 1 THEN "failed" ELSE "create"
                    ELSE IF tracker THEN "lock" ELSE "done"
       IN runner' = [runner EXCEPT ![r] = [Idle EXCEPT !.pc = start, !.job = job, !.release = release]]
  /\ UNCHANGED <<database, tracker, stored, effect, creator, holder>>

\* CREATE ... IF NOT EXISTS of a name that an open transaction creates waits for it.
Create(r) ==
  /\ runner[r].pc = "create"
  /\ IF ~tracker /\ creator # Nobody THEN Advance(r, "blocked") /\ UNCHANGED creator
     ELSE Advance(r, "lock") /\ creator' = IF tracker THEN creator ELSE r
  /\ UNCHANGED <<database, tracker, stored, effect, holder>>

Lock(r) ==
  /\ runner[r].pc = "lock" /\ holder = Nobody
  /\ holder' = r /\ Advance(r, "check")
  /\ UNCHANGED <<database, tracker, stored, effect, creator>>

\* The transaction ends: the lock is free, and who waits for the tracker's name either fails on
\* it or goes on to create it.
EndTransaction(r, committed) ==
  /\ holder' = IF holder = r THEN Nobody ELSE holder
  /\ creator' = IF creator = r THEN Nobody ELSE creator
  /\ runner' = [q \in Runners |->
       CASE q = r -> [runner[r] EXCEPT !.pc = IF committed THEN "done" ELSE "failed",
                                       !.plan = {}, !.saw = IF committed THEN effect' ELSE <<>>]
         [] q # r /\ creator = r /\ runner[q].pc = "blocked" ->
              [runner[q] EXCEPT !.pc = IF committed THEN "failed" ELSE "create"]
         [] OTHER -> runner[q]]

\* A failing statement, the end of the command's timeout, or a lost connection.
Abort(r) ==
  /\ runner[r].pc \notin {"idle", "done", "failed"}
  /\ UNCHANGED <<database, tracker, stored, effect>>
  /\ EndTransaction(r, FALSE)

-----------------------------------------------------------------------------
(* What the holder of the lock does *)

Recorded(m) == stored[m] # ""

HasChecksum == tracker /\ Recorded(2)

\* The tables and triggers of the first migration are the ones its validation looks for.
LegacyTracker == \A m \in Migrations : Recorded(m) => m = 1 /\ effect[1] = <<"published">>

\* Mutant of ChecksumsMatch: a recorded migration is skipped without a comparison.
Unchecked(r) == TRUE

ChecksumsMatch(r) ==
  HasChecksum => \A m \in Files(r) : Recorded(m) => stored[m] = Text(r, m)

\* The tracker may have gone with a rollback since this transaction looked for it.
Checked(r) ==
  IF database = "consolidation" THEN runner[r].job = "apply" \/ tracker
  ELSE /\ ChecksumsMatch(r)
       /\ IF runner[r].job = "apply" THEN (tracker \/ creator = r) /\ (HasChecksum \/ LegacyTracker)
          ELSE HasChecksum

Plans(r) ==
  LET recorded == {m \in Files(r) : Recorded(m)}
  IN IF runner[r].job = "apply" THEN {Files(r) \ recorded}
     ELSE IF database = "ledger" THEN {recorded}
     ELSE {{m} : m \in recorded}

Check(r) ==
  /\ runner[r].pc = "check"
  /\ Checked(r)
  /\ \E plan \in Plans(r) :
       runner' = [runner EXCEPT ![r].pc = "commit", ![r].plan = plan]
  /\ UNCHANGED <<database, tracker, stored, effect, creator, holder>>

\* What is recorded with a migration: a checksum once the column exists.  Migration 2 also fills
\* in the checksum of the first.
StoredBy(r, m) ==
  IF database = "consolidation" THEN "unchecked"
  ELSE IF m = 1 /\ 2 \in runner[r].plan THEN "published"
  ELSE Text(r, m)

CommitApply(r) ==
  LET plan == runner[r].plan
      legacy == database = "ledger" /\ 2 \in plan /\ Recorded(1)
  IN /\ runner[r].pc = "commit" /\ runner[r].job = "apply"
     /\ \A m \in plan : ~Recorded(m)
     /\ tracker' = TRUE
     /\ stored' = [m \in Migrations |->
          IF m \in plan \/ (legacy /\ m = 1) THEN StoredBy(r, m) ELSE stored[m]]
     /\ effect' = [m \in Migrations |->
          IF m \in plan THEN Append(effect[m], Text(r, m)) ELSE effect[m]]
     /\ EndTransaction(r, TRUE)
     /\ UNCHANGED database

\* RevertMigration undoes one migration; that of the first fails, as it drops the tracker before
\* the row is deleted from it.  RollbackAll drops the ledger's tables, the tracker
\* and the schema, and so also what a newer release had added to them.
CommitRollback(r) ==
  LET undone == IF database = "ledger" THEN Migrations ELSE runner[r].plan
  IN /\ runner[r].pc = "commit" /\ runner[r].job = "rollback"
     /\ database = "consolidation" => 1 \notin undone
     /\ tracker' = (database = "consolidation")
     /\ stored' = [m \in Migrations |-> IF m \in undone THEN "" ELSE stored[m]]
     /\ effect' = [m \in Migrations |-> IF m \in undone THEN <<>> ELSE effect[m]]
     /\ EndTransaction(r, TRUE)
     /\ UNCHANGED database

MigrationsNext ==
  \E r \in Runners :
    \/ BeginMigration(r) \/ Create(r) \/ Lock(r) \/ Abort(r)
    \/ Check(r) \/ CommitApply(r) \/ CommitRollback(r)

MigrationsSpec == MigrationsInit /\ [][MigrationsNext]_migrationVars

-----------------------------------------------------------------------------
(* Correctness *)

\* The tracker lists exactly the migrations in effect, each executed once, whatever releases,
\* rollbacks and lost transactions meet; and a release that reports success left the database
\* with every one of its migrations: in the ledger, with the text it carries itself.
MigratedOnce ==
  /\ \A m \in Migrations : Len(effect[m]) = IF Recorded(m) THEN 1 ELSE 0
  /\ \A r \in Runners : runner[r].pc = "done" /\ runner[r].job = "apply" =>
       \A m \in Files(r) :
         /\ Len(runner[r].saw[m]) = 1
         /\ database = "ledger" => runner[r].saw[m] = <<Text(r, m)>>
=============================================================================
