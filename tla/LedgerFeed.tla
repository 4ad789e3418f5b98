----------------------------- MODULE LedgerFeed -----------------------------
(***************************************************************************)
(* The ledger of one merchant as its readers see it: a log that grows by   *)
(* one position with every commit and never changes behind it.  That the   *)
(* write side keeps this promise is proved in LedgerReversalProofs         *)
(* (FeedAssumptionHolds, FeedStepsHold).                                   *)
(***************************************************************************)
EXTENDS Integers, FiniteSets

CONSTANT Entries  \* the entries the ledger confirms, one for each position

\* The primary key of an entry, and the unique position.
ASSUME EntriesAssumption ==
  /\ IsFiniteSet(Entries)
  /\ {e.position : e \in Entries} = 1..Cardinality(Entries)
  /\ \A e, f \in Entries : e.id = f.id \/ e.position = f.position => e = f

VARIABLE confirmed  \* merchant_position.last_position

\* The entry at the next position is committed.
Confirm ==
  /\ confirmed < Cardinality(Entries)
  /\ confirmed' = confirmed + 1
=============================================================================
