----------------------------- MODULE MCReadSide -----------------------------
(***************************************************************************)
(* The read side: entries are confirmed and projected beside queries, or   *)
(* beside reconciliations, or are listed from the ledger itself.  None of  *)
(* the three reads what another writes, so a behaviour has one of them.    *)
(***************************************************************************)
EXTENDS Reconciliation, Listing

VARIABLE reader

readSideVars == <<vars, confirmed, queryVars, reconciliationVars, listingVars, reader>>

SomeEntries ==
  { [id |-> 1, position |-> 1, date |-> 1, type |-> "credit", amount |-> 5],
    [id |-> 4, position |-> 2, date |-> 3, type |-> "debit", amount |-> 2],
    [id |-> 3, position |-> 3, date |-> 2, type |-> "credit", amount |-> 3],
    [id |-> 5, position |-> 4, date |-> 4, type |-> "credit", amount |-> 1],
    [id |-> 2, position |-> 5, date |-> 4, type |-> "debit", amount |-> 4] }

\* Two more events reuse a position and an id.
SomeEvents ==
  SomeEntries \cup
  { [id |-> 6, position |-> 2, date |-> 3, type |-> "debit", amount |-> 9],
    [id |-> 3, position |-> 5, date |-> 4, type |-> "credit", amount |-> 8] }

SomeFilters == {<<0, 9>>, <<2, 3>>}

ReadSideInit ==
  /\ Init /\ confirmed = 0 /\ QueryInit /\ ReconciliationInit /\ ListingInit
  /\ reader \in {"query", "reconcile", "list"}

ProjectionSide ==
  /\ \/ Confirm /\ UNCHANGED <<vars, queryVars, reconciliationVars>>
     \/ lock = None /\ Project /\ UNCHANGED reconciliationVars
     \/ reader = "query" /\ QueryStep /\ UNCHANGED reconciliationVars
     \/ reader = "reconcile" /\ ReconcileStep
  /\ UNCHANGED listingVars

ReadSideNext ==
  /\ \/ reader # "list" /\ ProjectionSide
     \/ reader = "list" /\ ListingNext /\ UNCHANGED <<vars, queryVars, reconciliationVars>>
  /\ UNCHANGED reader

ReadSideSpec == ReadSideInit /\ [][ReadSideNext]_readSideVars
=============================================================================
