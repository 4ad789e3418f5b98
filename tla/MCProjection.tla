---------------------------- MODULE MCProjection ----------------------------
(***************************************************************************)
(* Instances of Projection for TLC.                                        *)
(***************************************************************************)
EXTENDS Projection

\* Entries of four days, as the ledger numbers them when an entry can be backdated
\* by a day.
LedgerEvents ==
  { [id |-> 1, position |-> 1, date |-> 1, type |-> "credit", amount |-> 5],
    [id |-> 2, position |-> 2, date |-> 3, type |-> "debit", amount |-> 2],
    [id |-> 3, position |-> 3, date |-> 2, type |-> "credit", amount |-> 3],
    [id |-> 4, position |-> 4, date |-> 4, type |-> "credit", amount |-> 1],
    [id |-> 5, position |-> 5, date |-> 4, type |-> "debit", amount |-> 4] }
=============================================================================
