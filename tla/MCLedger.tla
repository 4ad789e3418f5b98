------------------------------ MODULE MCLedger ------------------------------
(***************************************************************************)
(* Instances of Ledger for TLC.                                            *)
(***************************************************************************)
EXTENDS Ledger, TLC

\* Bodies that reach every check: no date, a date in the past that becomes too
\* old when the day changes, a future date, and a currency NewMoney refuses.
FourBodies ==
  { [type |-> "credit", amount |-> 5, currency |-> "BRL", date |-> None],
    [type |-> "debit", amount |-> 7, currency |-> "BRL", date |-> 0],
    [type |-> "credit", amount |-> 5, currency |-> "USD", date |-> None],
    [type |-> "credit", amount |-> 5, currency |-> "BRL", date |-> 2] }

Symmetry == Permutations(Calls) \cup Permutations(Merchants) \cup Permutations(Keys)
=============================================================================
