------------------------------- MODULE Clock -------------------------------
(***************************************************************************)
(* The clock that the caches, the tokens and the deadlines of a call read. *)
(***************************************************************************)
EXTENDS Integers

CONSTANTS
  Calls,   \* slots for concurrent calls
  Leeway,  \* of a verifier for the times in a token
  None

ASSUME ClockAssumption == Leeway \in Nat /\ None \notin Int /\ None \notin Calls

VARIABLE now
=============================================================================
