----------------------------- MODULE LedgerLog -----------------------------
(***************************************************************************)
(* What the Ledger promises its clients and the consolidation: per         *)
(* merchant an append-only log, numbered without gaps, in which one        *)
(* idempotency key confirms at most one entry and an entry is reversed at  *)
(* most once.  Confirming an entry is atomic.                              *)
(***************************************************************************)
EXTENDS Integers

CONSTANTS Calls, Merchants, Keys, None

VARIABLES
  log,       \* the confirmed entries
  head,      \* the last position of each merchant
  answered   \* the entry each idempotency key stands for

vars == <<log, head, answered>>

Operations == {"create", "reverse"}
Scopes     == Merchants \X Operations \X Keys

Init ==
  /\ log = {}
  /\ head = [m \in Merchants |-> 0]
  /\ answered = [s \in Scopes |-> None]

\* A reversal undoes one entry of the log that nothing has undone yet.
Reverses(r, o) ==
  /\ o.id = r.original /\ o.merchant = r.merchant /\ o.original = None
  /\ o.amount = r.amount /\ o.type # r.type
  /\ \A q \in log : q.original # o.id

\* The key s confirms the entry e.
Confirm(s, e) ==
  /\ answered[s] = None
  /\ e.merchant = s[1]
  /\ e.position = head[s[1]] + 1
  /\ \A f \in log : f.id # e.id
  /\ (s[2] = "reverse") <=> (e.original # None)
  /\ s[2] = "reverse" => \E o \in log : Reverses(e, o)
  /\ log' = log \cup {e}
  /\ head' = [head EXCEPT ![s[1]] = e.position]
  /\ answered' = [answered EXCEPT ![s] = e]

\* The new entry is the only element the step adds to the log.
Next == \E s \in Scopes : \E e \in log' \ log : Confirm(s, e)

Spec == Init /\ [][Next]_vars
=============================================================================
