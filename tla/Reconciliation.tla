--------------------------- MODULE Reconciliation ---------------------------
(***************************************************************************)
(* Reconcile: the entries the ledger streams up to a position, the cut,    *)
(* are compared with what the projection of one merchant holds for a day.  *)
(*                                                                         *)
(* The daemon and the operator's command may be at it together.  The cut   *)
(* is the watermark read before the transaction begins.  The transaction   *)
(* holds the merchant's advisory lock, the one of Apply and ResumeNext,    *)
(* while it waits for the stream.  Event ids stand for entry ids.          *)
(***************************************************************************)
EXTENDS Query

CONSTANTS
  Reconcilers,        \* the daemon, commands
  MaxStreamAttempts,
  ReconciledDates     \* the days that are looked at

ASSUME ReconciliationAssumption ==
  None \notin Reconcilers /\ MaxStreamAttempts \in Nat \ {0} /\ ReconciledDates \subseteq Nat

VARIABLES
  lock,  \* who holds the advisory lock between two steps
  work,  \* the locals of every reconciler
  runs   \* rows of reconciliation_run, by business date

reconciliationVars == <<lock, work, runs>>

Idle == [pc |-> "idle", date |-> 0, cut |-> 0, attempt |-> 0, credits |-> 0, debits |-> 0]

ReconciliationInit ==
  /\ lock = None
  /\ work = [r \in Reconcilers |-> Idle]
  /\ runs = [d \in {} |-> 0]

-----------------------------------------------------------------------------
(* The comparison *)

OnDate(events, date, cut) == {e \in events : e.date = date /\ e.position <= cut}
IdsOf(events)             == {e.id : e \in events}

\* Mutant of CompareEntrySets: both sides are looked up in the projection.
CompareProjected(src, projected) == [missing |-> 0, extra |-> 0, duplicated |-> 0]

CompareEntrySets(src, projected) ==
  [missing    |-> Cardinality(IdsOf(src) \ IdsOf(projected)),
   extra      |-> Cardinality(IdsOf(projected) \ IdsOf(src)),
   duplicated |-> Cardinality(projected) - Cardinality(IdsOf(projected))]

\* The totals of the day, whatever the cut; no row counts as zero.
ProjectedNet(date) == IF date \in DOMAIN balance THEN balance[date].credits - balance[date].debits ELSE 0

Abs(n) == IF n < 0 THEN -n ELSE n

\* held is history: what had been applied of the day.
Outcome(w) ==
  LET counts == CompareEntrySets(OnDate(Entries, w.date, w.cut), OnDate(inbox, w.date, w.cut))
  IN  [cut |-> w.cut, missing |-> counts.missing, extra |-> counts.extra,
       duplicated |-> counts.duplicated,
       difference |-> Abs(ProjectedNet(w.date) - (w.credits - w.debits)),
       held |-> {e \in inbox : e.date = w.date}]

\* Mutant of Superseded: the cut of the stored run is not looked at.
NeverSuperseded(w) == FALSE

\* An equal or a newer cut is stored already.
Superseded(w) == w.date \in DOMAIN runs /\ runs[w.date].cut >= w.cut

-----------------------------------------------------------------------------
(* Actions *)

\* The daemon takes the days that have a balance; the watermark is read without a lock.
ReadCut(r) ==
  /\ work[r].pc = "idle"
  /\ \E d \in DOMAIN balance \cap ReconciledDates :
       work' = [work EXCEPT ![r] = [Idle EXCEPT !.pc = "cut", !.date = d, !.cut = confirmed]]
  /\ UNCHANGED <<lock, runs>>

\* The transaction ends without a write: the run is superseded, or an error was returned.
Skip(r) ==
  /\ work[r].pc = "cut" /\ lock = None
  /\ Superseded(work[r])
  /\ work' = [work EXCEPT ![r] = Idle]
  /\ UNCHANGED <<lock, runs>>

Lock(r) ==
  /\ work[r].pc = "cut" /\ lock = None
  /\ ~Superseded(work[r])
  /\ lock' = r
  /\ work' = [work EXCEPT ![r].pc = "stream", ![r].attempt = 1]
  /\ UNCHANGED runs

\* Mutant of Accumulator: an attempt goes on where the last one broke.
LastAccumulator(w) == w

\* Each attempt starts from an empty accumulator.
Accumulator(w) == [w EXCEPT !.credits = 0, !.debits = 0]

\* attemptStream: what was received of the day when the stream ended or broke.  An entry
\* without an id would end it too; the ledger has none.
Receive(w, events) ==
  LET a == Accumulator(w)
  IN  [a EXCEPT !.credits = @ + SumFunctionOnSet(Credits, events),
                !.debits = @ + SumFunctionOnSet(Debits, events)]

\* The stream comes in the order of positions and breaks after any of them.
StreamBreaks(r) ==
  LET w == work[r] IN
  /\ w.pc = "stream" /\ w.attempt < MaxStreamAttempts
  /\ \E p \in 0..w.cut :
       work' = [work EXCEPT ![r] = [Receive(w, OnDate(Entries, w.date, p)) EXCEPT !.attempt = @ + 1]]
  /\ UNCHANGED <<lock, runs>>

\* The last attempt breaks, the context ends or a statement fails: ROLLBACK.
Abandon(r) ==
  /\ work[r].pc \in {"stream", "compare"}
  /\ lock' = None
  /\ work' = [work EXCEPT ![r] = Idle]
  /\ UNCHANGED runs

StreamEnds(r) ==
  LET w == work[r] IN
  /\ w.pc = "stream"
  /\ work' = [work EXCEPT ![r] = [Receive(w, OnDate(Entries, w.date, w.cut)) EXCEPT !.pc = "compare"]]
  /\ UNCHANGED <<lock, runs>>

\* The upsert replaces a run with a lower cut only.
Save(r) ==
  LET w == work[r]
      stored == IF Superseded(w) THEN runs[w.date] ELSE Outcome(w)
  IN  /\ w.pc = "compare"
      /\ runs' = [d \in DOMAIN runs \cup {w.date} |-> IF d = w.date THEN stored ELSE runs[d]]
      /\ lock' = None
      /\ work' = [work EXCEPT ![r] = Idle]

Reconcile(r) ==
  ReadCut(r) \/ Skip(r) \/ Lock(r) \/ StreamBreaks(r) \/ StreamEnds(r) \/ Abandon(r) \/ Save(r)

ReconcileStep == (\E r \in Reconcilers : Reconcile(r)) /\ UNCHANGED <<vars, confirmed, queryVars>>

-----------------------------------------------------------------------------
(* Correctness *)

\* A stored run is only ever replaced by one with a higher cut, whoever read its
\* watermark first and however long the stream took.
RunsAdvance ==
  [][\A d \in DOMAIN runs : runs'[d] = runs[d] \/ runs'[d].cut > runs[d].cut]_runs

\* A run without missing entries is a certificate: every entry of the day up to its
\* cut has been applied, whatever streams broke on the way.
CleanRunCertifies ==
  \A d \in DOMAIN runs :
    runs[d].missing = 0 => IdsOf(OnDate(Entries, d, runs[d].cut)) \subseteq IdsOf(inbox)

NetOf(events) == SumFunctionOnSet(Credits, events) - SumFunctionOnSet(Debits, events)

\* A financial difference is no artefact of broken streams or of other reconcilers: it
\* is what the entries applied of the day came to, less what the ledger's entries of
\* the day up to the cut come to.
DifferenceExplained ==
  \A d \in DOMAIN runs :
    runs[d].difference = Abs(NetOf(runs[d].held) - NetOf(OnDate(Entries, d, runs[d].cut)))

\* What Reconcile says of itself, that it compares at a fixed cut: a difference
\* means that up to the cut an entry is missing, extra or unlike the ledger's.
DifferenceAtCut ==
  \A d \in DOMAIN runs :
    runs[d].difference # 0 =>
      \/ runs[d].missing > 0 \/ runs[d].extra > 0
      \/ ~(OnDate(runs[d].held, d, runs[d].cut) \subseteq Entries)
=============================================================================
