------------------------------- MODULE Query -------------------------------
(***************************************************************************)
(* GetDailyBalances on top of the projection of one merchant.              *)
(*                                                                         *)
(* An answer is put together from four reads: balances, progress, pending  *)
(* recomputations and, by gRPC, the ledger's last position.  No transaction *)
(* spans them, so events are applied and recomputations end in between.    *)
(* Every day of the range has a result, with the data of its row or with   *)
(* none.                                                                   *)
(***************************************************************************)
EXTENDS Projection, LedgerFeed

CONSTANT QueriedDays  \* the range of the request

ASSUME FeedAssumption == Entries \subseteq Events
ASSUME QueryAssumption == QueriedDays \subseteq Nat /\ None \notin Row

VARIABLES
  reading,  \* the read the query does next
  seen,     \* what it has read
  answer    \* its last answer

queryVars == <<reading, seen, answer>>

Reads  == {"balances", "progress", "recompute", "watermark"}
States == {"updated", "processing", "delayed", "unavailable"}

\* MerchantProgress{}, what the query goes on with if there is no row or it cannot be read.
NoProgress == [source |-> 0, applied |-> 0, gap |-> None]

\* begun, base and stale are history, of the first read: what was confirmed and what was
\* applied then, and the days a pending recomputation had still to reach.
NothingSeen == [rows |-> [d \in {} |-> 0], progress |-> NoProgress, pending |-> FALSE,
                begun |-> 0, base |-> {}, stale |-> {}]
NoAnswer    == [state |-> "unavailable", definitive |-> FALSE, source |-> 0, applied |-> 0,
                days |-> [d \in QueriedDays |-> None], read |-> NothingSeen]

QueryInit == reading = "balances" /\ seen = NothingSeen /\ answer = NoAnswer

-----------------------------------------------------------------------------
(* The answer *)

HasGap(p) == p.gap # None \/ p.applied # p.source

\* Mutant of EffectiveSource: the ledger's answer is not looked at.
ProjectedSource(p, watermark) == p.source

EffectiveSource(p, watermark) == IF watermark > p.source THEN watermark ELSE p.source

\* Mutant of IsPending: a recomputation that is not finished does not count.
IgnoresRecompute(s, watermark) ==
  HasGap(s.progress) \/ EffectiveSource(s.progress, watermark) > s.progress.applied

IsPending(s, watermark) ==
  \/ s.pending
  \/ HasGap(s.progress)
  \/ EffectiveSource(s.progress, watermark) > s.progress.applied

\* One result for each day, all with the same state; its data is the row of the day, or nil.
\* read is history, kept of a definitive answer.
Results(state, src) ==
  [state |-> state, definitive |-> state = "updated", source |-> src,
   applied |-> seen.progress.applied,
   days |-> [d \in QueriedDays |-> IF d \in DOMAIN seen.rows THEN seen.rows[d] ELSE None],
   read |-> IF state = "updated" THEN seen ELSE NothingSeen]

\* A pending answer is delayed once the watermark is older than 30 seconds.
Verified(watermark, old) ==
  LET state == IF ~IsPending(seen, watermark) THEN "updated"
               ELSE IF old THEN "delayed" ELSE "processing"
  IN  Results(state, EffectiveSource(seen.progress, watermark))

\* source_unverifiable: without a snapshot there is nothing to show.
Unverifiable ==
  IF seen.rows = NothingSeen.rows /\ seen.progress = NoProgress
  THEN NoAnswer
  ELSE Results("delayed", seen.progress.source)

-----------------------------------------------------------------------------
(* Actions *)

Reply(a) ==
  /\ answer' = a
  /\ reading' = "balances"
  /\ seen' = NothingSeen

\* The days whose closing balance is not final yet.
StaleDays == {d \in DOMAIN balance : \E j \in jobs : j.next <= d}

\* Balances: the query begins.
ReadBalances ==
  /\ reading = "balances"
  /\ seen' = [NothingSeen EXCEPT !.rows = [d \in DOMAIN balance \cap QueriedDays |-> balance[d]],
                                 !.begun = confirmed, !.base = inbox, !.stale = StaleDays]
  /\ reading' = "progress"
  /\ answer' = NoAnswer

\* A merchant_progress that cannot be read counts as none.
ReadProgress ==
  /\ reading = "progress"
  /\ \E p \in {NoProgress, [source |-> source, applied |-> applied, gap |-> gap]} :
       seen' = [seen EXCEPT !.progress = p]
  /\ reading' = "recompute"
  /\ UNCHANGED answer

\* HasPendingRecompute
ReadRecompute ==
  /\ reading = "recompute"
  /\ seen' = [seen EXCEPT !.pending = (jobs # {})]
  /\ reading' = "watermark"
  /\ UNCHANGED answer

ReadWatermark ==
  /\ reading = "watermark"
  /\ \/ \E old \in BOOLEAN : Reply(Verified(confirmed, old))
     \/ Reply(Unverifiable)

\* The request is refused, or daily_balance or recompute_job cannot be read.
QueryFails ==
  /\ reading \in {"balances", "recompute"}
  /\ Reply(NoAnswer)

QueryStep ==
  /\ ReadBalances \/ ReadProgress \/ ReadRecompute \/ ReadWatermark \/ QueryFails
  /\ UNCHANGED <<vars, confirmed>>

\* The consumer and the recomputation go on; an event is sent after its entry is confirmed.
Project ==
  /\ \/ \E e \in Events : e.position <= confirmed /\ Apply(e)
     \/ ResumeNext
  /\ UNCHANGED <<confirmed, queryVars>>

-----------------------------------------------------------------------------
(* Correctness *)

\* The applied entries up to a position.
UpToPosition(p) == {e \in inbox : e.position <= p}

TotalsOf(row, events, d) ==
  /\ row.credits = SumFunctionOnSet(Credits, {e \in events : e.date = d})
  /\ row.debits = SumFunctionOnSet(Debits, {e \in events : e.date = d})

ClosesWith(row, events, d) == row.closing = SumFunctionOnSet(Net, {e \in events : e.date <= d})

\* What a definitive answer is worth although its reads are not one snapshot.  It shows
\* no entry beyond its source_position.  A day with data has the totals of all entries
\* applied when the query began, and a day without data had none of them.  A closing
\* balance is theirs too, unless a recomputation that was pending then had still to
\* reach the day, and was seen to be over, or a pending job misses the day altogether.
DefinitiveIsExact ==
  LET read == answer.read IN
  answer.definitive =>
    /\ read.base \subseteq UpToPosition(answer.source)
    /\ \A d \in QueriedDays :
         IF answer.days[d] = None
         THEN \A e \in read.base : e.date # d
         ELSE /\ TotalsOf(answer.days[d], read.base, d)
              /\ \/ ClosesWith(answer.days[d], read.base, d)
                 \/ d \in read.stale /\ ~read.pending
                 \/ extended

\* What the scenarios of RF05 promise of a definitive answer: each of its days, from the
\* first one with an entry on, shows the totals and the closing balance of all entries
\* up to source_position, the days without movement included.
DefinitiveAtPosition ==
  answer.definitive =>
    LET known == UpToPosition(answer.source) IN
    \A d \in QueriedDays :
      (\E e \in known : e.date <= d) =>
        /\ answer.days[d] # None
        /\ TotalsOf(answer.days[d], known, d)
        /\ ClosesWith(answer.days[d], known, d)

\* A definitive answer leaves nothing out that the ledger had confirmed when the
\* query began: all positions up to its source_position have been applied and
\* applied_position says so, even if the progress could not be read.
DefinitiveIsComplete ==
  answer.definitive =>
    /\ answer.source >= answer.read.begun
    /\ answer.applied = answer.source
    /\ 1..answer.source \subseteq Received(inbox)
=============================================================================
