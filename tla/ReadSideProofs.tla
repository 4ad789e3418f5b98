--------------------------- MODULE ReadSideProofs ---------------------------
(***************************************************************************)
(* What the readers of the ledger and of the projection promise, for any   *)
(* entries and any interleaving with confirmations, applied events and     *)
(* recomputations: the answers of the query, the runs of reconciliation    *)
(* and the pages of a list.                                                *)
(***************************************************************************)
EXTENDS MCReadSide, ProjectionProofs

-----------------------------------------------------------------------------
(* The projection behind its readers *)

\* Only confirmed entries have been applied.
FeedInv == confirmed \in Nat /\ \A e \in inbox : e.position <= confirmed

\* What a step of the read side can do to the projection and to the query.
LEMMA SideCases ==
  ASSUME [ReadSideNext]_readSideVars
  PROVE  \/ Confirm /\ UNCHANGED <<vars, queryVars>>
         \/ Project
         \/ QueryStep
         \/ UNCHANGED <<vars, confirmed, queryVars>>
<1>1. ReconcileStep => UNCHANGED <<vars, confirmed, queryVars>>
  BY Zenon DEF ReconcileStep
<1>2. ListingNext => Confirm \/ UNCHANGED confirmed
  BY Zenon DEF ListingNext, ConfirmListed, FirstPage, NextPage, GetEntry
<1>3. UNCHANGED readSideVars => UNCHANGED <<vars, confirmed, queryVars>>
  BY Zenon DEF readSideVars
<1>4. ReadSideNext => \/ Confirm /\ UNCHANGED <<vars, queryVars>>
                      \/ Project
                      \/ QueryStep
                      \/ ReconcileStep
                      \/ ListingNext /\ UNCHANGED <<vars, queryVars>>
  BY Zenon DEF ReadSideNext, ProjectionSide
<1> QED BY <1>1, <1>2, <1>3, <1>4, Zenon

\* A step of the read side is a step of the projection, or leaves it alone.
LEMMA SideIsProjection ==
  ASSUME [ReadSideNext]_readSideVars
  PROVE  [Next]_vars
<1>1. Project => Next
  BY Zenon DEF Project, Next, Deliver
<1>2. QueryStep => UNCHANGED vars
  BY Zenon DEF QueryStep
<1> QED BY <1>1, <1>2, SideCases, Zenon

\* Queries, reconciliations and lists are readers: whatever they do, the projection behind them
\* behaves as it does alone, so that what Apply and ResumeNext promise holds beside them.
THEOREM ReadersOnlyRead == ReadSideSpec => Spec
<1>1. ReadSideInit => Init
  BY Zenon DEF ReadSideInit
<1>2. [ReadSideNext]_readSideVars => [Next]_vars
  BY SideIsProjection, Zenon
<1> QED BY <1>1, <1>2, PTL DEF ReadSideSpec, Spec

\* What a step of the projection adds, if anything.
LEMMA ProjectCases ==
  ASSUME Project
  PROVE  \/ \E e \in Events : e.position <= confirmed /\ ApplyFresh(e)
         \/ inbox' = inbox /\ extended' = extended
<1>1. ASSUME NEW e \in Events, ApplyDuplicate(e) \/ ApplyConflict(e)
      PROVE  inbox' = inbox /\ extended' = extended
  BY <1>1, Zenon DEF ApplyDuplicate, ApplyConflict
<1>2. ResumeNext => inbox' = inbox /\ extended' = extended
  BY Zenon DEF ResumeNext
<1> QED BY <1>1, <1>2, Zenon DEF Project, Apply

LEMMA FeedStep ==
  ASSUME ProjectionInv, FeedInv, [ReadSideNext]_readSideVars
  PROVE  FeedInv'
<1>1. CASE UNCHANGED <<inbox, confirmed>>
  BY <1>1, Zenon DEF FeedInv
<1>2. CASE Confirm /\ UNCHANGED <<vars, queryVars>>
  <2>1. \A e \in inbox : e.position \in Nat
    BY ConstantsAssumption DEF ProjectionInv, IdentityInv, Event
  <2>2. confirmed' = confirmed + 1 /\ inbox' = inbox
    BY <1>2, Zenon DEF Confirm, vars
  <2> QED BY <2>1, <2>2 DEF FeedInv
<1>3. CASE Project
  <2>1. confirmed' = confirmed
    BY <1>3, Zenon DEF Project
  <2>2. ASSUME NEW e \in Events, e.position <= confirmed, ApplyFresh(e)
        PROVE  FeedInv'
    <3>1. inbox' = inbox \cup {e}
      BY <2>2, Zenon DEF ApplyFresh
    <3> QED BY <2>1, <2>2, <3>1, Zenon DEF FeedInv
  <2> QED BY <1>1, <1>3, <2>1, <2>2, ProjectCases, Zenon
<1>4. QueryStep \/ UNCHANGED <<vars, confirmed, queryVars>> => UNCHANGED <<inbox, confirmed>>
  BY Zenon DEF QueryStep, vars
<1> QED BY <1>1, <1>2, <1>3, <1>4, SideCases, Zenon

-----------------------------------------------------------------------------
(* The query *)

\* What the rows of the first read say of a day: the totals of the events applied then,
\* and their closing balance, unless the day was still to be recomputed.
DayShown(s, d) ==
  IF d \in DOMAIN s.rows
  THEN /\ s.rows[d] # None /\ TotalsOf(s.rows[d], s.base, d)
       /\ ClosesWith(s.rows[d], s.base, d) \/ d \in s.stale \/ extended
  ELSE \A e \in s.base : e.date # d

\* What the query has read so far is what it was then.
SeenInv ==
  /\ DOMAIN seen = {"rows", "progress", "pending", "begun", "base", "stale"}
  /\ seen.begun \in Nat /\ seen.begun <= confirmed
  /\ seen.progress.source \in Nat /\ seen.progress.applied \in Nat
  /\ 1 .. seen.progress.applied \subseteq Received(inbox)
  /\ seen.base \subseteq inbox
  /\ \A d \in QueriedDays : DayShown(seen, d)

\* The last answer.
AnswerInv ==
  answer.definitive =>
    /\ answer.source \in Nat /\ answer.read.begun <= answer.source /\ answer.applied = answer.source
    /\ 1 .. answer.source \subseteq Received(inbox)
    /\ answer.read.base \subseteq UpToPosition(answer.source) /\ ~answer.read.pending
    /\ \A d \in QueriedDays :
         /\ DayShown(answer.read, d)
         /\ answer.days[d] = IF d \in DOMAIN answer.read.rows THEN answer.read.rows[d] ELSE None

QueryInv == SeenInv /\ AnswerInv

\* What was shown stays so while more is applied.
LEMMA QueryKept ==
  ASSUME QueryInv, UNCHANGED queryVars, inbox \subseteq inbox', extended => extended',
         confirmed \in Nat, confirmed' \in Nat, confirmed <= confirmed'
  PROVE  QueryInv'
<1>1. seen' = seen /\ answer' = answer
  BY Zenon DEF queryVars
<1>2. Received(inbox) \subseteq Received(inbox')
  BY Zenon DEF Received
<1>3. \A s, d : DayShown(s, d) => (IF d \in DOMAIN s.rows
                                   THEN /\ s.rows[d] # None /\ TotalsOf(s.rows[d], s.base, d)
                                        /\ ClosesWith(s.rows[d], s.base, d) \/ d \in s.stale \/ extended'
                                   ELSE \A e \in s.base : e.date # d)
  BY Zenon DEF DayShown
<1>4. seen.begun <= confirmed'
  BY DEF QueryInv, SeenInv
<1>5. SeenInv'
  BY <1>1, <1>2, <1>3, <1>4, Zenon DEF QueryInv, SeenInv, DayShown, TotalsOf, ClosesWith
<1>6. \A p : UpToPosition(p) \subseteq UpToPosition(p)'
  BY Zenon DEF UpToPosition
<1>7. AnswerInv'
  BY <1>1, <1>2, <1>3, <1>6, Zenon DEF QueryInv, AnswerInv, DayShown, TotalsOf, ClosesWith, UpToPosition
<1> QED BY <1>5, <1>7, Zenon DEF QueryInv

\* The first read is a snapshot of the projection.
LEMMA FirstRead ==
  ASSUME ProjectionInv, NEW s, NEW d \in QueriedDays,
         s.rows = [x \in DOMAIN balance \cap QueriedDays |-> balance[x]],
         s.base = inbox, s.stale = StaleDays
  PROVE  DayShown(s, d)
<1>1. CASE d \in DOMAIN balance
  <2>1. d \in DOMAIN s.rows /\ s.rows[d] = balance[d]
    BY <1>1, Zenon
  <2>2. DayExact(balance[d], inbox, d)
    BY <1>1, Zenon DEF ProjectionInv, BalanceInv, Totals
  <2>3. balance[d] # None /\ TotalsOf(balance[d], inbox, d)
    BY <2>2, QueryAssumption, Zenon DEF DayExact, TotalsOf, Of
  <2>4. ASSUME ~extended, d \notin StaleDays
        PROVE  ClosesWith(balance[d], inbox, d)
    <3>1. \A j \in jobs : j.next \in Nat /\ ~(j.next <= d)
      BY <1>1, <2>4, Zenon DEF ProjectionInv, JobsInv, StaleDays
    <3>2. d \in Nat
      BY QueryAssumption
    <3>3. \A j \in jobs : d < j.next
      BY <3>1, <3>2
    <3> QED BY <1>1, <2>4, <3>3, Zenon DEF ProjectionInv, ClosingInv, ClosesWith, Until
  <2> QED BY <2>1, <2>3, <2>4, Zenon DEF DayShown
<1>2. CASE d \notin DOMAIN balance
  <2>1. d \notin DOMAIN s.rows
    BY <1>2, Zenon
  <2>2. \A e \in inbox : e.date # d
    BY <1>2, Zenon DEF ProjectionInv, BalanceInv, Totals
  <2> QED BY <2>1, <2>2, Zenon DEF DayShown
<1> QED BY <1>1, <1>2

\* A query that has not begun has seen nothing.
LEMMA NothingIsSeen ==
  ASSUME FeedInv, seen' = NothingSeen, confirmed' = confirmed, inbox' = inbox
  PROVE  SeenInv'
<1>1. /\ seen'.begun = 0 /\ seen'.progress.source = 0 /\ seen'.progress.applied = 0
      /\ seen'.base = {} /\ DOMAIN seen'.rows = {}
  BY DEF NothingSeen, NoProgress
<1>2. DOMAIN seen' = {"rows", "progress", "pending", "begun", "base", "stale"}
  BY DEF NothingSeen
<1>3. 1 .. 0 = {} /\ 0 <= confirmed /\ 0 \in Nat
  BY DEF FeedInv
<1>4. \A d \in QueriedDays : DayShown(seen, d)'
  BY <1>1, Zenon DEF DayShown
<1> QED BY <1>1, <1>2, <1>3, <1>4, Zenon DEF SeenInv

\* An answer that is not definitive promises nothing, and a new query has seen nothing.
LEMMA IndefiniteReply ==
  ASSUME FeedInv, NEW a, ~a.definitive, Reply(a), inbox' = inbox, confirmed' = confirmed
  PROVE  QueryInv'
<1>1. answer' = a /\ seen' = NothingSeen
  BY Zenon DEF Reply
<1>2. SeenInv'
  BY <1>1, NothingIsSeen, Zenon
<1>3. AnswerInv'
  BY <1>1, Zenon DEF AnswerInv
<1> QED BY <1>2, <1>3, Zenon DEF QueryInv

\* A read after the first one adds what it found.
LEMMA LaterRead ==
  ASSUME QueryInv, inbox' = inbox, confirmed' = confirmed, extended' = extended, answer' = answer,
         DOMAIN seen' = DOMAIN seen, seen'.rows = seen.rows, seen'.begun = seen.begun,
         seen'.base = seen.base, seen'.stale = seen.stale,
         seen'.progress.source \in Nat, seen'.progress.applied \in Nat,
         1 .. seen'.progress.applied \subseteq Received(inbox)
  PROVE  QueryInv'
<1>1. \A d \in QueriedDays : DayShown(seen, d)'
  BY Zenon DEF QueryInv, SeenInv, DayShown
<1>2. SeenInv'
  BY <1>1, Zenon DEF QueryInv, SeenInv
<1>3. AnswerInv'
  BY Zenon DEF QueryInv, AnswerInv, DayShown, UpToPosition
<1> QED BY <1>2, <1>3, Zenon DEF QueryInv

\* A definitive answer has seen all that is confirmed.
LEMMA DefinitiveReply ==
  ASSUME ProjectionInv, FeedInv, QueryInv, NEW old \in BOOLEAN, Verified(confirmed, old).definitive,
         Reply(Verified(confirmed, old)), inbox' = inbox, confirmed' = confirmed, extended' = extended
  PROVE  QueryInv'
<1> DEFINE a == Verified(confirmed, old)
           src == EffectiveSource(seen.progress, confirmed)
<1>1. a = Results("updated", src) /\ ~IsPending(seen, confirmed)
  <2>1. ASSUME NEW st, st # "updated" PROVE ~Results(st, src).definitive
    BY <2>1, Zenon DEF Results
  <2> QED BY <2>1, Zenon DEF Verified
<1>2. /\ a.source = src /\ a.applied = seen.progress.applied /\ a.read = seen
      /\ a.days = [d \in QueriedDays |-> IF d \in DOMAIN seen.rows THEN seen.rows[d] ELSE None]
  <2> DEFINE ds == [d \in QueriedDays |-> IF d \in DOMAIN seen.rows THEN seen.rows[d] ELSE None]
  <2>1. a = [state |-> "updated", definitive |-> TRUE, source |-> src,
             applied |-> seen.progress.applied, days |-> ds, read |-> seen]
    BY <1>1 DEF Results
  <2> HIDE DEF a, src, ds
  <2>2. a.source = src /\ a.applied = seen.progress.applied /\ a.read = seen /\ a.days = ds
    BY <2>1, Zenon
  <2> QED BY <2>2 DEF ds
<1>3. ~seen.pending /\ seen.progress.applied = seen.progress.source /\ ~(src > seen.progress.applied)
  BY <1>1, Zenon DEF IsPending, HasGap
<1>4. /\ seen.progress.applied \in Nat /\ confirmed \in Nat /\ seen.begun \in Nat /\ seen.begun <= confirmed
      /\ 1 .. seen.progress.applied \subseteq Received(inbox)
  BY Zenon DEF QueryInv, SeenInv, FeedInv
<1>5. src = seen.progress.applied /\ confirmed <= src
  BY <1>3, <1>4 DEF EffectiveSource
<1>6. answer' = a /\ seen' = NothingSeen
  BY Zenon DEF Reply
<1> HIDE DEF a, src
<1>7. \A e \in inbox : e.position <= src
  <2>1. \A e \in inbox : e.position \in Nat
    BY ConstantsAssumption DEF ProjectionInv, IdentityInv, Event
  <2> QED BY <1>4, <1>5, <2>1 DEF FeedInv
<1>8. seen.base \subseteq UpToPosition(src)
  BY <1>7, Zenon DEF QueryInv, SeenInv, UpToPosition
<1>9. src \in Nat /\ seen.begun <= src
  BY <1>4, <1>5
<1>10. \A d \in QueriedDays : DayShown(seen, d)
  BY Zenon DEF QueryInv, SeenInv
<1>11. \A d \in QueriedDays : a.days[d] = IF d \in DOMAIN seen.rows THEN seen.rows[d] ELSE None
  BY <1>2, Zenon
<1>12. AnswerInv'
  BY <1>2, <1>3, <1>4, <1>5, <1>6, <1>8, <1>9, <1>10, <1>11, Zenon DEF AnswerInv, DayShown, UpToPosition
<1>13. SeenInv'
  BY <1>6, NothingIsSeen, Zenon
<1> QED BY <1>12, <1>13, Zenon DEF QueryInv

\* Every read of the query.
LEMMA QueryOwnStep ==
  ASSUME ProjectionInv, FeedInv, QueryInv, QueryStep
  PROVE  QueryInv'
<1>1. /\ inbox' = inbox /\ extended' = extended /\ confirmed' = confirmed
      /\ source' = source /\ applied' = applied
  BY Zenon DEF QueryStep, vars, progress
<1>2. CASE ReadBalances
  <2>1. seen' = [NothingSeen EXCEPT !.rows = [d \in DOMAIN balance \cap QueriedDays |-> balance[d]],
                                    !.begun = confirmed, !.base = inbox, !.stale = StaleDays]
    BY <1>2, Zenon DEF ReadBalances
  <2>2. /\ seen'.rows = [d \in DOMAIN balance \cap QueriedDays |-> balance[d]]
        /\ seen'.begun = confirmed /\ seen'.base = inbox /\ seen'.stale = StaleDays
        /\ seen'.progress.source = 0 /\ seen'.progress.applied = 0
        /\ DOMAIN seen' = {"rows", "progress", "pending", "begun", "base", "stale"}
    BY <2>1, Zenon DEF NothingSeen, NoProgress
  <2>3. \A d \in QueriedDays : DayShown(seen', d)
    BY <2>2, FirstRead, Zenon
  <2>4. \A d \in QueriedDays : DayShown(seen, d)'
    BY <1>1, <2>3, Zenon DEF DayShown
  <2>5. 1 .. 0 = {} /\ confirmed <= confirmed /\ confirmed \in Nat /\ 0 \in Nat
    BY DEF FeedInv
  <2>6. SeenInv'
    BY <1>1, <2>2, <2>4, <2>5, Zenon DEF SeenInv
  <2>7. AnswerInv'
    BY <1>2, Zenon DEF ReadBalances, AnswerInv, NoAnswer
  <2> QED BY <2>6, <2>7, Zenon DEF QueryInv
<1>3. CASE ReadProgress
  <2>1. PICK p \in {NoProgress, [source |-> source, applied |-> applied, gap |-> gap]} :
          seen' = [seen EXCEPT !.progress = p]
    BY <1>3, Zenon DEF ReadProgress
  <2>2. p.source \in Nat /\ p.applied \in Nat /\ 1 .. p.applied \subseteq Received(inbox)
    <3>1. CASE p = NoProgress
      BY <3>1 DEF NoProgress
    <3>2. CASE p = [source |-> source, applied |-> applied, gap |-> gap]
      BY <3>2, Zenon DEF ProjectionInv, ProgressInv, ProgressExact
    <3> QED BY <2>1, <3>1, <3>2
  <2>3. /\ DOMAIN seen' = DOMAIN seen /\ seen'.rows = seen.rows /\ seen'.begun = seen.begun
        /\ seen'.base = seen.base /\ seen'.stale = seen.stale /\ seen'.progress = p
    BY <2>1, Zenon DEF QueryInv, SeenInv
  <2>4. answer' = answer
    BY <1>3, Zenon DEF ReadProgress
  <2> QED BY <1>1, <2>2, <2>3, <2>4, LaterRead, Zenon
<1>4. CASE ReadRecompute
  <2>1. seen' = [seen EXCEPT !.pending = (jobs # {})] /\ answer' = answer
    BY <1>4, Zenon DEF ReadRecompute
  <2>2. /\ DOMAIN seen' = DOMAIN seen /\ seen'.rows = seen.rows /\ seen'.begun = seen.begun
        /\ seen'.base = seen.base /\ seen'.stale = seen.stale /\ seen'.progress = seen.progress
    BY <2>1, Zenon DEF QueryInv, SeenInv
  <2>3. /\ seen.progress.source \in Nat /\ seen.progress.applied \in Nat
        /\ 1 .. seen.progress.applied \subseteq Received(inbox)
    BY Zenon DEF QueryInv, SeenInv
  <2> QED BY <1>1, <2>1, <2>2, <2>3, LaterRead, Zenon
<1>5. ~NoAnswer.definitive
  BY DEF NoAnswer
<1>6. CASE ReadWatermark
  <2>1. ASSUME NEW old \in BOOLEAN, Reply(Verified(confirmed, old))
        PROVE  QueryInv'
    BY <1>1, <2>1, DefinitiveReply, IndefiniteReply, Zenon
  <2>2. ASSUME Reply(Unverifiable)
        PROVE  QueryInv'
    <3>1. ~Results("delayed", seen.progress.source).definitive
      BY DEF Results
    <3>2. ~Unverifiable.definitive
      BY <1>5, <3>1, Zenon DEF Unverifiable
    <3> QED BY <1>1, <2>2, <3>2, IndefiniteReply, Zenon
  <2> QED BY <1>6, <2>1, <2>2, Zenon DEF ReadWatermark
<1>7. CASE QueryFails
  BY <1>1, <1>5, <1>7, IndefiniteReply, Zenon DEF QueryFails
<1> QED BY <1>2, <1>3, <1>4, <1>6, <1>7, Zenon DEF QueryStep

\* The invariant of the query, over the one of the projection.
LEMMA QueryInductive ==
  ASSUME ProjectionInv, FeedInv, QueryInv, [ReadSideNext]_readSideVars
  PROVE  QueryInv'
<1>0. confirmed \in Nat /\ confirmed <= confirmed /\ confirmed + 1 \in Nat /\ confirmed <= confirmed + 1
  BY DEF FeedInv
<1>1. CASE Confirm /\ UNCHANGED <<vars, queryVars>>
  <2>1. /\ inbox' = inbox /\ extended' = extended /\ confirmed' = confirmed + 1 /\ UNCHANGED queryVars
    BY <1>1, Zenon DEF Confirm, vars
  <2> QED BY <1>0, <2>1, QueryKept, Zenon
<1>2. CASE Project
  <2>1. UNCHANGED queryVars /\ confirmed' = confirmed
    BY <1>2, Zenon DEF Project
  <2>2. ASSUME NEW e \in Events, ApplyFresh(e) PROVE inbox \subseteq inbox' /\ (extended => extended')
    <3>1. inbox' = inbox \cup {e}
      BY <2>2, Zenon DEF ApplyFresh
    <3>2. extended' = (extended \/ (jobs # {} /\ \A d \in DOMAIN balance : d < e.date))
      BY <2>2 DEF ApplyFresh
    <3> QED BY <3>1, <3>2, Zenon
  <2>3. inbox \subseteq inbox' /\ (extended => extended')
    <3>1. CASE inbox' = inbox /\ extended' = extended
      BY <3>1
    <3> QED BY <1>2, <2>2, <3>1, ProjectCases, Zenon
  <2> QED BY <1>0, <2>1, <2>3, QueryKept, Zenon
<1>3. CASE UNCHANGED <<vars, confirmed, queryVars>>
  <2>1. inbox' = inbox /\ extended' = extended /\ confirmed' = confirmed /\ UNCHANGED queryVars
    BY <1>3, Zenon DEF vars
  <2> QED BY <1>0, <2>1, QueryKept, Zenon
<1> QED BY <1>1, <1>2, <1>3, QueryOwnStep, SideCases, Zenon

LEMMA QueryStart == ReadSideInit => ProjectionInv /\ FeedInv /\ QueryInv
<1> SUFFICES ASSUME ReadSideInit PROVE ProjectionInv /\ FeedInv /\ QueryInv
  BY Zenon
<1>1. ProjectionInv
  BY ProjectionStart, Zenon DEF ReadSideInit
<1>2. inbox = {} /\ confirmed = 0 /\ seen = NothingSeen /\ answer = NoAnswer
  BY Zenon DEF ReadSideInit, Init, QueryInit
<1>3. FeedInv
  BY <1>2 DEF FeedInv
<1>4. \A d \in QueriedDays : DayShown(seen, d)
  BY <1>2, Zenon DEF DayShown, NothingSeen
<1>5. SeenInv
  <2>1. /\ DOMAIN seen = {"rows", "progress", "pending", "begun", "base", "stale"}
        /\ seen.begun = 0 /\ seen.base = {} /\ seen.progress.source = 0 /\ seen.progress.applied = 0
    BY <1>2 DEF NothingSeen, NoProgress
  <2>2. 1 .. 0 = {} /\ 0 <= 0 /\ 0 \in Nat
    OBVIOUS
  <2> QED BY <1>2, <1>4, <2>1, <2>2, Zenon DEF SeenInv
<1>6. AnswerInv
  BY <1>2, Zenon DEF AnswerInv, NoAnswer
<1> QED BY <1>1, <1>3, <1>5, <1>6, Zenon DEF QueryInv

\* A definitive answer leaves out nothing that was confirmed when the query began, for any
\* entries and however the four reads of GetDailyBalances interleave with the consumer.
THEOREM QueryComplete == ReadSideSpec => []DefinitiveIsComplete
<1>1. QueryInv => DefinitiveIsComplete
  <2>1. ASSUME AnswerInv, answer.definitive PROVE answer.source >= answer.read.begun
    BY <2>1 DEF AnswerInv
  <2> QED BY <2>1, Zenon DEF QueryInv, AnswerInv, DefinitiveIsComplete
<1>2. ProjectionInv /\ [ReadSideNext]_readSideVars => ProjectionInv'
  BY SideIsProjection, ProjectionStep, Zenon
<1> QED BY <1>1, <1>2, QueryStart, FeedStep, QueryInductive, PTL DEF ReadSideSpec

\* For any entries, any range of days, any span of a block and any interleaving with applied
\* events and recomputations, a definitive answer shows, day by day and for the days without
\* a row as well, what had been applied when the query began, and nothing beyond its position.
THEOREM QueryExact == ReadSideSpec => []DefinitiveIsExact
<1>1. QueryInv => DefinitiveIsExact
  <2> SUFFICES ASSUME QueryInv, answer.definitive
               PROVE  DefinitiveIsExact
    BY Zenon DEF DefinitiveIsExact
  <2>1. answer.read.base \subseteq UpToPosition(answer.source) /\ ~answer.read.pending
    BY Zenon DEF QueryInv, AnswerInv
  <2>2. ASSUME NEW d \in QueriedDays
        PROVE  /\ answer.days[d] = None => \A e \in answer.read.base : e.date # d
               /\ answer.days[d] # None =>
                    /\ TotalsOf(answer.days[d], answer.read.base, d)
                    /\ ClosesWith(answer.days[d], answer.read.base, d) \/ d \in answer.read.stale \/ extended
    <3>1. /\ DayShown(answer.read, d)
          /\ answer.days[d] = IF d \in DOMAIN answer.read.rows THEN answer.read.rows[d] ELSE None
      BY Zenon DEF QueryInv, AnswerInv
    <3>2. CASE d \in DOMAIN answer.read.rows
      BY <3>1, <3>2, Zenon DEF DayShown
    <3>3. CASE d \notin DOMAIN answer.read.rows
      BY <3>1, <3>3, Zenon DEF DayShown
    <3> QED BY <3>2, <3>3, Zenon
  <2> QED BY <2>1, <2>2, Zenon DEF DefinitiveIsExact
<1>2. ProjectionInv /\ [ReadSideNext]_readSideVars => ProjectionInv'
  BY SideIsProjection, ProjectionStep, Zenon
<1> QED BY <1>1, <1>2, QueryStart, FeedStep, QueryInductive, PTL DEF ReadSideSpec

-----------------------------------------------------------------------------
(* Reconciliation *)

WorkType == [pc : {"idle", "cut", "stream", "compare"}, date : Nat, cut : Nat, attempt : Nat, credits : Int, debits : Int]

\* A stream that ended holds the totals of its day up to the cut, whatever broke before.
Streamed(w) ==
  w.pc = "compare" =>
    /\ w.credits = SumFunctionOnSet(Credits, OnDate(Entries, w.date, w.cut))
    /\ w.debits = SumFunctionOnSet(Debits, OnDate(Entries, w.date, w.cut))

WorkInv == work \in [Reconcilers -> WorkType] /\ \A r \in Reconcilers : Streamed(work[r])

\* What a stored run promises of the events I.
Certified(run, d, I) == run.missing = 0 => IdsOf(OnDate(Entries, d, run.cut)) \subseteq IdsOf(I)
Explained(run, d) == run.difference = Abs(NetOf(run.held) - NetOf(OnDate(Entries, d, run.cut)))

RunsInv == \A d \in DOMAIN runs : runs[d].cut \in Nat /\ Certified(runs[d], d, inbox) /\ Explained(runs[d], d)

\* What a step of the read side can do to the reconcilers; applied events stay applied.
LEMMA ReconcileCases ==
  ASSUME [ReadSideNext]_readSideVars
  PROVE  /\ inbox \subseteq inbox'
         /\ ReconcileStep \/ UNCHANGED reconciliationVars
<1>1. ReconcileStep \/ UNCHANGED reconciliationVars
  BY Zenon DEF ReadSideNext, ProjectionSide, readSideVars
<1>2. Project => inbox \subseteq inbox'
  <2>1. ASSUME NEW e \in Events, ApplyFresh(e) PROVE inbox \subseteq inbox'
    BY <2>1, Zenon DEF ApplyFresh
  <2> QED BY <2>1, ProjectCases, Zenon
<1>3. QueryStep \/ UNCHANGED vars => inbox \subseteq inbox'
  BY Zenon DEF QueryStep, vars
<1> QED BY <1>1, <1>2, <1>3, SideCases, Zenon

\* The entries of a day up to a position.
LEMMA OnDateFinite ==
  ASSUME NEW d, NEW cut
  PROVE  OnDate(Entries, d, cut) \in SUBSET Event /\ IsFiniteSet(OnDate(Entries, d, cut))
<1>1. OnDate(Entries, d, cut) \subseteq Entries
  BY Zenon DEF OnDate
<1>2. Entries \subseteq Event
  BY FeedAssumption, ConstantsAssumption
<1> QED BY <1>1, <1>2, EntriesAssumption, FS_Subset

\* An attempt leaves the totals of what it received.
LEMMA ReceiveSums ==
  ASSUME NEW w \in WorkType, NEW S \in SUBSET Event, IsFiniteSet(S)
  PROVE  LET v == Receive(w, S)
         IN  /\ v \in WorkType
             /\ v.pc = w.pc /\ v.date = w.date /\ v.cut = w.cut /\ v.attempt = w.attempt
             /\ v.credits = SumFunctionOnSet(Credits, S) /\ v.debits = SumFunctionOnSet(Debits, S)
<1> DEFINE c == SumFunctionOnSet(Credits, S)
           b == SumFunctionOnSet(Debits, S)
           v == Receive(w, S)
<1>1. \A x \in S : Credits[x] \in Int /\ Debits[x] \in Int
  BY EffectType
<1>2. c \in Int /\ b \in Int
  BY <1>1, SumType
<1> HIDE DEF c, b
<1> DEFINE u == Accumulator(w)
<1>3. /\ u \in WorkType /\ u.credits = 0 /\ u.debits = 0
      /\ u.pc = w.pc /\ u.date = w.date /\ u.cut = w.cut /\ u.attempt = w.attempt
  <2>1. ASSUME NEW x \in WorkType, NEW z \in Int, x = [w EXCEPT !.credits = z, !.debits = z]
        PROVE  /\ x.credits = z /\ x.debits = z
               /\ x.pc = w.pc /\ x.date = w.date /\ x.cut = w.cut /\ x.attempt = w.attempt
    BY <2>1 DEF WorkType
  <2>2. \A z \in Int : [w EXCEPT !.credits = z, !.debits = z] \in WorkType
    BY DEF WorkType
  <2>3. u = [w EXCEPT !.credits = 0, !.debits = 0] /\ 0 \in Int
    BY DEF Accumulator
  <2> HIDE DEF u
  <2> QED BY <2>1, <2>2, <2>3, Zenon
<1>4. v = [u EXCEPT !.credits = u.credits + c, !.debits = u.debits + b]
  BY Zenon DEF Receive, c, b
<1>5. u.credits + c \in Int /\ u.debits + b \in Int /\ u.credits + c = c /\ u.debits + b = b
  BY <1>2, <1>3
<1> HIDE DEF u, v
<1>6. /\ v \in WorkType /\ v.credits = u.credits + c /\ v.debits = u.debits + b
      /\ v.pc = u.pc /\ v.date = u.date /\ v.cut = u.cut /\ v.attempt = u.attempt
  BY <1>3, <1>4, <1>5 DEF WorkType
<1> QED BY <1>3, <1>5, <1>6, Zenon DEF v, c, b

\* A reconciler keeps the totals of its last attempt only.
LEMMA WorkStep ==
  ASSUME ProjectionInv, FeedInv, WorkInv, [ReadSideNext]_readSideVars
  PROVE  WorkInv'
<1>1. CASE UNCHANGED reconciliationVars
  BY <1>1, Zenon DEF reconciliationVars, WorkInv, Streamed
<1>2. ASSUME NEW r \in Reconcilers, NEW w \in WorkType, Streamed(w), work' = [work EXCEPT ![r] = w]
      PROVE  WorkInv'
  BY <1>2, Zenon DEF WorkInv, Streamed
<1>3. ASSUME NEW r \in Reconcilers, Reconcile(r)
      PROVE  \E w \in WorkType : Streamed(w) /\ work' = [work EXCEPT ![r] = w]
  <2>0. work[r] \in WorkType /\ Streamed(work[r]) /\ work \in [Reconcilers -> WorkType]
    BY Zenon DEF WorkInv
  <2>1. Idle \in WorkType /\ Streamed(Idle)
    BY DEF Idle, WorkType, Streamed
  <2>2. CASE ReadCut(r)
    <3>1. PICK d \in DOMAIN balance \cap ReconciledDates :
            work' = [work EXCEPT ![r] = [Idle EXCEPT !.pc = "cut", !.date = d, !.cut = confirmed]]
      BY <2>2, Zenon DEF ReadCut
    <3>2. d \in Nat /\ confirmed \in Nat
      BY ReconciliationAssumption DEF FeedInv
    <3> DEFINE w == [Idle EXCEPT !.pc = "cut", !.date = d, !.cut = confirmed]
    <3>3. w \in WorkType /\ w.pc = "cut"
      BY <2>1, <3>2 DEF WorkType
    <3> HIDE DEF w
    <3>4. Streamed(w)
      BY <3>3, Zenon DEF Streamed
    <3> QED BY <3>1, <3>3, <3>4, Zenon DEF w
  <2>3. CASE Skip(r) \/ Abandon(r) \/ Save(r)
    BY <2>1, <2>3, Zenon DEF Skip, Abandon, Save
  <2>4. CASE Lock(r)
    <3> DEFINE w == [work[r] EXCEPT !.pc = "stream", !.attempt = 1]
    <3>1. work' = [work EXCEPT ![r] = w]
      BY <2>0, <2>4 DEF Lock
    <3>2. w \in WorkType /\ Streamed(w)
      BY <2>0 DEF WorkType, Streamed
    <3> QED BY <3>1, <3>2, Zenon
  <2>5. CASE StreamBreaks(r)
    <3>1. PICK p \in 0 .. work[r].cut :
            work' = [work EXCEPT ![r] = [Receive(work[r], OnDate(Entries, work[r].date, p)) EXCEPT !.attempt = @ + 1]]
      BY <2>5, Zenon DEF StreamBreaks
    <3> DEFINE v == Receive(work[r], OnDate(Entries, work[r].date, p))
               w == [v EXCEPT !.attempt = @ + 1]
    <3>2. v \in WorkType /\ v.pc = work[r].pc
      BY <2>0, OnDateFinite, ReceiveSums, Zenon
    <3>3. work[r].pc = "stream"
      BY <2>5, Zenon DEF StreamBreaks
    <3> HIDE DEF v
    <3>4. v.attempt \in Nat
      BY <3>2 DEF WorkType
    <3>5. w \in WorkType /\ w.pc = "stream"
      BY <3>2, <3>3, <3>4 DEF WorkType
    <3>6. work' = [work EXCEPT ![r] = w]
      BY <3>1, Zenon DEF v
    <3> HIDE DEF w
    <3> QED BY <3>5, <3>6, Zenon DEF Streamed
  <2>6. CASE StreamEnds(r)
    <3> DEFINE v == Receive(work[r], OnDate(Entries, work[r].date, work[r].cut))
               w == [v EXCEPT !.pc = "compare"]
    <3>1. work' = [work EXCEPT ![r] = w]
      BY <2>6, Zenon DEF StreamEnds
    <3>2. /\ v \in WorkType /\ v.date = work[r].date /\ v.cut = work[r].cut
          /\ v.credits = SumFunctionOnSet(Credits, OnDate(Entries, work[r].date, work[r].cut))
          /\ v.debits = SumFunctionOnSet(Debits, OnDate(Entries, work[r].date, work[r].cut))
      BY <2>0, OnDateFinite, ReceiveSums, Zenon
    <3> HIDE DEF v
    <3>3. w \in WorkType /\ w.credits = v.credits /\ w.debits = v.debits /\ w.date = v.date /\ w.cut = v.cut
      BY <3>2 DEF WorkType
    <3> HIDE DEF w
    <3>4. Streamed(w)
      BY <3>2, <3>3, Zenon DEF Streamed
    <3> QED BY <3>1, <3>3, <3>4, Zenon DEF w
  <2> QED BY <1>3, <2>2, <2>3, <2>4, <2>5, <2>6, Zenon DEF Reconcile
<1> QED BY <1>1, <1>2, <1>3, ReconcileCases, Zenon DEF ReconcileStep

\* A set of ids without a member has counted nothing.
LEMMA MissingCount ==
  ASSUME NEW S, NEW P, IsFiniteSet(S)
  PROVE  LET missing == CompareEntrySets(S, P).missing
         IN  missing \in Nat /\ (missing = 0 => IdsOf(S) \subseteq IdsOf(P))
<1> DEFINE M == IdsOf(S) \ IdsOf(P)
           ids == [e \in S |-> e.id]
<1>1. IsFiniteSet(IdsOf(S))
  <2>1. ids \in Surjection(S, IdsOf(S))
    BY DEF IdsOf, Surjection
  <2> QED BY <2>1, FS_Surjection, Zenon
<1>2. M \subseteq IdsOf(S)
  BY Zenon
<1>3. CompareEntrySets(S, P).missing = Cardinality(M)
  BY DEF CompareEntrySets
<1>4. M = {} => IdsOf(S) \subseteq IdsOf(P)
  BY Zenon
<1> HIDE DEF M
<1>5. IsFiniteSet(M)
  BY <1>1, <1>2, FS_Subset
<1>6. Cardinality(M) \in Nat /\ (Cardinality(M) = 0 => M = {})
  BY <1>5, FS_CardinalityType, FS_EmptySet
<1> QED BY <1>3, <1>4, <1>6, Zenon

\* The projected net of a day is that of its events, with a row or without.
LEMMA ProjectedNetIs ==
  ASSUME ProjectionInv, NEW d \in Nat
  PROVE  ProjectedNet(d) = NetOf({e \in inbox : e.date = d})
<1>0. {e \in inbox : e.date = d} = Of(inbox, d)
  BY Zenon DEF Of
<1>1. CASE d \in DOMAIN balance
  <2>1. DayExact(balance[d], inbox, d)
    BY <1>1, Zenon DEF ProjectionInv, BalanceInv, Totals
  <2> QED BY <1>0, <1>1, <2>1, Zenon DEF ProjectedNet, DayExact, NetOf
<1>2. CASE d \notin DOMAIN balance
  <2>1. Of(inbox, d) = {}
    BY <1>2, Zenon DEF ProjectionInv, BalanceInv, Totals, Of
  <2>2. ProjectedNet(d) = 0
    BY <1>2, Zenon DEF ProjectedNet
  <2>3. SumFunctionOnSet(Credits, {}) = 0 /\ SumFunctionOnSet(Debits, {}) = 0
    BY SumEmpty, Zenon
  <2>4. NetOf({}) = 0
    BY <2>3 DEF NetOf
  <2> QED BY <1>0, <2>1, <2>2, <2>4, Zenon
<1> QED BY <1>1, <1>2, Zenon

\* What a run says of a stream that ended.
LEMMA OutcomeHolds ==
  ASSUME ProjectionInv, NEW w \in WorkType, Streamed(w), w.pc = "compare"
  PROVE  LET o == Outcome(w)
         IN  o.cut = w.cut /\ Certified(o, w.date, inbox) /\ Explained(o, w.date)
<1> DEFINE S == OnDate(Entries, w.date, w.cut)
           P == OnDate(inbox, w.date, w.cut)
           o == Outcome(w)
<1>0. w.date \in Nat /\ w.cut \in Nat
  BY DEF WorkType
<1>1. /\ o.cut = w.cut
      /\ o.missing = CompareEntrySets(S, P).missing
      /\ o.difference = Abs(ProjectedNet(w.date) - (w.credits - w.debits))
  BY DEF Outcome
<1>2. o.missing \in Nat /\ (o.missing = 0 => IdsOf(S) \subseteq IdsOf(P))
  BY <1>1, OnDateFinite, MissingCount, Zenon
<1>3. IdsOf(P) \subseteq IdsOf(inbox)
  BY Zenon DEF IdsOf, OnDate
<1>4. Certified(o, w.date, inbox)
  BY <1>1, <1>2, <1>3, Zenon DEF Certified
<1>5. o.held = {e \in inbox : e.date = w.date}
  BY DEF Outcome
<1>6. w.credits - w.debits = NetOf(S)
  BY Zenon DEF Streamed, NetOf
<1>7. ProjectedNet(w.date) = NetOf({e \in inbox : e.date = w.date})
  BY <1>0, ProjectedNetIs, Zenon
<1> HIDE DEF o
<1>8. Explained(o, w.date)
  BY <1>1, <1>5, <1>6, <1>7, Zenon DEF Explained
<1> QED BY <1>1, <1>4, <1>8, Zenon DEF o

\* A run keeps what it promised while more is applied.
LEMMA RunsStep ==
  ASSUME ProjectionInv, WorkInv, RunsInv, [ReadSideNext]_readSideVars
  PROVE  RunsInv' /\ \A d \in DOMAIN runs : runs'[d] = runs[d] \/ runs'[d].cut > runs[d].cut
<1>1. ASSUME NEW run, NEW d, Certified(run, d, inbox)
      PROVE  Certified(run, d, inbox')
  <2>1. inbox \subseteq inbox'
    BY ReconcileCases, Zenon
  <2>2. IdsOf(inbox) \subseteq IdsOf(inbox')
    BY <2>1, Zenon DEF IdsOf
  <2> QED BY <1>1, <2>2, Zenon DEF Certified
<1>2. CASE runs' = runs
  BY <1>1, <1>2, Zenon DEF RunsInv
<1>3. ASSUME NEW r \in Reconcilers, Save(r), inbox' = inbox
      PROVE  RunsInv' /\ \A d \in DOMAIN runs : runs'[d] = runs[d] \/ runs'[d].cut > runs[d].cut
  <2> DEFINE w == work[r]
             o == Outcome(w)
             stored == IF Superseded(w) THEN runs[w.date] ELSE o
  <2>1. w \in WorkType /\ Streamed(w) /\ w.pc = "compare"
    BY <1>3, Zenon DEF WorkInv, Save
  <2>2. o.cut = w.cut /\ Certified(o, w.date, inbox) /\ Explained(o, w.date)
    BY <2>1, OutcomeHolds, Zenon
  <2>3. runs' = [d \in DOMAIN runs \cup {w.date} |-> IF d = w.date THEN stored ELSE runs[d]]
    BY <1>3, Zenon DEF Save
  <2>4. w.cut \in Nat
    BY <2>1 DEF WorkType
  <2> HIDE DEF w, o
  <2>5. stored.cut \in Nat /\ Certified(stored, w.date, inbox) /\ Explained(stored, w.date)
    BY <2>2, <2>4, Zenon DEF Superseded, RunsInv
  <2>6. w.date \in DOMAIN runs => stored = runs[w.date] \/ stored.cut > runs[w.date].cut
    <3>1. ASSUME w.date \in DOMAIN runs, ~(runs[w.date].cut >= w.cut)
          PROVE  w.cut > runs[w.date].cut
      BY <2>4, <3>1 DEF RunsInv
    <3> QED BY <2>2, <3>1, Zenon DEF Superseded
  <2> HIDE DEF stored
  <2>7. DOMAIN runs' = DOMAIN runs \cup {w.date}
        /\ \A d \in DOMAIN runs' : runs'[d] = IF d = w.date THEN stored ELSE runs[d]
    BY <2>3, Zenon
  <2>8. RunsInv'
    BY <1>3, <2>5, <2>7, Zenon DEF RunsInv, Certified, Explained
  <2> QED BY <2>6, <2>7, <2>8, Zenon
<1>4. ReconcileStep => runs' = runs \/ (\E r \in Reconcilers : Save(r) /\ inbox' = inbox)
  BY Zenon DEF ReconcileStep, Reconcile, ReadCut, Skip, Lock, StreamBreaks, StreamEnds, Abandon, vars
<1>5. UNCHANGED reconciliationVars => runs' = runs
  BY Zenon DEF reconciliationVars
<1> QED BY <1>2, <1>3, <1>4, <1>5, ReconcileCases, Zenon

LEMMA ReconciliationStart ==
  ASSUME ReadSideInit
  PROVE  WorkInv /\ RunsInv
<1>1. Idle \in WorkType /\ Streamed(Idle)
  BY DEF Idle, WorkType, Streamed
<1>2. WorkInv
  BY <1>1, Zenon DEF ReadSideInit, ReconciliationInit, WorkInv
<1>3. RunsInv
  BY Zenon DEF ReadSideInit, ReconciliationInit, RunsInv
<1> QED BY <1>2, <1>3

\* The inductive invariant of reconciliation, beside that of the projection.
LEMMA ReconciliationInductive == ReadSideSpec => [](ProjectionInv /\ WorkInv /\ RunsInv)
<1>1. ReadSideInit => ProjectionInv /\ FeedInv /\ WorkInv /\ RunsInv
  BY QueryStart, ReconciliationStart, Zenon
<1>2. ProjectionInv /\ FeedInv /\ WorkInv /\ RunsInv /\ [ReadSideNext]_readSideVars
        => ProjectionInv' /\ FeedInv' /\ WorkInv' /\ RunsInv'
  BY SideIsProjection, ProjectionStep, FeedStep, WorkStep, RunsStep, Zenon
<1> QED BY <1>1, <1>2, PTL DEF ReadSideSpec

\* The run that Reconcile stores without missing entries means, then and ever after, that
\* every entry of its day up to its cut has been applied: for any number of reconcilers and
\* attempts, any entries, and streams that break anywhere.
THEOREM RunCertifies == ReadSideSpec => []CleanRunCertifies
<1>1. RunsInv => CleanRunCertifies
  BY Zenon DEF RunsInv, Certified, CleanRunCertifies
<1> QED BY <1>1, ReconciliationInductive, PTL

\* A difference that Reconcile stores is the one between what was applied of the day and what
\* the ledger has of it up to the cut, however often the stream broke and wherever, for any
\* entries, reconcilers and attempts.
THEOREM RunExplained == ReadSideSpec => []DifferenceExplained
<1>1. RunsInv => DifferenceExplained
  BY Zenon DEF RunsInv, Explained, DifferenceExplained
<1> QED BY <1>1, ReconciliationInductive, PTL

\* The upsert of reconciliation_run never lets a late reconciler with an old watermark
\* replace the run of a newer one.
THEOREM RunsOnlyAdvance == ReadSideSpec => RunsAdvance
<1>1. ProjectionInv /\ WorkInv /\ RunsInv /\ [ReadSideNext]_readSideVars
        => [\A d \in DOMAIN runs : runs'[d] = runs[d] \/ runs'[d].cut > runs[d].cut]_runs
  BY RunsStep, Zenon
<1> QED BY <1>1, ReconciliationInductive, PTL DEF ReadSideSpec, RunsAdvance

-----------------------------------------------------------------------------
(* Listing *)

\* The log has a time and a reversal, or none, for every position.
LogInv ==
  /\ confirmed \in Nat /\ confirmed <= Cardinality(Entries)
  /\ at \in Seq(Nat) /\ Len(at) = confirmed
  /\ undoes \in Seq(Nat) /\ Len(undoes) = confirmed

\* What the pages show, what a list is due, and what is left of it.
Shown(page)  == {s.entry : s \in page}
AllOf(pages) == UNION {Shown(pages[i]) : i \in 1 .. Len(pages)}
Due(f, high) == {p \in 1 .. high : InFilter(p, f)}

\* The pages are in order and show the entries of the filter with the reversals of then.
PagesInv(pages, f, high) ==
  /\ \A i, j \in 1 .. Len(pages) : i < j => \A p \in Shown(pages[i]), q \in Shown(pages[j]) : Before(p, q)
  /\ AllOf(pages) \subseteq Due(f, high)
  /\ \A i \in 1 .. Len(pages) : \A s \in pages[i] : s.reversed <=> \E q \in 1 .. high : undoes[q] = s.entry

\* What comes after the cursor is what has not been shown, and comes after all that has.
CursorInv(pages, f, high, after) ==
  /\ after \in 0 .. confirmed
  /\ Rows(f, high, after) = Due(f, high) \ AllOf(pages)
  /\ \A p \in AllOf(pages), q \in Rows(f, high, after) : Before(p, q)

ListInv ==
  /\ list.high \in Nat /\ list.high <= confirmed
  /\ list.pages \in Seq(SUBSET [entry : Nat, reversed : BOOLEAN])
  /\ PagesInv(list.pages, list.filter, list.high)
  /\ IF list.cursor = NoCursor
     THEN Len(list.pages) > 0 => AllOf(list.pages) = Due(list.filter, list.high)
     ELSE /\ list.cursor.high = list.high /\ list.cursor.filter = list.filter
          /\ CursorInv(list.pages, list.filter, list.high, list.cursor.after)

\* GetEntry showed the reversals there were, after the list began.
SingleInv == \A one \in single : (\E q \in 1 .. list.high : undoes[q] = one.entry) => one.reversed

ListingInv ==
  IF reader = "list" THEN LogInv /\ ListInv /\ SingleInv ELSE list = NoList /\ single = {}

\* A position has one entry, and an entry one position.
LEMMA EntryAtIs ==
  ASSUME NEW p \in 1 .. Cardinality(Entries)
  PROVE  EntryAt[p] \in Entries /\ EntryAt[p].position = p /\ EntryAt[p].date \in Nat /\ EntryAt[p].id \in Nat
<1>1. \E e \in Entries : e.position = p
  BY EntriesAssumption, Zenon
<1>2. EntryAt[p] = CHOOSE e \in Entries : e.position = p
  BY Zenon DEF EntryAt
<1>3. EntryAt[p] \in Entries /\ EntryAt[p].position = p
  BY <1>1, <1>2, Zenon
<1>4. EntryAt[p] \in Event
  BY <1>3, FeedAssumption, ConstantsAssumption, Zenon
<1> HIDE DEF EntryAt
<1> QED BY <1>3, <1>4 DEF Event

\* ORDER BY is a strict total order of the positions, for the id is unique.
LEMMA BeforeOrder ==
  ASSUME LogInv, NEW p \in 1 .. confirmed, NEW q \in 1 .. confirmed, NEW r \in 1 .. confirmed
  PROVE  /\ ~Before(p, p)
         /\ Before(p, q) /\ Before(q, r) => Before(p, r)
         /\ p # q => Before(p, q) \/ Before(q, p)
<1>1. /\ EntryAt[p].date \in Nat /\ EntryAt[p].id \in Nat
      /\ EntryAt[q].date \in Nat /\ EntryAt[q].id \in Nat
      /\ EntryAt[r].date \in Nat /\ EntryAt[r].id \in Nat
  <2>1. p \in 1 .. Cardinality(Entries) /\ q \in 1 .. Cardinality(Entries) /\ r \in 1 .. Cardinality(Entries)
    BY EntriesAssumption, FS_CardinalityType DEF LogInv
  <2> QED BY <2>1, EntryAtIs, Zenon
<1>2. at[p] \in Nat /\ at[q] \in Nat /\ at[r] \in Nat
  BY DEF LogInv
<1>3. p # q => EntryAt[p].id # EntryAt[q].id
  <2>1. p \in 1 .. Cardinality(Entries) /\ q \in 1 .. Cardinality(Entries)
    BY EntriesAssumption, FS_CardinalityType DEF LogInv
  <2>2. EntryAt[p] \in Entries /\ EntryAt[p].position = p /\ EntryAt[q] \in Entries /\ EntryAt[q].position = q
    BY <2>1, EntryAtIs, Zenon
  <2>3. \A e, f \in Entries : e.id = f.id => e = f
    BY EntriesAssumption, Zenon
  <2> QED BY <2>2, <2>3, Zenon
<1>4. ~Before(p, p)
  BY <1>1, <1>2 DEF Before
<1>5. Before(p, q) /\ Before(q, r) => Before(p, r)
  BY <1>1, <1>2 DEF Before
<1>6. p # q => Before(p, q) \/ Before(q, p)
  BY <1>1, <1>2, <1>3 DEF Before
<1> QED BY <1>4, <1>5, <1>6, Zenon

\* A finite set has a last element in a total order.
LEMMA LastExists ==
  ASSUME NEW S, IsFiniteSet(S), S # {}, NEW rel,
         \A p, q \in S : p # q => <<p, q>> \in rel \/ <<q, p>> \in rel,
         \A p, q, r \in S : <<p, q>> \in rel /\ <<q, r>> \in rel => <<p, r>> \in rel
  PROVE  \E p \in S : \A q \in S : q # p => <<q, p>> \in rel
<1> DEFINE Last(T) == \E p \in T : \A q \in T : q # p => <<q, p>> \in rel
           G == {T \in SUBSET S : T # {} => Last(T)}
<1>1. ASSUME NEW T \in SUBSET S, \A U \in SUBSET T : U # T => U \in G
      PROVE  T \in G
  <2>1. CASE T = {}
    BY <2>1, Zenon
  <2>2. CASE T # {}
    <3>1. PICK x \in T : TRUE
      BY <2>2, Zenon
    <3> DEFINE U == T \ {x}
    <3>2. U \in G
      <4>1. U \in SUBSET T /\ U # T
        BY Zenon
      <4> HIDE DEF U, G
      <4> QED BY <1>1, <4>1, Zenon
    <3>3. CASE U = {}
      <4>1. \A q \in T : q = x
        BY <3>3, Zenon
      <4> QED BY <4>1, Zenon
    <3>4. CASE U # {}
      <4>1. PICK p \in U : \A q \in U : q # p => <<q, p>> \in rel
        BY <3>2, <3>4, Zenon
      <4>2. p \in S /\ x \in S /\ p # x /\ \A q \in T : q = x \/ (q \in U /\ q \in S)
        BY Zenon
      <4> HIDE DEF U
      <4>3. CASE <<p, x>> \in rel
        <5>1. \A q \in T : q # x => <<q, x>> \in rel
          BY <4>1, <4>2, <4>3, Zenon
        <5> QED BY <5>1, Zenon
      <4>4. CASE <<x, p>> \in rel
        <5>1. \A q \in T : q # p => <<q, p>> \in rel
          BY <4>1, <4>2, <4>4, Zenon
        <5>2. p \in T
          BY Zenon DEF U
        <5> QED BY <5>1, <5>2, Zenon
      <4> QED BY <4>2, <4>3, <4>4, Zenon
    <3> QED BY <3>3, <3>4, Zenon
  <2> QED BY <2>1, <2>2, Zenon
<1>2. S \in G
  <2> HIDE DEF G
  <2> QED BY <1>1, FiniteInduction
<1> QED BY <1>2, Zenon

\* A page is what comes first of the rows, and has a last one.
LEMMA PageIsFirst ==
  ASSUME LogInv, NEW R \in SUBSET (1 .. confirmed), NEW limit \in Nat \ {0}
  PROVE  LET page == PageOf(R, limit)
         IN  /\ page \subseteq R
             /\ \A p \in page : \A q \in R \ page : Before(p, q)
             /\ R # page => \E p \in page : \A q \in page : q # p => Before(q, p)
<1> DEFINE page == PageOf(R, limit)
           Ahead(p) == {x \in R : Before(x, p)}
           rel == {x \in (1 .. confirmed) \X (1 .. confirmed) : Before(x[1], x[2])}
           inv == {x \in (1 .. confirmed) \X (1 .. confirmed) : Before(x[2], x[1])}
<1>0. /\ \A p \in 1 .. confirmed : ~Before(p, p)
      /\ \A p, q, r \in 1 .. confirmed : Before(p, q) /\ Before(q, r) => Before(p, r)
      /\ \A p, q \in 1 .. confirmed : p # q => Before(p, q) \/ Before(q, p)
  BY BeforeOrder, Zenon
<1>1. \A p, q \in 1 .. confirmed : /\ <<p, q>> \in rel <=> Before(p, q)
                                   /\ <<p, q>> \in inv <=> Before(q, p)
  BY Zenon
<1>2. \A T \in SUBSET (1 .. confirmed) : IsFiniteSet(T)
  <2>1. IsFiniteSet(1 .. confirmed)
    BY FS_Interval DEF LogInv
  <2> QED BY <2>1, FS_Subset
<1>3. page \subseteq R /\ \A p \in R : p \in page <=> Cardinality(Ahead(p)) < limit
  BY Zenon DEF PageOf
<1>4. \A p \in R : Ahead(p) \in SUBSET (1 .. confirmed) /\ Cardinality(Ahead(p)) \in Nat
  <2>1. \A p \in R : Ahead(p) \in SUBSET (1 .. confirmed)
    BY Zenon
  <2> HIDE DEF Ahead
  <2> QED BY <1>2, <2>1, FS_CardinalityType, Zenon
<1>5. ASSUME NEW p \in page, NEW q \in R \ page
      PROVE  Before(p, q)
  <2> SUFFICES ASSUME Before(q, p) PROVE FALSE
    BY <1>0, <1>3, <1>5, Zenon
  <2>1. p \in R /\ q \in R /\ p \in 1 .. confirmed /\ q \in 1 .. confirmed
    BY <1>3, <1>5, Zenon
  <2>2. Ahead(q) \subseteq Ahead(p)
    BY <1>0, <2>1, Zenon
  <2>3. Cardinality(Ahead(p)) < limit /\ ~(Cardinality(Ahead(q)) < limit)
    BY <1>3, <1>5, <2>1, Zenon
  <2>4. IsFiniteSet(Ahead(p)) /\ Cardinality(Ahead(p)) \in Nat /\ Cardinality(Ahead(q)) \in Nat
    BY <1>2, <1>4, <2>1, Zenon
  <2> HIDE DEF Ahead
  <2>5. Cardinality(Ahead(q)) <= Cardinality(Ahead(p))
    BY <2>2, <2>4, FS_Subset
  <2> QED BY <2>3, <2>4, <2>5
<1>6. ASSUME R # page
      PROVE  page # {}
  <2>1. R # {} /\ IsFiniteSet(R)
    BY <1>2, <1>3, <1>6, Zenon
  <2>2. \A p, q \in R : p # q => <<p, q>> \in inv \/ <<q, p>> \in inv
    BY <1>0, <1>1, Zenon
  <2>3. \A p, q, r \in R : <<p, q>> \in inv /\ <<q, r>> \in inv => <<p, r>> \in inv
    <3> HIDE DEF inv
    <3> QED BY <1>0, <1>1, Zenon
  <2> HIDE DEF inv
  <2>4. PICK p \in R : \A q \in R : q # p => <<q, p>> \in inv
    BY <2>1, <2>2, <2>3, LastExists, Zenon
  <2>5. Ahead(p) = {}
    BY <1>0, <1>1, <2>4, Zenon
  <2>6. Cardinality({}) < limit
    BY FS_EmptySet
  <2> QED BY <1>3, <2>4, <2>5, <2>6, Zenon
<1>7. ASSUME page # {}
      PROVE  \E p \in page : \A q \in page : q # p => Before(q, p)
  <2>0. page # {} /\ IsFiniteSet(page)
    BY <1>2, <1>3, <1>7, Zenon
  <2>1. page \subseteq 1 .. confirmed
    BY <1>3, Zenon
  <2> HIDE DEF page
  <2>2. \A p, q \in page : p # q => <<p, q>> \in rel \/ <<q, p>> \in rel
    <3> HIDE DEF rel
    <3> QED BY <1>0, <1>1, <2>1, Zenon
  <2>3. \A p, q, r \in page : <<p, q>> \in rel /\ <<q, r>> \in rel => <<p, r>> \in rel
    <3> HIDE DEF rel
    <3> QED BY <1>0, <1>1, <2>1, Zenon
  <2> HIDE DEF rel
  <2>4. PICK p \in page : \A q \in page : q # p => <<q, p>> \in rel
    BY <2>0, <2>2, <2>3, LastExists, Zenon
  <2> QED BY <1>1, <2>1, <2>4, Zenon
<1> QED BY <1>3, <1>5, <1>6, <1>7, Zenon

\* One more page.
LEMMA AppendShown ==
  ASSUME NEW S, NEW pages \in Seq(S), NEW page \in S
  PROVE  LET n == Len(pages)
             more == Append(pages, page)
         IN  /\ n \in Nat /\ Len(more) = n + 1 /\ more[n + 1] = page /\ \A i \in 1 .. n : more[i] = pages[i]
             /\ AllOf(more) = AllOf(pages) \cup Shown(page)
<1> DEFINE n == Len(pages)
           more == Append(pages, page)
<1>1. n \in Nat /\ Len(more) = n + 1 /\ more[n + 1] = page /\ \A i \in 1 .. n : more[i] = pages[i]
  OBVIOUS
<1>2. \A i : i \in 1 .. n + 1 <=> i \in 1 .. n \/ i = n + 1
  BY <1>1
<1> HIDE DEF n, more
<1>3. AllOf(more) = UNION {Shown(more[i]) : i \in 1 .. n + 1}
  BY <1>1, Zenon DEF AllOf
<1>4. AllOf(pages) = UNION {Shown(more[i]) : i \in 1 .. n}
  <2>1. AllOf(pages) = UNION {Shown(pages[i]) : i \in 1 .. n}
    BY Zenon DEF AllOf, n
  <2> QED BY <1>1, <2>1, Zenon
<1>5. UNION {Shown(more[i]) : i \in 1 .. n + 1} = (UNION {Shown(more[i]) : i \in 1 .. n}) \cup Shown(more[n + 1])
  BY <1>2, Zenon
<1> QED BY <1>1, <1>3, <1>4, <1>5, Zenon DEF n, more

\* A page takes what comes next, and its cursor goes on where it ends.
LEMMA ShowPageKeeps ==
  ASSUME LogInv, NEW pages \in Seq(SUBSET [entry : Nat, reversed : BOOLEAN]), NEW f, NEW limit \in Nat \ {0},
         NEW high \in 0 .. confirmed, NEW after,
         PagesInv(pages, f, high), CursorInv(pages, f, high, after),
         ShowPage(pages, f, limit, high, after), UNCHANGED <<confirmed, at, undoes>>
  PROVE  ListInv'
<1> DEFINE R == Rows(f, high, after)
           page == PageOf(R, limit)
           N == {Stored(p, high) : p \in page}
           more == Append(pages, N)
           n == Len(pages)
           c == CursorAfter(f, limit, high, R, page)
           last == CHOOSE p \in page : \A q \in page \ {p} : Before(q, p)
<1>0. \A p, q : Before(p, q)' <=> Before(p, q)
  BY Zenon DEF Before
<1>1. list' = [pages |-> more, filter |-> f, high |-> high, cursor |-> c]
  BY Zenon DEF ShowPage
<1>2. R \subseteq 1 .. confirmed
  BY Zenon DEF Rows
<1>3. /\ page \subseteq R
      /\ \A p \in page : \A q \in R \ page : Before(p, q)
      /\ R # page => \E p \in page : \A q \in page : q # p => Before(q, p)
  <2> HIDE DEF R
  <2> QED BY <1>2, PageIsFirst, Zenon
<1>4. Shown(N) = page /\ \A s \in N : s.reversed <=> \E q \in 1 .. high : undoes[q] = s.entry
  <2>1. \A p \in page : Stored(p, high).entry = p
    BY Zenon DEF Stored
  <2>2. \A q : q \in 1 .. high <=> q \in 1 .. confirmed /\ q <= high
    BY DEF LogInv
  <2>3. \A p \in page : Stored(p, high).reversed <=> \E q \in 1 .. high : undoes[q] = p
    BY <2>2, Zenon DEF Stored
  <2> HIDE DEF page
  <2>4. Shown(N) = page
    BY <2>1, Zenon DEF Shown
  <2> QED BY <2>1, <2>3, <2>4, Zenon
<1>5. N \in SUBSET [entry : Nat, reversed : BOOLEAN]
  <2>1. \A p \in page : p \in Nat
    BY <1>2, <1>3
  <2>2. \A p \in page : Stored(p, high) \in [entry : Nat, reversed : BOOLEAN]
    BY <2>1, Zenon DEF Stored
  <2> HIDE DEF page
  <2> QED BY <2>2, Zenon
<1> HIDE DEF R, page, N
<1>6. /\ n \in Nat /\ Len(more) = n + 1 /\ more[n + 1] = N /\ \A i \in 1 .. n : more[i] = pages[i]
      /\ AllOf(more) = AllOf(pages) \cup page
  <2>1. /\ n \in Nat /\ Len(more) = n + 1 /\ more[n + 1] = N /\ \A i \in 1 .. n : more[i] = pages[i]
        /\ AllOf(more) = AllOf(pages) \cup Shown(N)
    BY <1>5, AppendShown
  <2> HIDE DEF more, n
  <2> QED BY <1>4, <2>1, Zenon
<1>7. more \in Seq(SUBSET [entry : Nat, reversed : BOOLEAN])
  BY <1>5
<1>8. /\ R = Due(f, high) \ AllOf(pages) /\ AllOf(pages) \subseteq Due(f, high)
      /\ \A p \in AllOf(pages), q \in R : Before(p, q)
  BY Zenon DEF PagesInv, CursorInv, R
<1> HIDE DEF more
<1>9. PagesInv(more, f, high)
  <2>0. \A i : i \in 1 .. Len(more) <=> i \in 1 .. n \/ i = n + 1
    BY <1>6
  <2>1. \A i \in 1 .. n : Shown(more[i]) \subseteq AllOf(pages)
    BY <1>6, Zenon DEF AllOf
  <2>2. ASSUME NEW i \in 1 .. Len(more), NEW j \in 1 .. Len(more), i < j,
               NEW p \in Shown(more[i]), NEW q \in Shown(more[j])
        PROVE  Before(p, q)
    <3>1. i \in 1 .. n
      BY <1>6, <2>2
    <3>2. CASE j \in 1 .. n
      <4>1. p \in Shown(pages[i]) /\ q \in Shown(pages[j])
        BY <1>6, <2>2, <3>1, <3>2, Zenon
      <4> QED BY <2>2, <3>1, <3>2, <4>1, Zenon DEF PagesInv
    <3>3. CASE j = n + 1
      <4>1. q \in R
        BY <1>3, <1>4, <1>6, <2>2, <3>3, Zenon
      <4>2. p \in AllOf(pages)
        BY <2>1, <2>2, <3>1, Zenon
      <4> QED BY <1>8, <4>1, <4>2, Zenon
    <3> QED BY <2>0, <2>2, <3>2, <3>3, Zenon
  <2>3. AllOf(more) \subseteq Due(f, high)
    BY <1>3, <1>6, <1>8, Zenon
  <2>4. ASSUME NEW i \in 1 .. Len(more), NEW s \in more[i]
        PROVE  s.reversed <=> \E q \in 1 .. high : undoes[q] = s.entry
    <3>1. CASE i \in 1 .. n
      BY <1>6, <2>4, <3>1, Zenon DEF PagesInv
    <3>2. CASE i = n + 1
      BY <1>4, <1>6, <2>4, <3>2, Zenon
    <3> QED BY <2>0, <2>4, <3>1, <3>2, Zenon
  <2> QED BY <2>2, <2>3, <2>4, Zenon DEF PagesInv
<1>10. CASE R = page
  <2>1. c = NoCursor
    BY <1>10, Zenon DEF CursorAfter
  <2>2. AllOf(more) = Due(f, high)
    BY <1>6, <1>8, <1>10, Zenon
  <2> HIDE DEF c
  <2>3. /\ list'.high = high /\ list'.pages = more /\ list'.filter = f /\ list'.cursor = NoCursor
    BY <1>1, <2>1, Zenon
  <2>4. high \in Nat /\ high <= confirmed
    BY DEF LogInv
  <2>5. PagesInv(list.pages, list.filter, list.high)'
    BY <1>0, <1>9, <2>3, Zenon DEF PagesInv
  <2>6. AllOf(list.pages)' = AllOf(more) /\ Due(list.filter, list.high)' = Due(f, high)
    BY <2>3, Zenon DEF AllOf, Due, InFilter
  <2>7. (list.high \in Nat /\ list.high <= confirmed)' /\ list'.pages \in Seq(SUBSET [entry : Nat, reversed : BOOLEAN])
    BY <1>7, <2>3, <2>4, Zenon
  <2> QED BY <2>2, <2>3, <2>5, <2>6, <2>7, Zenon DEF ListInv
<1>11. CASE R # page
  <2>1. \E p \in page : \A q \in page \ {p} : Before(q, p)
    BY <1>3, <1>11, Zenon
  <2>2. last \in page /\ \A q \in page \ {last} : Before(q, last)
    BY <2>1, Zenon
  <2>3. c = [high |-> high, filter |-> f, limit |-> limit, after |-> last]
    BY <1>11, Zenon DEF CursorAfter
  <2> HIDE DEF last, c
  <2>4. last \in R /\ last \in 1 .. confirmed /\ last # 0
    BY <1>2, <1>3, <2>2
  <2>5. c # NoCursor
    <3>1. c.after # NoCursor.after
      BY <2>3, <2>4 DEF NoCursor
    <3> QED BY <3>1, Zenon
  <2>6. Due(f, high) \subseteq 1 .. confirmed /\ \A p \in Due(f, high) : p <= high /\ InFilter(p, f)
    BY DEF Due, LogInv
  <2>7. \A p \in 1 .. confirmed : p <= high /\ InFilter(p, f) => p \in Due(f, high)
    BY DEF Due, LogInv
  <2>8. /\ \A p \in 1 .. confirmed : ~Before(p, p)
        /\ \A p, q, r \in 1 .. confirmed : Before(p, q) /\ Before(q, r) => Before(p, r)
    BY BeforeOrder, Zenon
  <2>9. ASSUME NEW p \in R \ page PROVE Before(last, p)
    BY <1>3, <2>2, <2>9, Zenon
  <2>10. ASSUME NEW p \in Due(f, high), Before(last, p) PROVE p \notin AllOf(more)
    <3>1. p \in 1 .. confirmed
      BY <2>6, <2>10, Zenon
    <3>2. ~Before(p, last) /\ p # last
      BY <2>4, <2>8, <2>10, <3>1, Zenon
    <3>3. p \notin AllOf(pages)
      BY <1>8, <2>4, <3>2, Zenon
    <3>4. p \notin page
      BY <2>2, <3>2, Zenon
    <3> QED BY <1>6, <3>3, <3>4, Zenon
  <2>11. Due(f, high) \ AllOf(more) = R \ page
    BY <1>3, <1>6, <1>8, Zenon
  <2>12. Rows(f, high, last) = Due(f, high) \ AllOf(more)
    <3>1. ASSUME NEW p \in Rows(f, high, last) PROVE p \in Due(f, high) \ AllOf(more)
      <4>1. p \in 1 .. confirmed /\ p <= high /\ InFilter(p, f) /\ Before(last, p)
        BY <2>4, <3>1, Zenon DEF Rows
      <4>2. p \in Due(f, high)
        BY <2>7, <4>1, Zenon
      <4> QED BY <2>10, <4>1, <4>2, Zenon
    <3>2. ASSUME NEW p \in Due(f, high) \ AllOf(more) PROVE p \in Rows(f, high, last)
      <4>1. Before(last, p)
        BY <2>9, <2>11, <3>2, Zenon
      <4>2. p \in 1 .. confirmed /\ p <= high /\ InFilter(p, f)
        BY <2>6, <3>2, Zenon
      <4> QED BY <4>1, <4>2, Zenon DEF Rows
    <3> QED BY <3>1, <3>2, Zenon
  <2>13. \A p \in AllOf(more), q \in R \ page : Before(p, q)
    BY <1>3, <1>6, <1>8, Zenon
  <2>14. last \in 0 .. confirmed
    BY <2>4
  <2>15. CursorInv(more, f, high, last)
    BY <2>11, <2>12, <2>13, <2>14, Zenon DEF CursorInv
  <2>16. /\ list'.high = high /\ list'.pages = more /\ list'.filter = f /\ list'.cursor = c
         /\ c.high = high /\ c.filter = f /\ c.after = last
    BY <1>1, <2>3, Zenon
  <2>17. high \in Nat /\ high <= confirmed
    BY DEF LogInv
  <2>18. PagesInv(list.pages, list.filter, list.high)'
    BY <1>0, <1>9, <2>16, Zenon DEF PagesInv
  <2>19. CursorInv(list.pages, list.filter, list.high, list.cursor.after)'
    <3>1. AllOf(list.pages)' = AllOf(more) /\ Due(list.filter, list.high)' = Due(f, high)
      BY <2>16, Zenon DEF AllOf, Due, InFilter
    <3>2. Rows(list.filter, list.high, list.cursor.after)' = Rows(f, high, last)
      BY <1>0, <2>16, Zenon DEF Rows, InFilter
    <3> QED BY <1>0, <2>15, <2>16, <3>1, <3>2, Zenon DEF CursorInv
  <2>20. (list.high \in Nat /\ list.high <= confirmed)' /\ list'.pages \in Seq(SUBSET [entry : Nat, reversed : BOOLEAN])
    BY <1>7, <2>16, <2>17, Zenon
  <2> QED BY <2>5, <2>16, <2>18, <2>19, <2>20, Zenon DEF ListInv, NoCursor
<1> QED BY <1>10, <1>11, Zenon

\* A confirmation changes nothing at the positions there are.
LEMMA ConfirmAppends ==
  ASSUME LogInv, ConfirmListed
  PROVE  /\ LogInv'
         /\ confirmed \in Nat /\ confirmed' = confirmed + 1
         /\ \A p, q \in 1 .. confirmed : Before(p, q)' <=> Before(p, q)
         /\ \A p \in 1 .. confirmed : undoes'[p] = undoes[p]
<1>1. PICK t \in Times : at' = Append(at, t)
  BY Zenon DEF ConfirmListed
<1>2. PICK o \in {0} \cup {p \in 1 .. confirmed : undoes[p] = 0 /\ \A q \in 1 .. confirmed : undoes[q] # p} :
        undoes' = Append(undoes, o)
  BY Zenon DEF ConfirmListed
<1>3. t \in Nat /\ o \in Nat /\ confirmed < Cardinality(Entries) /\ confirmed' = confirmed + 1
  BY ListingAssumption DEF ConfirmListed, Confirm
<1>4. confirmed' <= Cardinality(Entries)
  BY <1>3, EntriesAssumption, FS_CardinalityType DEF LogInv
<1>5. LogInv'
  BY <1>1, <1>2, <1>3, <1>4 DEF LogInv
<1>6. \A p \in 1 .. confirmed : at'[p] = at[p] /\ undoes'[p] = undoes[p]
  BY <1>1, <1>2, <1>3 DEF LogInv
<1>7. \A p, q \in 1 .. confirmed : Before(p, q)' <=> Before(p, q)
  BY <1>6, Zenon DEF Before
<1> QED BY <1>3, <1>5, <1>6, <1>7, Zenon DEF LogInv

\* A confirmation leaves the list as it was fixed when it began.
LEMMA ConfirmKeeps ==
  ASSUME LogInv, ListInv, SingleInv, ConfirmListed
  PROVE  LogInv' /\ ListInv' /\ SingleInv'
<1>1. /\ LogInv'
      /\ confirmed \in Nat /\ confirmed' = confirmed + 1
      /\ \A p, q \in 1 .. confirmed : Before(p, q)' <=> Before(p, q)
      /\ \A p \in 1 .. confirmed : undoes'[p] = undoes[p]
  BY ConfirmAppends, Zenon
<1>2. list' = list /\ single' = single
  BY Zenon DEF ConfirmListed
<1> DEFINE pages == list.pages
           f == list.filter
           high == list.high
           after == list.cursor.after
<1>3. high \in Nat /\ high <= confirmed /\ PagesInv(pages, f, high)
  BY Zenon DEF ListInv
<1>4. 1 .. high \subseteq 1 .. confirmed
  BY <1>1, <1>3
<1>5. SingleInv'
  BY <1>1, <1>2, <1>4, Zenon DEF SingleInv
<1>6. \A i \in 1 .. Len(pages) : Shown(pages[i]) \subseteq 1 .. confirmed
  <2>1. Due(f, high) \subseteq 1 .. confirmed
    BY <1>4, Zenon DEF Due
  <2> QED BY <1>3, <2>1, Zenon DEF PagesInv, AllOf
<1>7. PagesInv(list.pages, list.filter, list.high)'
  <2>1. \A i, j \in 1 .. Len(pages) : i < j => \A p \in Shown(pages[i]), q \in Shown(pages[j]) : Before(p, q)'
    BY <1>1, <1>3, <1>6, Zenon DEF PagesInv
  <2>2. \A i \in 1 .. Len(pages) : \A s \in pages[i] : s.reversed <=> \E q \in 1 .. high : undoes'[q] = s.entry
    BY <1>1, <1>3, <1>4, Zenon DEF PagesInv
  <2>3. AllOf(pages) \subseteq Due(f, high)
    BY <1>3, Zenon DEF PagesInv
  <2> QED BY <1>2, <2>1, <2>2, <2>3, Zenon DEF PagesInv, AllOf, Shown, Due, InFilter
<1>8. ASSUME CursorInv(pages, f, high, after)
      PROVE  CursorInv(list.pages, list.filter, list.high, list.cursor.after)'
  <2>1. after \in 0 .. confirmed
    BY <1>8, Zenon DEF CursorInv
  <2>2. after # 0 => after \in 1 .. confirmed
    BY <2>1
  <2>3. \A p : p \in 1 .. confirmed' /\ p <= high <=> p \in 1 .. confirmed /\ p <= high
    BY <1>1, <1>3
  <2>4. Rows(list.filter, list.high, list.cursor.after)' = Rows(f, high, after)
    BY <1>1, <1>2, <2>2, <2>3, Zenon DEF Rows, InFilter
  <2>5. AllOf(list.pages)' = AllOf(pages) /\ Due(list.filter, list.high)' = Due(f, high)
    BY <1>2, Zenon DEF AllOf, Shown, Due, InFilter
  <2>6. AllOf(pages) \subseteq 1 .. confirmed /\ Rows(f, high, after) \subseteq 1 .. confirmed
    BY <1>6, Zenon DEF AllOf, Rows
  <2>7. \A p \in AllOf(pages), q \in Rows(f, high, after) : Before(p, q)'
    BY <1>1, <1>8, <2>6, Zenon DEF CursorInv
  <2>8. list'.cursor.after \in 0 .. confirmed'
    BY <1>1, <1>2, <2>1
  <2>9. Rows(f, high, after) = Due(f, high) \ AllOf(pages)
    BY <1>8, Zenon DEF CursorInv
  <2> QED BY <2>4, <2>5, <2>7, <2>8, <2>9, Zenon DEF CursorInv
<1>9. (list.high \in Nat /\ list.high <= confirmed)'
  BY <1>1, <1>2, <1>3
<1>10. list'.pages \in Seq(SUBSET [entry : Nat, reversed : BOOLEAN])
  BY <1>2, Zenon DEF ListInv
<1>11. /\ list'.cursor = NoCursor => (Len(list'.pages) > 0 => AllOf(list.pages)' = Due(list.filter, list.high)')
       /\ list'.cursor # NoCursor => /\ list'.cursor.high = list'.high /\ list'.cursor.filter = list'.filter
                                     /\ CursorInv(list.pages, list.filter, list.high, list.cursor.after)'
  <2>1. AllOf(list.pages)' = AllOf(pages) /\ Due(list.filter, list.high)' = Due(f, high)
    BY <1>2, Zenon DEF AllOf, Shown, Due, InFilter
  <2>2. ListInv
    BY Zenon
  <2> QED BY <1>2, <1>8, <2>1, <2>2, Zenon DEF ListInv
<1>12. ListInv'
  BY <1>7, <1>9, <1>10, <1>11, Zenon DEF ListInv, NoCursor
<1> QED BY <1>1, <1>5, <1>12, Zenon

\* The list is about the log and what was shown.
LEMMA ListUnchanged ==
  ASSUME ListInv, UNCHANGED <<confirmed, at, undoes, list>>
  PROVE  ListInv'
<1>1. \A p, q : Before(p, q)' <=> Before(p, q)
  BY Zenon DEF Before
<1>2. /\ AllOf(list.pages)' = AllOf(list.pages)
      /\ Due(list.filter, list.high)' = Due(list.filter, list.high)
  BY Zenon DEF AllOf, Due, InFilter
<1>3. PagesInv(list.pages, list.filter, list.high)'
  <2>1. PagesInv(list.pages, list.filter, list.high)
    BY Zenon DEF ListInv
  <2> QED BY <1>1, <2>1, Zenon DEF PagesInv
<1>4. ASSUME CursorInv(list.pages, list.filter, list.high, list.cursor.after)
      PROVE  CursorInv(list.pages, list.filter, list.high, list.cursor.after)'
  <2>1. Rows(list.filter, list.high, list.cursor.after)' = Rows(list.filter, list.high, list.cursor.after)
    BY <1>1, Zenon DEF Rows, InFilter
  <2> QED BY <1>1, <1>2, <1>4, <2>1, Zenon DEF CursorInv
<1> QED BY <1>2, <1>3, <1>4, Zenon DEF ListInv, NoCursor

LEMMA ListingStep ==
  ASSUME ListingInv, [ReadSideNext]_readSideVars
  PROVE  ListingInv'
<1>0. reader' = reader
  BY Zenon DEF ReadSideNext, readSideVars
<1>1. CASE reader # "list"
  <2>1. UNCHANGED <<list, single>>
    BY <1>1, Zenon DEF ReadSideNext, ProjectionSide, readSideVars, listingVars
  <2> QED BY <1>0, <1>1, <2>1, Zenon DEF ListingInv
<1>2. CASE reader = "list"
  <2>0. LogInv /\ ListInv /\ SingleInv
    BY <1>2, Zenon DEF ListingInv
  <2> SUFFICES LogInv' /\ ListInv' /\ SingleInv'
    BY <1>0, <1>2, Zenon DEF ListingInv
  <2>1. CASE UNCHANGED <<confirmed, at, undoes, list, single>>
    <3>1. ListInv'
      BY <2>0, <2>1, ListUnchanged, Zenon
    <3>2. LogInv' /\ SingleInv'
      BY <2>0, <2>1, Zenon DEF LogInv, SingleInv
    <3> QED BY <3>1, <3>2, Zenon
  <2>2. CASE ConfirmListed
    BY <2>0, <2>2, ConfirmKeeps, Zenon
  <2>3. ASSUME UNCHANGED <<confirmed, at, undoes>> PROVE LogInv'
    BY <2>0, <2>3, Zenon DEF LogInv
  <2>4. CASE FirstPage
    <3>1. PICK f \in Filters, limit \in Limits : ShowPage(<<>>, f, limit, confirmed, 0)
      BY <2>4, Zenon DEF FirstPage
    <3>2. UNCHANGED <<confirmed, at, undoes>> /\ single' = {}
      BY <2>4, Zenon DEF FirstPage
    <3>3. confirmed \in 0 .. confirmed /\ 0 \in 0 .. confirmed /\ limit \in Nat \ {0}
      BY <2>0, ListingAssumption DEF LogInv
    <3>4. <<>> \in Seq(SUBSET [entry : Nat, reversed : BOOLEAN]) /\ 1 .. Len(<<>>) = {}
      OBVIOUS
    <3>5. AllOf(<<>>) = {}
      BY <3>4, Zenon DEF AllOf
    <3>6. PagesInv(<<>>, f, confirmed)
      BY <3>4, <3>5, Zenon DEF PagesInv
    <3>7. Rows(f, confirmed, 0) = Due(f, confirmed)
      BY <2>0 DEF Rows, Due, LogInv
    <3>8. CursorInv(<<>>, f, confirmed, 0)
      BY <3>3, <3>5, <3>7, Zenon DEF CursorInv
    <3>9. ListInv'
      BY <2>0, <3>1, <3>2, <3>3, <3>4, <3>6, <3>8, ShowPageKeeps, Zenon
    <3>10. SingleInv'
      BY <3>2, Zenon DEF SingleInv
    <3> QED BY <2>3, <3>2, <3>9, <3>10, Zenon
  <2>5. CASE NextPage
    <3> DEFINE c == list.cursor
    <3>1. PICK f \in Filters, limit \in Limits : SameScope(c, f, limit) /\ ShowPage(list.pages, f, limit, c.high, c.after)
      BY <2>5, Zenon DEF NextPage
    <3>2. UNCHANGED <<confirmed, at, undoes, single>> /\ c # NoCursor
      BY <2>5, Zenon DEF NextPage
    <3>3. /\ c.high = list.high /\ f = list.filter /\ list.high \in Nat /\ list.high <= confirmed
          /\ CursorInv(list.pages, f, c.high, c.after) /\ PagesInv(list.pages, f, c.high)
          /\ list.pages \in Seq(SUBSET [entry : Nat, reversed : BOOLEAN])
      BY <2>0, <3>1, <3>2, Zenon DEF ListInv, SameScope
    <3>4. c.high \in 0 .. confirmed /\ limit \in Nat \ {0}
      BY <2>0, <3>3, ListingAssumption DEF LogInv
    <3>5. ListInv'
      BY <2>0, <3>1, <3>2, <3>3, <3>4, ShowPageKeeps, Zenon
    <3>6. list'.high = list.high
      BY <3>1, <3>3, Zenon DEF ShowPage
    <3>7. SingleInv'
      BY <2>0, <3>2, <3>6, Zenon DEF SingleInv
    <3> QED BY <2>3, <3>2, <3>5, <3>7, Zenon
  <2>6. CASE GetEntry
    <3>1. PICK p \in 1 .. confirmed : single' = {Stored(p, confirmed)}
      BY <2>6, Zenon DEF GetEntry
    <3>2. UNCHANGED <<confirmed, at, undoes, list>>
      BY <2>6, Zenon DEF GetEntry
    <3>3. ListInv'
      BY <2>0, <3>2, ListUnchanged, Zenon
    <3>4. \A q \in 1 .. list.high : q \in 1 .. confirmed /\ q <= confirmed
      BY <2>0 DEF LogInv, ListInv
    <3>5. (\E q \in 1 .. list.high : undoes[q] = p) => Stored(p, confirmed).reversed
      BY <3>4, Zenon DEF Stored
    <3>6. Stored(p, confirmed).entry = p
      BY Zenon DEF Stored
    <3>7. SingleInv'
      BY <3>1, <3>2, <3>5, <3>6, Zenon DEF SingleInv
    <3> QED BY <2>3, <3>2, <3>3, <3>7, Zenon
  <2>7. ReadSideNext => ListingNext
    BY <1>2, Zenon DEF ReadSideNext
  <2>8. UNCHANGED readSideVars => UNCHANGED <<confirmed, at, undoes, list, single>>
    BY Zenon DEF readSideVars, listingVars
  <2> QED BY <2>1, <2>2, <2>4, <2>5, <2>6, <2>7, <2>8, Zenon DEF ListingNext
<1> QED BY <1>1, <1>2, Zenon

LEMMA ListingStart ==
  ASSUME ReadSideInit
  PROVE  ListingInv
<1>1. confirmed = 0 /\ at = <<>> /\ undoes = <<>> /\ list = NoList /\ single = {}
  BY Zenon DEF ReadSideInit, ListingInit
<1>2. Cardinality(Entries) \in Nat
  BY EntriesAssumption, FS_CardinalityType, Zenon
<1>3. LogInv
  BY <1>1, <1>2 DEF LogInv
<1>4. list.pages = <<>> /\ list.high = 0 /\ list.cursor = NoCursor
  BY <1>1, Zenon DEF NoList
<1>5. 1 .. Len(<<>>) = {} /\ <<>> \in Seq(SUBSET [entry : Nat, reversed : BOOLEAN]) /\ ~(Len(<<>>) > 0)
  OBVIOUS
<1>6. PagesInv(<<>>, list.filter, 0)
  BY <1>5, Zenon DEF PagesInv, AllOf
<1>7. 0 \in Nat /\ 0 <= confirmed
  BY <1>1
<1>8. ListInv
  BY <1>4, <1>5, <1>6, <1>7, Zenon DEF ListInv
<1> QED BY <1>1, <1>3, <1>8, Zenon DEF ListingInv, SingleInv

\* The pages of ListEntries, followed by their cursors, are the entries of the filter that were
\* there when the list began: for any entries and times, any page sizes and filters, and any
\* confirmations and reversals between two pages.
THEOREM ListingExact == ReadSideSpec => []TraversalExact
<1>1. ListingInv => TraversalExact
  <2>1. CASE reader # "list" /\ ListingInv
    <3>1. list = NoList
      BY <2>1, Zenon DEF ListingInv
    <3>2. list.pages = <<>> /\ list.high = 0
      BY <3>1, Zenon DEF NoList
    <3>3. 1 .. Len(<<>>) = {} /\ ~(Len(<<>>) > 0)
      OBVIOUS
    <3> QED BY <3>2, <3>3, Zenon DEF TraversalExact
  <2>2. CASE reader = "list" /\ ListingInv
    <3>1. ListInv /\ SingleInv
      BY <2>2, Zenon DEF ListingInv
    <3>2. PagesInv(list.pages, list.filter, list.high)
      BY <3>1, Zenon DEF ListInv
    <3>3. Len(list.pages) > 0 /\ list.cursor = NoCursor => AllOf(list.pages) = Due(list.filter, list.high)
      BY <3>1, Zenon DEF ListInv
    <3>4. \A i \in 1 .. Len(list.pages) : \A s \in list.pages[i] :
            /\ s.reversed <=> \E q \in 1 .. list.high : undoes[q] = s.entry
            /\ s.reversed => \A one \in single : one.entry = s.entry => one.reversed
      BY <3>1, <3>2, Zenon DEF PagesInv, SingleInv
    <3> QED BY <3>2, <3>3, <3>4, Zenon DEF TraversalExact, PagesInv, AllOf, Shown, Due
  <2> QED BY <2>1, <2>2, Zenon
<1> QED BY <1>1, ListingStart, ListingStep, PTL DEF ReadSideSpec
=============================================================================
