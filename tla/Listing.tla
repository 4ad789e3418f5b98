------------------------------ MODULE Listing ------------------------------
(***************************************************************************)
(* ListEntries and GetEntry: a client follows the cursors of one list and  *)
(* looks at single entries while entries of the merchant are confirmed and *)
(* reversed.                                                               *)
(*                                                                         *)
(* A page is one REPEATABLE READ transaction, so one step.  The first page *)
(* fixes the high-water position, the signed cursor carries it on with the *)
(* sort key of the last row.  Rows are sorted by business date, time of    *)
(* confirmation and id, all descending.  The time is read before the       *)
(* position is taken, so their orders differ, and two times may be equal.  *)
(***************************************************************************)
EXTENDS LedgerFeed, Sequences

CONSTANTS
  Times,    \* of confirmation
  Filters,  \* pairs of days
  Limits    \* page sizes

ASSUME ListingAssumption == Times \subseteq Nat /\ Limits \subseteq Nat \ {0}

VARIABLES
  at,      \* confirmed_at of every position
  undoes,  \* the position of original_entry_id, or 0
  list,    \* what the client has of its list
  single   \* what GetEntry showed since the list began, at most one entry

listingVars == <<at, undoes, list, single>>

NoCursor == [high |-> 0, after |-> 0, filter |-> <<0, 0>>, limit |-> 0]

NoList == [pages |-> <<>>, filter |-> <<0, 0>>, high |-> 0, cursor |-> NoCursor]

ListingInit == at = <<>> /\ undoes = <<>> /\ list = NoList /\ single = {}

EntryAt == [p \in 1..Cardinality(Entries) |-> CHOOSE e \in Entries : e.position = p]

-----------------------------------------------------------------------------
(* The query *)

\* ORDER BY business_date DESC, confirmed_at DESC, id DESC
Before(p, q) ==
  \/ EntryAt[p].date > EntryAt[q].date
  \/ EntryAt[p].date = EntryAt[q].date /\ at[p] > at[q]
  \/ EntryAt[p].date = EntryAt[q].date /\ at[p] = at[q] /\ EntryAt[p].id > EntryAt[q].id

InFilter(p, f) == f[1] <= EntryAt[p].date /\ EntryAt[p].date <= f[2]

\* Mutant of Rows: later pages are not bounded by the high-water position.
RowsByNow(f, high, after) ==
  {p \in 1..confirmed : InFilter(p, f) /\ (after # 0 => Before(after, p))}

\* The WHERE clause; 0 stands for a first page, which comes after nothing.
Rows(f, high, after) ==
  {p \in 1..confirmed : p <= high /\ InFilter(p, f) /\ (after # 0 => Before(after, p))}

\* The LEFT JOIN finds reversals up to the high-water position only.
Stored(p, high) == [entry |-> p, reversed |-> \E q \in 1..confirmed : undoes[q] = p /\ q <= high]

\* LIMIT limit + 1 tells whether there is more; the page has limit rows.
PageOf(rows, limit) == {p \in rows : Cardinality({q \in rows : Before(q, p)}) < limit}

\* encode: a cursor is handed out if there is more.
CursorAfter(f, limit, high, rows, page) ==
  IF rows = page THEN NoCursor
  ELSE [high |-> high, filter |-> f, limit |-> limit,
        after |-> CHOOSE p \in page : \A q \in page \ {p} : Before(q, p)]

\* Service.ListEntries; a page without rows has no high-water position to go on from.
ShowPage(pages, f, limit, high, after) ==
  LET rows == Rows(f, high, after)
      page == PageOf(rows, limit)
  IN  list' = [pages |-> Append(pages, {Stored(p, high) : p \in page}),
               filter |-> f, high |-> high,
               cursor |-> CursorAfter(f, limit, high, rows, page)]

-----------------------------------------------------------------------------
(* Actions *)

\* A commit; the entry may reverse an earlier one that is neither reversed nor a reversal.
ConfirmListed ==
  /\ Confirm
  /\ \E t \in Times : at' = Append(at, t)
  /\ \E o \in {0} \cup {p \in 1..confirmed : undoes[p] = 0 /\ \A q \in 1..confirmed : undoes[q] # p} :
       undoes' = Append(undoes, o)
  /\ UNCHANGED <<list, single>>

\* A request without a cursor begins a list; the high-water position is the last one
\* committed.
FirstPage ==
  /\ \E f \in Filters, limit \in Limits : ShowPage(<<>>, f, limit, confirmed, 0)
  /\ single' = {}
  /\ UNCHANGED <<confirmed, at, undoes>>

\* decode and the comparison that follows: a cursor of another filter or limit is refused.
SameScope(c, f, limit) == c.filter = f /\ c.limit = limit

NextPage ==
  LET c == list.cursor IN
  /\ c # NoCursor
  /\ \E f \in Filters, limit \in Limits : SameScope(c, f, limit) /\ ShowPage(list.pages, f, limit, c.high, c.after)
  /\ UNCHANGED <<confirmed, at, undoes, single>>

\* The owner is checked first and never changes; then the entry is read with the reversal it
\* has by now.  An unknown id and another merchant's are not found.
GetEntry ==
  /\ \E p \in 1..confirmed : single' = {Stored(p, confirmed)}
  /\ UNCHANGED <<confirmed, at, undoes, list>>

ListingNext == ConfirmListed \/ FirstPage \/ NextPage \/ GetEntry

-----------------------------------------------------------------------------
(* Correctness *)

\* What was shown, page by page, are the entries that were there when the list began
\* and match its filter: in order, none twice and, once there is no further cursor,
\* none left out, each with the reversal it had then, whatever was confirmed or
\* reversed between two pages.  GetEntry never takes back a reversal the list shows.
TraversalExact ==
  LET shown(i) == {s.entry : s \in list.pages[i]}
      n        == Len(list.pages)
      all      == UNION {shown(i) : i \in 1..n}
      due      == {p \in 1..list.high : InFilter(p, list.filter)}
  IN  /\ \A i, j \in 1..n : i < j => \A p \in shown(i), q \in shown(j) : Before(p, q)
      /\ all \subseteq due
      /\ n > 0 /\ list.cursor = NoCursor => all = due
      /\ \A i \in 1..n : \A s \in list.pages[i] :
           /\ s.reversed <=> \E q \in 1..list.high : undoes[q] = s.entry
           /\ s.reversed => \A one \in single : one.entry = s.entry => one.reversed
=============================================================================
