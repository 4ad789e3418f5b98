\* Entries of four days in any order, two of them contradicted; two days a block;
\* two reconcilers of the last day; pages of one and two entries.
CONSTANTS
  Events <- SomeEvents
  Entries <- SomeEntries
  Span = 2
  QueriedDays = {2, 3, 4, 5}
  None = None
  Reconcilers = {r1, r2}
  MaxStreamAttempts = 2
  ReconciledDates = {4}
  Times = {1, 2}
  Filters <- SomeFilters
  Limits = {1, 2}
SPECIFICATION ReadSideSpec
INVARIANTS
  TypeOK
  TotalsExact
  ProgressExact
  IdentityKept
  ClosingExact
  JobsBounded
  DefinitiveIsExact
  DefinitiveIsComplete
  CleanRunCertifies
  DifferenceExplained
  TraversalExact
PROPERTY
  RunsAdvance
