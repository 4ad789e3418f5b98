\* A reconciliation of the day of the last two entries.
CONSTANTS
  Events <- SomeEvents
  Entries <- SomeEntries
  Span = 2
  QueriedDays = {2, 3, 4, 5}
  None = None
  Reconcilers = {r1, r2}
  MaxStreamAttempts = 2
  ReconciledDates = {4}
  Times = {1, 2}
  Filters <- SomeFilters
  Limits = {1, 2}
SPECIFICATION ReadSideSpec
INVARIANT
  DifferenceAtCut
