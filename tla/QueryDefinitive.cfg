\* A query of the first two days, beside the consumer.
CONSTANTS
  Events <- SomeEvents
  Entries <- SomeEntries
  Span = 2
  QueriedDays = {1, 2}
  None = None
  Reconcilers = {r1, r2}
  MaxStreamAttempts = 2
  ReconciledDates = {4}
  Times = {1, 2}
  Filters <- SomeFilters
  Limits = {1, 2}
SPECIFICATION ReadSideSpec
INVARIANT
  DefinitiveAtPosition
