\* A later day is added while a recomputation is pending.
CONSTANTS
  Events <- LedgerEvents
  Span = 2
  None = None
SPECIFICATION Spec
INVARIANT
  DoneMeansExact
