\* The deployed consumer, and events of the ledger only.
CONSTANTS
  Events <- LedgerEvents
  Span = 2
  None = None
SPECIFICATION ConsumerSpec
PROPERTY
  EventuallyRecomputed
