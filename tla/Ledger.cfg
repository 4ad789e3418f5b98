\* Three concurrent calls, two merchants, two keys; every check of a request can fail.
CONSTANTS
  Calls = {c1, c2, c3}
  Merchants = {m1, m2}
  Keys = {k1, k2}
  CreateBodies <- FourBodies
  MaximumBackdateDays = 1
  FirstDay = 1
  LastDay = 2
  None = None
SYMMETRY Symmetry
SPECIFICATION Spec
INVARIANTS
  TypeOK
  GapFree
  OneEntryPerKey
  RepliesAgree
  ReversalsSound
  RowLockSerialisesReversals
  OutboxMatchesEntries
  RefusedLeavesNoTrace
PROPERTIES
  HistoryIsFinal
  ImplementsLog
