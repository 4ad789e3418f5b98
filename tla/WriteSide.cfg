\* Three calls; two workers, a valid row and an invalid one, a probe that may overtake.
CONSTANTS
  Workers = {w1, w2}
  Events = {e1, e2}
  Invalid = {e2}
  Lease = 5
  ConnectBudget = 1
  PublishBudget = 1
  PersistBudget = 1
  Overtakes = 1
  BackoffBase = 1
  BackoffMax = 1
  MaxAttempts = 1
  MaxFaults = 1
  Calls = {c1, c2, c3}
  Merchants = {m1}
  Keys = {k1, k2}
  CreateBodies <- OneBody
  MaximumBackdateDays = 1
  FirstDay = 1
  LastDay = 1
  None = None
SPECIFICATION WriteSideSpec
INVARIANTS
  TypeOK
  PublishedIsQueued
  LeaseCoversWork
  DuplicatesNeedFaults
PROPERTIES
  EveryCallAnswered
  EveryEventPublished
