\* The shortest lease NewWorker accepts, and a readiness probe on the broker.
CONSTANTS
  Workers = {w1, w2}
  Events = {e1, e2}
  Invalid = {}
  Lease = 3
  ConnectBudget = 1
  PublishBudget = 1
  PersistBudget = 1
  Overtakes = 0
  BackoffBase = 1
  BackoffMax = 2
  MaxAttempts = 2
  MaxFaults = 2
  None = None
SYMMETRY WorkerSymmetry
SPECIFICATION Spec
INVARIANT
  LeaseCoversWork
