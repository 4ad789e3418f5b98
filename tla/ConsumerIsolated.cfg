\* One event that fails to be applied until it is isolated.
CONSTANTS
  Consumers = {c1, c2}
  Reprocessors = {r1}
  Ids = {1}
  Contents = {1, 2, 3}
  Messages <- OneEvent
  MaxAttempts = 2
  MaxFaults = 3
  None = None
SPECIFICATION Spec
INVARIANTS
  IsolatedIsSelected
CHECK_DEADLOCK FALSE
