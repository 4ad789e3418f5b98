\* Two events with one id, isolated together.
CONSTANTS
  Consumers = {c1, c2}
  Reprocessors = {r1}
  Ids = {1}
  Contents = {1, 2, 3}
  Messages <- ConflictingMessages
  MaxAttempts = 1
  MaxFaults = 4
  None = None
SPECIFICATION Spec
INVARIANTS
  DroppedWasReapplied
CHECK_DEADLOCK FALSE
