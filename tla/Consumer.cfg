\* Two consumers; an event, a message that contradicts it and one that cannot be read.
CONSTANTS
  Consumers = {c1, c2}
  Reprocessors = {r1}
  Ids = {1}
  Contents = {1, 2, 3}
  Messages <- SomeMessages
  MaxAttempts = 2
  MaxFaults = 2
  None = None
SPECIFICATION FairSpec
INVARIANTS
  TypeOK
  AckedIsApplied
  PendencyKnown
  RetriesBounded
  DroppedIsApplied
PROPERTY
  EventuallyApplied
CHECK_DEADLOCK FALSE
