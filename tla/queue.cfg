\* Two owners, one message, one consume and one ack at a time, one restart.
SPECIFICATION FairSpec
CONSTANTS
  queue_a = queue_a
  queue_b = queue_b
  queue_c = queue_c
  Node <- MCNode
  Owners <- MCOwners
  Msg = {m1}
  Consumer = {c1}
  Acker = {a1}
  None = None
  MaxRestarts = 1
INVARIANTS TypeOK OnePlace CopyKept BodyKept AckIsFinal OwnersExact
PROPERTIES LeftoverStays ExpiredReturns
CHECK_DEADLOCK FALSE
