\* Every command on two resources, three clients, up to MaxRequests acquires.
SPECIFICATION FairSpec
CONSTANTS
  Client = {a, b, c}
  Resource = {r1, r2}
  Free = Free
  MaxRequests = 4
INVARIANTS TypeOK Exclusion HeadBlocked DfsExact
PROPERTIES ServedFromFront ImplementsRWLock WaitersServed
CHECK_DEADLOCK FALSE
