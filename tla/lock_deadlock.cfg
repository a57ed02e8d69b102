\* Three blocking clients, two resources: a circular wait that is not reported.
SPECIFICATION BlockingSpec
CONSTANTS
  Client = {a, b, c}
  Resource = {r1, r2}
  Free = Free
  MaxRequests = 5
INVARIANT DeadlockDetected
CHECK_DEADLOCK FALSE
