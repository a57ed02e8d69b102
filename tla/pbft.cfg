\* Three nodes, one request, two lost calls, one restart.
SPECIFICATION FairSpec
CONSTANTS
  Node = {pbft_a, pbft_b, pbft_c}
  Req = {r1}
  Digest = {d1}
  None = None
  MaxLosses = 2
  MaxRestarts = 1
INVARIANTS TypeOK DecidedByMajority
PROPERTIES AloneToldTrue RequestsAnswered EveryNodeDecides DecisionSpreads
CHECK_DEADLOCK FALSE
