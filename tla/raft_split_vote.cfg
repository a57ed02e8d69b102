\* A count that outlives its term.
SPECIFICATION Spec
CONSTANTS
  lock_a = lock_a
  lock_b = lock_b
  lock_c = lock_c
  Node <- MCNode
  Peers <- MCPeers
  Cmd = {c1}
  None = None
  MaxTerm = 2
  MaxInflight = 1
  MaxTimeouts = 0
  MaxRestarts = 0
INVARIANT ElectionSafety
CHECK_DEADLOCK FALSE
