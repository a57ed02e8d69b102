\* Two commands under way at once.
SPECIFICATION Spec
CONSTANTS
  lock_a = lock_a
  lock_b = lock_b
  lock_c = lock_c
  Node <- MCNode
  Peers <- MCPeers
  Cmd = {c1, c2}
  None = None
  MaxTerm = 1
  MaxInflight = 2
  MaxTimeouts = 0
  MaxRestarts = 0
SYMMETRY CmdSymmetry
INVARIANT AppliedOnMajority
CHECK_DEADLOCK FALSE
