\* One call fails, and the leader goes on with its heartbeats and two commands.
SPECIFICATION FairSpec
CONSTANTS
  lock_a = lock_a
  lock_b = lock_b
  lock_c = lock_c
  Node <- MCNode
  Peers <- MCPeers
  Cmd = {c1, c2}
  None = None
  MaxTerm = 1
  MaxInflight = 1
  MaxTimeouts = 1
  MaxRestarts = 0
PROPERTY Rejoins
CHECK_DEADLOCK FALSE
