\* Two commands under way, with a timeout, a second term or a restart.
SPECIFICATION OneTroubleSpec
CONSTANTS
  lock_a = lock_a
  lock_b = lock_b
  lock_c = lock_c
  Node <- MCNode
  Peers <- MCPeers
  Cmd = {c1, c2}
  None = None
  MaxTerm = 2
  MaxInflight = 2
  MaxTimeouts = 1
  MaxRestarts = 1
SYMMETRY CmdSymmetry
INVARIANTS TypeOK VoteOnce ElectedByMajority OneLeader FollowersAgree
PROPERTIES ImplementsLog
CHECK_DEADLOCK FALSE
