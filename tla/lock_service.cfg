SPECIFICATION MCSpec
CONSTANTS
  lock_a = lock_a
  lock_b = lock_b
  x = x
  y = y
  Node <- MCNode
  Cluster <- MCCluster
  Cmd <- MCCmd
  Client <- MCClient
  Resource = {r}
  None = None
  Free = Free
  MaxTimeouts = 1
INVARIANTS TypeOK TablesAgree GrantStands ClientsExclude LeakEnds PendingOnlyIfReplaced NoLockUnasked
PROPERTIES CallsAnswered
CHECK_DEADLOCK FALSE
