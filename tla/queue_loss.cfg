\* Two owners, one message, two consumers, a restart of each owner.
SPECIFICATION Spec
CONSTANTS
  queue_a = queue_a
  queue_b = queue_b
  queue_c = queue_c
  Node <- MCNode
  Owners <- MCOwners
  Msg = {m1}
  Consumer = {c1, c2}
  Acker = {}
  None = None
  MaxRestarts = 2
SYMMETRY Symmetry
INVARIANTS AtLeastOnce
CHECK_DEADLOCK FALSE
