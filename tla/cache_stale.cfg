\* Two healthy nodes, one key, two requests at a time.
SPECIFICATION OnePutSpec
CONSTANTS
  cache_a = cache_a
  cache_b = cache_b
  x = x
  y = y
  p1 = p1
  p2 = p2
  Node = {cache_a, cache_b}
  Key = {x}
  Proc = {p1, p2}
  Capacity = 1
  MaxWrites = 2
  MaxFaults = 0
SYMMETRY Symmetry
INVARIANTS Coherent
CHECK_DEADLOCK FALSE
