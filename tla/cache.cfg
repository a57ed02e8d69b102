\* Two nodes, and a cache of one place: two keys, or two requests at a time,
\* or one fault.
SPECIFICATION MCSpec
CONSTANTS
  cache_a = cache_a
  cache_b = cache_b
  x = x
  y = y
  p1 = p1
  p2 = p2
  Node = {cache_a, cache_b}
  Key = {x, y}
  Proc = {p1, p2}
  Capacity = 1
  MaxWrites = 2
  MaxFaults = 1
INVARIANTS TypeOK CopiesCurrent CopiesExpire
PROPERTIES StaleGoes
CHECK_DEADLOCK FALSE
