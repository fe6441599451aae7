SPECIFICATION Spec
CONSTANTS
  w1 = w1
  w2 = w2
  q1 = q1
  NoOwner = NoOwner
  MaxLines = 2
  MaxWakes = 2
  Watchers = {w1, w2}
  Requests = {q1}
  MaxFaults = 2
SYMMETRY Interchangeable
INVARIANTS
  WokenOnce
CHECK_DEADLOCK FALSE
