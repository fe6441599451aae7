SPECIFICATION FairSpec
CONSTANTS
  w1 = w1
  w2 = w2
  q1 = q1
  NoOwner = NoOwner
  MaxLines = 2
  MaxWakes = 1
  Watchers = {w1, w2}
  Requests = {q1}
  MaxFaults = 1
INVARIANTS
  TypeOK
  Exclusive
  Accounted
PROPERTIES
  Delivered
CHECK_DEADLOCK FALSE
