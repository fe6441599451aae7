SPECIFICATION Spec
CONSTANTS
  r1 = r1
  r2 = r2
  u1 = u1
  d1 = d1
  d2 = d2
  Requests = {r1, r2}
  Turns = {u1}
  Keys = {d1, d2}
  TirithKeys = {}
  Commands = {{d1}, {d2}}
  MaxRestarts = 0
  NoTurn = NoTurn
INVARIANTS
  RememberedPermanently
CHECK_DEADLOCK FALSE
