SPECIFICATION Spec
CONSTANTS
  r1 = r1
  r2 = r2
  u1 = u1
  u2 = u2
  t = t
  d1 = d1
  d2 = d2
  Requests = {r1, r2}
  Turns = {u1, u2}
  Keys = {t, d1, d2}
  TirithKeys = {t}
  Commands = {{d1}, {t, d2}}
  MaxRestarts = 1
  NoTurn = NoTurn
INVARIANTS
  TypeOK
  LineMatchesWaiters
PROPERTIES
  ImplementsContract
  RequestsSettle
CHECK_DEADLOCK FALSE
