SPECIFICATION Spec
CONSTANTS
  g1 = g1
  g2 = g2
  g3 = g3
  Gateways = {g1, g2, g3}
  Replacers = {g3}
  Unrecognized = {g2}
  Missing = Missing
  Blank = Blank
  MaxFaults = 1
INVARIANTS
  TypeOK
  TokenExclusive
  OneInstance
PROPERTIES
  Recovers
CHECK_DEADLOCK FALSE
