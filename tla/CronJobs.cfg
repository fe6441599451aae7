SPECIFICATION FairSpec
CONSTANTS
  j1 = j1
  j2 = j2
  g1 = g1
  g2 = g2
  e1 = e1
  s1 = s1
  None = None
  Jobs = {j1, j2}
  Created = {j1}
  Once = {j2}
  Limited = {j1}
  Scripts = {j1}
  RepeatTimes = 2
  Gateways = {g1, g2}
  Slots = {s1}
  Editors = {e1}
  MaxClock = 1
  MaxFaults = 1
INVARIANTS
  TypeOK
  
  NeverOvercounted
PROPERTIES
  DueIsRun
CHECK_DEADLOCK FALSE
