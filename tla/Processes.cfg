SPECIFICATION FairSpec
CONSTANTS
  p1 = p1
  p2 = p2
  Procs = {p1, p2}
  Sandboxed = {p2}
  Killable = {p2}
  MaxProcs = 1
  MaxUpsets = 1
INVARIANTS
  TypeOK
  AnnouncedOnce
  EndsAreMoved
PROPERTIES
  EndIsTold
CHECK_DEADLOCK FALSE
