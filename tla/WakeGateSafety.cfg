SPECIFICATION Spec
CONSTANTS
  s1 = s1
  s2 = s2
  r1 = r1
  r2 = r2
  r3 = r3
  e1 = e1
  e2 = e2
  Sessions = {s1, s2}
  Runs = {r1, r2, r3}
  Events = {e1, e2}
  Lease = 1
  Window = 1
  MaxSeen = 1
  MaxTime = 2
  NoRun = NoRun
SYMMETRY Symmetric
INVARIANTS
  TypeOK
  SingleFlight
  HoldersAreInside
  SeenBounded
  NoDuplicateGrant
  CountersAddUp
PROPERTIES
  OnlyOwnerReleases
CHECK_DEADLOCK FALSE
