SPECIFICATION Spec
CONSTANTS
  m1 = m1
  m2 = m2
  m3 = m3
  Msgs = {m1, m2, m3}
  Photos = {m2, m3}
  Prompts = {}
  Queues = {}
  Stops = {}
  MaxInterruptDepth = 1
  MaxNesting = 2
  QueueDuringDrain = FALSE
  MayShutDown = FALSE
  NoMsg = NoMsg
  Sentinel = Sentinel
SYMMETRY SameKind
INVARIANTS
  HeldExactlyOnce
  LocksHaveOwners
PROPERTIES
  AnsweredAtMostOnce
  ImplementsContract
CHECK_DEADLOCK FALSE
