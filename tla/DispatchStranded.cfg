SPECIFICATION Spec
CONSTANTS
  m1 = m1
  m2 = m2
  Msgs = {m1, m2}
  Photos = {}
  Prompts = {}
  Queues = {}
  Stops = {}
  MaxInterruptDepth = 1
  MaxNesting = 1
  QueueDuringDrain = FALSE
  MayShutDown = FALSE
  NoMsg = NoMsg
  Sentinel = Sentinel
SYMMETRY SameKind
INVARIANTS
  QueuedIsHandled
CHECK_DEADLOCK FALSE
