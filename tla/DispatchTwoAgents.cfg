SPECIFICATION Spec
CONSTANTS
  m1 = m1
  m2 = m2
  p = p
  Msgs = {m1, m2, p}
  Photos = {}
  Prompts = {p}
  Queues = {}
  Stops = {}
  MaxInterruptDepth = 1
  MaxNesting = 1
  QueueDuringDrain = FALSE
  MayShutDown = FALSE
  NoMsg = NoMsg
  Sentinel = Sentinel
SYMMETRY SameKind
INVARIANTS
  OneAgentPerSession
CHECK_DEADLOCK FALSE
