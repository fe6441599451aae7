SPECIFICATION Spec
CONSTANTS
  m1 = m1
  p = p
  s = s
  Msgs = {m1, p, s}
  Photos = {}
  Prompts = {p}
  Queues = {p}
  Stops = {s}
  MaxInterruptDepth = 1
  MaxNesting = 1
  QueueDuringDrain = TRUE
  MayShutDown = TRUE
  NoMsg = NoMsg
  Sentinel = Sentinel
INVARIANTS
  TypeOK
  HeldExactlyOnce
  LocksHaveOwners
PROPERTIES
  AnsweredAtMostOnce
  ImplementsContract
  NoTurnAdmittedWhileDraining
  TasksEnd
  LockReleased
  StopCompletes
CHECK_DEADLOCK FALSE
