\* Three threads; three calls among them, or four of AtomicVar.
SPECIFICATION MCSpec
CONSTANTS
  Threads = {t1, t2, t3}
  QueueThreads = {t1, t2, t3}
  Values = {v1, v2}
  None = None
  Initial = v1
  MaxCalls <- MCMaxCalls
  MaxQueueCalls = 3
  MaxExtend = 2
INVARIANT
  DrainsInPushOrder
PROPERTIES
  ImplementsRegister
  CallsReturn
CHECK_DEADLOCK FALSE
