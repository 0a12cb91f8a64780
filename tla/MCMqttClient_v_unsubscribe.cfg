SPECIFICATION Spec
CONSTANTS
  t1 = t1
  t2 = t2
  t3 = t3
  NoThread = NoThread
  Threads = {t1, t2, t3}
  MaxDepth = 1
  NumHandlers = 1
  MinInterval = 1
  MaxInterval = 2
  StaleIntervals = {0, 3}
  BlockOnThreadLock = TRUE
  Inbound = FALSE
  AppCalls = {"connect", "publish", "unsubscribe"}
  CallbackCalls = {}
  HandlerCalls = {}
INVARIANTS RequestExclusion
