SPECIFICATION FairSpec
CONSTANTS
  t1 = t1
  t2 = t2
  t3 = t3
  NoThread = NoThread
  Threads = {t1}
  MaxDepth = 5
  NumHandlers = 1
  MinInterval = 1
  MaxInterval = 2
  StaleIntervals = {0}
  BlockOnThreadLock = TRUE
  Inbound = TRUE
  AppCalls = {"connect", "disconnect", "publish", "attempt_reconnect", "yield"}
  CallbackCalls = {"publish", "disconnect", "yield"}
  HandlerCalls = {"attempt_reconnect"}
INVARIANTS YieldNotInCallback
PROPERTIES CallsReturn
