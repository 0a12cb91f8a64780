SPECIFICATION Spec
CONSTANTS
  t1 = t1
  t2 = t2
  t3 = t3
  NoThread = NoThread
  Threads = {t1}
  MaxDepth = 6
  NumHandlers = 1
  MinInterval = 1
  MaxInterval = 2
  StaleIntervals = {0, 3}
  BlockOnThreadLock = TRUE
  Inbound = TRUE
  AppCalls = {"connect", "disconnect", "attempt_reconnect", "publish", "unsubscribe", "yield", "autoreconnect_set_status"}
  CallbackCalls = {"connect", "disconnect", "attempt_reconnect", "publish", "yield"}
  HandlerCalls = {}
INVARIANTS TypeOK NoGhost SingleThreadInv ConnectionAgrees
