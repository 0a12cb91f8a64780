SPECIFICATION Spec
CONSTANTS
  t1 = t1
  t2 = t2
  t3 = t3
  NoThread = NoThread
  Threads = {t1, t2, t3}
  MaxDepth = 1
  NumHandlers = 1
  MinInterval = 1
  MaxInterval = 2
  StaleIntervals = {0}
  BlockOnThreadLock = FALSE
  Inbound = FALSE
  AppCalls = {"connect", "publish", "subscribe"}
  CallbackCalls = {}
  HandlerCalls = {}
SYMMETRY ThreadSymmetry
INVARIANTS RequestExclusion ExclusionInv
