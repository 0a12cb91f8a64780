SPECIFICATION Spec
CONSTANTS
  KeepAlives = {0, 1, 11, 12}
  MaxGap = 2
  MaxDelay = 1
  MaxQueue = 2
  MaxFailures = 1
  MinInterval = 1
  MaxInterval = 4
  StaleIntervals = {0, 3, 5}
  MaxTime = 40
INVARIANT
  EndedLinkDetected
