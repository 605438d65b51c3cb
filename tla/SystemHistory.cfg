SPECIFICATION Spec
CONSTANTS
  col = col  l1 = l1
  Missing = Missing
  Collector = col
  Live = {l1}
  MaxTime = 3
  MaxRounds = 4
  MaxFaults = 1
  DefaultLimit = 2
  MaxPoints = 3
  Retention = 2
  MinWindow = 1
  MaxWindow = 3
  DefaultStep = 1
  MaxStep = 3
  LongWindow = 2
  LongStep = 2
  Limits <- MCLimits
  Windows <- MCWindows
  Steps <- MCSteps
INVARIANT ToldTwiceForCause
PROPERTIES LostInGaps HistoryRight
CHECK_DEADLOCK FALSE
