CONSTANTS
  Configs = {c0, c1}
  Boot0 = c0
  Callers = {k1, k2}
  LiveView = TRUE
  MaxReloads = 2
  MaxLives = 1
SPECIFICATION LiveSpec
PROPERTY FailedStartReturns
CHECK_DEADLOCK FALSE
