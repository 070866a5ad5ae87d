CONSTANTS
  c0 = c0
  c1 = c1
  book1 = book1
  book2 = book2
  Configs = {c0, c1}
  Boot0 = c0
  Callers = {d1}
  Pollers = {}
  Acts = {a1, a2}
  LedgerOf <- Books
  None = None
  Retention = 1
  MaxFaults = 0
  MaxExpired = 1
  LiveView = FALSE
  MaxReloads = 2
  MaxLives = 2
SPECIFICATION ActsSpec
INVARIANT SparedFromTheFirstInstant
CHECK_DEADLOCK FALSE
