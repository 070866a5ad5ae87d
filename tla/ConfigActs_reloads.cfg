CONSTANTS
  c0 = c0
  c1 = c1
  book1 = book1
  book2 = book2
  Configs = {c0, c1}
  Boot0 = c0
  Callers = {d1, d2}
  Pollers = {p1}
  Acts = {a1, a2}
  LedgerOf <- Books
  None = None
  Retention = 1
  MaxFaults = 1
  MaxExpired = 1
  LiveView = TRUE
  MaxReloads = 3
  ActReloads = 1
  MaxLives = 2
SPECIFICATION ReloadsSpec
INVARIANTS DiskProven ServesWhatItReports SingleFlight HonestActs
PROPERTIES OutcomesAreFinal OwnActsAreSpared
SYMMETRY Alike
CHECK_DEADLOCK FALSE
