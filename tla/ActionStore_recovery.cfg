CONSTANTS
  w1 = w1
  w2 = w2
  c1 = c1
  c2 = c2
  Actions = {a1, a2}
  Server = server
  ServerWorkers = {w1}
  CLIs = {c1}
  Keys = {k1}
  Laws = {l1}
  Classes = {"pure", "critical"}
  Ceiling = "critical"
  Doors <- AllDoors
  CapRows = 1
  MaxFaults = 2
  FirstKey = k1
  FirstLaw = l1
  None = None
SPECIFICATION LiveSpec
INVARIANTS TypeOK HonestVerdicts LedgerMatchesRows
PROPERTIES ImplementsLifecycle BootClosesOrphans
CHECK_DEADLOCK FALSE
