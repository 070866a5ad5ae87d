CONSTANTS
  w1 = w1
  w2 = w2
  c1 = c1
  c2 = c2
  Actions = {a1, a2}
  Server = server
  ServerWorkers = {w1}
  CLIs = {c1, c2}
  Keys = {k1, k2}
  Laws = {l1, l2}
  Classes = {"critical"}
  Ceiling = "critical"
  Doors <- ApprovalDoors
  CapRows = 1
  MaxFaults = 1
  FirstKey = k1
  FirstLaw = l1
  None = None
SPECIFICATION Spec
INVARIANTS AtMostOnce SingleExecutor HumanBeforeEffect ServerCanSeal ClaimedUnderItsLaw
SYMMETRY Sym
CHECK_DEADLOCK FALSE
