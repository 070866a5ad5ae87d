CONSTANTS
  c0 = c0
  c1 = c1
  book1 = book1
  book2 = book2
  Configs = {c0, c1}
  Boot0 = c0
  Callers = {d1}
  Pollers = {}
  Acts = {a1, a2}
  LedgerOf <- Books
  None = None
  Retention = 1
  MaxFaults = 0
  MaxExpired = 1
  LiveView = FALSE
  MaxReloads = 2
  MaxLives = 1
  Inputs <- SmallInputs
  ConsoleInputs <- SmallConsole
  Convs = {"c"}
  Brains = {"b1"}
  DefaultBrain = "b1"
  QueueCapacity = 1
  OutboundQueueCapacity = 1
  DedupCapacity = 1
  DedupTTL = 0
  IdleMin = 1
  RecallScanSessions = 1
  ConsoleDoors = {"reply"}
  MaxArrivals = 2
  MaxCuts = 2
  TickSize = 2
  MaxClock = 0
  ConvKeys = {"k1"}
  TurnGroups <- SmallGroups
  NoteScopes <- SmallScopes
  NoteLimit = 1
  MaxSessions = 3
  MaxTurns = 4
  MaxWall = 2
SPECIFICATION RuntimeSpec
INVARIANTS ReadsAgree
PROPERTIES SqliteImplementsMem ShutdownEnds ActsAreClosed
CHECK_DEADLOCK FALSE
