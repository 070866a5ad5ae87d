CONSTANTS
  Inputs <- SmallInputs
  ConsoleInputs <- SmallConsole
  Convs = {"c"}
  Brains = {"b1"}
  DefaultBrain = "b1"
  QueueCapacity = 1
  OutboundQueueCapacity = 1
  DedupCapacity = 1
  DedupTTL = 0
  IdleMin = 1
  RecallScanSessions = 1
  ConsoleDoors = {"takeover", "reply", "sessions", "delete"}
  MaxArrivals = 3
  MaxCuts = 2
  TickSize = 2
  MaxClock = 2
SPECIFICATION RouterSpec
INVARIANTS RepeatMeansTaken
PROPERTIES RepeatsAreDropped
CHECK_DEADLOCK FALSE
