CONSTANTS
  Tools = {"read"}
  CallNames = {"read", "ghost"}
  CallLists <- SmallLists
  Capable = TRUE
  maxNativeCallsPerTurn = 2
  maxIters = 2
  MaxMessages = 2
  Catalog <- SmallCatalog
  Order <- SmallOrder
  Sayings = {"yes", "no"}
  MaxRetries = 1
  Profiles = {"p", "q"}
  Handles = {"h1", "h2", "cli", "view"}
  ProfileOf <- TwoProfiles
  DoorOf <- TheDoors
  OldVersions = {11, 15}
  MaxWrites = 2
  MaxDamage = 1
  Commands = {"c1", "c2"}
  Limits = {"expiry", "budget"}
  FlagSets <- SmallFlags
  MaxToday = 2
  InboundBuffer = 1
  MaxDials = 3
  MaxEvents = 2
  MaxUps = 2
  Workers = {"w1", "w2"}
  Requests = {"r1"}
  InletBuffer = 1
  Chats = {"k1", "k2"}
  Texts <- SmallTexts
  ContentLimit = 3
  BreakWindow = 2
  MaxBuilds = 2
  EnvNames = {"KEY", "TOKEN", "ADMIN"}
  ShellConfigs <- SmallConfigs
  NoName = "no name"
  AdminName = "ADMIN"
  MaxReloads = 1
  MaxCycles = 2
INIT PartsInit
NEXT PartsNext
INVARIANTS EveryCallHasItsResult CancelledForAnAnswer
  WritesAreOwned RowMatchesMark LiftedOnce
  ActsTellTheTruth StoredGrantsAttenuate
  EachEventJudgedOnce FatalCloseIsFinal OnlyAbandonedSendsPanic
  ChunksAreTheText AnswersReachTheirChat
  ExportsAreOnTheBooks
CHECK_DEADLOCK FALSE
