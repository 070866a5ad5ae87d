CONSTANTS
  IntentTerms <- SmallIntent
  Offers <- SmallOffers
  LegacyGrants <- SmallLegacy
  Asks <- SmallAsks
  ClauseSets <- SmallClauses
  ActionIds = {x1, x2}
  maxAuthorityDepth = 16
  MaxTime = 2
  MaxActs = 7
SPECIFICATION Spec
INVARIANTS NoAccountOverdrawn DebitsReachTheRoot SpendsWhatWasShown DelegationNeverWidens
PROPERTIES NothingStartsUnderDeadAuthority
CHECK_DEADLOCK FALSE
