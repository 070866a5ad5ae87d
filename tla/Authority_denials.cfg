CONSTANTS
  IntentTerms <- SmallIntent
  Offers <- DenyingOffers
  LegacyGrants <- SmallLegacy
  Asks <- SmallAsks
  ClauseSets <- SmallClauses
  ActionIds = {x1}
  maxAuthorityDepth = 16
  MaxTime = 1
  MaxActs = 4
SPECIFICATION Spec
INVARIANTS DeniedTagsAreInherited
CHECK_DEADLOCK FALSE
