CONSTANTS
  m1 = m1
  m2 = m2
  Matches <- TwoMatches
  Lengths <- CorrectedOrBoth
  Upkeep = Upkeep
  Retry = Retry
  Crossing = {}
  MaxSchedule = 1
SPECIFICATION FairSpec
INVARIANTS
  TypeOK
  LiveScoreCurrent
  ResultVersionsDistinct
  PublicResultCurrent
PROPERTIES
  ResultChangesWithVersion
  AbandonedMatchLeavesPage
