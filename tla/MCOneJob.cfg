SPECIFICATION FairSpec
CONSTANTS
  Jobs = {j1}
  Workers = {w1, w2}
  None = None
  Attempts = 2
  MaxCalls = 1
  MaxQuality = 2
  MaxFaults = 1
INVARIANTS CompletedMeansEnded OutcomeMatchesResult
PROPERTIES CancellationStands EndsOrGivenUp
CHECK_DEADLOCK FALSE
