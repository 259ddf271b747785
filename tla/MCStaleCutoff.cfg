CONSTANTS
  m1 = m1
  m2 = m2
  Matches <- TwoMatches
  Lengths <- FirstAlone
  Upkeep = Upkeep
  Retry = Retry
  Crossing = {Upkeep}
  MaxSchedule = 1
SPECIFICATION Spec
INVARIANTS
  ShownLiveIsCandidate
