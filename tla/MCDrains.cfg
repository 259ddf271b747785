SPECIFICATION FairSpec
CONSTANTS
  Tabs = {a, b}
  Frail = {a}
  None = None
  WebLocks = TRUE
  Exports = FALSE
  ScoresOnline = FALSE
  MaxTaps = 1
  MaxForeign = 0
  MaxAttempts = 1
PROPERTY QueueDrains
CHECK_DEADLOCK FALSE
