SPECIFICATION Spec
CONSTANTS
  Tabs = {a}
  Frail = {}
  None = None
  WebLocks = TRUE
  Exports = TRUE
  ScoresOnline = FALSE
  MaxTaps = 1
  MaxForeign = 0
  MaxAttempts = 1
INVARIANT RecordedIsKept
CHECK_DEADLOCK FALSE
