SPECIFICATION Spec
CONSTANTS
  Tabs = {a}
  Frail = {a}
  None = None
  WebLocks = TRUE
  Exports = TRUE
  ScoresOnline = TRUE
  MaxTaps = 2
  MaxForeign = 1
  MaxAttempts = 2
INVARIANTS TypeOK CompletedIsDrained AcksTrue
PROPERTIES DeliveredInOrder ClearedIsAccounted
CHECK_DEADLOCK FALSE
