SPECIFICATION Spec
CONSTANTS
  Tabs = {a, b}
  Frail = {}
  None = None
  WebLocks = FALSE
  Exports = FALSE
  ScoresOnline = FALSE
  MaxTaps = 2
  MaxForeign = 0
  MaxAttempts = 1
INVARIANT QueueIntegral
PROPERTY ConflictsArePending
SYMMETRY Symmetry
CHECK_DEADLOCK FALSE
