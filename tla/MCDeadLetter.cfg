SPECIFICATION Spec
CONSTANTS
  Jobs = {j1}
  Workers = {w1, w2}
  None = None
  Attempts = 2
  MaxCalls = 1
  MaxQuality = 2
  MaxFaults = 0
CHECK_DEADLOCK FALSE
PROPERTY DeadLetterKept
