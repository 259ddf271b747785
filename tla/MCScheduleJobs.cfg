SPECIFICATION Spec
CONSTANTS
  Jobs = {j1, j2}
  Workers = {w1, w2}
  None = None
  Attempts = 2
  MaxCalls = 0
  MaxQuality = 1
  MaxFaults = 1
INVARIANTS TypeOK ContinuationKeepsBest
PROPERTY CancelledKeepsResult
SYMMETRY Symmetry
CHECK_DEADLOCK FALSE
