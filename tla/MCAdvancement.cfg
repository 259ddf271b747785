CONSTANTS
  a = a
  b = b
  c = c
  d = d
  h = h
  g1 = g1
  g2 = g2
  sf = sf
  final = final
  third = third
  None = None
  Matches = {g1, g2, sf, final, third}
  Pool = {g1, g2}
  Entries = {a, b, c, d, h}
  Leaving = {a}
  Source <- Format
  Order <- Ids
  Outcomes = {"home", "away", "draw"}
  MaxVersion = 4
SPECIFICATION Spec
INVARIANTS
  TypeOK
  SlotsAligned
  DivergenceIsRecorded
CHECK_DEADLOCK FALSE
