CONSTANTS
  Sessions = {s1, s2}
  Devices = {d1, d2}
  Passes = {p1}
  Viewers = {}
  None = None
  PassTTL = 4
  SessionTTL = 3
  LeaseTTL = 2
  BeatTTL = 1
  RequestTTL = 1
  RecordTTL = 2
  GraceTTL = 1
SPECIFICATION Spec
SYMMETRY Interchangeable
INVARIANTS
  TypeOK
  LeaseHolderAuthoritative
  ReservationHonoured
  OneActiveAuthorization
  TransferLeavesConflict
  LeaseIsNewest
  AuthorityWithinPass
PROPERTIES
  HandoverNeedsApproval
  EventsFenced
  OneFencedWriter
