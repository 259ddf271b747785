SPECIFICATION FairSpec
CONSTANTS
  Emails = {e1, e2}
  Workers = {w1, w2}
  None = None
  MaxAttempts = 2
  MaxFaults = 1
INVARIANTS TypeOK AttemptsBounded ResentOnlyAfterFault CleanStop
PROPERTIES AcceptedNeverFailed EveryEmailSettles
