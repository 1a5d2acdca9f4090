SPECIFICATION LiveSpec
CONSTANTS
  w1 = w1
  w2 = w2
  e1 = e1
  e2 = e2
  Omitted = Omitted
  EventId = {e1, e2}
  Workers = {w1, w2}
  Payloads <- OnlyGood
  MaxMessages = 2
  MaxLen = 2
  MaxDeliveries = 2
  SweepBatch = 2
  ReadCount = 2
  AutoRecreate = TRUE
  KeyConfigured = TRUE
  OperatorDeletes = TRUE
  MaxFaults = 2
INVARIANTS AckedIsDurable NothingLost
PROPERTIES GroupStateSurvives EverythingComesToRest
