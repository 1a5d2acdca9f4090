SPECIFICATION HealthLiveSpec
CONSTANTS
  w1 = w1
  e1 = e1
  e2 = e2
  Omitted = Omitted
  None = None
  EventId = {e1, e2}
  Workers = {w1}
  Payloads <- GoodAndPoison
  MaxMessages = 2
  MaxLen = 1
  MaxDeliveries = 1
  SweepBatch = 1
  ReadCount = 2
  AutoRecreate = TRUE
  KeyConfigured = TRUE
  OperatorDeletes = TRUE
  MaxFaults = 1
INVARIANT AllClearIsHonest
PROPERTY EverythingComesToRest
