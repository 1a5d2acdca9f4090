SPECIFICATION LiveSpec
CONSTANTS
  w1 = w1
  w2 = w2
  e1 = e1
  e2 = e2
  Omitted = Omitted
  EventId = {e1, e2}
  Workers = {w1}
  Payloads <- GoodAndOversized
  MaxMessages = 2
  MaxLen = 2
  MaxDeliveries = 2
  SweepBatch = 1
  ReadCount = 2
  AutoRecreate = FALSE
  KeyConfigured = TRUE
  OperatorDeletes = FALSE
  MaxFaults = 1
PROPERTIES PendingIsRetried
