SPECIFICATION Spec
CONSTANTS
  w1 = w1
  w2 = w2
  e1 = e1
  e2 = e2
  Omitted = Omitted
  EventId = {e1, e2}
  Workers = {w1, w2}
  Payloads <- MixedKinds
  MaxMessages = 2
  MaxLen = 1
  MaxDeliveries = 2
  SweepBatch = 2
  ReadCount = 2
  AutoRecreate = FALSE
  KeyConfigured = TRUE
  OperatorDeletes = FALSE
  MaxFaults = 2
SYMMETRY WorkerSymmetry
INVARIANTS TypeOK AckedIsDurable NothingLost DeliveryBound RowsAreUnique DuplicatesAreBounded QuarantineKeepsEvidence
PROPERTIES GroupStateSurvives FirstRowStands ImplementsContract
