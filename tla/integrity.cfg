SPECIFICATION Spec
CHECK_DEADLOCK FALSE
SYMMETRY KeySymmetry
CONSTANTS
  kid1 = kid1
  kid2 = kid2
  Naive = Naive
  None = None
  KeyIds = {kid1, kid2}
  Keys = {"e1"}
  Timestamps <- EveryForm
  Words = {"required", "text", "json", "None", "{}", "a", "b", "c"}
  Contents <- EveryValue
  MaxRuns = 1
  MaxAlterations = 1
  MaxFaults = 1
INVARIANTS NoFalseAlarm AlteredRowsShow PassMeansIntact
