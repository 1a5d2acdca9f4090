SPECIFICATION Spec
CONSTANTS
  r1 = r1
  r2 = r2
  k1 = k1
  Runs = {r1, r2}
  Keys = {k1}
  RetentionDays = 1
  Configs = {"unset", "invalid", "noUrl", "ok"}
  Identities = {"audit_writer", "audit_maintenance", "root"}
  StatusDir = TRUE
  MaxTime = 2
  MaxFaults = 1
SYMMETRY RunSymmetry
VIEW LiveState
INVARIANTS TypeOK SuccessIsTheWholeTruth NoStandstill
PROPERTIES HeldRowsSurvive RunsRemoveOnlyExpired
