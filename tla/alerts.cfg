SPECIFICATION Spec
CONSTANTS
  w1 = w1
  api = api
  c1 = c1
  c2 = c2
  Workers = {w1}
  Servers = {api}
  Callers = {c1, c2}
  Direct = {"audit_stream_or_group_missing_recovered"}
  Health <- Outages
  Window = 2
  MaxTime = 2
  MaxFaults = 1
SYMMETRY CallerSymmetry
INVARIANTS NoStorm EveryReportIsCovered
