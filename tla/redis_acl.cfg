SPECIFICATION Spec
CONSTANTS
  c1 = c1
  n2 = n2
  n1 = n1
  u1 = u1
  u2 = u2
  Callers = {c1}
  Endpoints = {"production", "forwarded", "scratch"}
  ProductionPort = {"production"}
  Instances = {"prod", "test"}
  Disposable = {"test"}
  Reaches <- Target
  Nonces = {n1, n2}
  Identities = {u1, u2}
  Default = Default
  None = None
  MaxDrops = 2
SYMMETRY NonceAndIdentitySymmetry
INVARIANTS WideGatesAreEarned RunsAsExpected
