SPECIFICATION Spec
CONSTANTS
  t1 = t1
  t2 = t2
  k1 = k1
  k2 = k2
  j1 = j1
  None = None
  Secret = Secret
  Threads = {t1, t2}
  KeyIds = {k1, k2}
  Tokens <- FewTokens
  TTL = 1
  Timeout = 1
  MaxTime = 3
  MaxFaults = 1
SYMMETRY ThreadSymmetry
INVARIANTS RevokedIsRefused RefusedForAReason
PROPERTY RetiredKeysAge
