SPECIFICATION Spec
CONSTANTS
  org1 = org1
  org2 = org2
  login = login
  export = export
  None = None
  Invalid = Invalid
  Catalog <- FiveRows
  Payloads <- SomeClaims
  Orgs = {org1, org2}
  Filters <- SomeFilters
  PageSizes = {1, 2}
  MaxCutoff = 3
INVARIANT NoCurrentRowIsMissed
PROPERTY TenantIsolation
