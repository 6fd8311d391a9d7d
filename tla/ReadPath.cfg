CONSTANTS
  a = a
  b = b
  r1 = r1
  Requests = {h1, h2}
  Creds = {a, b}
  Expires <- MCExpires
  RootOf <- MCRootOf
  Roots = {r1}
  MaxEpoch = 1
  TTL = 1
  QueryTimeout = 1
  maxReadTenants = 1
  MaxTime = 2
SPECIFICATION PathSpec
SYMMETRY Symmetry
INVARIANTS
  TableBounded
  UnknownHasACause
  ServedReadIsAuthorised
PROPERTIES
  LiveTenantStays
