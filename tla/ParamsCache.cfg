CONSTANTS
  Requests = {q1, q2, q3}
  MaxVersion = 1
  TTL = 2
  QueryTimeout = 2
  MaxTime = 5
  NoRequest = NoRequest
SPECIFICATION FairSpec
INVARIANTS
  TypeOK
  ParamsAreRecent
PROPERTIES
  FillsAreSpaced
  NeverRegresses
  EveryCallReturns
  ImplementsBoundedStaleness
CHECK_DEADLOCK FALSE
