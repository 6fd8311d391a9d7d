CONSTANTS
  Requests = {q1, q2}
  Roots = {r1}
  MaxEpoch = 1
  TTL = 2
  QueryTimeout = 1
  MaxTime = 3
SPECIFICATION Spec
SYMMETRY Symmetry
INVARIANTS
  TTLIsTheBound
