CONSTANTS
  k1 = k1
  k2 = k2
  o1 = o1
  o2 = o2
  None = None
  Malformed = Malformed
  Calls = {c1, c2}
  Contexts = {x1, x2}
  Bearers = {b1, b2}
  Chains = {k1, k2}
  Verifiable = {k1}
  Owners = {o1, o2}
  Principal <- MCPrincipal
  Granted <- MCGranted
  Requests <- MCRequests
  Crowd <- MCCrowd
SPECIFICATION Spec
SYMMETRY Symmetry
INVARIANTS
  CredentialReachesTheTool
  ReadsStayInsideTheGrant
  BearerKeepsItsTenant
  ConversationsAreSeparate
