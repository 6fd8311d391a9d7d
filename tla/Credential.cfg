CONSTANTS
  user = user
  broker = broker
  agent = agent
  Requests = {q1}
  Parties = {user, broker, agent}
  Issuers = {user, broker}
  Agent = agent
  Actions = {"clob.place_order", "query.account"}
  Subs = {0, 1}
  NoSub = NoSub
  Chains <- MCChains
  Purposes <- MCPurposes
  MaxDepth = 2
  MaxChanges = 3
SPECIFICATION Spec
INVARIANTS
  TypeOK
  HopsSignedByTheirIssuers
  AuthorityIsHandedOn
