CONSTANTS
  Calls = {c1}
  Tenants = {"ta", "tb"}
  Owners = {"a", "b"}
  OwnerOf <- MCOwnerOf
  Tools <- MCTools
  Faults <- MCFaults
  MaxSeq = 1
  MaxPayloads = 2
SPECIFICATION Spec
INVARIANTS
  OwnTransactionsOnly
  PayloadFitsItsChain
  WithdrawnTenantGetsNothing
