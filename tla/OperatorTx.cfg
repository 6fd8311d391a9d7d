CONSTANTS
  Callers = {c1, c2}
  Kinds = {"placeOrder", "deposit", "selfRegister", "read"}
  MaxSeq = 2
  NoCaller = NoCaller
SPECIFICATION FairSpec
INVARIANTS
  TypeOK
  SeqMuDiscipline
  RefusalHasACause
PROPERTIES
  EveryCallReturns
  ShortTermAvoidsSeqMu
CHECK_DEADLOCK FALSE
