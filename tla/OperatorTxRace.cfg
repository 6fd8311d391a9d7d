CONSTANTS
  Callers = {c1, c2}
  Kinds = {"placeOrder", "deposit"}
  MaxSeq = 3
  NoCaller = NoCaller
SPECIFICATION QuietSpec
INVARIANTS
  ExecutesDoNotRaceSequence
