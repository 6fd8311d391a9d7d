CONSTANTS
  Configs <- MCConfigs
SPECIFICATION FairSpec
INVARIANTS
  ExitStatusIsTrue
  NoServingAfterClose
  ConnectionClosedAtExit
  ConfiguredIsServed
PROPERTIES
  SignalStopsAgent
  FailureStopsAgent
