SPECIFICATION Spec
CONSTANTS
  Literal <- MCLiteral
  MaxHostname = 5
  MaxLabel = 3
  Scenarios <- MCScenarios
  Destinations4 <- MCDestinations
  Internal4 <- MCInternal
  MaxCalls = 4
  MaxPermits = 8
  MaxTimeout = 15
INVARIANTS
  DenialCoversForms
  FloorUnlessGranted
  NeverItself
  WholeAnswer
  RulesAsWritten
  HostHeaderAgrees
