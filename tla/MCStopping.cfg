SPECIFICATION Spec
CONSTANTS
  c1 = c1
  c2 = c2
  a4 = a4
  b4 = b4
  mapped = mapped
  NoIdentity = NoIdentity
  MaxLeaseId = 3
  MaxGeneration = 2
  MaxLeaseConnections = 1
  Conns = {c1}
  Addresses = {a4, mapped, b4}
  Identities = {a4, b4}
  MaxConnections = 1
  AcceptDrainBatch = 1
  RateLimited = FALSE
  MaxCloses = 0
  MaxShutdowns = 2
  MaxAcceptErrors = 0
  DropsProxy = TRUE
  Canonical <- SpellingsOfA
  Peer <- OneFromEach
INVARIANTS
  ShutdownCertifies
  ExitIsObserved
PROPERTIES
  StoppingIsFinal
