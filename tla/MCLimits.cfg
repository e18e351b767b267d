SPECIFICATION Spec
CONSTANTS
  c1 = c1
  c2 = c2
  a4 = a4
  b4 = b4
  mapped = mapped
  NoIdentity = NoIdentity
  MaxLeaseId = 2
  MaxGeneration = 1
  MaxLeaseConnections = 1
  Conns = {c1, c2}
  Addresses = {a4}
  Identities = {a4}
  MaxConnections = 1
  AcceptDrainBatch = 1
  RateLimited = TRUE
  MaxCloses = 2
  MaxShutdowns = 0
  MaxAcceptErrors = 0
  DropsProxy = TRUE
  Canonical <- SpellingsOfA
  Peer <- AllFromA
SYMMETRY Symmetry
INVARIANTS
  TypeOK
  CertificateFinal
PROPERTIES
  QuietBeforeQuiesced
