SPECIFICATION Spec
CONSTANTS
  c1 = c1
  c2 = c2
  a4 = a4
  b4 = b4
  mapped = mapped
  NoIdentity = NoIdentity
  MaxLeaseId = 3
  MaxGeneration = 2
  MaxLeaseConnections = 1
  Conns = {c1, c2}
  Addresses = {a4}
  Identities = {a4}
  MaxConnections = 1
  AcceptDrainBatch = 1
  RateLimited = FALSE
  MaxCloses = 1
  MaxShutdowns = 0
  MaxAcceptErrors = 0
  DropsProxy = FALSE
  Canonical <- SpellingsOfA
  Peer <- AllFromA
SYMMETRY Symmetry
INVARIANTS
  CertifiedQuiescent
  PermitsConserved
  ExclusiveIdentity
  
