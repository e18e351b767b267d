SPECIFICATION FairSpec
CONSTANTS
  c1 = c1
  c2 = c2
  a4 = a4
  b4 = b4
  mapped = mapped
  NoIdentity = NoIdentity
  MaxLeaseId = 2
  MaxGeneration = 2
  MaxLeaseConnections = 1
  Conns = {c1}
  Addresses = {a4}
  Identities = {a4}
  MaxConnections = 1
  AcceptDrainBatch = 1
  RateLimited = FALSE
  MaxCloses = 1
  MaxShutdowns = 1
  MaxAcceptErrors = 1
  DropsProxy = TRUE
  Canonical <- SpellingsOfA
  Peer <- AllFromA
PROPERTIES
  AttachAnswered
  QueuedIsTaken
  DropStopsRuntime
  DroppedIsReleased
  KeepsContract
