SPECIFICATION FairSpec
CONSTANTS
  c1 = c1
  c2 = c2
  a4 = a4
  mapped = mapped
  b4 = b4
  bad = bad
  Conns = {c1, c2}
  Addresses = {a4, mapped, b4, bad}
  LiteralOk = {b4}
  AnswerOk = {a4, mapped, b4}
  MaxResolved = 3
  MaxDns = 1
  MaxDials = 1
  HandshakeTimeouts = {2, 3}
  HeaderTimeout = 2
  DnsTimeout = 2
  MaxInstant = 3
  LastAccept = 1
  MaxTime = 3
  Canonical <- Mapping
  Answers <- SomeAnswers
INVARIANTS
  PermitsFollowStages
  HandshakeBounded
PROPERTIES
  EveryAddressGetsItsShare
  HandshakeEnds
CHECK_DEADLOCK FALSE
