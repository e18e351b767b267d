SPECIFICATION RateSpec
CONSTANTS
  a = a
  b = b
  g = g
  Leases = {a, b}
  Global = g
  Limited = {a, g}
  Limits <- SomeLimits
  TokenScale = 3
  MaxTokens = 7
  MaxTime = 5
INVARIANTS
  WindowBound
  GlobalSpendsOnAllowed
PROPERTIES
  RefusalPostponesNothing
