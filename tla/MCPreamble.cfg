SPECIFICATION PreambleSpec
CONSTANTS
  HelloPrefix = 1
  MaxText = 8
  Inputs <- MCInputs
  MaxHeader = 7
  MaxHello = 36
  Chunk = 6
INVARIANTS
  OneBoundary
  ForwardedInOrder
  
CHECK_DEADLOCK FALSE
