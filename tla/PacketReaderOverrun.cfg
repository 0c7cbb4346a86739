\* A connection that is not encrypted counts every byte it reads 256 times.
SPECIFICATION Spec
CONSTANTS
  Bodies <- ShortBodies
  Malformed = {}
  HeaderSize = 1
  Chunk = 4
INVARIANT
  NeverOverruns
CHECK_DEADLOCK FALSE
