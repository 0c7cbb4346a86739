SPECIFICATION PacketsSpec
CONSTANTS
  Bodies <- ShortBodies
  Malformed = {3}
  HeaderSize = 2
  Chunk = 2
  Group = 4
  Width = 512
  MaxBytes = 5
  Power <- Powers
  Lengths <- EdgeLengths
  Numbers <- EdgeNumbers
  Chunks <- SmallChunks
  LightBytes = 2
  BiomeBytes = 3
  InLengths <- ShortLengths
  InNumbers <- EdgeNumbers
  Slack <- AroundTheEnd
INVARIANTS
  PacketsTypeOK
  NothingLost
  BufferFits
  RoundTrip
  CutRefused
  FrameExact
  ConsumesFrame
PROPERTY
  PacketsArrive
CHECK_DEADLOCK FALSE
