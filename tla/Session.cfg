SPECIFICATION FairSpec
CONSTANTS
  Names = {alice, bob}
  NoName = NoName
  KeepAliveAfter = 2
  KeepAliveLimit = 5
  ConnectLimit = 2
  Patience = 2
  WritesReported = TRUE
  MaxTeleportId = 2
INVARIANT
  TypeOK
  Owning
  EchoedOnce
  PunctualKept
PROPERTY
  ImplementsProtocol
  UnfinishedDropped
  SilentDropped
CHECK_DEADLOCK FALSE
