SPECIFICATION Spec
CONSTANTS
  RecreateAfter = 2
  Registers <- MCRegisters
  Blocks <- MCBlocks
  AbortAfter = 2
  MaxFaults = 2
  MaxShort = 1
  None = None
INVARIANTS
  TypeOK
  MissingReported
  ConnectionLeft
  DeviceServed
PROPERTIES
  PollAsPromised
  PollEnds
