SPECIFICATION StoreSpec
CONSTANTS
  Wrap = 5
  HighWatermark = 4
  LowWatermark = 0
  MaxAdvance = 1
  Serials = {s1}
  None = None
  InitialRollovers = 0
  MaxStep = 1
  MaxDelivered = 6
  MaxOffset = 0
INVARIANTS
  StoreTypeOK
  NeverCountedTwice
PROPERTIES
  ContinuousWhileIntact
