SPECIFICATION Spec
CONSTANTS
  Wrap = 8
  HighWatermark = 6
  LowWatermark = 1
  MaxAdvance = 2
  Serials = {s1, s2}
  None = None
  InitialRollovers = 1
  MaxStep = 2
  MaxDelivered = 28
  MaxOffset = 20
INVARIANTS
  TypeOK
  OvercountBounded
  ExactWithoutResets
  GenuineResetConfirmed
PROPERTIES
  TotalNeverRegresses
  ContinuousMeter
SYMMETRY
  SerialSymmetry
