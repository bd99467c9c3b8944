SPECIFICATION Spec
CONSTANTS
  RecreateAfter = 3
  MaxFaults = 3
INVARIANTS
  TypeOK
  NeverTheWrongFamily
  FamilyFound
PROPERTIES
  SessionKept
