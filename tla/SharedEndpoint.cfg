SPECIFICATION Spec
CONSTANTS
  Entries = {a, b}
INVARIANTS
  TypeOK
  RetainedByPolicy
PROPERTIES
  LockServed
