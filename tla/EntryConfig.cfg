SPECIFICATION Spec
CONSTANTS
  Endpoints = {e1, e2}
  Families = {"smart_ups", "smt_ups"}
INVARIANTS
  TypeOK
  OwnFamily
  OwnMode
