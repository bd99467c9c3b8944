SPECIFICATION Spec
CONSTANTS
  Probes = {t1}
  Hour = 2
  Minute = 1
INVARIANTS
  TypeOK
  RetryRemembered
  ProbeEntities
PROPERTIES
  RoutineReadsStop
  EnrichmentReturns
  StaleSelfTestNotShown
