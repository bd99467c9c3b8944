SPECIFICATION FairSpec
CONSTANTS
  Scan = 20
  Base = 4
  Factor = 2
  BackoffMax = 120
  Cooldown = 20
  PollLimit = 6
  None = None
INVARIANTS
  TypeOK
  PolledInTime
PROPERTIES
  MessagesFollowAvailability
  Recovers
