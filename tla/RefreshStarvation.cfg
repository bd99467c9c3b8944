SPECIFICATION UnattendedSpec
CONSTANTS
  Scan = 2
  Base = 4
  Factor = 2
  BackoffMax = 120
  Cooldown = 20
  PollLimit = 6
  None = None
PROPERTY
  RetriesAutomatically
