CONSTANTS
  Client = {c1}
  Lives <- MCLives
  Ttl = 2
  Grace = 3
  Timeout = 1
  SweepEvery = 2
  MaxTime = 6
SPECIFICATION Spec
INVARIANTS TypeOK NoFallback DeletedCloses
PROPERTY ReplacedRefused
CHECK_DEADLOCK FALSE
