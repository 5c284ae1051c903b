CONSTANTS
  Client = {c1, c2}
  Lives <- MCMigrating
  Ttl = 2
  Grace = 3
  Timeout = 1
  SweepEvery = 2
  MaxTime = 4
SPECIFICATION Spec
SYMMETRY MCSymmetry
INVARIANT SignatureRetired
CHECK_DEADLOCK FALSE
