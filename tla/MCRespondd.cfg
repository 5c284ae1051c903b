SPECIFICATION FairSpec
CONSTANTS
  Kind = {"nodeinfo", "statistics"}
  Messages <- MCMessages
  Alias = FALSE
  Period = 2
  Burst = 2
  Caching = 1
  Shift = 2
  MaxShifts = 1
  MaxTroubles = 2
INVARIANTS TypeOK RateBounded Fresh HasNodeId
PROPERTY LimiterRecovers
