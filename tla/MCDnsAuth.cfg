CONSTANTS
  Served = {"fwd", "r1"}
  ReverseZones <- MCReverseZones
  Ttl = 60
  PtrName <- MCPtrName
  Public = {"x", "y"}
  FqdnRank <- MCFqdnRank
  Plans <- MCPlans
  Zones <- MCZones
  Host = {"h"}
  Address = {"y"}
  MaxCommands = 1
  MaxEdits = 1
  MaxFaults = 2
SPECIFICATION FairSpec
INVARIANTS TypeOK GreenMeansServed QuietWhenSettled PtrIsBest
PROPERTIES KeepsAnswering Converges
