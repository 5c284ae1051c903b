CONSTANTS
  Served = {"fwd", "r1"}
  ReverseZones <- MCReverseZones
  Ttl = 60
  PtrName <- MCPtrName
  Public = {"x", "y"}
  FqdnRank <- MCFqdnRank
  Plans <- MCPlans
  Zones <- MCEmptyZones
  Host = {"h"}
  Address = {"y"}
  MaxCommands = 1
  MaxEdits = 0
  MaxFaults = 0
SPECIFICATION Spec
INVARIANT ReplacedOnChange
