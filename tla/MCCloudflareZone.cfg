CONSTANTS
  Id = {1, 2, 3, 4, 5, 6, 7}
  Universe <- MCUniverse
  Lists <- MCLists
  Starts <- MCStarts
  Excluded = {"e"}
  PerPage = 2
  MaxOutside = 1
  MaxEdits = 1
SPECIFICATION FairSpec
INVARIANTS TypeOK NoSelfConflict DoneMeansDesired
PROPERTIES KeepsResolving OnlyTowardsGoal Converges
