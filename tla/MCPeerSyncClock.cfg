CONSTANTS
  s1 = s1
  s2 = s2
  Signer = {s1, s2}
  Room = {r1}
  Change = {c1}
  PageSize = 1
  Overlap = 2
  Timeout = 1
  Ahead = 0
  Behind = 3
  Skews <- MCSkews
  Pulls <- MCOneWay
  Writers = {s2}
  MaxCrashes = 0
  MaxTime = 5
SPECIFICATION FairSpec
PROPERTY CaughtUp
