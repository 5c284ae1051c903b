CONSTANTS
  s1 = s1
  s2 = s2
  Signer = {s1, s2}
  Room = {r1, r2}
  Change = {c1, c2}
  PageSize = 1
  Overlap = 2
  Timeout = 1
  Ahead = 3
  Behind = 2
  Skews <- MCSkews
  Pulls <- MCOneWay
  Writers = {s2}
  MaxCrashes = 1
  MaxTime = 3
SPECIFICATION FairSpec
INVARIANTS TypeOK CursorSafe
PROPERTY Converges
