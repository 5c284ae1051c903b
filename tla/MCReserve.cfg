CONSTANTS
  s1 = s1
  s2 = s2
  Signer = {s1, s2}
  Client = {c1, c2}
  Challenge = {ch1, ch2}
  Offset <- MCOffset
  TTL = 2
  Slack = 1
  MaxHold = 1
  MaxTime = 5
  l0 = l0
  la = la
  lb = lb
  Link = {l0, la, lb}
  FirstLink = l0
  Tie <- MCTie
  HashRank <- MCHashRank
  MaxSecrets = 3
  Replica = {p, q}
  Copies <- MCCopies
SPECIFICATION PartsSpec
SYMMETRY MCSymmetry
INVARIANTS SpentOnce MergeIsOrderFree
