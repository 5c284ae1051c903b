CONSTANTS
  l0 = l0
  la = la
  lb = lb
  Link = {l0}
  FirstLink = l0
  Tie <- MCTie
  HashRank <- MCHashRank
  MaxSecrets = 3
  Signer = {s1, s2}
  Client = {c1}
  Ops = {"manage"}
  Kinds = {TRUE}
  NameExp = 2
  LegacyMaxExt = 1
  TokenExps = {2, 3}
  Durations = {1}
  MaxAhead = 1
  Keep = 1
  MaxFaults = 0
  MaxHold = 1
  ReserveBy = 1
  MaxTime = 5
SPECIFICATION Spec
SYMMETRY MCSymmetry
INVARIANT NeverWedged
CHECK_DEADLOCK FALSE
