CONSTANTS
  l0 = l0
  la = la
  lb = lb
  Link = {l0, la, lb}
  FirstLink = l0
  Tie <- MCTie
  HashRank <- MCHashRank
  MaxSecrets = 3
  Signer = {s1, s2}
  Client = {c1, c2}
  Ops = {"reserve", "rotate", "join"}
  Kinds = {FALSE}
  NameExp = 0
  LegacyMaxExt = 0
  TokenExps = {}
  Durations = {1}
  MaxAhead = 1
  Keep = 1
  MaxFaults = 1
  MaxHold = 1
  ReserveBy = 1
  MaxTime = 1
SPECIFICATION Spec
SYMMETRY MCSymmetry
INVARIANTS NeverLockedOut OneWinner IndexExact TokensMatchLinks
CHECK_DEADLOCK FALSE
