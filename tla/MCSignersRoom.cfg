CONSTANTS
  l0 = l0
  la = la
  lb = lb
  Link = {l0}
  FirstLink = l0
  Tie <- MCTie
  HashRank <- MCHashRank
  MaxSecrets = 2
  Signer = {s1, s2}
  Client = {c1, c2}
  Ops = {"manage", "reserve", "extend", "delete", "revoke"}
  Kinds = {TRUE, FALSE}
  NameExp = 2
  LegacyMaxExt = 3
  TokenExps = {2, 5}
  Durations = {1}
  MaxAhead = 1
  Keep = 1
  MaxFaults = 1
  MaxHold = 1
  ReserveBy = 1
  MaxTime = 8
SPECIFICATION Spec
SYMMETRY MCSymmetry
CONSTRAINT EitherLife
INVARIANTS TypeOK IndexExact CleanMeansSaved ExpiryBounded NoSecondMigration
PROPERTIES DeletionSticks OnlyForward
CHECK_DEADLOCK FALSE
