CONSTANTS
  p = p
  r1 = r1
  r2 = r2
  v1 = v1
  v2 = v2
  None = None
  Shard = {p, r1, r2}
  First = p
  Name <- MCName
  Voter = {v1, v2}
  Crashable = {r1, v1, v2}
  EarlyWrite = {}
  Modes <- Elections
  MaxEpoch = 3
SPECIFICATION Spec
INVARIANTS
  TypeOK
  OneVotePerEpoch
  WinnerHasMajority
  ElectionSafety
  OwnersHaveDistinctEpochs
SYMMETRY Symmetry
CHECK_DEADLOCK FALSE
