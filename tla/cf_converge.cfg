CONSTANTS
  p = p
  r1 = r1
  r2 = r2
  v1 = v1
  v2 = v2
  None = None
  Shard = {p, r1, r2}
  First = p
  Name <- MCName
  Voter = {v1}
  Crashable = {r1, v1}
  EarlyWrite = {v1}
  Modes <- Takeovers
  MaxEpoch = 5
SPECIFICATION FairSpec
INVARIANTS
  NoSlotsToGiveUp
  CurrentEpochIsMax
PROPERTIES
  SlotsGoForward
  Converges
