SPECIFICATION FairSpec
CONSTANTS
  Modes <- MCModes
  Inodes = {1, 2, 3, 4, 5, 6, 7, 8, 9}
  None = None
  MaxWrites = 2
  MaxOps = 2
  MaxFaults = 1
  MaxCrashes = 1
INVARIANTS
  NeverRefusesToStart
  FsyncedIsDurable
PROPERTIES
  ImplementsDurableLog
  WaitEnds
  WritesResume
