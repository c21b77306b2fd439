CONSTANTS
  Client = {a, b}
  k1 = k1
  Key = {k1}
  DB = {0, 1}
  Role = "primary"
  MaxTime = 2
  MaxStamp = 2
  MaxQueue = 1
  None = None
  LoadModes = {}
  Commands <- KeyCommands
SPECIFICATION Spec
SYMMETRY Symmetry
INVARIANT TypeOK
INVARIANT QueuedIsRun
INVARIANT NoSpuriousAbort
INVARIANT PrimaryInv
PROPERTY WatchedChangeAborts
