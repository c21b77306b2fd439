CONSTANTS
  Client = {a, b}
  k1 = k1
  Key = {k1}
  DB = {0, 1}
  Role = "replica"
  MaxTime = 0
  MaxStamp = 2
  MaxQueue = 1
  None = None
  LoadModes = {"swap"}
  Commands <- StreamCommands
SPECIFICATION Spec
SYMMETRY Symmetry
PROPERTY WatchedChangeAborts
