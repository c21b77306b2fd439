SPECIFICATION Spec
CONSTANTS
  s1 = s1
  s2 = s2
  j1 = j1
  j2 = j2
  Node = {1, 2}
  Slot = {s1, s2}
  Job = {j1, j2}
  None = None
  Modes <- MCCrossed
INVARIANT DatasetFixedWhilePaused
CHECK_DEADLOCK FALSE
