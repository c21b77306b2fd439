SPECIFICATION Spec
CONSTANTS
  s1 = s1
  s2 = s2
  j1 = j1
  j2 = j2
  Node = {1, 2}
  Slot = {s1, s2}
  Job = {j1, j2}
  None = None
  Modes <- MCMigration
INVARIANT OwnerHasAll
INVARIANT OneWriter
INVARIANT SlotHasOwner
INVARIANT NoDirtyKeys
INVARIANT GrantedIsPaused
INVARIANT JobsNeverStuck
CHECK_DEADLOCK FALSE
