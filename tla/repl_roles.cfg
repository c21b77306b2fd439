SPECIFICATION Spec
CONSTANTS
  sa = sa
  sb = sb
  sc = sc
  Server = {sa, sb, sc}
  Modes <- MCRoles
  BacklogSize = 1
  None = None
INVARIANT TypeOK
INVARIANT ReplicaFollows
PROPERTY FailoverLosesNothing
CHECK_DEADLOCK FALSE
