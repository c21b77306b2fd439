SPECIFICATION FairSpec
CONSTANTS
  sa = sa
  sb = sb
  sc = sc
  Server = {sa, sb}
  Modes <- MCRestarts
  BacklogSize = 1
  None = None
INVARIANT ReplicaFollows
INVARIANT OneHistoryPerId
INVARIANT BacklogForReplicas
PROPERTY ReplicasConverge
PROPERTY FailoverEnds
CHECK_DEADLOCK FALSE
