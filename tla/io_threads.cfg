SPECIFICATION FairSpec
CONSTANTS
  Client = {1}
  MaxThreads = 3
  InitNum = 3
  QueueSize = 3
  MaxOut = 1
  AofAlways = FALSE
  Features = {"errors", "resize", "poll"}
INVARIANT RingOK
INVARIANT OneThreadPerClient
INVARIANT JobsOnActiveThreads
PROPERTY IOCompletes
