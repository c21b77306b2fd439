SPECIFICATION Spec
CONSTANTS
  Client = {1, 2}
  MaxThreads = 2
  InitNum = 2
  QueueSize = 7
  MaxOut = 2
  AofAlways = FALSE
  Features = {"publish", "kill", "tls", "free"}
INVARIANT JobMatchesState
INVARIANT ReplyIsScheduled
