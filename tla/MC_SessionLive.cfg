SPECIFICATION FairSpec
CONSTANTS
  Callers = {"a"}
  Pings = {"k"}
  Methods <- SameMethod
  MaxID = 2
  Workloads <- Single
  PushBuffer = 1
  LateCancel = TRUE
  PeerMayDie = TRUE
  Refusals = FALSE
PROPERTIES
  CallsReturn
  DeadPeerNoticed
CHECK_DEADLOCK FALSE
