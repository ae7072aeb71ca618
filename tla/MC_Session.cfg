SPECIFICATION Spec
CONSTANTS
  Callers = {a, b}
  Pings = {"k"}
  Methods <- SameMethod
  Workloads <- Mixed
  MaxID = 2
  PushBuffer = 1
  LateCancel = FALSE
  PeerMayDie = FALSE
  Refusals = TRUE
INVARIANTS
  OwnReply
  OneCompletion
  
  IdleHasKeepalive
  PushesInOrder
SYMMETRY CallersAlike
CHECK_DEADLOCK FALSE
