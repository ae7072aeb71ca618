SPECIFICATION Spec
CONSTANTS
  Chats = {c1}
  MaxLog = 4
  Notices = {2}
  StartupHistory = TRUE
  MaxHeld = 1
  Retries = 1
  SeenLimit = 4
  MaxFaults = 3
  MaxLookupFaults = 1
  MaxEnds = 2
INVARIANTS
  LosslessInOrder
  NothingForgotten
  
PROPERTY ImplementsAtLeastOnce
CHECK_DEADLOCK FALSE
