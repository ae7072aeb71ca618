SPECIFICATION Spec
CONSTANTS
  Chats = {c1}
  MaxLog = 4
  Notices = {2}
  StartupHistory = FALSE
  MaxHeld = 4
  Retries = 1
  SeenLimit = 4
  MaxFaults = 1
  MaxLookupFaults = 0
  MaxEnds = 2
INVARIANT GapKeptUntilRecovered
CHECK_DEADLOCK FALSE
