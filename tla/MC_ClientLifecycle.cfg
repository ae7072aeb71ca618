SPECIFICATION FairSpec
CONSTANTS
  Users = {"u", "v"}
  Writers = {"w"}
  Closers = {"s", "t"}
  MaxTries = 1
  MaxShutdowns = 1
INVARIANTS
  OneOwner
PROPERTY ShutdownReturns
CHECK_DEADLOCK FALSE
