SPECIFICATION Spec
CONSTANTS
  Clients = {k1, k2}
  Attempts = {p, q}
  Callers = {"bridge"}
  Starts = {1, 3, 4}
  MaxStops = 2
  MaxFaults = 1
INVARIANTS
  OwnerKnown
  OnePump
  NoLoginAfterKick
  NotAbandoned
SYMMETRY Alike
CHECK_DEADLOCK FALSE
