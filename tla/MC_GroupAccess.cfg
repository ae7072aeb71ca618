SPECIFICATION Spec
CONSTANTS
  Others = {a, b}
  Self = "me"
  MaxChanges = 3
  MaxFailures = 1
  MaxSessions = 2
INVARIANT HeldResumes
SYMMETRY Alike
CHECK_DEADLOCK FALSE
