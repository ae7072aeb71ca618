SPECIFICATION Spec
CONSTANTS
  Chats = {c1}
  MaxLog = 2
  MaxFailures = 1
INVARIANTS
  TypeOK
  PromisesKept
  UpdateAccepted
PROPERTY CursorMonotone
CHECK_DEADLOCK TRUE
