SPECIFICATION Spec
CONSTANTS
  Chats = {1, 2}
  MaxLog = 3
  Settings = {TRUE}
  MaxChats = 2
  PageCap = 2
  ShortPages = FALSE
  MaxPages = 3
  HistoryPages = 2
  MaxFaults = 1
  MaxConnects = 2
INVARIANT StoreReopens
CHECK_DEADLOCK FALSE
