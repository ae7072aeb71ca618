SPECIFICATION FairSpec
CONSTANTS
  Chats = {1, 2}
  MaxLog = 3
  Settings = {TRUE, FALSE}
  MaxChats = 2
  PageCap = 2
  ShortPages = TRUE
  MaxPages = 3
  HistoryPages = 2
  MaxFaults = 1
  MaxConnects = 1
INVARIANTS
  IntervalClosed
  CoverageHonest
PROPERTY ChainEnds
CHECK_DEADLOCK FALSE
