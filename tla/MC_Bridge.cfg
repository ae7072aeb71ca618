SPECIFICATION Spec
CONSTANTS
  x1 = x1
  x2 = x2
  y1 = y1
  y2 = y2
  z1 = z1
  z2 = z2
  Absent = Absent
INVARIANTS
  HistoryPaced
  StoreHonest
  
  ReactionsHonest
  ReactionDemandKept
  RemovedStaysBlocked
  OneGroupPerRoom
  SendsHonest
  EditsConverge
  EnrolledOrClosed
  
  
PROPERTIES
  
  MetadataFresh
  ProfilesSpaced
SYMMETRY Alike
CHECK_DEADLOCK FALSE
