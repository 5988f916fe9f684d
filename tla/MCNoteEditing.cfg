SPECIFICATION Spec
CONSTANTS
  a = a
  Clients <- OnePage
  Kinds <- AllKinds
  MaxEdits = 2
  MaxCalls = 2
  MaxGets = 1
  MaxCloses = 1
  Failing = TRUE
INVARIANTS
  OnlyWritersWrite
  QuietMeansSaved
PROPERTIES
  EveryEditIsStored
CHECK_DEADLOCK FALSE
