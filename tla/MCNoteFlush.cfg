SPECIFICATION Spec
CONSTANTS
  a = a
  Clients <- OnePage
  Kinds <- TextTab
  MaxEdits = 1
  MaxCalls = 1
  MaxGets = 0
  MaxCloses = 0
  Failing = FALSE
PROPERTIES
  FlushedOnSwitch
CHECK_DEADLOCK FALSE
