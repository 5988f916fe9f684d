SPECIFICATION WindowsSpec
CONSTANTS
  MaxSends = 3
  MaxText = 1
  Bodies <- MCBodies
  MaxReportEdits = 2
  MaxReportOps = 2
  MaxReportActs = 3
  MaxReportCalls = 3
  Failing = TRUE
  MaxMemoEdits = 2
  MaxMemoCalls = 2
  MaxMemoOpens = 2
  MaxMemoSaves = 3
  MaxNodes = 4
  MaxPast = 2
  MaxSteps = 4
  Saved <- MCSaved
INVARIANTS
  BelievedIsSaved
  CleanMeansSaved
  OneStreamAtATime
  CanUnfold
PROPERTIES
  OnlyReapplyDiscards
  DraftIsSaved
  ClosedIsSaved
  InputComesBack
CHECK_DEADLOCK FALSE
