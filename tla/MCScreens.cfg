SPECIFICATION Spec
CONSTANTS
  Places <- MCPlaces
  Unrefreshed <- MCUnrefreshed
  Repeatable <- MCRepeatable
  Piecewise <- MCPiecewise
  MaxTries = 2
  MaxVisits = 1
INVARIANTS
  OwnWritesShown
  MadeOnce
PROPERTIES
  Converges
CHECK_DEADLOCK FALSE
