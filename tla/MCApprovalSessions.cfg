SPECIFICATION Spec
CONSTANTS
  rita = rita
  ann = ann
  ben = ben
  cid = cid
  large = large
  f1 = f1
  f2 = f2
  f3 = f3
  h1 = h1
  h2 = h2
  NoDev = NoDev
  NoSlots = NoSlots
  Requester = rita
  Devs <- ThreeDevs
  Forms <- MCForms
  MaxDepth = 3
  FileIds <- ThreeFiles
  Orgs <- TwoOrgs
  Templates <- TwoTemplates
  Editors = {"requester"}
  MaxSteps = 3
  MaxHistory = 3
  Handlers <- TwoHandlers
SYMMETRY Symmetry
ACTION_CONSTRAINT OverlapsWhenQuiet
INVARIANTS
  DecisionsAreTraceable
  StuckOnlyAfterRace
  OvershootBounded
PROPERTY
  NeverReopened
CHECK_DEADLOCK FALSE
