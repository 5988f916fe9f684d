SPECIFICATION Spec
CONSTANTS
  rita = rita
  ann = ann
  ben = ben
  cid = cid
  large = large
  f1 = f1
  f2 = f2
  f3 = f3
  h1 = h1
  h2 = h2
  NoDev = NoDev
  NoSlots = NoSlots
  Requester = rita
  Devs <- MCDevs
  Forms <- MCForms
  MaxDepth = 3
  FileIds <- NoFiles
  Orgs <- OneOrg
  Templates <- PlainTemplate
  Editors = {"requester"}
  MaxSteps = 3
  MaxHistory = 2
  Handlers <- TwoHandlers
PROPERTY
  ClosedIsFinal
CHECK_DEADLOCK FALSE
