SPECIFICATION Spec
CONSTANTS
  rita = rita
  ann = ann
  ben = ben
  cid = cid
  small = small
  large = large
  f1 = f1
  NoDev = NoDev
  NoSlots = NoSlots
  Requester = rita
  Devs <- MCDevs
  Forms <- MCForms
  MaxDepth = 4
  FileIds <- OneFile
  Orgs <- MCOrgs
  Templates <- MCTemplates
  Editors = {"requester", "admin"}
  MaxSteps = 5
  MaxHistory = 4
INVARIANTS
  TypeOK
  DecidedInOrder
  OutcomeMatchesSteps
  DelegationSuccession
  NoSelfApproval
  SomeoneCanAct
  AuditTrail
PROPERTY
  ApprovedHasFiles
CHECK_DEADLOCK FALSE
