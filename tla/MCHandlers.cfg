SPECIFICATION HandlersSpec
CONSTANTS
  rita = rita
  ann = ann
  ben = ben
  cid = cid
  small = small
  large = large
  f1 = f1
  f2 = f2
  h1 = h1
  NoSlots = NoSlots
  r1 = r1
  r2 = r2
  worker = worker
  boss = boss
  root = root
  c1 = c1
  c2 = c2
  NoBalance = NoBalance
  NoDev = NoDev
  Requester = rita
  Devs <- MCDevs
  Forms <- MCForms
  MaxDepth = 2
  Orgs <- MCOrgs
  RuleSets <- MCRuleSets
  MaxReorgs = 1
  Years <- MCYears
  Ids <- MCIds
  Needs <- MCNeeds
  Clients <- MCClients
  Allowed <- MCAllowed
  MaxGrants = 1
  Self = {worker}
  Admins = {root}
  Approvers = {boss}
  InitialDays = {1}
  AccrualDays = {1}
  RewardDays = {1}
  UsedDays = {}
  Correctable = {}
  Purgeable = {}
  MaxGranted = 2
INVARIANTS
  ChainWellFormed
  NothingLeftToSkip
  DroppedForAReason
  ReturnsEvaluateRules
  ColumnsAgree
PROPERTIES
  EngineTerminates
  ImplementsFlow
  OneHandlerIsLedger
CHECK_DEADLOCK FALSE
