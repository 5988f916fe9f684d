SPECIFICATION SessionsSpec
CONSTANTS
  r1 = r1
  r2 = r2
  worker = worker
  boss = boss
  root = root
  c1 = c1
  c2 = c2
  NoBalance = NoBalance
  Years <- OneYear
  Ids <- TwoIds
  Needs <- OneDay
  Clients <- TwoClients
  Allowed <- Creating
  MaxGrants = 0
  Self = {worker}
  Admins = {root}
  Approvers = {boss}
  InitialDays = {1}
  AccrualDays = {1}
  RewardDays = {1}
  UsedDays = {}
  Correctable = {}
  Purgeable = {}
  MaxGranted = 2
INVARIANTS
  NoOverdraft
CHECK_DEADLOCK FALSE
