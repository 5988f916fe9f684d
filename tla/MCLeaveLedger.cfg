SPECIFICATION LedgerSpec
CONSTANTS
  r1 = r1
  r2 = r2
  worker = worker
  boss = boss
  root = root
  NoBalance = NoBalance
  Years <- MCYears
  Ids <- TwoIds
  Needs <- MCNeeds
  MaxGrants = 2
  Self = {worker}
  Admins = {root}
  Approvers = {boss}
  InitialDays = {2}
  AccrualDays = {1}
  RewardDays = {2}
  UsedDays = {0}
  Correctable = {2}
  Purgeable = {2}
  MaxGranted = 3
SYMMETRY IdSymmetry
INVARIANTS
  BooksTyped
  BooksAgree
  NoOverdraft
  TakesWhatItNeeds
PROPERTIES
  SpendingOrder
CHECK_DEADLOCK FALSE
