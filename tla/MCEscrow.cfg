SPECIFICATION Spec
CONSTANTS
  u1 = u1
  u2 = u2
  u3 = u3
  mint = mint
  platform = platform
  o1 = o1
  o2 = o2
  k1 = k1
  k2 = k2
  t1 = t1
  t2 = t2
  Users = {mint, platform, u1, u2, u3}
  Mint = mint
  Platform = platform
  Orders = {o1, o2}
  NoUser = NoUser
  Admin = u3
  Rewards = {1, 3}
  Deposits = {4}
  RequestKeys = {k1, k2}
  Instants = {t1, t2}
  RateNum = 1
  RateDen = 2
SYMMETRY Symmetry
INVARIANTS
  TypeOK
  LedgerSumsToZero
  BalancesMatchLedger
  OnlyMintNegative
  EscrowMatchesOpenOrders
  EntriesMatchStatus
  RowsMatchStatus
PROPERTY ImplementsLifecycle
CHECK_DEADLOCK FALSE
