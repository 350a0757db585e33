SPECIFICATION Spec
CONSTANTS
  mint = mint
  platform = platform
  alice = alice
  bob = bob
  r1 = r1
  r2 = r2
  Users = {mint, platform, alice}
  Mint = mint
  Platform = platform
  Traffic <- MCCalls
  Requests = {r1, r2}
  Compensation = 1
  Spending = 2
  MaxDisputes = 1
INVARIANTS BalancesMatchLedger RowsAgree
PROPERTY MoneyMovesOnce
CHECK_DEADLOCK FALSE
