SPECIFICATION DrillSpec
CONSTANTS
  mint = mint
  platform = platform
  run = run
  bob = bob
  r1 = r1
  r2 = r2
  Users = {mint, platform, run, bob}
  Mint = mint
  Platform = platform
  Traffic <- MCTraffic
  Requests = {r1, r2}
  Compensation = 1
  Spending = 1
  MaxDisputes = 2
  Subject = run
  Client = r1
  Amount = 2
INVARIANTS NoFalseAlarm PassedMeansRightMoney
CHECK_DEADLOCK FALSE
