SPECIFICATION BooksSpec
CONSTANTS
  mint = mint
  platform = platform
  publisher = publisher
  customer = customer
  Users = {mint, platform, publisher, customer}
  Mint = mint
  Platform = platform
  Publisher = publisher
  Customer = customer
  Deposit = 3
  Reward = 2
  Recharges = {"one", "two"}
INVARIANTS InjectionsAreUndone PassedMeansBooksBalance DriftIsUndone
CHECK_DEADLOCK FALSE
