SPECIFICATION DrillSpec
CONSTANTS
  c1 = c1
  c2 = c2
  j1 = j1
  j2 = j2
  Orders = {1}
  Clients = {c1, c2}
  Requests <- MCRequests
  Jobs = {j1, j2}
  MaxRetries = 3
  PageLimit = 1
  Faulty = TRUE
  Subject = 1
  Taker = c1
INVARIANTS
  PassedMeansRecovered
  DeadOnlyWhenExhausted
PROPERTIES
  TakerComesBack
  BurstIsSettledOnce
CHECK_DEADLOCK FALSE
