SPECIFICATION LiveSpec
CONSTANTS
  c1 = c1
  c2 = c2
  j1 = j1
  j2 = j2
  Orders = {1, 2}
  Clients = {c1, c2}
  Requests <- MCRequests
  Jobs = {j1}
  MaxRetries = 2
  PageLimit = 1
  Faulty = TRUE
INVARIANT DeliveredOncePaidOnce
PROPERTY DeliveredIsResolved
