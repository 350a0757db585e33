SPECIFICATION FairSpec
CONSTANTS
  p1 = p1
  bad = bad
  Orders = {1}
  MaxTime = 2
  Ttls = {1}
  DeliverTtl = 1
  Skew = 1
  Pollers = {p1}
  PollLimit = 2
  ScanLimit = 1
  Malformed = {bad}
INVARIANT WakeUpKept
PROPERTIES OverdueIsCancelled QueueDrains
