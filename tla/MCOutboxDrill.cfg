SPECIFICATION DrillSpec
CONSTANTS
  w1 = w1
  w2 = w2
  Events = {1}
  Workers = {w1, w2}
  BatchLimit = 1
  MaxRetries = 2
  Poison = {}
  Faulty = TRUE
  Subject = 1
INVARIANTS
  DeadOnlyWhenExhausted
  PassedMeansReclaimed
CHECK_DEADLOCK FALSE
