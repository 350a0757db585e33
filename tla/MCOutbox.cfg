SPECIFICATION LiveSpec
CONSTANTS
  w1 = w1
  w2 = w2
  Events = {1, 2}
  Workers = {w1, w2}
  BatchLimit = 2
  MaxRetries = 2
  Poison = {1}
  Faulty = FALSE
PROPERTIES
  SlowWorkerIsFenced
  EventIsResolved
CHECK_DEADLOCK FALSE
