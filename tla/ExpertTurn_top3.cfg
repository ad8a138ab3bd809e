CONSTANTS
  Drivers <- MCDrivers
  Stocks <- FiveAlike
  Memories <- FiveMemories
  MaxInject = 5
  TokenBudget = 4
  MaxRetries = 2
  BaseDelay = 2
  MaxDelay = 3
  MaxTotal = 4
  Durations <- MCDurations
  RetryAfters <- MCRetryAfters
  Lateness = 1
CHECK_DEADLOCK FALSE
SPECIFICATION FairSpec
INVARIANT ReducedToTopThree
