CONSTANTS
  Drivers <- MCDrivers
  Stocks <- MCStocks
  Memories <- MCMemories
  MaxInject = 2
  TokenBudget = 3
  MaxRetries = 2
  BaseDelay = 2
  MaxDelay = 3
  MaxTotal = 4
  Durations <- MCDurations
  RetryAfters <- MCRetryAfters
  Lateness = 1
CHECK_DEADLOCK FALSE
SPECIFICATION FairSpec
INVARIANTS TypeOK WithinBudget GivenUpMeansTried BestMemories
PROPERTIES TurnEnds
