CONSTANTS
  MaxMessages = 1
  MaxSends = 3
  MaxSockets = 2
CHECK_DEADLOCK FALSE
SPECIFICATION FairSpec
INVARIANT NoGap
