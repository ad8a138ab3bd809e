CONSTANTS
  Experts = 2
  MaxMessages = 6
  MaxRounds = 3
  MaxUserPolls = 1
CHECK_DEADLOCK FALSE
SPECIFICATION Spec
INVARIANTS UsersPollsAreVoted
