CONSTANTS
  Starts = {s1, s2}
  Experts = {e1, e2}
  MaxMessages = 3
  Faults <- AllFaults
CHECK_DEADLOCK FALSE
SPECIFICATION FairSpec
INVARIANTS TypeOK MessageLimit SentIsStored
PROPERTIES CompletedIsFinal Completes
