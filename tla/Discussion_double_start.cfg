CONSTANTS
  Starts = {s1, s2}
  Controls = {}
  Interventions = {}
  NExperts = 2
  MaxMessages = 3
  Threshold <- MCThreshold
  Scores <- NoPollScores
  Replies <- Answering
  Faults <- NoFaults
CHECK_DEADLOCK FALSE
SPECIFICATION Spec
INVARIANTS AtMostOneLoop
