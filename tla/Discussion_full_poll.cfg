CONSTANTS
  Starts = {s1}
  Controls = {}
  Interventions = {}
  NExperts = 2
  MaxMessages = 2
  Threshold <- MCThreshold
  Scores <- MCScores
  Replies <- Answering
  Faults <- NoFaults
CHECK_DEADLOCK FALSE
SPECIFICATION Spec
INVARIANTS FullIsCompleted
