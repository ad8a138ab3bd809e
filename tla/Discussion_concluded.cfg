CONSTANTS
  Starts = {s1}
  Controls = {c1}
  Interventions = {}
  NExperts = 2
  MaxMessages = 2
  Threshold <- MCThreshold
  Scores <- NoPollScores
  Replies <- Answering
  Faults <- NoFaults
CHECK_DEADLOCK FALSE
SPECIFICATION Spec
INVARIANTS ConcludedIsCompleted
