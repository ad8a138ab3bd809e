CONSTANTS
  Starts = {s1}
  Controls = {}
  Interventions = {i1}
  NExperts = 2
  MaxMessages = 3
  Threshold <- MCThreshold
  Scores <- NoPollScores
  Replies <- Answering
  Faults <- NoFaults
CHECK_DEADLOCK FALSE
SPECIFICATION Spec
INVARIANTS AcknowledgedIsProcessed
