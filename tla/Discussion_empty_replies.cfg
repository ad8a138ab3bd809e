CONSTANTS
  Starts = {s1}
  Controls = {}
  Interventions = {}
  NExperts = 2
  MaxMessages = 3
  Threshold <- MCThreshold
  Scores <- NoPollScores
  Replies <- Speechless
  Faults <- NoFaults
CHECK_DEADLOCK FALSE
SPECIFICATION FairSpec
PROPERTIES LimitEndsDiscussion
