CONSTANTS
  Starts = {s1}
  Controls = {c1}
  Interventions = {i1}
  NExperts = 2
  MaxMessages = 2
  Threshold <- MCThreshold
  Scores <- MCScores
  Replies <- Talkative
  Faults <- KeepingFaults
CHECK_DEADLOCK FALSE
SPECIFICATION FairSpec
PROPERTIES StopEnds Terminates ImplementsLifecycle
