CONSTANTS
  Starts = {s1}
  Controls = {c1}
  Interventions = {i1, i2}
  NExperts = 2
  MaxMessages = 3
  Threshold <- MCThreshold
  Scores <- MCScores
  Replies <- AllReplies
  Faults <- LosingFaults
CHECK_DEADLOCK FALSE
SYMMETRY Symmetry
SPECIFICATION Spec
INVARIANTS TypeOK MessageLimit NoLostWakeup FlagMeansLoop ReasonIsTrue AgreedIsTrue PostedInOrder
PROPERTIES NoMessageWhenTerminal
