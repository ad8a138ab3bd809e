CONSTANTS
  Notes = {n1}
  Sessions = {g1, g2}
  MaxInsights = 1
  MaxEntries = 2
  Events <- NoEvents
CHECK_DEADLOCK FALSE
SPECIFICATION Spec
PROPERTIES PruneStopsAtLimit
