CONSTANTS
  e1 = e1
  e2 = e2
  s1 = s1
  s2 = s2
  ExpertIds <- MCExpertIds
  SessionIds <- MCSessionIds
  MinChosen = 2
  LastDay = 2
  Filters <- MCFilters
  Kinds <- Analytics
  MaxFetches <- MCMaxFetches
  MaxOthers <- MCMaxOthers
  MaxOps = 2
  MaxLost = 0
SYMMETRY Identifiers
CHECK_DEADLOCK FALSE
SPECIFICATION Spec
INVARIANTS FilterApplies
