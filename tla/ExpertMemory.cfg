CONSTANTS
  Notes = {n1}
  Sessions = {g1, g2}
  MaxInsights = 1
  MaxEntries = 2
  Events <- AllEvents
CHECK_DEADLOCK FALSE
SYMMETRY Symmetry
SPECIFICATION Spec
INVARIANTS TypeOK NotesAreSafe BoundedAtRest
