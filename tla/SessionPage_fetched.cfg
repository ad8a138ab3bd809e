CONSTANTS
  Types <- BothTypes
  MaxSockets = 2
  Controls = {c1, c2}
CHECK_DEADLOCK FALSE
SYMMETRY Interchangeable
SPECIFICATION Spec
INVARIANTS ControlIsAccepted
