\* One rollout, and a registry that does not change.
CONSTANTS
  Node = {n1, n2, n3}
  BatchSize = 2
  GatePercent = 50
  AliveFirst = TRUE
  MaxRollouts = 1
  MaxChanges = 0
SPECIFICATION Spec
PROPERTY AbortStops
CHECK_DEADLOCK FALSE
SYMMETRY Symmetry
