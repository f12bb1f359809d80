\* Two masters, no failures but those of the calls.
CONSTANTS
  A = A
  B = B
  Node = {A, B}
  None = None
  AutoHeal = TRUE
  StateFile = TRUE
  MaxTerm = 2
  MaxWrites = 0
  MaxLate = 0
  Lagging = {}
  MaxCrashes = 0
  Exposed = {}
  Fragile = {}
  Handled = {}
  Beating = {A, B}
  Syncing = {}
SPECIFICATION Spec
INVARIANT OneLeaderPerTerm
CHECK_DEADLOCK FALSE
SYMMETRY Symmetry
