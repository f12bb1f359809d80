\* Heartbeats and read-only mode.  One of three masters may be cut off: it is a
\* minority, and a majority needs one vote besides its own.  Operators interfere.
CONSTANTS
  A = A
  B = B
  C = C
  Node = {A, B, C}
  None = None
  AutoHeal = TRUE
  StateFile = FALSE
  MaxTerm = 1
  MaxWrites = 0
  MaxLate = 0
  Lagging = {}
  MaxCrashes = 0
  Exposed = {A}
  Fragile = {}
  Handled = {B}
  Beating = {A}
  Syncing = {}
SPECIFICATION FairSpec
PROPERTY CutLeaderStops
 
CHECK_DEADLOCK FALSE
