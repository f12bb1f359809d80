\* Elections, restarts and replication; the state_file of A may become
\* unwritable.  One write, and two masters: enough for a deposed leader whose
\* pushes and writes meet those of its successor.  Requests of B may be late.
CONSTANTS
  A = A
  B = B
  Node = {A, B}
  None = None
  AutoHeal = TRUE
  StateFile = TRUE
  MaxTerm = 2
  MaxWrites = 1
  MaxLate = 1
  Lagging = {B}
  MaxCrashes = 1
  Exposed = {}
  Fragile = {A}
  Handled = {}
  Beating = {}
  Syncing = {A}
SPECIFICATION FairSpec
INVARIANT TypeOK
INVARIANT RedirectsToLeader
PROPERTY VoteKept
 
CHECK_DEADLOCK FALSE
