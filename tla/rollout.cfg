\* Three nodes in batches of two: the last batch is not full.  Two changes of
\* the registry can close the gate and open it again.
CONSTANTS
  Node = {n1, n2, n3}
  BatchSize = 2
  GatePercent = 50
  AliveFirst = TRUE
  MaxRollouts = 2
  MaxChanges = 2
SPECIFICATION FairSpec
INVARIANT TypeOK
INVARIANT BatchAtATime
INVARIANT DoneMeansAll
 
PROPERTY AbortEnds
PROPERTY RolloutEnds
CHECK_DEADLOCK FALSE
