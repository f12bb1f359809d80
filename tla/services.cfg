CONSTANTS
  n1 = n1
  n2 = n2
  c1 = c1
  c2 = c2
  k1 = k1
  None = None
  Node = {n1, n2}
  Client = {c1, c2}
  Key = {k1}
  Region = {n1}
  Capacity = 1
  Full = 2
  Steps = {1, 2}
  Tagged = {}
  Announced = {n2}
  Moving = {n2}
  Breaking = {n1}
  PreferAlive = TRUE
  r_Server = {"s1", "s2", "s3"}
  r_Caller = {"c1"}
  r_MaxRetries = 2
  r_Frail = {"s1"}
  r_Ramped = {"s1"}
  k_Server = {"s1", "s2"}
  k_Caller = {"c1", "c2"}
  k_MaxChannels = 3
  h_Caller = {"c1", "c2"}
  h_Num = 1
  h_Den = 3
  h_Free = 3
  h_MaxTotal = 7
  q_Server = {"s1"}
  q_Thread = {"t1", "t2"}
  q_MinInner = 1
  q_Threshold = 2
  q_MaxRetries = 2
  c_Saver = {"t1", "t2"}
  c_Stopper = "t1"
  c_MaxChanges = 3
  c_MaxCrashes = 2
  a_Master = {"m1"}
  a_Client = {"c1"}
  a_Keyed = TRUE
  a_Key = {"good", "bad"}
  a_Scopes <- KeyScopes
  a_Enabled = {"ha", "canary"}
SPECIFICATION SumSpec
INVARIANT OverdraftBounded
INVARIANT RequestsServed
INVARIANT HedgeBudget
INVARIANT QuarantineVisible
 
PROPERTY PickFindsSteady
 
 
SYMMETRY Symmetry
CHECK_DEADLOCK FALSE
