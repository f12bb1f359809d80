CONSTANTS
  None = None
  n1 = n1
  Thread = {"t1", "t2"}
  b_Node = {n1}
  b_Faulty = {n1}
  b_Moving = {n1}
  f_Caller = {"c1"}
  f_Limit = 2
  f_Failures = 2
  t_Heat = 11
  t_Cool = 6
  t_Half = 1
  t_HeatLow = 7
  t_HeatHigh = 17
  t_CoolLow = 2
  t_Gap = 3
  t_Full = 20
  t_Weight = {78, 100, 200}
  s_MinNodes = 1
  s_MaxNodes = 2
  s_Sickly = 1
  s_Losses = 2
  w_Hook = {"h1"}
  w_Caller = {"c1", "c2"}
  w_MaxQueue = 2
  w_MaxRetries = 2
  w_MaxEvents = 2
  w_MaxStarts = 2
  l_MaxQueue = 1
  l_MaxAlerts = 2
  l_MaxStarts = 2
  o_BufferSize = 2
  o_MaxEvents = 3
  o_MaxStarts = 2
  d_Pod = {"p1"}
  d_MaxCopies = 2
  g_Node = {n1}
  g_Group = {"g1"}
  g_Labels <- OneGroup
  p_MaxChanges = 2
  p_Long = {1}
  p_MaxThreads = 2
SPECIFICATION FairSumSpec
 
PROPERTY ServersReturn
PROPERTY FleetFollows
PROPERTY NewsArrives
CHECK_DEADLOCK FALSE
