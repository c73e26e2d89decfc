SPECIFICATION PartnersSpec
CONSTANTS
  u1 = u1
  u2 = u2
  NoUser = NoUser
  NoWorker = NoWorker
  Users <- MCUsers
  Workers = {w1, w2}
  MaxPending = 3
  MaxGreets = 3
  Overlap = FALSE
  People = {u1, u2}
  Syncs = {s1}
  ReplayWindow = 1
  QueueCap = 1
  SpillMax = 2
  MaxSecond = 2
  MaxTasks = 2
  MaxMishaps = 1
SYMMETRY MCSymmetry
INVARIANTS
  
  
  SettledPoolIsRight
PROPERTIES
  
  ActivityNeverFalls
CHECK_DEADLOCK FALSE
