SPECIFICATION DiscoverySpec
CONSTANTS
  a = a
  b = b
  c = c
  w1 = w1
  w2 = w2
  Users = {a, b, c}
  Author = a
  Requests = {w1, w2}
  HideLimit = 2
  MaxRequests = 3
  MaxTroubles = 1
  Candidates = {c1, c2, c3}
  Readers = {w1, w2}
  NoReader = NoReader
  InitialLimit = 1
  AddLimit = 1
  DailyLimit = 2
  RotateAfter = 1
  RetryAfter = 1
  Boundary = 3
  MaxRecommendations = 2
  MaxTurns = 1
  MaxSlips = 1
SYMMETRY MCSymmetry
INVARIANTS
  CountsAreRows
  CountsCatchUp
  ReportedIsNotServed
  
  AssignedWithinLimit
  AssignmentCountedOnce
CHECK_DEADLOCK FALSE
