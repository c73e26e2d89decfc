SPECIFICATION SessionsSpec
CONSTANTS
  a = a
  b = b
  Last = 2
  Users <- MCUsers
  Managers <- MCManagers
  Sender <- MCSender
  MemberPins = FALSE
  MaxPinned = 1
  Requests = {w1, w2}
  MaxReads = 1
  MaxRequests = 2
  MaxOverlaps = 1
  MaxFaults = 1
  Scanners = {a, b}
  Polls = {p1, p2}
  Handlers = {h1}
  NoOne = NoOne
  MaxSends = 3
INVARIANTS
  ReadsAreCounted
  
PROPERTIES
  ClearedStaysCleared
  GrantIsSeen
CHECK_DEADLOCK FALSE
