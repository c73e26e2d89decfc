SPECIFICATION PartSpec
CONSTANTS
  u1 = u1
  u2 = u2
  w1 = w1
  w2 = w2
  Users = {u1, u2}
  Devices = {d1}
  Nobody = Nobody
  Requests = {w1, w2}
  MaxRequests = 3
  MaxOverlaps = 1
  MaxFaults = 1
  Phones = {p1, p2}
  Channels = {c1}
  MaxMessages = 2
  MaxLosses = 1
SYMMETRY MCSymmetry
INVARIANTS
  
  OneAccountPerPerson
  BannedIsOff
  NothingHiddenUnseen
CHECK_DEADLOCK FALSE
