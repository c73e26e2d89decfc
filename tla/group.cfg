SPECIFICATION PlacesSpec
CONSTANTS
  a = a
  b = b
  Members = {a, b}
  Requests = {w1}
  Admin = Admin
  Overlap = FALSE
  MaxRequests = 5
  MaxFaults = 1
  Guests = {host, guest1}
  Host = host
  Topics = {r1, r2}
  Visits = {v1, v2}
  Ttl = 1
  Grace = 1
  Retention = 1
  Prompt = TRUE
  MaxClock = 4
  MaxSent = 2
  MaxVisits = 3
  MaxFailures = 1
SYMMETRY MCSymmetry
INVARIANTS
  ReceiversAreMembers
  OpenWhenAllowed
PROPERTIES
  OwnerStays
  
  RepliedRoomStays
CHECK_DEADLOCK FALSE
