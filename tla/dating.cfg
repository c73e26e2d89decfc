SPECIFICATION DatingSpec
CONSTANTS
  u1 = u1
  u2 = u2
  PairKey = PairKey
  Users <- MCUsers
  Threads = {t1, t2}
  Slots = {e1, e2}
  MaxFailures = 1
  Shard <- MCShard
SYMMETRY MCSymmetry
INVARIANTS
  OwnFriendsKept
  GoneMatchLeavesNoFriends
  DeletedKeptApart
CHECK_DEADLOCK FALSE
