SPECIFICATION Spec
CONSTANTS
  u1 = u1
  u2 = u2
  m1 = m1
  m2 = m2
  NoUser = NoUser
  NoMsg = NoMsg
  NoWorker = NoWorker
  Users <- MCUsers
  Msgs <- MCMsgs
  Sender <- MCSender
  Attempts = {a1}
  Workers = {w1}
  MaxPending = 2
  MaxGreets = 2
  Overrun = FALSE
  LateAccept = FALSE
  Overlap = FALSE
SYMMETRY MCSymmetry
INVARIANT SeenWithinLimit
CHECK_DEADLOCK FALSE
