SPECIFICATION Spec
CONSTANTS
  u1 = u1
  u2 = u2
  m1 = m1
  m2 = m2
  m3 = m3
  r1 = r1
  NoUser = NoUser
  NoMsg = NoMsg
  Users <- MCUsers
  Msgs <- MCMsgs
  Sender <- MCSender
  Attempts = {a1, a2}
  MaxPending = 3
  Overrun = FALSE
  LateAccept = FALSE
SYMMETRY MCSymmetry
INVARIANTS
  VisibleWithinLimit
  FailedNotStored
  OneSender
CHECK_DEADLOCK FALSE
