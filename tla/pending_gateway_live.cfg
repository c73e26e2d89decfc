SPECIFICATION FairSpec
CONSTANTS
  u1 = u1
  u2 = u2
  m1 = m1
  m2 = m2
  m3 = m3
  r1 = r1
  NoUser = NoUser
  NoMsg = NoMsg
  Users <- MCUsers
  Msgs <- MCSmallMsgs
  Sender <- MCSmallSender
  Attempts = {a1}
  MaxPending = 3
  Overrun = FALSE
  LateAccept = FALSE
PROPERTIES
  
  ReservationSettles
CHECK_DEADLOCK FALSE
