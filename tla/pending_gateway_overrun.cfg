SPECIFICATION Spec
CONSTANTS
  u1 = u1
  u2 = u2
  m1 = m1
  m2 = m2
  m3 = m3
  r1 = r1
  NoUser = NoUser
  NoMsg = NoMsg
  Users <- MCUsers
  Msgs <- MCTwoMsgs
  Sender <- MCTwoSender
  Attempts = {a1, a2}
  MaxPending = 2
  Overrun = TRUE
  LateAccept = TRUE
SYMMETRY MCTwoSymmetry
INVARIANTS
  ReservationsCounted
  DeliveredIsStored
PROPERTIES
  ImplementsLedger
CHECK_DEADLOCK FALSE
