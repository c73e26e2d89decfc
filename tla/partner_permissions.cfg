SPECIFICATION PartnersSpec
CONSTANTS
  u1 = u1
  u2 = u2
  NoUser = NoUser
  NoWorker = NoWorker
  Users <- MCUsers
  Workers = {w1}
  MaxPending = 2
  MaxGreets = 2
  Overlap = FALSE
  Channels <- MCChannels
  Devices <- MCDevices
  Main = "app"
  MaxSockets = 2
  MaxWaiting = 1
  MaxLapses = 1
INVARIANTS
  RequesterKeptOut
  NothingLeftBehind
  HandledRowsRight
  ShownWithAnyDevice
  FriendsKnow
CHECK_DEADLOCK FALSE
