\* Three clients of two users, two commands; a datagram repeated or lost, or
\* a client that fails.
SPECIFICATION CSSpec
CONSTANTS
  NULL = NULL
  Addresses = {a1, a2, a3}
  ValidNames = {u1, u2}
  Names = {u1, u2}
  ValidMessages = {m1}
  Messages = {m1}
  MaxMsgId = 9
  MaxNotificationId = 9
  MaxSendBacklog = 0
  MaxDiskBacklog = 0
  MaxRequests = 2
  MaxTroubles = 1
SYMMETRY Symmetry
INVARIANTS
  RunningHasSession
  NobodyConfused
  LoginAnswered
  SessionsInUse
CHECK_DEADLOCK FALSE
