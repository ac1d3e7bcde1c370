\* Three addresses and two users, the sender one message behind: sessions,
\* the limit of two per user, the numbering of queued messages.
SPECIFICATION Spec
CONSTANTS
  NULL = NULL
  Addresses = {a1, a2, a3}
  ValidNames = {u1, u2}
  InvalidName = bad
  Names <- MCNames
  ValidMessages = {m1}
  InvalidMessage = long
  Messages <- MCMessages
  MaxMsgId = 4
  MaxNotificationId = 1
  MaxSendBacklog = 1
  MaxDiskBacklog = 0
SYMMETRY Symmetry
INVARIANTS
  SessionsConsistent
  MsgIdsIncrease
