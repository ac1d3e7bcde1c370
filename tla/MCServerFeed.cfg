\* Three users, two addresses: followers, stored notifications, counts, and
\* the refinement of Feed.
SPECIFICATION Spec
CONSTANTS
  NULL = NULL
  Addresses = {a1, a2}
  ValidNames = {u1, u2, u3}
  InvalidName = bad
  Names <- MCNames
  ValidMessages = {m1}
  InvalidMessage = long
  Messages <- MCMessages
  MaxMsgId = 3
  MaxNotificationId = 2
  MaxSendBacklog = 0
  MaxDiskBacklog = 0
SYMMETRY Symmetry
INVARIANTS
  TypeOK
  RegistryConsistent
  FollowersConsistent
  PendingConsistent
  NothingWaitsForConnected
PROPERTY
  ImplementsFeed
