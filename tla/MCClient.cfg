\* Three lines and a datagram.
SPECIFICATION FairSpec
CONSTANTS
  MaxLines = 3
  MaxDatagrams = 1
INVARIANTS
  CommandsInOrder
  LogoutBeforeClose
PROPERTIES
  QuitEnds
  InterruptEndsOrWaitsForUser
  CommandSentOrReplaced
CHECK_DEADLOCK FALSE
