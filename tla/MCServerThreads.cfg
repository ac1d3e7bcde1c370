\* Two datagrams of up to two messages, and one that is given up.
SPECIFICATION FairSpec
CONSTANTS
  MaxDatagrams = 2
  MaxMessages = 2
  MaxErrors = 1
INVARIANTS
  HandedOverInOrder
  ExitLosesNothing
PROPERTIES
  SendsOnOpenSocket
  InterruptEnds
  AcceptedIsAnswered
CHECK_DEADLOCK FALSE
