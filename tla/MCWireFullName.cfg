\* A name of 20 characters.
SPECIFICATION MCSpec
CONSTANTS
    maxInt = 127
    maxLargestInt = 32767
    maxLargestUInt = 65535
    BUFFER_SIZE = 512
    UsernameSize = 20
    MessageSize = 128
    MsgIds = {127}
    PlainTypes = {0, 8}
    Usernames <- FullNames
    Messages <- ShortTexts
    Times <- MCTimes
    Garbage <- Rubbish
    Beyond <- AnyBeyond
INVARIANTS
    LegalNameIsShown
CHECK_DEADLOCK FALSE
