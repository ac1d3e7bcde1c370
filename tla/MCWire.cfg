\* The program's own sizes of arrays and buffer; names of 4, 19 and 20
\* characters, texts of 7, 127 and 128.
SPECIFICATION MCSpec
CONSTANTS
    maxInt = 127
    maxLargestInt = 32767
    maxLargestUInt = 65535
    BUFFER_SIZE = 512
    UsernameSize = 20
    MessageSize = 128
    MsgIds = {127}
    PlainTypes = {8}
    Usernames <- MCNames
    Messages <- MCTexts
    Times <- MCTimes
    Garbage <- Rubbish
    Beyond <- AnyBeyond
INVARIANTS
    ShownIsSent
    HeardIsCommand
    FitsBuffer
    ReadsBack
    PartIsRefused
CHECK_DEADLOCK FALSE
