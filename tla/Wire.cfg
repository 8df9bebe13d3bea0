\* A byte has 6 values, enough for the five types of messages. The longest
\* announcement has 12 bytes, fewer than the buffer, as 296 are fewer than 512.
SPECIFICATION Spec
CONSTANTS
    Base = 6
    ArrayLen = 1
    MaxChatFrame = 26
    MaxDatagram = 13
    Messages <- MCMessages
\* The reader has what it waited for, or a stream stays open without bytes.
CHECK_DEADLOCK FALSE
INVARIANTS
    ReadIsSent
    WholeFrameIsRead
    ReadIsCanonical
    SignatureCoversMessage
