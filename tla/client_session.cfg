\* A user who logs in, chats, loses the connection and closes the program.
CONSTANTS
    MaxRequests = 3
    MaxMessages = 2
SPECIFICATION FairSpec
INVARIANTS
    TypeOK
    WriteChain
    RequestsInOrder
    MessagesInOrder
    ButtonsMeanIdle
PROPERTIES
    EveryClickIsAnswered
    EveryRequestIsWritten
CHECK_DEADLOCK FALSE
