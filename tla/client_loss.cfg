\* The server goes away while the chat window is open.
CONSTANTS
    MaxRequests = 2
    MaxMessages = 0
SPECIFICATION FairSpec
PROPERTY LossIsNoticed
CHECK_DEADLOCK FALSE
