\* The program's own steps are fair, the clients' are not.
CONSTANTS
    Session = {s1, s2}
    UserID = {u1, u2}
    GroupName = {}
    JoinCode = {}
    PipedName = {}
    NoSession = NoSession
    NoUser = NoUser
    NoName = NoName
    MaxMessages = 1
    MaxQueue = 1
SPECIFICATION FairSpec
PROPERTIES
    QueuedIsTransmitted
    DeadConnectionEnds
CHECK_DEADLOCK FALSE
