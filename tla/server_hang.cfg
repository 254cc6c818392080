\* A user logs in again after the connection was lost.
CONSTANTS
    Session = {s1, s2}
    UserID = {u1}
    GroupName = {}
    JoinCode = {}
    PipedName = {}
    NoSession = NoSession
    NoUser = NoUser
    NoName = NoName
    MaxMessages = 0
    MaxQueue = 1
SPECIFICATION Spec
INVARIANT ServerNeverBlocks
CHECK_DEADLOCK FALSE
