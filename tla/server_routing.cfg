\* Two users on two connections that come, go and come back; no groups.
CONSTANTS
    Session = {s1, s2}
    UserID = {u1, u2}
    GroupName = {}
    JoinCode = {}
    PipedName = {}
    NoSession = NoSession
    NoUser = NoUser
    NoName = NoName
    MaxMessages = 2
    MaxQueue = 1
SPECIFICATION Spec
SYMMETRY Symmetry
INVARIANTS
    TypeOK
    MessageAccounting
    FifoPerConnection
    OnlyToItsAddressee
    ListedIsRegistered
    OfflineOnlyWhenAbsent
    NoStalledConnection
    
    UnlistedOnlyByAnother
PROPERTY ImplementsRelay
CHECK_DEADLOCK FALSE
