\* A group of two users, one of them perhaps offline.
CONSTANTS
    Session = {s1, s2}
    UserID = {u1, u2}
    GroupName = {g1}
    JoinCode = {c1, c2}
    PipedName = {}
    NoSession = NoSession
    NoUser = NoUser
    NoName = NoName
    MaxMessages = 1
    MaxQueue = 1
SPECIFICATION Spec
SYMMETRY JoinCodeSymmetry
INVARIANTS
    
    GroupsHaveMembers
PROPERTIES
    GroupIdentityStable
CHECK_DEADLOCK FALSE
