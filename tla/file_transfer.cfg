\* Two users, a group and two files, one after the other, at once or crossing.
CONSTANTS
    User = {u1, u2}
    Group = {g1}
    FileName = {f1}
    MaxTransfers = 2
    MaxChunks = 2
    MaxQueue = 1
    MaxFailures = 1
SPECIFICATION Spec
SYMMETRY Symmetry
INVARIANTS
    TypeOK
    
    CompleteIsTrue
    
    SentHasArrived
CHECK_DEADLOCK FALSE
