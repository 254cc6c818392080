\* A file of one chunk is sent to a group.
CONSTANTS
    User = {u1, u2}
    Group = {g1}
    FileName = {f1}
    MaxTransfers = 1
    MaxChunks = 1
    MaxQueue = 1
    MaxFailures = 0
SPECIFICATION Spec
INVARIANT GroupFilesAreWhole
CHECK_DEADLOCK FALSE
