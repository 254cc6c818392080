\* A user name with a '|' in it.
CONSTANTS
    Username <- PipedNames
    Password = {p1}
    Tag = {t1}
    Unusable = Unusable
    NoUserID = NoUserID
SPECIFICATION Spec
INVARIANT StopKeepsAccounts
