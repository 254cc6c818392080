\* Two accounts through stops, kills and restarts.
CONSTANTS
    Username <- PlainNames
    Password = {p1, p2}
    Tag = {t1, t2}
    Unusable = Unusable
    NoUserID = NoUserID
SPECIFICATION Spec
SYMMETRY Symmetry
INVARIANTS
    TypeOK
    StopKeepsAccounts
    
 
