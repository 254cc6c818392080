\* Two users and a group; messages come while a chat is open, cached or neither.
CONSTANTS
    User = {u1, u2}
    Group = {g1}
    NoContact = NoContact
    MaxMessages = 2
    MaxItems = 3
    MaxFiles = 1
SPECIFICATION Spec
SYMMETRY Symmetry
INVARIANTS
    TypeOK
    UnreadMatchesRows
    HistoryMatchesRows
    BadgeIsCount
    ShownFitsTheKey
    OpenChatIsRead
PROPERTIES
    NothingShownIsForgotten
    DecryptedStaysReadable
