\* A message comes for a chat that was opened before and is not open now.
CONSTANTS
    User = {u1, u2}
    Group = {}
    NoContact = NoContact
    MaxMessages = 1
    MaxItems = 2
    MaxFiles = 0
SPECIFICATION Spec
INVARIANT OpenChatIsComplete
