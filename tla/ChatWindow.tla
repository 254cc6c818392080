----------------------------- MODULE ChatWindow -----------------------------
(***************************************************************************)
(* The chat window (ui/ChatWindow.cpp) and its SQLite table                *)
(* (ui/MessageDB.cpp): the open chat, the cached chats, unread counts and  *)
(* their badges in the sidebar, through restarts of the program.           *)
(*                                                                         *)
(* Everything here runs on the ui thread; a slot is one action.  A contact *)
(* is a user or a group.  Their names do not clash: a user id ends in #    *)
(* and four digits.  A bubble is the number of the message it shows; the   *)
(* widget of an outgoing file, which lives among the bubbles, is 0.        *)
(* Received messages are shown encrypted until Decrypt is clicked.         *)
(***************************************************************************)
EXTENDS Naturals, Sequences, FiniteSets, SequencesExt, Positions

CONSTANTS
    User, Group, NoContact,
    MaxMessages,   \* bound: messages sent and received in a behaviour
    MaxItems,      \* bound: rows of the sidebar
    MaxFiles       \* bound: files attached in a behaviour

ASSUME WindowAssumption ==
    /\ User \cap Group = {} /\ NoContact \notin User \cup Group /\ IsFiniteSet(User)
    /\ {MaxMessages, MaxItems, MaxFiles} \subseteq Nat

VARIABLES
    window,          \* "open", or "closed": the program does not run
    isOpen,          \* db_.isOpen()
    rows,            \* the table messages, in order of id
    unreadCounts,    \* unreadCounts_; 0 is no entry
    currentContact,  \* currentContact_, and with it currentIsGroup_
    currentMessages, \* currentMessages_
    messageHistory,  \* messageHistory_
    opened,          \* isDecrypted_ of the bubbles of received messages
    contactList,     \* the rows of ui->contactList, without its two headers
    messageLog,      \* history: every message so far, the chat it was written in and whether here
    files,           \* number of files attached so far
    cleared          \* history: onServerDisconnected ran since the start

chatVars == <<currentContact, currentMessages, messageHistory>>
vars == <<window, isOpen, rows, unreadCounts, chatVars, opened, contactList, messageLog, files, cleared>>

lastMessage == Len(messageLog)

Contact == User \cup Group

Row == [contact : Contact, id : Nat, isOwn : BOOLEAN, isRead : BOOLEAN]

-----------------------------------------------------------------------------
(* MessageDB.  If the database is not open every operation does nothing. *)

\* Mutant: no condition on contact.
markAsReadAll(c, table) == [i \in DOMAIN table |-> [table[i] EXCEPT !.isRead = TRUE]]

markAsRead(c, table) ==
    [i \in DOMAIN table |-> IF table[i].contact = c THEN [table[i] EXCEPT !.isRead = TRUE]
                                                    ELSE table[i]]

saveMessage(row) == IF isOpen THEN Append(rows, row) ELSE rows

getAllUnreadCounts ==
    [c \in Contact |->
        Cardinality({i \in DOMAIN rows : rows[i].contact = c /\ ~rows[i].isRead /\ ~rows[i].isOwn})]

\* Mutant: no condition on contact.
StoredOfAll(c, table) == [i \in DOMAIN table |-> table[i].id]

\* loadMessages, as loadHistoryForContact shows it
Stored(c, table) ==
    LET own == Picked(table, {i \in DOMAIN table : table[i].contact = c})
    IN  [i \in DOMAIN own |-> own[i].id]

-----------------------------------------------------------------------------
(* The sidebar. *)

Item(c, badge) == [contact |-> c, badge |-> badge]

\* updateContactBadge: only the first row of the contact.
updateContactBadge(c, counts) ==
    LET at == {i \in DOMAIN contactList : contactList[i].contact = c}
    IN  contactList' = [i \in DOMAIN contactList |->
            IF i \in at /\ \A j \in at : i <= j THEN Item(c, counts[c]) ELSE contactList[i]]

\* addMessageToChat, addEncryptedMessage and onAttachClicked: a new bubble
AddBubble(b) ==
    /\ currentMessages' = Append(currentMessages, b)
    /\ messageHistory' = [c \in DOMAIN messageHistory \cup {currentContact} |->
                            IF c = currentContact THEN currentMessages' ELSE messageHistory[c]]

-----------------------------------------------------------------------------
(* Slots. *)

\* loadHistoryForContact makes new bubbles for what it loads.
Lock(c) == opened' = IF c \in DOMAIN messageHistory THEN opened ELSE opened \ ToSet(Stored(c, rows))

\* Mutant: the chat that is left is not put back into the cache.
switchToContactForgetting(c) ==
    /\ window = "open"
    /\ \E i \in DOMAIN contactList : contactList[i].contact = c
    /\ rows' = IF isOpen THEN markAsRead(c, rows) ELSE rows
    /\ unreadCounts' = [unreadCounts EXCEPT ![c] = 0]
    /\ updateContactBadge(c, unreadCounts')
    /\ currentContact' = c
    /\ messageHistory' = [d \in (DOMAIN messageHistory \cup {c}) \ {currentContact} |->
            IF d \in DOMAIN messageHistory THEN messageHistory[d]
            ELSE IF isOpen THEN Stored(c, rows) ELSE <<>>]
    /\ currentMessages' = IF c = currentContact THEN <<>> ELSE messageHistory'[c]
    /\ Lock(c)
    /\ UNCHANGED <<window, isOpen, messageLog, files, cleared>>

\* Mutant: a chat is put back into the cache even if none was open.
switchToContactFirst(c) ==
    /\ window = "open"
    /\ \E i \in DOMAIN contactList : contactList[i].contact = c
    /\ rows' = IF isOpen THEN markAsRead(c, rows) ELSE rows
    /\ unreadCounts' = [unreadCounts EXCEPT ![c] = 0]
    /\ updateContactBadge(c, unreadCounts')
    /\ currentContact' = c
    /\ messageHistory' = [d \in DOMAIN messageHistory \cup {c, currentContact} |->
            IF d = currentContact THEN currentMessages
            ELSE IF d \in DOMAIN messageHistory THEN messageHistory[d]
            ELSE IF isOpen THEN Stored(c, rows) ELSE <<>>]
    /\ currentMessages' = messageHistory'[c]
    /\ Lock(c)
    /\ UNCHANGED <<window, isOpen, messageLog, files, cleared>>

\* Mutant: the bubbles of the chat that is left are not taken away.
switchToContactKeeping(c) ==
    /\ window = "open"
    /\ \E i \in DOMAIN contactList : contactList[i].contact = c
    /\ rows' = IF isOpen THEN markAsRead(c, rows) ELSE rows
    /\ unreadCounts' = [unreadCounts EXCEPT ![c] = 0]
    /\ updateContactBadge(c, unreadCounts')
    /\ currentContact' = c
    /\ messageHistory' = [d \in DOMAIN messageHistory \cup {c} \cup ({currentContact} \ {NoContact}) |->
            IF d = currentContact THEN currentMessages
            ELSE IF d \in DOMAIN messageHistory THEN messageHistory[d]
            ELSE IF isOpen THEN Stored(c, rows) ELSE <<>>]
    /\ currentMessages' = IF c = currentContact THEN currentMessages
                          ELSE currentMessages \o messageHistory'[c]
    /\ Lock(c)
    /\ UNCHANGED <<window, isOpen, messageLog, files, cleared>>

\* Mutant: the database is preferred to the cache.
switchToContactReloading(c) ==
    /\ window = "open"
    /\ \E i \in DOMAIN contactList : contactList[i].contact = c
    /\ rows' = IF isOpen THEN markAsRead(c, rows) ELSE rows
    /\ unreadCounts' = [unreadCounts EXCEPT ![c] = 0]
    /\ updateContactBadge(c, unreadCounts')
    /\ currentContact' = c
    /\ messageHistory' = [d \in DOMAIN messageHistory \cup {c} \cup ({currentContact} \ {NoContact}) |->
            IF d = c THEN IF isOpen THEN Stored(c, rows) ELSE <<>>
            ELSE IF d = currentContact THEN currentMessages
            ELSE messageHistory[d]]
    /\ currentMessages' = messageHistory'[c]
    /\ opened' = opened \ ToSet(Stored(c, rows))
    /\ UNCHANGED <<window, isOpen, messageLog, files, cleared>>

\* onContactClicked and switchToContact.  The cache is preferred to the database.
switchToContact(c) ==
    /\ window = "open"
    /\ \E i \in DOMAIN contactList : contactList[i].contact = c
    /\ rows' = IF isOpen THEN markAsRead(c, rows) ELSE rows
    /\ unreadCounts' = [unreadCounts EXCEPT ![c] = 0]
    /\ updateContactBadge(c, unreadCounts')
    /\ currentContact' = c
    /\ messageHistory' = [d \in DOMAIN messageHistory \cup {c} \cup ({currentContact} \ {NoContact}) |->
            IF d = currentContact THEN currentMessages
            ELSE IF d \in DOMAIN messageHistory THEN messageHistory[d]
            ELSE IF isOpen THEN Stored(c, rows) ELSE <<>>]
    /\ currentMessages' = messageHistory'[c]
    /\ Lock(c)
    /\ UNCHANGED <<window, isOpen, messageLog, files, cleared>>

\* A message of the chat c, with the next number.
NewMessage(c, isOwn) ==
    /\ window = "open" /\ lastMessage < MaxMessages
    /\ messageLog' = Append(messageLog, [chat |-> c, isOwn |-> isOwn])

\* onSendClicked
Send ==
    /\ currentContact # NoContact /\ NewMessage(currentContact, TRUE)
    /\ rows' = saveMessage([contact |-> currentContact, id |-> lastMessage', isOwn |-> TRUE,
                            isRead |-> TRUE])
    /\ AddBubble(lastMessage')
    /\ UNCHANGED <<window, isOpen, unreadCounts, currentContact, opened, contactList, files, cleared>>

\* onAttachClicked; nothing is saved.
Attach ==
    /\ window = "open" /\ currentContact # NoContact /\ files < MaxFiles
    /\ files' = files + 1
    /\ AddBubble(0)
    /\ UNCHANGED <<window, isOpen, rows, unreadCounts, currentContact, opened, contactList, messageLog,
                   cleared>>

\* A message for a chat that is not open.
CountUnread(c) ==
    /\ rows' = saveMessage([contact |-> c, id |-> lastMessage', isOwn |-> FALSE, isRead |-> FALSE])
    /\ unreadCounts' = [unreadCounts EXCEPT ![c] = @ + 1]
    /\ UNCHANGED <<currentMessages, messageHistory>>

\* Mutant: a message for the open chat is not marked in the table.
ReceiveUnmarked(c) ==
    /\ NewMessage(c, FALSE)
    /\ IF c = currentContact
       THEN /\ AddBubble(lastMessage')
            /\ rows' = saveMessage([contact |-> c, id |-> lastMessage', isOwn |-> FALSE, isRead |-> FALSE])
            /\ unreadCounts' = [unreadCounts EXCEPT ![c] = 0]
       ELSE CountUnread(c)
    /\ updateContactBadge(c, unreadCounts')
    /\ UNCHANGED <<window, isOpen, currentContact, opened, files, cleared>>

\* onMessageReceived (c is the sender) and onGroupMessageReceived (c is the group);
\* markAsRead comes after the new row.
Receive(c) ==
    /\ NewMessage(c, FALSE)
    /\ IF c = currentContact
       THEN /\ AddBubble(lastMessage')
            /\ LET saved == saveMessage([contact |-> c, id |-> lastMessage', isOwn |-> FALSE,
                                         isRead |-> FALSE])
               IN  rows' = IF isOpen THEN markAsRead(c, saved) ELSE saved
            /\ unreadCounts' = [unreadCounts EXCEPT ![c] = 0]
       ELSE CountUnread(c)
    /\ updateContactBadge(c, unreadCounts')
    /\ UNCHANGED <<window, isOpen, currentContact, opened, files, cleared>>

\* A message of the group g that u wrote while this user was absent.  It comes
\* without the name of the group: handleGroupMessage takes u for the group and the
\* ciphertext up to a zero byte for the sender.  It is no message of an open chat,
\* since u is no group, and nothing can be decrypted any more.  (Without a zero byte
\* it is dropped.)
ReceiveStored(u, g) ==
    /\ NewMessage(g, FALSE)
    /\ CountUnread(u)
    /\ updateContactBadge(u, unreadCounts')
    /\ UNCHANGED <<window, isOpen, currentContact, opened, files, cleared>>

\* getSharedKey: the key is that of the open chat.
KeyFits(id) == messageLog[id].chat = currentContact

\* onDecryptClicked, on a bubble of the open chat that still has its button; a key that
\* does not fit is reported and changes nothing.
Decrypt(id) ==
    /\ window = "open" /\ id \in ToSet(currentMessages) \ opened /\ ~messageLog[id].isOwn
    /\ KeyFits(id)
    /\ opened' = opened \cup {id}
    /\ UNCHANGED <<window, isOpen, rows, unreadCounts, chatVars, contactList, messageLog, files, cleared>>

\* Mutant: the rows are made without badges.
onUserListReceivedBare(online) ==
    /\ window = "open"
    /\ \E us \in SetToSeqs(online) :
          contactList' = [i \in DOMAIN us |-> Item(us[i], 0)]
    /\ UNCHANGED <<window, isOpen, rows, unreadCounts, chatVars, opened, messageLog, files, cleared>>

\* The whole sidebar is rebuilt, without its groups; the server lists users in any order.
onUserListReceived(online) ==
    /\ window = "open"
    /\ \E us \in SetToSeqs(online) :
          contactList' = [i \in DOMAIN us |-> Item(us[i], unreadCounts[us[i]])]
    /\ UNCHANGED <<window, isOpen, rows, unreadCounts, chatVars, opened, messageLog, files, cleared>>

\* onCreateGroupClicked adds two rows, onJoinGroupClicked one, whatever the server says.
AddGroup(g, items) ==
    /\ window = "open"
    /\ Len(contactList) + Len(items) <= MaxItems
    /\ contactList' = contactList \o items
    /\ UNCHANGED <<window, isOpen, rows, unreadCounts, chatVars, opened, messageLog, files, cleared>>

onCreateGroupClicked(g) == AddGroup(g, <<Item(g, 0), Item(g, 0)>>)

onJoinGroupClicked(g) == AddGroup(g, <<Item(g, 0)>>)

\* Runs when a connection attempt fails while the window is open.
onServerDisconnected ==
    /\ window = "open"
    /\ rows' = IF isOpen THEN <<>> ELSE rows
    /\ unreadCounts' = [c \in Contact |-> 0]
    /\ currentContact' = NoContact
    /\ currentMessages' = <<>>
    /\ messageHistory' = [c \in {} |-> <<>>]
    /\ contactList' = Picked(contactList, {i \in DOMAIN contactList : contactList[i].contact \in User})
    /\ cleared' = TRUE /\ opened' = {}
    /\ UNCHANGED <<window, isOpen, messageLog, files>>

-----------------------------------------------------------------------------
(* The program starts and ends. *)

\* The memory of a process that has just started, or does not run.
Blank ==
    /\ currentContact' = NoContact /\ currentMessages' = <<>>
    /\ messageHistory' = [c \in {} |-> <<>>]
    /\ contactList' = <<>> /\ opened' = {} /\ cleared' = FALSE
    /\ UNCHANGED <<messageLog, files>>

\* ChatWindow and initDatabase; `ok' is false if the database cannot be opened.
Start(ok) ==
    /\ window = "closed"
    /\ window' = "open" /\ isOpen' = ok
    /\ unreadCounts' = IF ok THEN getAllUnreadCounts ELSE [c \in Contact |-> 0]
    /\ UNCHANGED rows
    /\ Blank

End ==
    /\ window = "open"
    /\ window' = "closed" /\ isOpen' = FALSE
    /\ unreadCounts' = [c \in Contact |-> 0]
    /\ Blank

\* closeEvent
Close == End /\ rows' = IF isOpen THEN <<>> ELSE rows

\* The process is killed.
Kill == End /\ UNCHANGED rows

Init ==
    /\ window = "closed" /\ isOpen = FALSE /\ rows = <<>>
    /\ unreadCounts = [c \in Contact |-> 0]
    /\ currentContact = NoContact /\ currentMessages = <<>>
    /\ messageHistory = [c \in {} |-> <<>>]
    /\ contactList = <<>> /\ opened = {} /\ cleared = FALSE
    /\ messageLog = <<>> /\ files = 0

Next ==
    \/ \E c \in Contact : switchToContact(c) \/ Receive(c)
    \/ \E u \in User, g \in Group : ReceiveStored(u, g)
    \/ \E id \in 1..lastMessage : Decrypt(id)
    \/ Send \/ Attach
    \/ \E online \in SUBSET User : onUserListReceived(online)
    \/ \E g \in Group : onCreateGroupClicked(g) \/ onJoinGroupClicked(g)
    \/ onServerDisconnected
    \/ (\E ok \in BOOLEAN : Start(ok)) \/ Close \/ Kill

Spec == Init /\ [][Next]_vars

-----------------------------------------------------------------------------
(* Types. *)
TypeOK ==
    /\ window \in {"open", "closed"} /\ isOpen \in BOOLEAN
    /\ rows \in Seq(Row)
    /\ unreadCounts \in [Contact -> Nat]
    /\ currentContact \in Contact \cup {NoContact}
    /\ currentMessages \in Seq(Nat)
    /\ DOMAIN messageHistory \subseteq Contact
    /\ messageHistory \in [DOMAIN messageHistory -> Seq(Nat)]
    /\ contactList \in Seq([contact : Contact, badge : Nat])
    /\ opened \subseteq DOMAIN messageLog
    /\ messageLog \in Seq([chat : Contact, isOwn : BOOLEAN])
    /\ files \in Nat /\ cleared \in BOOLEAN

(* The counters kept in memory are those the database would give: a restart shows
   the same unread counts.                                                      *)
UnreadMatchesRows == window = "open" /\ isOpen => unreadCounts = getAllUnreadCounts

Bubbles(q) == Picked(q, {i \in DOMAIN q : q[i] # 0})

IsSubsequenceOf(p, q) ==
    \E at \in [DOMAIN p -> DOMAIN q] :
        /\ \A i \in DOMAIN p : p[i] = q[at[i]]
        /\ \A i, j \in DOMAIN p : i < j => at[i] < at[j]

(* What an open chat shows, and what is cached of any other, are messages of that
   contact, in the order of the database and none twice, whichever part of them
   was loaded and whichever was added later.                                    *)
HistoryMatchesRows ==
    window = "open" /\ isOpen =>
        /\ \A c \in DOMAIN messageHistory :
              IsSubsequenceOf(Bubbles(messageHistory[c]), Stored(c, rows))
        /\ currentContact # NoContact =>
              IsSubsequenceOf(Bubbles(currentMessages), Stored(currentContact, rows))

(* Everything the open chat shows was encrypted with the key that Decrypt would use,
   which is the key of the open chat and not of the bubble, however chats were
   switched, cached and loaded; only group messages filed under their sender are not. *)
ShownFitsTheKey ==
    \A id \in ToSet(Bubbles(currentMessages)) :
        KeyFits(id) \/ (messageLog[id].chat \in Group /\ currentContact \in User)

(* The table has no unread messages of the open chat: those it had were marked when
   it was opened, and new ones are marked when they come.  Only group messages filed
   under their sender are counted as unread while that sender's chat is open.        *)
OpenChatIsRead ==
    window = "open" /\ isOpen =>
        \A i \in DOMAIN rows :
            rows[i].contact = currentContact /\ ~rows[i].isRead => ~KeyFits(rows[i].id)

(* The badge of a user in the sidebar is the unread count, whether the row was made
   before or after the messages came.  (Groups are added without a badge, and the
   loss of the server forgets the counts and leaves the badges.)                *)
BadgeIsCount ==
    window = "open" /\ ~cleared =>
        \A i \in DOMAIN contactList :
            LET c == contactList[i].contact
            IN  c \in User => contactList[i].badge = unreadCounts[c]

(* What a chat has shown stays in it as long as the window lives: no switch, no
   new message and no user list takes a bubble away.  (Only the loss of the server,
   after which no chat is open, does.)                                          *)
NothingShownIsForgotten ==
    [][ \A c \in DOMAIN messageHistory :
          currentContact' # NoContact =>
              c \in DOMAIN messageHistory' /\ IsPrefix(messageHistory[c], messageHistory'[c]) ]_vars

(* A message that was decrypted stays readable as long as the window lives: coming
   back to a chat never brings a locked bubble in its place.                       *)
DecryptedStaysReadable == [][window' = "open" /\ ~cleared' => opened \subseteq opened']_vars

-----------------------------------------------------------------------------
(* What the documents say and the code does not keep. *)

(* Opening a chat shows all messages of the session with that contact.          *)
OpenChatIsComplete ==
    window = "open" /\ isOpen /\ currentContact # NoContact =>
        Bubbles(currentMessages) = Stored(currentContact, rows)
=============================================================================
