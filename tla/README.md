# A TLA+ verification development of LanShare

LanShare is a chat and file-sharing program for a local network: one server
process, and clients that connect to it over TCP. The directory holds TLA+
modules that model the program's own logic, TLC configurations that check them
on small instances, and proofs checked by TLAPS that hold for every instance.
Paths below are relative to `src/LanShareCPP_Complete/`; `src/README.md` is the
repository's own documentation.

`PROJECT.json` says for every definition of a module which lines of the source
it models (`map`), and lists the hazards of the code with the properties that
watch them.

## 1. The system

### Components

| Component | State | Operations | Modelled by |
|---|---|---|---|
| Server core (`server/ServerCore`) | `clients_`: user id to session, under `clientsMutex_`; the acceptor; `running_` | accept, `registerClient`, `unregisterClient`, `getClient`, `stop` | `LanShareServer` (registry), `AuthManager` (start, stop) |
| Client session (`server/ClientSession`) | socket, `writeQueue_`, `writing_`, `userID_`, `authenticated_`; lifetime by `shared_ptr` | read header, read payload, one handler per request type, `sendMessage`, `writeNext`, `handleError`, the destructor | `LanShareServer` |
| Message router (`server/MessageRouter`) | `offlineMessages_` per user | route private, group and file messages; store; deliver at login | `LanShareServer`, `MessageRelay`; its file half again in `FileTransfer` |
| Group manager (`server/GroupManager`) | `groups_`: name to creator, join code, members | create, join, leave, membership queries | `GroupManager` |
| Accounts (`server/AuthManager`, `server/main.cpp`) | `users_`, the file `users.db` | register, authenticate, save on a signal, load at start | `AuthManager`, `AccountStore` |
| Client core (`client/ClientCore`) | socket, `connected_`, `authenticated_`, write queue and `writing_`, incoming files | connect, disconnect, send, read chain, callbacks | `ClientCore` |
| File transfer (in `ClientCore`, with widgets of `ChatWindow`) | `incomingFiles_`: one file per sender; a detached thread per file sent; `activeTransfers_`: one widget per contact; the folder Downloads | attach; metadata, chunk, complete at sender, server and receiver; sent, failed | `FileTransfer` |
| Chat window and its database (`ui/ChatWindow`, `ui/MessageDB`) | current chat, history, decrypted bubbles, online list, unread counts, SQLite rows | switch chat, receive, decrypt, send, refresh, start, close | `ChatWindow` |
| Login window (`ui/LoginWindow`) | pending action, disabled buttons, delayed opening of the chat window | connect, log in, register, answer | `ClientCore` |
| Encryption (`common/AESGCM`) and widgets | none of its own; decrypted or not, finished or not | derive a key, decrypt; finish a widget | which key fits: `ChatWindow`, `FileTransfer` |
| Wire format, menu client (`client/main.cpp`) | none that matters here | | not modelled, see section 8 |

### How they interact

* **Calls.** A request that arrives on a session's socket is handled by that
  session, which calls `AuthManager`, `GroupManager`, `MessageRouter` and the
  registry synchronously. The router calls `sendMessage` of *other* sessions.
* **Completion handlers.** Each session has two chains of asynchronous
  operations: `readHeader`, `readPayload`, handle, `readHeader` ...; and
  `writeNext`, handler, `writeNext` ... as long as the queue is not empty. One
  thread runs all of them, so a handler is atomic; the order of handlers of
  different connections is not determined.
* **Object lifetime as control flow.** A session is kept alive by the entry in
  `clients_` and by the `self` captured in every handler still to run. When the
  last of them goes, `~ClientSession` runs, *inside whatever statement dropped
  it*, and it calls `unregisterClient`, which locks `clientsMutex_`.
* **Threads.** The system calls `signalHandler` in a thread of its own (the
  program is built for Windows, `src/README.md`:10 and 131), so the save of
  `users.db` runs beside the thread that registers users.
* **Two threads in the client.** The ui thread runs the windows, the io thread
  the completion handlers; a file is sent by a thread of its own. Requests go
  from any of them through one write queue; what arrives goes from the io thread
  to the windows through Qt's event queue, by callbacks that a window sets when
  it is made.
* **Network.** A connection may end at any moment, with requests unread and
  answers unsent, and a user may have several connections, old and new.

### What is hard here, and the properties that make each part correct

* *Registry.* Entries are written by logins, logouts and destructors of several
  sessions of one user in any order. Correct when an entry always names a
  session that authenticated as that user, and a live user is listed, a dead one
  is not, and no destructor runs under the registry's lock.
* *Session.* The two chains must neither stop early (a message waits for ever)
  nor run twice (two writes at once), whichever of read, write and peer fails
  first.
* *Router.* Whether a message is forwarded or stored depends on the registry at
  that moment. Correct when every message taken charge of exists exactly once
  per addressee, in routing order, and never goes to another user's connection.
* *Groups.* A group lives as long as it has members; its code and creator never
  change; the name is free afterwards.
* *Accounts.* A proper stop keeps every account; a kill, even in the middle of
  the save, never lets somebody in with a wrong or old password.
* *Client.* One chain of writes, whoever queues requests and whatever handler is
  running; the login window gets its buttons back; a lost connection is noticed.
* *Chat window.* The open chat, the cached chats, the rows of the table, the
  unread counts and the sidebar say the same; nothing shown disappears.
* *Files.* What is saved is what one file of one sender held, whoever ended or
  broke off in between; a widget that says `complete` is right, and one that says
  `active` belongs to a file that is still under way.

## 2. The modules

| Module | What it is |
|---|---|
| `GroupManager` | the group table; an operator per method, and its own properties |
| `LanShareServer` | registry, sessions, router; instantiates `GroupManager` as `GM` on its variable `groups` |
| `MessageRelay` | the abstract specification of what the router promises, which `LanShareServer` implements |
| `MCServer` | symmetry sets for TLC |
| `LanShareServerProofs` | proofs about `LanShareServer`: types, registry, groups, order |
| `ServerRelayProofs` | that `LanShareServer` implements `MessageRelay`, and where every copy is |
| `AccountStore` | the abstract specification of what happens to accounts |
| `AuthManager` | accounts, `users.db` and the server process; implements `AccountStore` |
| `MCAuth` | concrete user names for TLC |
| `AuthManagerProofs` | proofs about `AuthManager`, its refinement included |
| `ClientCore` | one client: connection, write queue, login window, and the callbacks of the chat window |
| `ClientCoreProofs` | proofs about `ClientCore`: the write queue, and what the windows see |
| `ChatWindow` | the chat window and its SQLite table |
| `MCChat` | symmetry set for TLC |
| `ChatWindowProofs` | proofs about `ChatWindow` |
| `FileTransfer` | files between users: sender threads, server, receivers, widgets |
| `MCFile` | symmetry set for TLC |
| `FileTransferProofs` | proofs about `FileTransfer`: types, and widgets that say `complete` |
| `FileArrivalProofs` | what arrives of a file, by the order of its pieces in the two queues |
| `Positions`, `PositionsProofs` | elements at some positions of a sequence, without recursion, and facts about them |

An operator whose comment begins with *Mutant:* is a version of the definition
after it with a plausible bug in it. It is part of no specification. It is put
in the place of the original to see that a property notices.

### LanShareServer

| Variable | Code |
|---|---|
| `clients` | `ServerCore::clients_` |
| `ioThread` | whether the thread of `ioContext_.run()` waits for a mutex it holds |
| `registered` | the ids `AuthManager` knows |
| `groups` | `GroupManager::groups_` |
| `offlineMessages` | `MessageRouter::offlineMessages_` |
| `sock` | `socket_` is open at the server |
| `reading` | the read chain: `none`, `pending` (a read is armed), `ready` (its data arrived and the handler is queued) |
| `writing` | `idle` is `writing_ = false`; `pending`: `async_write` under way; `failed`: `writing_` stayed true after an error |
| `writeQueue`, `userID`, `authenticated` | the session's members |
| `peer` | environment: the client's end |
| `wire`, `lastID`, `accepted`, `identities` | history for the properties; no guard reads them except the bound on `lastID` |

`HandleRequest(s)` has one disjunct per kind of request in
`ClientSession::handleMessage`. A handler with its router calls is one action:
`HandleAuthLogin` assigns the identity, changes the registry, queues the answer
and flushes the offline store. Requests that change nothing but the sender's
queue (ping, user list, every refusal) are `HandleAnswered`. `ReadError`,
`WriteHandler` and `WriteError` are the other completion handlers,
`AcceptConnection` the acceptor's, `PeerLeaves` the environment.

`Held`, `Evicts` and `DropSelf` model the shared pointers. `Evicts` says that an
assignment to `clients_` drops the last reference; as the destructor then locks
the mutex its caller holds, `ioThread` becomes `blocked` and no action is
enabled again. The standard leaves locking a `std::mutex` twice undefined; the
builds of the program wait.

A message keeps its number, its addressee and the group name in its payload.
Payloads, senders and timestamps are opaque.

`MessageRelay` says the same thing without sessions: a copy waits in the store,
then on a connection, then has left. `ImplementsRelay` maps its three variables
to `offlineMessages`, all `writeQueue`s and all `wire`s. It forbids what no state
invariant sees: a copy that goes back to the store when its connection fails, a
store that is flushed in part, a new message that is queued while older ones of
the same user are stored.

### AuthManager

Every method holds `mutex_` for its body and is one action. `saveToFile` is four
(`OpenFile`, `WriteUser`, `CloseFile`, `OpenFails`), because `Kill` may come in
between and leaves a prefix of the lines, the last one possibly torn. User names
are sequences of parts between `|` characters, so that `Parsed` can do what
`loadFromFile` does with a name that contains the separator. Lines are written
in arbitrary order: `users_` is a hash table.

The refinement `ImplementsAccountStore` maps `durable` to what the next start
would load, and to what it would have loaded before the save while the save is
under way: in `AccountStore` a save is one step, or is cut short by
`KilledWhileSaving`.

### ClientCore

The network handlers are actions of the io thread (`ConnectHandler`, `writeNext`,
`WriteHandler`, `WriteError`, `ReadHandler`, `ReadError`), the clicks and slots
actions of the ui thread (`ClickLogin`, `RunEvent`, `OpenChatWindow`, `Request`,
`BeginClose`, `FinishClose`), and `ServerAnswers`, `ServerSends`, `LinkBreaks`
the environment.

* `sendMessage` appends, exchanges `writing_` and posts `writeNext` if it was
  false. The append and the exchange are under `writeMutex_`; the post follows
  at once, on the same thread, and nothing can tell that it comes later. It is
  one step.
* `disconnect` on the ui thread is two steps, because a handler may run between
  the queued logout and the closing of the socket.
* `uiEvents` is Qt's queue. A handler chooses the callback that is set when it
  runs: before the chat window exists, a message is dropped.
* `writeNext` hands `async_write` a buffer in a local variable, and what the
  socket does not take during that call is sent later from freed memory. Only a
  message larger than the socket's buffer is at risk, in practice a file chunk:
  `FileTransfer` models what comes of it, this module does not.
* `connected_` and `socket_` are used by both threads without a lock. The model
  takes each step of `disconnect` as one.

### ChatWindow

| Variable | Code |
|---|---|
| `window` | whether the program runs |
| `isOpen`, `rows` | `db_`: open, and the table `messages` |
| `unreadCounts`, `currentContact`, `currentMessages`, `messageHistory` | the members of the same names |
| `contactList` | the rows of the sidebar: contact, and the count in the text |
| `opened` | `isDecrypted_` of the bubbles of received messages |
| `messageLog`, `files`, `cleared` | bounds and history: which chat a message was written in, and by whom |

A slot is one action, with the database call, the counters and the badge it
changes. `Start` opens the table a former process left, `Close` clears it,
`Kill` does not. The messages that `Receive` brings are those of
`ClientCore`'s `OnMessage`; the two modules meet in this callback only, and are
checked apart.

* A received message is shown locked, and `Decrypt` opens it with the key that
  `getSharedKey` derives from the *open* chat (`KeyFits`), not from the bubble.
  With another key GCM refuses, and nothing changes.
* `ReceiveStored` is a group message that the server had stored. It comes without
  the group's name, so that `handleGroupMessage` takes the sender for the group,
  and part of the ciphertext for the sender if that has a zero byte. Such messages
  follow the login at once and are mostly read before there is a chat window
  (section 5); on a slow network they come later, and are what the exceptions in
  `ShownFitsTheKey` and `OpenChatIsRead` are for.
* A group could be named like a user id; the model takes the names apart.

### FileTransfer

| Variable | Code |
|---|---|
| `program`, `link` | whether a user's client runs, logged in or with a chat window; whether its connection is up and its entry in `clients_` is there |
| `transfers` | the calls of `sendFile`, each with the place its thread has reached |
| `outbox`, `inbox` | what is on its way from a client to the server's handler, and from there to the client's |
| `incomingFiles` | `incomingFiles_` per receiver and sender |
| `downloads` | the folder Downloads |
| `activeTransfers`, `widgets` | `activeTransfers_`, and what each `FileTransferWidget` says |
| `delivered`, `overlaps`, `mishaps` | history for the properties; no guard reads them |
| `failures` | a bound |

`OpenFails`, `SendMeta`, `SendChunk` and `SendComplete` are the steps of the thread,
between which everything else may run; `RouteFile` is the server's handler; the
three handlers of the receiver have the names of the code. `Unlist`, `Break` and
`Leave` are what goes wrong: another session of the user erases the entry, the
connection breaks, the program ends.

* The queues of `ClientCore`, the socket and the session's reads are one `outbox`;
  the session's queue, the socket and the client's reads one `inbox`. They keep
  the order, which `RequestsInOrder` and `FifoPerConnection` say. `MaxQueue` is
  a bound: a thread or the server waits where the code's queues would grow.
* A chunk is the pair of its file and its index; a saved file is a sequence of
  such pairs, so that a mixture of two files is visible.
* A chunk's key is derived from two names, and `KeysAgree` compares those of the
  sender with those of the receiver.
* That a chunk came garbled (see `ClientCore`) is chosen when it is received; it
  then cannot be decrypted and is skipped.
* A callback and its slot are one step: the slots run in the order of the callbacks
  and share nothing with the io thread. That the error box of a failed file stops
  no other slot is Qt's nested event loop.
* Each user has one connection at a time, and logs in again only when the server has
  read what was left of the last one. All users are members of all groups.
* A program that ends takes its threads with it (`Leave`); in the code a thread may
  go on for a moment and use a `ClientCore` that is gone.
* Percentages are left out, and so is where on the screen a widget is.

## 3. The runs

### Runs that pass

| Run | Instance | What it shows |
|---|---|---|
| `server_routing` | 2 connections, 2 users, 2 messages | `MessageAccounting`: no routed message is lost or duplicated between store, queue and wire. `FifoPerConnection`: each user's messages leave in routing order, stored ones first. `OnlyToItsAddressee`: no copy reaches a connection its user never authenticated on. While sessions of one user replace and end one another: `OfflineOnlyWhenAbsent`, `NoStalledConnection`, `LoggedOutIsUnlisted`, `ListedIsRegistered`, and `UnlistedOnlyByAnother`: a live user is listed unless another of the user's own connections ended. `ImplementsRelay`: the server implements `MessageRelay`. `TypeOK`. |
| `server_groups` | 2 connections, 2 users, 1 group, 2 codes, 1 message | `MessageAccounting` for the fan-out to a group whose members come and go; `GroupsHaveMembers` and `GroupIdentityStable` of `GM` in the server's context. |
| `server_liveness` | 2 connections, 2 users, 1 message, fair | `QueuedIsTransmitted`: what is queued is sent unless the connection closes. `DeadConnectionEnds`: a session whose client is gone shuts both chains down. |
| `auth_accounts` | 2 names, 2 passwords, 2 tags | `StopKeepsAccounts`, `OnlyTheLatestPassword`, and `ImplementsAccountStore`, over any number of restarts. |
| `client_session` | 3 requests and those the program makes itself, 2 messages, fair | `WriteChain`: one chain of writes, which exists exactly while something is queued. `RequestsInOrder`, `MessagesInOrder`: over reconnections, and from the moment the chat window listens. `ButtonsMeanIdle`: enabled buttons mean nothing is under way anywhere. `EveryClickIsAnswered`, `EveryRequestIsWritten`: unless the connection is lost or the program closed. |
| `chat_window` | 2 users, 1 group, 2 messages, 3 rows of the sidebar, 1 file | `UnreadMatchesRows`: counters in memory and table agree, also after a kill and a restart. `HistoryMatchesRows`: every chat, open or cached, is a part of its rows in their order. `BadgeIsCount`, `NothingShownIsForgotten`. `ShownFitsTheKey`: what a chat shows can be decrypted with that chat's key. `DecryptedStaysReadable`: leaving a chat and coming back locks nothing again. `OpenChatIsRead`: the table has no unread message of the open chat. |
| `file_transfer` | 2 users, 1 group, 1 file name, 2 files with 2 chunks in all, 1 failure | `SavedIsSent`: a saved file is the file sent, unless two of one sender were mixed or a chunk came garbled; in any case its pieces are one sender's, in order. `CompleteIsTrue`, `ActiveIsUnderWay`: what the widgets of both sides say. `SentHasArrived`: what is reported as sent and not under way any more has arrived, unless somebody ended, broke off or was not found. |

### Runs that find a violation

Each states what a document, a comment or a client of the server expects and
finds a behaviour of the code that breaks it. `findings` in `PROJECT.json`
quotes the lines.

| Run | Property | What happens |
|---|---|---|
| `server_hang` | `ServerNeverBlocks` | A user's connection breaks; the session stays in `clients_`. The user logs in again: the assignment in `registerClient` destroys the old session, whose destructor locks `clientsMutex_` again. The server hangs. |
| `auth_piped` | `StopKeepsAccounts` | The name `bob\|work` is read back as `bob` with a useless password. |
| `client_loss` | `LossIsNoticed` | The connection breaks, `handleError` closes the socket, and no callback runs: the window goes on as if connected, and nothing is wiped. |
| `chat_cached` | `OpenChatIsComplete` | Open a chat, open another, receive from the first, open it again: the message is marked as read and is not shown. |
| `file_group` | `GroupFilesAreWhole` | A file is sent to a group. The sender derives the key from its own name and the group's, each member from its own and the sender's: no chunk can be decrypted, and an empty file is saved and reported as received. |

### Bounds, and why they are enough

* `Session`: the connections of a whole behaviour, not only those open at a
  time. Two are enough for a sender and a receiver, or an old and a new
  connection of one user. The proofs cover every number.
* `MaxMessages`: two messages are the least that can be reordered. One is enough
  for accounting in a group: the fan-out makes several copies of it.
* `MaxQueue = 1` only keeps a session from *reading its next request* while
  something waits in its own queue. Queues still grow beyond it, by messages
  routed from other sessions and by the flush at login, so a write chain with
  more than one message in it occurs.
* `UserID` also is the number of ids that can be registered.
* `ClientCore`: `MaxRequests` bounds what the user asks for; the list request of
  the chat window and the logout come on top, so the write queue holds up to
  three requests, and a second connection fits in. Two messages can be reordered
  or split between dropped and shown.
* `ChatWindow`: the sidebar has room for both rows of a group beside a user, or
  for both users. Two messages give a chat that is partly loaded and partly
  received; the window may be closed, killed and started any number of times.
* `FileTransfer`: two files are the least that can be mixed or cross; they may go
  one after the other, at once from one user, or in both directions, to the other
  user or to the group, under the same name. `MaxChunks = 2` is for both together:
  a file of two chunks beside an empty one, or one chunk each, so that a chunk can
  be missing, and one file's can stay in the other's place. Any one failure
  (`MaxFailures`) may come at any moment, and a user may come back after it.
  With `MaxQueue = 1` a piece of a file can be on each of the two ways, and the rest
  is still with its thread; `MaxQueue = 2` lets a sender run ahead by a second piece,
  and the same properties hold (1.6 million states).
* `AuthManager` needs no bound: `usersDB` has at most one line per name and the
  process phases are finite.
* Symmetry is used only in runs without liveness properties. Sessions, users,
  codes, passwords and tags are interchangeable. No operator chooses among them
  except `SetToSeq` in `Copies`, whose order is irrelevant to every property:
  each session receives the copies of one message together, for different users.
* `CHECK_DEADLOCK FALSE` in the server's runs: connections are used up, and a
  blocked thread stops everything; in the client's: a closed program stops; and in
  those of files: all files are sent and all failures used up.
  The runs of accounts and chat window check for deadlock.

### Fairness

`Fairness` is weak fairness of `ReadError`, `WriteHandler`, `WriteError` and of
the handling of a request that *has already arrived*, for each session. It is
what `io_context::run` gives: a queued handler is called, and an operation on a
socket that can complete does. That `WriteHandler` is fair while the peer is up
also assumes that a connected client goes on reading. No fairness is assumed for
clients to connect, send, log out or leave. `AuthManager` is checked for safety
only.

For the client, both threads run what is queued for them, the 500 ms timer
expires, a connection attempt ends, and a server that is reachable answers a
login: `Fairness` of `ClientCore` has one weak fairness condition per handler.
The user, a breaking link and messages from the server are not fair. That an
answer comes is the server's `HandleRequest` and `QueuedIsTransmitted`; it fails
when the server's thread is blocked, which a client sees as a wait without end:
the login window has no timeout.

`FileTransfer` states no fairness. That every transfer comes to an end follows from
steps of the client and the server whose fairness is above. What should hold at
that end is stated of the states in which nothing of a file is under way
(`ActiveIsUnderWay`, `SentHasArrived`), which needs no fairness and is checked with
symmetry.

A blocked thread breaks every liveness property of the server. The two properties of
`server_liveness` therefore have the disjunct `ioThread = "blocked"`, and
`server_hang` says separately that this can happen.

## 4. The proofs

TLC checks each property before and beside the proof: the runs find out what the
instances say, the proofs what all of them do. Every invariant, every action
property and both refinements of the passing runs are proved, for all values of
the constants that satisfy the named assumption of the module. No theorem has a
hypothesis of its own except the two marked below.

A proof module starts with its inductive invariant, in named parts; has lemmas on
the operators of the model, one lemma per action or group of actions that keeps
the invariant, and at the end the theorems, whose last steps are temporal.

### The server

From `ServerAssumption` (finite sets of sessions and users, distinct null values,
natural bounds), in `LanShareServerProofs`:

| Theorem | States |
|---|---|
| `TypeCorrect` | `Spec => []TypeOK` |
| `ConnectionsNeverStall` | `Spec => []NoStalledConnection` |
| `ListedAreRegistered` | `Spec => []ListedIsRegistered` |
| `OfflineOnlyForAbsent` | `Spec => []OfflineOnlyWhenAbsent` |
| `LoggedOutAreUnlisted` | `Spec => []LoggedOutIsUnlisted` |
| `LiveUsersAreListed` | `Spec => []UnlistedOnlyByAnother` |
| `DeliveryIsFifo` | `Spec => []FifoPerConnection` |
| `DeliveryToAddressee` | `Spec => []OnlyToItsAddressee` |
| `NoGroupIsEmpty` | `Spec => []GroupsHaveMembers` |
| `GroupIdentityIsStable` | `Spec => GroupIdentityStable` |

and in `ServerRelayProofs`:

| Theorem | States |
|---|---|
| `ServerImplementsRelay` | `Spec => ImplementsRelay` |
| `NothingLostOrDoubled` | `Spec => []MessageAccounting` |

The invariants are layers, each of which uses those before it:

1. `ConnInv` is `TypeOK`, `NoStalledConnection` and `AbsentIsIdle` (a connection
   not yet accepted has no socket, no handler and no queue). The three need each
   other: `WriteHandler` takes the head of the queue, which is only a message
   because a pending write implies a queue that is not empty, and accepting a
   connection only keeps the chains consistent because it was idle before.
2. `RegistryInv` relates registry, identities and offline store. That a listed
   user has nothing stored is not inductive by itself: a login blocks the thread
   *before* its flush when it evicts a session, so the statement is restricted
   to a running thread. `LoggedOutIsUnlisted` needs that `unregisterClient` of a
   logout erased the entry before `authenticated_` was cleared. `LiveInv` adds
   the converse for live sessions: `UnlistedOnlyByAnother` needs that the user of
   an authenticated session is among the identities it ever had (`KnownInv`).
3. `OrderInv` is order on wire, queue and store together. `Fifo` alone is not
   inductive: a login appends the store to a queue, so everything queued or sent
   for a user must precede what is stored for that user, and everything
   anywhere must have a number of at most `lastID`, so that the next message
   comes last.
4. `CopiesInv` takes queues and wires as sets of copies: two connections never
   share a copy (`OneConnection`), and what was accepted is what is somewhere
   (`Accounted`). That the store shares none with a connection follows from the
   order of layer 3. `CopySteps` reduces the server's actions to four: copies stay,
   are routed, flushed or transmitted. These four are the steps of `MessageRelay`,
   which is the refinement.

`MessageAccounting` counts places. In one line of messages the order of layer 3
leaves each copy one position, and `CopiesInv` leaves it one line: the set of
places is a singleton or empty, and no induction over the sequences is needed.

### Accounts

From `AccountAssumption` (finitely many names, of one or two parts; null values that
are none of the others), in `AuthManagerProofs`:

| Theorem | States |
|---|---|
| `AccountsTypeCorrect` | `Spec => []TypeOK` |
| `OldPasswordsStayOld` | `Spec => []OnlyTheLatestPassword` |
| `AccountsSurviveAStop` | `Spec => []StopKeepsAccounts`, if `NoSeparator` |
| `ServerKeepsAccounts` | `Spec => ImplementsAccountStore`, if `NoSeparator` |

`NoSeparator` says that no user name contains a `|`. The code accepts such names, and
with one the last two statements are false: the run `auth_piped` is the
counterexample. The first two hold for all names.

`FileInv` says what the file has to do with the table: while it is written it has
exactly the lines of the users that are done, with what `users_` holds, and while
the server runs every line that loads as it was written is of a known user, so that
a name that is registered has no line of an older account. `SignalInv` follows
`users_` from the signal into the file: between the signal and the save, registrations
only add to it. `PasswordInv` needs the file and the table together, as either is filled from
the other, and holds of torn lines because a torn hash matches no password.

For the refinement, a finished save is the whole table because nothing is left to
write (`SavedTable`), a killed one is a part of it with one line spoilt at most, the
last (`KilledTable`). Both rest on `LoadedLines`: with one line for each name, loading
does not depend on their order.

### The client

From `ClientAssumption` (the bounds are natural numbers), in `ClientCoreProofs`:

| Theorem | States |
|---|---|
| `ClientTypeCorrect` | `Spec => []TypeOK` |
| `OneWriteChain` | `Spec => []WriteChain` |
| `WrittenInOrder` | `Spec => []RequestsInOrder` |
| `MessagesReachTheWindowInOrder` | `Spec => []MessagesInOrder` |
| `EnabledButtonsMeanIdle` | `Spec => []ButtonsMeanIdle` |

`ChainInv` is what `WriteChain` says without the connection: at most one posted
`writeNext` or outstanding `async_write`, of the message at the front, and none
unless `writing_` is set. `TypeOK` needs it, since `writeNext` and its handler take
the head of the queue. `FirstInv` is why the chain cannot break before a connection
is lost: `handleError` sets no flag when `connected_` is already false, so one has to
know that a client that never was connected has queued nothing, which holds because
the login window connects before it asks and the chat window opens only after an
answer. `OrderInv` relates what is written, what is queued and the last number
given; that what is written increases is not inductive without the queue.
`StepKinds` reduces the fifteen actions to four kinds of step, so that each part
is proved from what a step does to the queue and not action by action.

`StreamInv` says that what is shown, what waits in Qt's queue and what is on the
connection is one increasing sequence, and that everything dropped came before it:
nothing is dropped any more once the chat window listens, and before that nothing can
be shown. `AttemptInv` counts the places where an attempt to log in can be: the
connection, the write queue, the server, its answer, the queued callback. There is at
most one in all of them together and none while the buttons are enabled. It needs to
be told apart whether a request was made, as the window asks only when its connection
succeeded (`Early` and `Late`).

### The chat window

From `WindowAssumption` (users and groups are disjoint, `NoContact` is none of them,
finitely many users, natural bounds), in `ChatWindowProofs`:

| Theorem | States |
|---|---|
| `ChatTypeCorrect` | `Spec => []TypeOK` |
| `CountersMatchTheTable` | `Spec => []UnreadMatchesRows` |
| `ChatsFollowTheTable` | `Spec => []HistoryMatchesRows` |
| `BadgesFollowCounts` | `Spec => []BadgeIsCount` |
| `ShownCanBeDecrypted` | `Spec => []ShownFitsTheKey` |
| `OpenChatsAreRead` | `Spec => []OpenChatIsRead` |
| `ShownStaysShown` | `Spec => NothingShownIsForgotten` |
| `DecryptedIsNeverLocked` | `Spec => DecryptedStaysReadable` |

The invariant is `WindowInv`. Its centre is `Held`, which is stronger than what
`HistoryMatchesRows` says: the bubbles of a chat are messages of that contact, in the
order of their numbers, and any row of the table with the number of a bubble is of the
same contact. The last part makes `loadHistoryForContact` harmless to other chats: it locks the
rows it reads again, and none of them can be a bubble that another chat shows.
`ChatInv` says that the open chat is the one in the cache, since a slot that adds a
bubble writes the one through the other. That counters agree with the table
(`UnreadInv`) needs the table to be in order; that badges agree with counters (`BadgeInv`) needs that a user
has one row in the sidebar, which every user list restores.

What `loadMessages` reads is the rows at some positions. `PositionsProofs` shows that
such a selection keeps the order and has each of its positions once: the `k`-th
position exists because every set of naturals has a least element. This takes the
place of an induction over the table.

### Files

From `FileAssumption` (users and groups are disjoint, natural bounds), in
`FileTransferProofs`:

| Theorem | States |
|---|---|
| `FilesTypeCorrect` | `Spec => []TypeOK` |
| `CompleteWidgetsAreTrue` | `Spec => []CompleteIsTrue` |

and in `FileArrivalProofs`:

| Theorem | States |
|---|---|
| `FilesArriveAsSent` | `Spec => []SavedIsSent` |
| `ActiveWidgetsAreUnderWay` | `Spec => []ActiveIsUnderWay` |
| `SentFilesHaveArrived` | `Spec => []SentHasArrived` |

`FlightInv` is about who has what: messages are where they were addressed to, a
program that is off has neither queue nor thread nor open file, and `overlaps` has all
pairs of files that its name promises (`Together`). `CompleteIsTrue` is not inductive
without `Registered`: a slot finishes the widget it finds under a contact's name, and
one has to know that it is of the file in question or of one that crossed it.

`Arrival` follows the pieces of a file (metadata, chunks, end) through the two
queues. It says that there are four numbers for a file: how many pieces were queued,
passed the server, entered a receiver's queue and were read there, such that each
queue carries exactly the pieces between two of them, in order (`Carries`), and
nothing is missing unless the file was cut. Of two files that one sender sends one
after the other, the pieces stay apart (`ApartAt`). What a receiver has open
is what it has read so far of one file (`OpenAt`), and what it has read to the end was
delivered (`KeptAt`). When the end is read, the first number equals the number of
pieces, so what is saved is the whole file.

The four numbers are functions of a state that no variable keeps; `Arrival` says that
they exist (`\E R, E, P, Q : History(R, E, P, Q)`), and each step gives the next
ones. TLC cannot enumerate them: `Arrival` is the one inductive invariant here whose
parts were checked by TLC only through what they imply.

### Only model-checked

* Liveness: `QueuedIsTransmitted`, `DeadConnectionEnds`, `EveryClickIsAnswered` and
  `EveryRequestIsWritten`. TLAPS has neither fairness nor `ENABLED`.
* The five properties the code violates have counterexamples, and nothing to prove.
* Facts about recursively defined operators on all inputs would need the induction
  theorems of the library, which take an operator as parameter; none of the provers
  used can instantiate them. No module here declares a `RECURSIVE` operator. Where
  code walks through a sequence (`Picked`, `Written`, `Loaded`, `PlacesOf`) the
  definitions are by positions instead.

## 5. Abstractions

* Read and write of the network are part of the handler that completes them. A
  request is read from a connection only while it is open, except that one may
  have arrived (`reading = "ready"`) when a write error closed the socket.
* When a client is gone, what it had sent before is read first; `PeerLeaves` is
  the moment nothing of it is left. A client that resets the connection earlier
  is a client that sent less.
* `wire` is what was handed to the operating system. That it reaches the client
  is TCP's promise, and not claimed.
* New ids are fresh: they end in four hexadecimal digits of a salted hash.
  Collisions of two users with the same name cannot occur, as names are unique.
* In `LanShareServer` file messages (metadata, chunk, complete) take the same path
  and are one kind; `FileTransfer` tells them apart.
* A statement that SQLite refuses although the database was opened is left out.
* Names: a contact's name is not taken apart, so the effect of ` (` or a blank in
  a user name on the text of the sidebar is not seen.

Known from the modules, without a run of its own:

* a group message stored for an absent member is delivered without the group's name
  (`Store` drops it as `MessageRouter.cpp`:72 does) and filed under its sender
  (`ReceiveStored`), where it can never be read;
* a user whose connection broke without a logout stays listed (`ReadError` leaves
  `clients` alone as `ClientSession.cpp`:244 does);
* a user who is logged in over a new connection is unlisted when an older one ends
  (`SetClient` erases by user id as `ServerCore.cpp`:90 does; the exception in
  `UnlistedOnlyByAnother`);
* a message that is read in the 500 ms before the chat window exists is dropped
  (`ReadHandler`), and a file whose metadata come then is saved without a word;
* two files that one user sends to the same receiver at once are mixed or lost
  (`Mixed`), and files between the same two users in both directions finish each
  other's widget (`Crossed`);
* a file is reported as sent whether or not anybody received it (`SendComplete`), and
  as saved when it could not be written (`handleFileComplete`); a file of the same
  name replaces an older one;
* a registration that is answered between the end of the save and the end of the
  process is not in the file (`registerUser` while `process = "saved"`).

## 6. Not modelled, and why

* A header that announces more than `MAX_MESSAGE_SIZE`: no client of the
  repository sends one; the session ends as after a read error.
* `deleteGroup`, `changePassword`, the save and load functions of groups and
  router, the listing functions: nothing calls them.
* Statistics and log output.
* The address of an acceptor that cannot be opened, and an acceptor that fails:
  the process ends, or accepts again.
* A handler still running while `exit` destroys the server: undefined behaviour
  after which there is no state to speak of. It is listed under `hazards`.

## 7. Plan

In this order; each step adds its module, its runs, its mutants and its part of
the hazards.

1. *(done)* `GroupManager`, `LanShareServer`, its runs, its type, registry and
   order theorems; `AuthManager` with `AccountStore`.
2. *(done)* `ClientCore` with the login window; `ChatWindow` with its table.
3. *(done)* `FileTransfer`: sender thread, chunks, receiver with one file per sender,
   the server between them that forwards or drops, the widgets of the chat window.
4. *(done)* `MessageRelay`, which `LanShareServer` implements.
5. *(done)* Proofs: every invariant, action property and refinement the passing runs
   check, for all values of the constants.
6. Next: what the proofs of different modules say of each other. `MessagesInOrder` of
   `ClientCore` with `DeliveryIsFifo` of the server, so that order holds from sender
   to window; and that the `inbox` of `FileTransfer` is what a session's queue is.

## 8. Parts left out for good

* The cipher (`common/AESGCM`, `client/CryptoManager.h`) is OpenSSL's; ciphertexts are
  opaque. Which keys fit is in `ChatWindow` and `FileTransfer`.
* Frames (`common/Protocol.h`): header and payload are one message; splitting
  and joining them has no state.
* The menu client (`client/main.cpp`): it makes the calls that the server's
  `HandleRequest` already accepts in any order.
  Its key is random for each process (`client/ClientCore.cpp`:22), so it reads nothing
  that others encrypt; this has no state to check.
* Layout and painting (`ui/MessageBubble`, `ui/FileTransferWidget`): only whether a
  bubble is decrypted and a file widget is finished is state.
* `client/FileSender.h`, `client/FileReceiver.h`: nothing uses them.

## 9. How to run it

    tlasany LanShareServer.tla
    tlc -workers 2 -config server_routing.cfg MCServer
    tlc -workers 2 -config auth_accounts.cfg MCAuth
    tlc -workers 2 -config client_session.cfg ClientCore
    tlc -workers 2 -config chat_window.cfg MCChat
    tlc -workers 2 -config file_transfer.cfg MCFile
    tlapm LanShareServerProofs.tla
    tlapm ServerRelayProofs.tla
    tlapm AuthManagerProofs.tla
    tlapm ClientCoreProofs.tla
    tlapm PositionsProofs.tla
    tlapm ChatWindowProofs.tla
    tlapm FileTransferProofs.tla
    tlapm FileArrivalProofs.tla
