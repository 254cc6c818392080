--------------------------- MODULE LanShareServer ---------------------------
(***************************************************************************)
(* The LanShare server: ServerCore's registry of clients, one              *)
(* ClientSession per accepted connection, and the MessageRouter with its   *)
(* offline store.  The group table is an instance of GroupManager; of the  *)
(* AuthManager only the set of registered ids matters here.                *)
(*                                                                         *)
(* One thread calls ioContext_.run(), so a completion handler runs to its  *)
(* end before the next one starts and is one action, together with the     *)
(* read or write of the operating system that it completes.  What          *)
(* interleaves is the order of the handlers of all connections and the     *)
(* peers' comings and goings.  Sessions live in shared_ptrs: a session is  *)
(* held by its entry in clients_ and by the `self' of every handler still  *)
(* to run, and its destructor runs inside the step that drops the last one.*)
(***************************************************************************)
EXTENDS Naturals, Sequences, FiniteSets, SequencesExt

CONSTANTS
    Session,      \* the connections the server accepts, in no fixed order
    UserID, GroupName, JoinCode,
    PipedName,    \* the group names that contain the separator '|'
    NoSession, NoUser, NoName,
    MaxMessages,  \* bound: messages routed in a behaviour
    MaxQueue      \* bound: a session reads its next request only below this

ASSUME ServerAssumption ==
    /\ IsFiniteSet(Session) /\ IsFiniteSet(UserID)
    /\ NoSession \notin Session
    /\ NoUser \notin UserID
    /\ NoName \notin GroupName /\ PipedName \subseteq GroupName
    /\ MaxMessages \in Nat /\ MaxQueue \in Nat

VARIABLES
    clients,         \* ServerCore::clients_
    ioThread,        \* "blocked": waits for a mutex it already holds
    registered,      \* ids AuthManager knows
    groups,          \* GroupManager::groups_
    offlineMessages, \* MessageRouter::offlineMessages_
    sock,            \* socket_ is open at the server's end
    reading,         \* the chain of readHeader and readPayload handlers
    writing,         \* "idle" is writing_ = false
    writeQueue,      \* writeQueue_
    userID,          \* userID_
    authenticated,   \* authenticated_
    peer,            \* environment: the client's end of the connection
    \* history, never read by the code:
    wire,            \* routed messages handed to the network, per session
    lastID,          \* number of messages routed so far
    accepted,        \* <<message, addressee>> pairs the router took charge of
    identities       \* users that ever authenticated on a session

sessionVars == <<sock, reading, writing, writeQueue, userID, authenticated, identities>>
routerVars  == <<offlineMessages, lastID, accepted>>
vars == <<clients, ioThread, registered, groups, routerVars, sessionVars, peer, wire>>

GM == INSTANCE GroupManager

-----------------------------------------------------------------------------
(* Data.  A message keeps what the properties tell apart: which message it
   is, whom this copy is for, and the group name its payload carries.       *)

Message == [type : {"REPLY", "MSG_PRIVATE", "MSG_GROUP", "FILE"}, id : Nat,
            to : UserID \cup {NoUser}, group : GroupName \cup {NoName}]

\* AUTH_SUCCESS, AUTH_FAIL, USER_LIST, GROUP_CODE, GROUP_INFO, PONG, ERROR_MSG
Reply == [type |-> "REPLY", id |-> 0, to |-> NoUser, group |-> NoName]

Routed(type, group) == [type |-> type, id |-> lastID + 1, to |-> NoUser, group |-> group]

\* One copy of m for every user of R, in the unspecified order of a hash set.
Copies(R, m) == LET us == SetToSeq(R)
                IN  [i \in 1..Len(us) |-> [m EXCEPT !.to = us[i]]]

IsRouted(m) == m.type # "REPLY"

-----------------------------------------------------------------------------
(* Who holds a session, and what its destructor does. *)

\* x is held by the registry `map' or by a handler that is still to run.
Held(x, map, rd, wr) ==
    \/ \E u \in UserID : map[u] = x
    \/ rd[x] # "none"
    \/ wr[x] = "pending"

\* Assigning `new' to clients_[u] drops the last reference to the session that
\* was there, whose destructor then unregisters it.
Evicts(u, new, rd, wr) ==
    LET old == clients[u]
    IN  /\ old # NoSession
        /\ ~Held(old, [clients EXCEPT ![u] = new], rd, wr)
        /\ authenticated[old]

(* registerClient (new is a session) and unregisterClient (new is NoSession).
   Both change clients_ with clientsMutex_ locked.  ~ClientSession calls
   unregisterClient, which locks the same, non-recursive mutex: an eviction
   leaves the thread waiting for itself.                                    *)
SetClient(u, new, rd, wr) ==
    /\ clients' = [clients EXCEPT ![u] = new]
    /\ ioThread' = IF Evicts(u, new, rd, wr) THEN "blocked" ELSE ioThread

\* A completion handler of s ends and drops its `self'; the mutex is free.
DropSelf(s, rd, wr) ==
    IF authenticated[s] /\ ~Held(s, clients, rd, wr)
    THEN SetClient(userID[s], NoSession, rd, wr)
    ELSE UNCHANGED <<clients, ioThread>>

-----------------------------------------------------------------------------
(* ClientSession::sendMessage, on all the sessions a handler sends to. *)

\* Mutant: new messages are put in front of the waiting ones.
SendFirst(out) ==
    /\ writeQueue' = [x \in Session |-> out[x] \o writeQueue[x]]
    /\ writing' = [x \in Session |->
                     IF writing[x] = "idle" /\ out[x] # <<>> THEN "pending" ELSE writing[x]]

Send(out) ==
    /\ writeQueue' = [x \in Session |-> writeQueue[x] \o out[x]]
    /\ writing' = [x \in Session |->
                     IF writing[x] = "idle" /\ out[x] # <<>> THEN "pending" ELSE writing[x]]

SendTo(s, ms) == Send([x \in Session |-> IF x = s THEN ms ELSE <<>>])

\* A request of s is handled: it arrives on the open socket, or had arrived
\* when the socket was closed.  Afterwards the next header is awaited.
Handling(s) ==
    /\ ioThread = "running"
    /\ \/ reading[s] = "pending" /\ sock[s] /\ peer[s] = "up" /\ Len(writeQueue[s]) < MaxQueue
       \/ reading[s] = "ready"
ReadNext(s) == reading' = [reading EXCEPT ![s] = "pending"]

\* The request of s is answered and changes nothing else.
Answer(s) ==
    /\ SendTo(s, <<Reply>>)
    /\ ReadNext(s)
    /\ UNCHANGED <<clients, ioThread, registered, groups, routerVars, sock, userID,
                   authenticated, identities, peer, wire>>

-----------------------------------------------------------------------------
(* MessageRouter *)

Online(R) == {u \in R : clients[u] # NoSession}

Forward(R, m) == Send([x \in Session |-> Copies({u \in R : clients[u] = x}, m)])

\* storeOfflineMessage for each user of R; the record has no group name.
Store(R, m) ==
    offlineMessages' = [u \in UserID |->
        IF u \in R THEN Append(offlineMessages[u], [m EXCEPT !.to = u, !.group = NoName])
                   ELSE offlineMessages[u]]

Accept(R, m) ==
    /\ lastID < MaxMessages
    /\ lastID' = m.id
    /\ accepted' = accepted \cup {<<m.id, u>> : u \in R}

\* Mutant: stored for the users who are online, too.
RouteMessageStoringAll(R, m) == Accept(R, m) /\ Forward(R, m) /\ Store(R, m)

\* routePrivateMessage and routeGroupMessage
RouteMessage(R, m) ==
    /\ Accept(R, m)
    /\ Forward(R, m)
    /\ Store(R \ Online(R), m)

\* Mutant: file messages for absent users are stored like any other.
RouteFileStoring(R, m) ==
    /\ Accept(Online(R), m)
    /\ Forward(R, m)
    /\ Store(R \ Online(R), m)

\* routeFileRaw and routeFileRawGroup: nothing is kept for absent users.
RouteFile(R, m) ==
    /\ Accept(Online(R), m)
    /\ Forward(R, m)
    /\ UNCHANGED offlineMessages

\* A routing handler of s, with what it leaves alone.
Routing(s) ==
    /\ ReadNext(s)
    /\ UNCHANGED <<clients, ioThread, registered, groups, sock, userID, authenticated,
                   identities, peer, wire>>

-----------------------------------------------------------------------------
(* The request handlers of ClientSession::handleMessage. *)

\* Mutant: userID_ is not assigned.
AuthenticateNameless(s, u) ==
    /\ authenticated' = [authenticated EXCEPT ![s] = TRUE]
    /\ identities' = [identities EXCEPT ![s] = @ \cup {u}]
    /\ SetClient(u, s, reading, writing)
    /\ UNCHANGED <<groups, lastID, accepted, sock, peer, wire, userID>>

\* Mutant: the session is not listed.
AuthenticateUnlisted(s, u) ==
    /\ userID' = [userID EXCEPT ![s] = u]
    /\ authenticated' = [authenticated EXCEPT ![s] = TRUE]
    /\ identities' = [identities EXCEPT ![s] = @ \cup {u}]
    /\ UNCHANGED <<clients, ioThread, groups, lastID, accepted, sock, peer, wire>>

Authenticate(s, u) ==
    /\ userID' = [userID EXCEPT ![s] = u]
    /\ authenticated' = [authenticated EXCEPT ![s] = TRUE]
    /\ identities' = [identities EXCEPT ![s] = @ \cup {u}]
    /\ SetClient(u, s, reading, writing)
    /\ UNCHANGED <<groups, lastID, accepted, sock, peer, wire>>

\* The id of a new account ends in four digits of a freshly salted hash: it is
\* not an id somebody mistyped before.
HandleAuthRegister(s, u) ==
    /\ Handling(s)
    /\ u \notin registered
    /\ offlineMessages[u] = <<>>
    /\ registered' = registered \cup {u}
    /\ Authenticate(s, u)
    /\ IF ioThread' = "running"
       THEN SendTo(s, <<Reply>>) /\ ReadNext(s)
       ELSE UNCHANGED <<writeQueue, writing, reading>>
    /\ UNCHANGED offlineMessages

\* Mutant: stored messages are not delivered at login.
HandleAuthLoginWithoutDelivery(s, u) ==
    /\ Handling(s)
    /\ u \in registered
    /\ Authenticate(s, u)
    /\ IF ioThread' = "running"
       THEN SendTo(s, <<Reply>>) /\ ReadNext(s)
       ELSE UNCHANGED <<writeQueue, writing, reading>>
    /\ UNCHANGED <<registered, offlineMessages>>

\* Mutant: an unknown user is let in.
HandleAuthLoginUnchecked(s, u) ==
    /\ Handling(s)
    /\ Authenticate(s, u)
    /\ IF ioThread' = "running"
       THEN /\ SendTo(s, <<Reply>> \o offlineMessages[u])
            /\ offlineMessages' = [offlineMessages EXCEPT ![u] = <<>>]
            /\ ReadNext(s)
       ELSE UNCHANGED <<writeQueue, writing, offlineMessages, reading>>
    /\ UNCHANGED registered

\* Ends in deliverOfflineMessages, whose getClient finds s itself.
HandleAuthLogin(s, u) ==
    /\ Handling(s)
    /\ u \in registered
    /\ Authenticate(s, u)
    /\ IF ioThread' = "running"
       THEN /\ SendTo(s, <<Reply>> \o offlineMessages[u])
            /\ offlineMessages' = [offlineMessages EXCEPT ![u] = <<>>]
            /\ ReadNext(s)
       ELSE UNCHANGED <<writeQueue, writing, offlineMessages, reading>>
    /\ UNCHANGED registered

\* Mutant: the client stays registered.
HandleAuthLogoutStayingListed(s) ==
    /\ Handling(s)
    /\ authenticated' = [authenticated EXCEPT ![s] = FALSE]
    /\ sock' = [sock EXCEPT ![s] = FALSE]
    /\ ReadNext(s)
    /\ UNCHANGED <<clients, ioThread, registered, groups, routerVars, writing, writeQueue, userID,
                   identities, peer, wire>>

\* unregisterClient may evict a newer session of the same user; the thread then
\* never gets to clear authenticated_ and to close the socket.
HandleAuthLogout(s) ==
    /\ Handling(s)
    /\ IF authenticated[s] THEN SetClient(userID[s], NoSession, reading, writing)
                           ELSE UNCHANGED <<clients, ioThread>>
    /\ IF ioThread' = "running"
       THEN /\ authenticated' = [authenticated EXCEPT ![s] = FALSE]
            /\ sock' = [sock EXCEPT ![s] = FALSE]
            /\ ReadNext(s)
       ELSE UNCHANGED <<authenticated, sock, reading>>
    /\ UNCHANGED <<registered, groups, routerVars, writing, writeQueue, userID, identities,
                   peer, wire>>

\* Mutant: a refused login lists the session all the same.
HandleAnsweredListing(s) ==
    /\ Handling(s)
    /\ \/ UNCHANGED <<clients, ioThread>>
       \/ \E u \in UserID : SetClient(u, s, reading, writing)
    /\ SendTo(s, <<Reply>>)
    /\ ReadNext(s)
    /\ UNCHANGED <<registered, groups, routerVars, sock, userID, authenticated, identities,
                   peer, wire>>

\* PING, USER_LIST, and every request refused with AUTH_FAIL or ERROR_MSG: wrong
\* password, taken or invalid user name, malformed payload.
HandleAnswered(s) == Handling(s) /\ Answer(s)

\* A message of a type that handleMessage does not know, as requestGroupList sends.
HandleUnknown(s) ==
    /\ Handling(s)
    /\ ReadNext(s)
    /\ UNCHANGED <<clients, ioThread, registered, groups, routerVars, sock, writing, writeQueue,
                   userID, authenticated, identities, peer, wire>>

HandlePrivateMessage(s, to) ==
    /\ Handling(s)
    /\ IF authenticated[s]
       THEN RouteMessage({to}, Routed("MSG_PRIVATE", NoName)) /\ Routing(s)
       ELSE Answer(s)

HandleGroupMessage(s, g) ==
    /\ Handling(s)
    /\ IF authenticated[s] /\ GM!isMember(g, userID[s])
       THEN /\ RouteMessage(GM!getGroupMembers(g) \ {userID[s]}, Routed("MSG_GROUP", g))
            /\ Routing(s)
       ELSE Answer(s)

\* A file message addressed to a user.
HandleFilePrivate(s, to) ==
    /\ Handling(s)
    /\ IF authenticated[s]
       THEN RouteFile({to}, Routed("FILE", NoName)) /\ Routing(s)
       ELSE Answer(s)

\* A file message addressed to a group: the copies do not name it.
HandleFileGroup(s, g) ==
    /\ Handling(s)
    /\ IF authenticated[s]
       THEN /\ RouteFile(GM!getGroupMembers(g) \ {userID[s]}, Routed("FILE", NoName))
            /\ Routing(s)
       ELSE Answer(s)

\* The group a join request "name|code" for g is taken to name: the payload is
\* split at its first '|', and no group has such a code.
JoinTarget(g) == IF g \in PipedName THEN NoName ELSE g

\* The group requests that succeed; refused ones are HandleAnswered.
HandleGroupUpdate(s, g) ==
    /\ Handling(s)
    /\ authenticated[s]
    /\ \/ \E code \in JoinCode :                                      \* handleGroupCreate
            GM!createGroup(g, userID[s], code)
       \/ \E code \in JoinCode :                                      \* handleGroupJoin
            GM!joinGroup(JoinTarget(g), userID[s], code)
       \/ GM!leaveGroup(g, userID[s])                                 \* handleGroupLeave
    /\ SendTo(s, <<Reply>>)
    /\ ReadNext(s)
    /\ UNCHANGED <<clients, ioThread, registered, routerVars, sock, userID, authenticated,
                   identities, peer, wire>>

HandleRequest(s) ==
    \/ HandleAuthLogout(s)
    \/ HandleAnswered(s)
    \/ HandleUnknown(s)
    \/ \E u \in UserID : \/ HandleAuthRegister(s, u)
                         \/ HandleAuthLogin(s, u)
                         \/ HandlePrivateMessage(s, u)
                         \/ HandleFilePrivate(s, u)
    \/ \E g \in GroupName : \/ HandleGroupMessage(s, g)
                            \/ HandleFileGroup(s, g)
                            \/ HandleGroupUpdate(s, g)

-----------------------------------------------------------------------------
(* The other completion handlers, and the environment. *)

AcceptConnection(s) ==
    /\ ioThread = "running"
    /\ peer[s] = "absent"
    /\ peer' = [peer EXCEPT ![s] = "up"]
    /\ sock' = [sock EXCEPT ![s] = TRUE]
    /\ ReadNext(s)
    /\ UNCHANGED <<clients, ioThread, registered, groups, routerVars, writing, writeQueue,
                   userID, authenticated, identities, wire>>

\* The client closes or vanishes and everything it sent before has been read:
\* what comes next on this connection is end-of-file or a reset.  Once the server
\* closed the socket, or hangs, nothing sees it leave.
PeerLeaves(s) ==
    /\ peer[s] = "up" /\ sock[s] /\ ioThread = "running"
    /\ peer' = [peer EXCEPT ![s] = "gone"]
    /\ UNCHANGED <<clients, ioThread, registered, groups, routerVars, sessionVars, wire>>

\* Mutant: the socket stays open.
ReadErrorLeavingOpen(s) ==
    /\ ioThread = "running"
    /\ reading[s] = "pending"
    /\ peer[s] = "gone" \/ ~sock[s]
    /\ reading' = [reading EXCEPT ![s] = "none"]
    /\ DropSelf(s, reading', writing)
    /\ UNCHANGED <<registered, groups, routerVars, sock, writing, writeQueue, userID,
                   authenticated, identities, peer, wire>>

\* The read fails: the socket closes and nothing re-arms the read.
ReadError(s) ==
    /\ ioThread = "running"
    /\ reading[s] = "pending"
    /\ peer[s] = "gone" \/ ~sock[s]
    /\ reading' = [reading EXCEPT ![s] = "none"]
    /\ sock' = [sock EXCEPT ![s] = FALSE]
    /\ DropSelf(s, reading', writing)
    /\ UNCHANGED <<registered, groups, routerVars, writing, writeQueue, userID, authenticated,
                   identities, peer, wire>>

\* Mutant: the handler does not call writeNext.
WriteHandlerOnce(s) ==
    /\ ioThread = "running"
    /\ writing[s] = "pending" /\ sock[s]
    /\ LET m == Head(writeQueue[s])
       IN  wire' = [wire EXCEPT ![s] = IF IsRouted(m) THEN Append(@, m) ELSE @]
    /\ writeQueue' = [writeQueue EXCEPT ![s] = Tail(@)]
    /\ writing' = [writing EXCEPT ![s] = "idle"]
    /\ UNCHANGED <<clients, ioThread, registered, groups, routerVars, sock, reading, userID,
                   authenticated, identities, peer>>

\* async_write has sent the front message; its handler pops it and calls writeNext.
WriteHandler(s) ==
    /\ ioThread = "running"
    /\ writing[s] = "pending" /\ sock[s]
    /\ LET m == Head(writeQueue[s])
       IN  wire' = [wire EXCEPT ![s] = IF IsRouted(m) THEN Append(@, m) ELSE @]
    /\ writeQueue' = [writeQueue EXCEPT ![s] = Tail(@)]
    /\ writing' = [writing EXCEPT ![s] = IF writeQueue'[s] = <<>> THEN "idle" ELSE "pending"]
    /\ UNCHANGED <<clients, ioThread, registered, groups, routerVars, sock, reading, userID,
                   authenticated, identities, peer>>

\* Mutant: what could not be sent is stored again.
WriteErrorStoring(s) ==
    /\ ioThread = "running"
    /\ writing[s] = "pending"
    /\ peer[s] = "gone" \/ ~sock[s]
    /\ writing' = [writing EXCEPT ![s] = "failed"]
    /\ sock' = [sock EXCEPT ![s] = FALSE]
    /\ LET m == Head(writeQueue[s])
       IN  offlineMessages' = IF IsRouted(m) THEN [offlineMessages EXCEPT ![m.to] = Append(@, m)]
                                             ELSE offlineMessages
    /\ writeQueue' = [writeQueue EXCEPT ![s] = Tail(@)]
    /\ DropSelf(s, reading, writing')
    /\ UNCHANGED <<registered, groups, lastID, accepted, reading, userID, authenticated,
                   identities, peer, wire>>

\* The handler with an error: the socket closes and writing_ stays true.  A request
\* that arrived before is handled all the same, its handler being queued already.
WriteError(s) ==
    /\ ioThread = "running"
    /\ writing[s] = "pending"
    /\ peer[s] = "gone" \/ ~sock[s]
    /\ writing' = [writing EXCEPT ![s] = "failed"]
    /\ sock' = [sock EXCEPT ![s] = FALSE]
    /\ \/ UNCHANGED reading
       \/ sock[s] /\ reading[s] = "pending" /\ reading' = [reading EXCEPT ![s] = "ready"]
    /\ DropSelf(s, reading', writing')
    /\ UNCHANGED <<registered, groups, routerVars, writeQueue, userID, authenticated,
                   identities, peer, wire>>

-----------------------------------------------------------------------------
Init ==
    /\ clients = [u \in UserID |-> NoSession]
    /\ ioThread = "running"
    /\ registered = {}
    /\ GM!Init
    /\ offlineMessages = [u \in UserID |-> <<>>]
    /\ sock = [s \in Session |-> FALSE]
    /\ reading = [s \in Session |-> "none"]
    /\ writing = [s \in Session |-> "idle"]
    /\ writeQueue = [s \in Session |-> <<>>]
    /\ userID = [s \in Session |-> NoUser]
    /\ authenticated = [s \in Session |-> FALSE]
    /\ peer = [s \in Session |-> "absent"]
    /\ wire = [s \in Session |-> <<>>]
    /\ lastID = 0
    /\ accepted = {}
    /\ identities = [s \in Session |-> {}]

Next == \E s \in Session :
    \/ AcceptConnection(s) \/ PeerLeaves(s)
    \/ HandleRequest(s) \/ ReadError(s) \/ WriteHandler(s) \/ WriteError(s)

Spec == Init /\ [][Next]_vars

(* io_context runs every queued handler, and a client that is up reads what is
   sent to it.  No client has to send, to stay or to leave.                   *)
Fairness == \A s \in Session :
    /\ WF_vars(reading[s] = "ready" /\ HandleRequest(s))
    /\ WF_vars(ReadError(s))
    /\ WF_vars(WriteHandler(s))
    /\ WF_vars(WriteError(s))

FairSpec == Spec /\ Fairness

-----------------------------------------------------------------------------
(* Types. *)
TypeOK ==
    /\ clients \in [UserID -> Session \cup {NoSession}]
    /\ ioThread \in {"running", "blocked"}
    /\ registered \subseteq UserID
    /\ GM!GroupsTypeOK
    /\ offlineMessages \in [UserID -> Seq(Message)]
    /\ sock \in [Session -> BOOLEAN]
    /\ reading \in [Session -> {"none", "pending", "ready"}]
    /\ writing \in [Session -> {"idle", "pending", "failed"}]
    /\ writeQueue \in [Session -> Seq(Message)]
    /\ userID \in [Session -> UserID \cup {NoUser}]
    /\ authenticated \in [Session -> BOOLEAN]
    /\ peer \in [Session -> {"absent", "up", "gone"}]
    /\ wire \in [Session -> Seq(Message)]
    /\ lastID \in Nat
    /\ accepted \subseteq Nat \X UserID
    /\ identities \in [Session -> SUBSET UserID]
    /\ \A s \in Session : authenticated[s] => userID[s] \in UserID

-----------------------------------------------------------------------------
(* Safety. *)

(* The places at which copies for u are kept, and those of them that hold a copy
   of message `id': a line is what was and what will be sent on a connection.  *)
Line(x, u) == IF x = NoSession THEN offlineMessages[u] ELSE wire[x] \o writeQueue[x]

IsCopy(m, id, u) == IsRouted(m) /\ m.id = id /\ m.to = u

PlacesOf(id, u) ==
    UNION { {x} \X {i \in 1..Len(Line(x, u)) : IsCopy(Line(x, u)[i], id, u)}
            : x \in Session \cup {NoSession} }

(* Every message the router takes charge of exists once per addressee, in the
   offline store, in one session's queue or on one connection's wire; nothing
   else exists.  No path through routing, storing, login and the write queue
   duplicates a copy or lets it disappear, whatever connections come and go
   in between.                                                               *)
MessageAccounting ==
    \A id \in 1..MaxMessages, u \in UserID :
        Cardinality(PlacesOf(id, u)) = IF <<id, u>> \in accepted THEN 1 ELSE 0

Precedes(m, n) == (IsRouted(m) /\ IsRouted(n) /\ m.to = n.to) => m.id < n.id

Ordered(q) == \A i, j \in 1..Len(q) : i < j => Precedes(q[i], q[j])

Before(p, q) == \A i \in 1..Len(p), j \in 1..Len(q) : Precedes(p[i], q[j])

(* On each connection a user's messages leave in the order in which the router
   took them, the stored ones flushed at login before any routed later.      *)
FifoPerConnection ==
    \A s \in Session :
        Ordered(wire[s]) /\ Ordered(writeQueue[s]) /\ Before(wire[s], writeQueue[s])

(* The offline store holds messages of absent users only: a login flushes all
   of a user's messages in the step that lists the user, and as long as the
   user is listed new ones go to the session.                                *)
OfflineOnlyWhenAbsent ==
    \A u \in UserID : ioThread = "running" /\ clients[u] # NoSession => offlineMessages[u] = <<>>

(* A session's queue is empty exactly when no write is under way, and an open
   socket has a read and, if there is anything to send, a write in progress: no
   message of an open connection waits for a writeNext or readHeader that
   nobody will call.                                                         *)
NoStalledConnection ==
    \A s \in Session :
        /\ writeQueue[s] = <<>> <=> writing[s] = "idle"
        /\ sock[s] => reading[s] # "none" /\ writing[s] # "failed"

AddressedTo(q, U) == \A i \in 1..Len(q) : IsRouted(q[i]) => q[i].to \in U

(* A copy for u is only ever queued at, or sent over, a connection on which u
   logged in or registered, through all re-logins, stale entries of clients_
   and group fan-outs.                                                       *)
OnlyToItsAddressee ==
    \A s \in Session :
        AddressedTo(wire[s], identities[s]) /\ AddressedTo(writeQueue[s], identities[s])

(* A session that has logged out is not what its user is listed under: nothing
   is routed to it any more, whatever other sessions the user has.           *)
LoggedOutIsUnlisted ==
    \A s \in Session :
        userID[s] # NoUser /\ ~authenticated[s] => clients[userID[s]] # s

(* The registry lists registered users only, each under a session that really
   authenticated as that user.                                               *)
ListedIsRegistered ==
    \A u \in UserID : clients[u] # NoSession => u \in registered /\ u \in identities[clients[u]]

(* Whoever is logged in over a connection that works is listed, unless another
   connection of the same user has ended: erasing by user id, as unregisterClient
   does, can hurt nobody else, and no login, refused request, message or fan-out
   takes an entry away.                                                       *)
UnlistedOnlyByAnother ==
    \A s \in Session :
        /\ authenticated[s] /\ sock[s] /\ peer[s] = "up" /\ ioThread = "running"
        /\ clients[userID[s]] = NoSession
        => \E t \in Session \ {s} : userID[s] \in identities[t] /\ ~sock[t]

\* The group table's own properties, in every context the server uses it.
GroupsHaveMembers == GM!GroupsHaveMembers
GroupIdentityStable == GM!GroupIdentityStable

-----------------------------------------------------------------------------
(* The server implements MessageRelay. *)

\* The messages of which a copy for u is in q.
CopiesFor(u, q) == {m.id : m \in {n \in ToSet(q) : IsRouted(n) /\ n.to = u}}

OnConnections(queues) ==
    [u \in UserID |-> UNION {CopiesFor(u, queues[s]) : s \in Session}]

Relay == INSTANCE MessageRelay WITH
    stored <- [u \in UserID |-> CopiesFor(u, offlineMessages[u])],
    queued <- OnConnections(writeQueue),
    sent   <- OnConnections(wire)

(* No step of the server moves a copy back, drops one, lets a new message overtake
   stored ones or flushes the store in part.                                    *)
ImplementsRelay == Relay!Spec

-----------------------------------------------------------------------------
(* Liveness, under Fairness.  A thread that waits for its own mutex does
   nothing any more: ServerNeverBlocks is the property it breaks.            *)

(* What is queued for a connection is transmitted unless the connection closes. *)
QueuedIsTransmitted ==
    \A s \in Session, id \in 1..MaxMessages :
        (\E m \in ToSet(writeQueue[s]) : m.id = id)
            ~> \/ \A m \in ToSet(writeQueue[s]) : m.id # id
               \/ ~sock[s]
               \/ ioThread = "blocked"

(* When the client is gone the session closes its socket and both of its handler
   chains come to an end, with a request or a write under way or not.         *)
DeadConnectionEnds ==
    \A s \in Session :
        peer[s] = "gone" ~> \/ ~sock[s] /\ reading[s] = "none" /\ writing[s] \in {"idle", "failed"}
                            \/ ioThread = "blocked"

-----------------------------------------------------------------------------
(* What documents and clients of the server expect and the code does not keep. *)

(* The io thread never waits for clientsMutex_ while it holds it: a user can log
   in again whatever became of the previous connection.                       *)
ServerNeverBlocks == ioThread = "running"
=============================================================================
