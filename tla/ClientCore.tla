----------------------------- MODULE ClientCore -----------------------------
(***************************************************************************)
(* One graphical client: the connection and the write queue of ClientCore, *)
(* the login window, and what the chat window hangs on it.                 *)
(*                                                                         *)
(* Two threads matter.  The io thread runs ioContext_ and with it every    *)
(* completion handler; the ui thread runs the windows, and what a handler  *)
(* has to tell a window goes through Qt's event queue.  Any thread may     *)
(* call sendMessage (the ui thread, a sendFile thread, the io thread in    *)
(* disconnect): it holds writeMutex_ for its whole effect and is one step. *)
(* The thread in which the login window calls connect() only starts an     *)
(* asynchronous operation; its step is part of the click.                  *)
(***************************************************************************)
EXTENDS Naturals, Sequences, FiniteSets

CONSTANTS
    MaxRequests,   \* bound: requests after which the user makes no more
    MaxMessages    \* bound: messages the server sends to this user

ASSUME ClientAssumption == MaxRequests \in Nat /\ MaxMessages \in Nat

VARIABLES
    \* ClientCore
    connected, authenticated,
    sock,          \* socket_: "closed", "connecting" or "open"
    reading,       \* a handler of readHeader or readPayload is outstanding
    writeQueue,
    writing,       \* writing_
    writeNexts,    \* calls of writeNext posted to ioContext_
    inFlight,      \* messages handed to async_write whose handler is outstanding
    \* LoginWindow
    buttons,       \* the buttons are enabled
    isConnecting,
    pendingAction, \* a login or registration waits for the connection
    welcomes,      \* timers of 500 ms that will open the chat window
    chatOpen,      \* the chat window exists and has set its callbacks
    uiEvents,      \* invocations queued for the ui thread
    closing,       \* "no", "logout": inside disconnect(), "stopped": after stopAsync()
    \* environment
    link,          \* the connection is "up" or "down"
    unanswered,    \* logins and registrations the server has read but not answered
    session,       \* the server takes this connection for the user's
    fromServer,    \* sent by the server and not read yet
    lastMessage,
    \* history, never read by the code
    lastRequest,   \* number of requests made so far
    written,       \* requests handed to the network, over all connections
    lost,          \* an established connection has ended
    dropped,       \* messages read while nobody was there to take them
    shown,         \* messages the chat window was given
    wiped          \* the chat window has reacted to the loss of the server

queueVars == <<writeQueue, writing, writeNexts, lastRequest>>
connVars  == <<connected, authenticated, sock, link, unanswered, session, fromServer, lost>>
loginVars == <<buttons, isConnecting, pendingAction, welcomes, chatOpen>>
shownVars == <<dropped, shown, wiped>>
vars == <<queueVars, connVars, loginVars, shownVars, reading, inFlight, uiEvents, closing,
          lastMessage, written>>

-----------------------------------------------------------------------------
(* sendMessage and disconnect. *)

\* Mutant: writing_ is not looked at.
sendMessageAlways(kind) ==
    /\ lastRequest' = lastRequest + 1
    /\ writeQueue' = Append(writeQueue, [id |-> lastRequest', kind |-> kind])
    /\ writing' = TRUE
    /\ writeNexts' = writeNexts + 1

sendMessage(kind) ==
    /\ lastRequest' = lastRequest + 1
    /\ writeQueue' = Append(writeQueue, [id |-> lastRequest', kind |-> kind])
    /\ writing' = TRUE
    /\ writeNexts' = IF writing THEN writeNexts ELSE writeNexts + 1

\* socket_.close() and the flags; whatever the server had sent is gone with it.
CloseSocket ==
    /\ sock' = "closed" /\ connected' = FALSE /\ authenticated' = FALSE
    /\ link' = "down" /\ unanswered' = 0 /\ session' = FALSE /\ fromServer' = <<>>
    /\ lost' = TRUE

\* Mutant: connected_ stays true.
disconnectSilent ==
    IF connected
    THEN /\ sock' = "closed" /\ authenticated' = FALSE
         /\ link' = "down" /\ unanswered' = 0 /\ session' = FALSE /\ fromServer' = <<>>
         /\ lost' = TRUE
         /\ UNCHANGED <<connected, queueVars>>
    ELSE UNCHANGED <<connVars, queueVars>>

\* On the io thread, from handleError.
disconnect ==
    IF connected
    THEN /\ CloseSocket
         /\ IF authenticated THEN sendMessage("logout") ELSE UNCHANGED queueVars
    ELSE UNCHANGED <<connVars, queueVars>>

-----------------------------------------------------------------------------
(* Completion handlers. *)

\* What the server sends and what the windows are told; id numbers the messages.
Event(kind) == [kind |-> kind, id |-> 0]

Tell(kind) == uiEvents' = Append(uiEvents, Event(kind))

IoRuns == closing # "stopped"

\* The handlers of an earlier connection run first.
ConnectHandler(ok) ==
    /\ IoRuns /\ sock = "connecting" /\ ~reading /\ inFlight = <<>>
    /\ connected' = ok /\ reading' = ok
    /\ sock' = IF ok THEN "open" ELSE "closed"
    /\ link' = IF ok THEN "up" ELSE "down"
    /\ \/ ~chatOpen /\ Tell(IF ok THEN "connected" ELSE "refused")
       \/ chatOpen /\ ok /\ UNCHANGED uiEvents
       \/ chatOpen /\ ~ok /\ Tell("disconnected")
    /\ UNCHANGED <<queueVars, authenticated, unanswered, session, fromServer, lost, loginVars,
                   shownVars, inFlight, closing, lastMessage, written>>

\* Mutant: the newest message is written instead of the one at the front.
writeNextLast ==
    /\ IoRuns /\ writeNexts > 0
    /\ writeNexts' = writeNexts - 1
    /\ inFlight' = Append(inFlight, writeQueue[Len(writeQueue)])
    /\ UNCHANGED <<writeQueue, writing, lastRequest, connVars, loginVars, shownVars, reading,
                   uiEvents, closing, lastMessage, written>>

\* The queue is never empty here: WriteChain.
writeNext ==
    /\ IoRuns /\ writeNexts > 0
    /\ writeNexts' = writeNexts - 1
    /\ inFlight' = Append(inFlight, Head(writeQueue))
    /\ UNCHANGED <<writeQueue, writing, lastRequest, connVars, loginVars, shownVars, reading,
                   uiEvents, closing, lastMessage, written>>

\* Mutant: the handler does not go on to the next message.
WriteHandlerOnce ==
    /\ IoRuns /\ inFlight # <<>> /\ sock = "open" /\ link = "up"
    /\ written' = Append(written, Head(inFlight).id)
    /\ unanswered' = IF Head(inFlight).kind = "auth" THEN unanswered + 1 ELSE unanswered
    /\ inFlight' = Tail(inFlight)
    /\ writeQueue' = Tail(writeQueue)
    /\ writing' = (writeQueue' # <<>>)
    /\ UNCHANGED <<writeNexts, lastRequest, connected, authenticated, sock, link, session,
                   fromServer, lost, loginVars, shownVars, reading, uiEvents, closing, lastMessage>>

WriteHandler ==
    /\ IoRuns /\ inFlight # <<>> /\ sock = "open" /\ link = "up"
    /\ written' = Append(written, Head(inFlight).id)
    /\ unanswered' = IF Head(inFlight).kind = "auth" THEN unanswered + 1 ELSE unanswered
    /\ inFlight' = Tail(inFlight)
    /\ writeQueue' = Tail(writeQueue)
    /\ IF writeQueue' # <<>> THEN writeNexts' = writeNexts + 1 /\ UNCHANGED writing
                             ELSE writing' = FALSE /\ UNCHANGED writeNexts
    /\ UNCHANGED <<lastRequest, connected, authenticated, sock, link, session, fromServer, lost,
                   loginVars, shownVars, reading, uiEvents, closing, lastMessage>>

\* writing_ stays true and the message stays at the front of the queue.
WriteError ==
    /\ IoRuns /\ inFlight # <<>> /\ (sock # "open" \/ link = "down")
    /\ inFlight' = Tail(inFlight)
    /\ disconnect
    /\ UNCHANGED <<loginVars, shownVars, reading, uiEvents, closing, lastMessage, written>>

\* handleMessage, with the callback there is at the moment.
ReadHandler ==
    /\ IoRuns /\ reading /\ sock = "open" /\ fromServer # <<>>
    /\ fromServer' = Tail(fromServer)
    /\ LET m == Head(fromServer)
       IN  \/ /\ m.kind = "success"
              /\ authenticated' = TRUE /\ Tell("welcome")
              /\ UNCHANGED dropped
           \/ /\ m.kind = "fail"
              /\ authenticated' = FALSE /\ Tell("failed")
              /\ UNCHANGED dropped
           \/ /\ m.kind = "message"
              /\ IF chatOpen THEN uiEvents' = Append(uiEvents, m) /\ UNCHANGED dropped
                             ELSE dropped' = dropped \cup {m.id} /\ UNCHANGED uiEvents
              /\ UNCHANGED authenticated
    /\ UNCHANGED <<queueVars, connected, sock, link, unanswered, session, lost, loginVars, shown,
                   wiped, reading, inFlight, closing, lastMessage, written>>

ReadError ==
    /\ IoRuns /\ reading
    /\ sock # "open" \/ (link = "down" /\ fromServer = <<>>)
    /\ reading' = FALSE
    /\ disconnect
    /\ UNCHANGED <<loginVars, shownVars, inFlight, uiEvents, closing, lastMessage, written>>

-----------------------------------------------------------------------------
(* The ui thread. *)

Ui == closing = "no"

\* Mutant: the buttons stay enabled.
ClickLoginAgain ==
    /\ Ui /\ ~chatOpen /\ buttons /\ lastRequest < MaxRequests
    /\ IF connected
       THEN sendMessage("auth") /\ UNCHANGED <<isConnecting, pendingAction, sock, buttons>>
       ELSE /\ pendingAction' = TRUE /\ isConnecting' = TRUE
            /\ buttons' = FALSE
            /\ sock' = "connecting"
            /\ UNCHANGED queueVars
    /\ UNCHANGED <<connected, authenticated, link, unanswered, session, fromServer, lost, welcomes,
                   chatOpen, shownVars, reading, inFlight, uiEvents, closing, lastMessage, written>>

\* onLoginClicked or onRegisterClicked, with connectToServer.  isConnecting_ is
\* false whenever the buttons are enabled: ButtonsMeanIdle.
ClickLogin ==
    /\ Ui /\ ~chatOpen /\ buttons /\ lastRequest < MaxRequests
    /\ buttons' = FALSE
    /\ IF connected
       THEN sendMessage("auth") /\ UNCHANGED <<isConnecting, pendingAction, sock>>
       ELSE /\ pendingAction' = TRUE /\ isConnecting' = TRUE
            /\ sock' = "connecting"
            /\ UNCHANGED queueVars
    /\ UNCHANGED <<connected, authenticated, link, unanswered, session, fromServer, lost, welcomes,
                   chatOpen, shownVars, reading, inFlight, uiEvents, closing, lastMessage, written>>

\* onConnectionResult
OnConnectionResult(e) ==
    /\ e.kind \in {"connected", "refused"}
    /\ isConnecting' = FALSE /\ pendingAction' = FALSE
    /\ IF e.kind = "connected"
       THEN /\ IF pendingAction THEN sendMessage("auth") ELSE UNCHANGED queueVars
            /\ UNCHANGED buttons
       ELSE buttons' = TRUE /\ UNCHANGED queueVars
    /\ UNCHANGED <<welcomes, shown, wiped>>

\* Mutant: the buttons are enabled after a success only.
OnAuthResultSilent(e) ==
    /\ e.kind \in {"welcome", "failed"}
    /\ buttons' = (e.kind = "welcome")
    /\ welcomes' = IF e.kind = "welcome" THEN welcomes + 1 ELSE welcomes
    /\ UNCHANGED <<queueVars, isConnecting, pendingAction, shown, wiped>>

\* onAuthResult
OnAuthResult(e) ==
    /\ e.kind \in {"welcome", "failed"}
    /\ buttons' = TRUE
    /\ welcomes' = IF e.kind = "welcome" THEN welcomes + 1 ELSE welcomes
    /\ UNCHANGED <<queueVars, isConnecting, pendingAction, shown, wiped>>

\* onMessageReceived or onGroupMessageReceived
OnMessage(e) ==
    /\ e.kind = "message"
    /\ shown' = Append(shown, e.id)
    /\ UNCHANGED <<queueVars, buttons, isConnecting, pendingAction, welcomes, wiped>>

\* onServerDisconnected
OnServerDisconnected(e) ==
    /\ e.kind = "disconnected"
    /\ wiped' = TRUE
    /\ UNCHANGED <<queueVars, buttons, isConnecting, pendingAction, welcomes, shown>>

\* Mutant: events are taken from the wrong end.
RunLastEvent ==
    /\ Ui /\ uiEvents # <<>>
    /\ uiEvents' = SubSeq(uiEvents, 1, Len(uiEvents) - 1)
    /\ LET e == uiEvents[Len(uiEvents)]
       IN  OnConnectionResult(e) \/ OnAuthResult(e) \/ OnMessage(e) \/ OnServerDisconnected(e)
    /\ UNCHANGED <<connVars, chatOpen, dropped, reading, inFlight, closing, lastMessage, written>>

RunEvent ==
    /\ Ui /\ uiEvents # <<>>
    /\ uiEvents' = Tail(uiEvents)
    /\ LET e == Head(uiEvents)
       IN  OnConnectionResult(e) \/ OnAuthResult(e) \/ OnMessage(e) \/ OnServerDisconnected(e)
    /\ UNCHANGED <<connVars, chatOpen, dropped, reading, inFlight, closing, lastMessage, written>>

\* openChatWindow: the first time the constructor of ChatWindow sets the callbacks
\* and asks for the user list.
OpenChatWindow ==
    /\ Ui /\ welcomes > 0
    /\ welcomes' = welcomes - 1
    /\ chatOpen' = TRUE
    /\ IF chatOpen THEN UNCHANGED queueVars ELSE sendMessage("other")
    /\ UNCHANGED <<connVars, buttons, isConnecting, pendingAction, shownVars, reading, inFlight,
                   uiEvents, closing, lastMessage, written>>

\* A request of the chat window or of a sendFile thread, connected or not.
Request ==
    /\ Ui /\ chatOpen /\ lastRequest < MaxRequests
    /\ sendMessage("other")
    /\ UNCHANGED <<connVars, loginVars, shownVars, reading, inFlight, uiEvents, closing,
                   lastMessage, written>>

\* The last window is closed: ~LoginWindow calls disconnect(), in two steps here
\* because the io thread runs beside it, and ~ClientCore calls stopAsync().
BeginClose ==
    /\ Ui
    /\ closing' = IF connected THEN "logout" ELSE "stopped"
    /\ IF connected /\ authenticated THEN sendMessage("logout") ELSE UNCHANGED queueVars
    /\ UNCHANGED <<connVars, loginVars, shownVars, reading, inFlight, uiEvents, lastMessage, written>>

FinishClose ==
    /\ closing = "logout"
    /\ closing' = "stopped"
    /\ CloseSocket
    /\ UNCHANGED <<queueVars, loginVars, shownVars, reading, inFlight, uiEvents, lastMessage, written>>

-----------------------------------------------------------------------------
(* The server and the network. *)

\* After a success the server treats the connection as the user's, for good.
ServerAnswers ==
    /\ IoRuns /\ link = "up" /\ unanswered > 0
    /\ unanswered' = unanswered - 1
    /\ \/ fromServer' = Append(fromServer, Event("success")) /\ session' = TRUE
       \/ fromServer' = Append(fromServer, Event("fail")) /\ UNCHANGED session
    /\ UNCHANGED <<queueVars, connected, authenticated, sock, link, lost, loginVars, shownVars,
                   reading, inFlight, uiEvents, closing, lastMessage, written>>

\* A message for the user, from the offline store or from another client.
ServerSends ==
    /\ IoRuns /\ link = "up" /\ session /\ lastMessage < MaxMessages
    /\ lastMessage' = lastMessage + 1
    /\ fromServer' = Append(fromServer, [kind |-> "message", id |-> lastMessage'])
    /\ UNCHANGED <<queueVars, connected, authenticated, sock, link, unanswered, session, lost,
                   loginVars, shownVars, reading, inFlight, uiEvents, closing, written>>

\* What has arrived may still be read, or is lost with a reset.
LinkBreaks ==
    /\ IoRuns /\ link = "up"
    /\ link' = "down" /\ unanswered' = 0 /\ session' = FALSE /\ lost' = TRUE
    /\ fromServer' \in {fromServer, <<>>}
    /\ UNCHANGED <<queueVars, connected, authenticated, sock, loginVars, shownVars, reading,
                   inFlight, uiEvents, closing, lastMessage, written>>

-----------------------------------------------------------------------------
Init ==
    /\ connected = FALSE /\ authenticated = FALSE /\ sock = "closed" /\ reading = FALSE
    /\ writeQueue = <<>> /\ writing = FALSE /\ writeNexts = 0 /\ inFlight = <<>>
    /\ buttons = TRUE /\ isConnecting = FALSE /\ pendingAction = FALSE
    /\ welcomes = 0 /\ chatOpen = FALSE /\ uiEvents = <<>> /\ closing = "no"
    /\ link = "down" /\ unanswered = 0 /\ session = FALSE /\ fromServer = <<>>
    /\ lastMessage = 0 /\ lastRequest = 0
    /\ written = <<>> /\ lost = FALSE /\ dropped = {} /\ shown = <<>> /\ wiped = FALSE

Next ==
    \/ \E ok \in BOOLEAN : ConnectHandler(ok)
    \/ writeNext \/ WriteHandler \/ WriteError \/ ReadHandler \/ ReadError
    \/ ClickLogin \/ RunEvent \/ OpenChatWindow \/ Request \/ BeginClose \/ FinishClose
    \/ ServerAnswers \/ ServerSends \/ LinkBreaks

Spec == Init /\ [][Next]_vars

(* Both threads run what is queued for them, timers expire, a connection attempt
   ends, and a server that is there answers.  The user need not do anything, the
   connection need not break and the server need not send.                      *)
Fairness ==
    /\ WF_vars(\E ok \in BOOLEAN : ConnectHandler(ok))
    /\ WF_vars(writeNext) /\ WF_vars(WriteHandler) /\ WF_vars(WriteError)
    /\ WF_vars(ReadHandler) /\ WF_vars(ReadError)
    /\ WF_vars(RunEvent) /\ WF_vars(OpenChatWindow) /\ WF_vars(FinishClose)
    /\ WF_vars(ServerAnswers)

FairSpec == Spec /\ Fairness

-----------------------------------------------------------------------------
RequestMsg == [id : Nat, kind : {"auth", "other", "logout"}]
ServerMsg  == [kind : {"success", "fail", "message"}, id : Nat]
UiEvent    == [kind : {"connected", "refused", "welcome", "failed", "message", "disconnected"},
               id : Nat]

(* Types. *)
TypeOK ==
    /\ connected \in BOOLEAN /\ authenticated \in BOOLEAN /\ reading \in BOOLEAN
    /\ writing \in BOOLEAN /\ buttons \in BOOLEAN /\ isConnecting \in BOOLEAN
    /\ pendingAction \in BOOLEAN /\ chatOpen \in BOOLEAN /\ session \in BOOLEAN
    /\ lost \in BOOLEAN /\ wiped \in BOOLEAN
    /\ sock \in {"closed", "connecting", "open"} /\ link \in {"up", "down"}
    /\ closing \in {"no", "logout", "stopped"}
    /\ writeQueue \in Seq(RequestMsg)
    /\ inFlight \in Seq(RequestMsg)
    /\ uiEvents \in Seq(UiEvent) /\ fromServer \in Seq(ServerMsg)
    /\ writeNexts \in Nat /\ welcomes \in Nat /\ unanswered \in Nat
    /\ lastMessage \in Nat /\ lastRequest \in Nat
    /\ written \in Seq(Nat) /\ shown \in Seq(Nat) /\ dropped \subseteq Nat
    /\ connected <=> sock = "open"

(* At most one thread is inside the write chain, whichever threads queue requests
   while it is running: one posted writeNext or one async_write, of the message at
   the front.  The chain exists exactly while something is queued, until it is
   broken by a lost connection.                                                *)
WriteChain ==
    /\ writeNexts + Len(inFlight) <= 1
    /\ writing <=> writeQueue # <<>>
    /\ inFlight # <<>> => Head(inFlight) = Head(writeQueue)
    /\ ~lost => (writing <=> writeNexts + Len(inFlight) = 1)

Increasing(q) == \A i, j \in 1..Len(q) : i < j => q[i] < q[j]

(* Requests are written in the order they were made, none twice, over all the
   connections a client has one after the other.                               *)
RequestsInOrder == Increasing(written)

(* The chat window is given messages in the order in which the server sent them
   and, from the first it is given, all that were read.                         *)
MessagesInOrder == Increasing(shown) /\ \A d \in dropped, i \in 1..Len(shown) : d < shown[i]

Kinds(q) == {q[i].kind : i \in 1..Len(q)}

(* While the buttons are enabled no connection attempt, login or registration is
   under way at any stage: not waiting for the connection, in the write queue, at
   the server, on the way back, or in the event queue.                          *)
ButtonsMeanIdle ==
    buttons => /\ ~isConnecting /\ ~pendingAction /\ sock # "connecting"
               /\ "auth" \notin Kinds(writeQueue)
               /\ unanswered = 0
               /\ Kinds(fromServer) \cap {"success", "fail"} = {}
               /\ Kinds(uiEvents) \cap {"connected", "refused", "welcome", "failed"} = {}

-----------------------------------------------------------------------------
(* Liveness, under Fairness. *)

(* Who clicks gets the buttons back, whatever the order of connection result,
   request and answer, unless the connection is lost.                           *)
EveryClickIsAnswered == ~buttons ~> buttons \/ lost \/ closing # "no"

(* A request that was queued is written unless the connection is lost.          *)
EveryRequestIsWritten ==
    \A n \in 1..MaxRequests :
        n <= lastRequest ~> (\E i \in 1..Len(written) : written[i] = n) \/ lost \/ closing # "no"

-----------------------------------------------------------------------------
(* What documents and comments say of the client and the code does not keep. *)

(* A client that loses the server wipes its history and says so.               *)
LossIsNoticed == lost /\ chatOpen ~> wiped \/ closing # "no"
=============================================================================
