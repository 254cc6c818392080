-------------------------- MODULE ClientCoreProofs --------------------------
(***************************************************************************)
(* Proofs about ClientCore, for any number of requests and messages.  The  *)
(* write queue is drained in order by one chain of writes: the inductive   *)
(* invariant of that is TypeOK, ChainInv, FirstInv and OrderInv.  The      *)
(* messages of the server reach the chat window in order, and at most one  *)
(* attempt to log in is under way: StreamInv and AttemptInv add that.      *)
(***************************************************************************)
EXTENDS ClientCore, TLAPS

\* The write chain: WriteChain without what depends on the connection.
ChainInv ==
    /\ writeNexts + Len(inFlight) <= 1
    /\ writing <=> writeQueue # <<>>
    /\ writeNexts + Len(inFlight) > 0 => writing
    /\ inFlight # <<>> => Head(inFlight) = Head(writeQueue)

\* A client that never had a connection has not asked for anything yet, so that what is
\* queued before the first loss is queued on an open connection.
FirstInv ==
    /\ link = "up" => connected
    /\ ~lost => (writing => writeNexts + Len(inFlight) = 1)
    /\ ~lost /\ ~connected =>
          /\ writeQueue = <<>> /\ welcomes = 0 /\ ~chatOpen
          /\ \A i \in 1..Len(uiEvents) : uiEvents[i].kind = "refused"

\* Requests are numbered in the order they are queued, and written from the front.
OrderInv ==
    /\ \A i \in 1..Len(writeQueue) : writeQueue[i].id <= lastRequest
    /\ \A i, j \in 1..Len(writeQueue) : i < j => writeQueue[i].id < writeQueue[j].id
    /\ \A i \in 1..Len(written) : written[i] <= lastRequest
    /\ \A i \in 1..Len(written), j \in 1..Len(writeQueue) : written[i] < writeQueue[j].id
    /\ Increasing(written)

-----------------------------------------------------------------------------
(* Sequences. *)

LEMMA HeadTailType ==
    ASSUME NEW S, NEW q \in Seq(S), q # <<>>
    PROVE  /\ Head(q) \in S /\ Tail(q) \in Seq(S)
           /\ Head(q) = q[1] /\ Len(q) \in Nat /\ Len(q) > 0 /\ Len(Tail(q)) = Len(q) - 1
           /\ \A i \in 1..Len(Tail(q)) : Tail(q)[i] = q[i + 1]
OBVIOUS

LEMMA AppendType ==
    ASSUME NEW S, NEW q \in Seq(S), NEW e \in S
    PROVE  /\ Append(q, e) \in Seq(S) /\ Append(q, e) # <<>>
           /\ Len(Append(q, e)) = Len(q) + 1
           /\ Append(q, e)[Len(q) + 1] = e
           /\ \A i \in 1..Len(q) : Append(q, e)[i] = q[i]
           /\ q # <<>> => Head(Append(q, e)) = Head(q)
           /\ q = <<>> => Head(Append(q, e)) = e
OBVIOUS

LEMMA SingletonTail ==
    ASSUME NEW S, NEW q \in Seq(S), Len(q) = 1
    PROVE  Tail(q) = <<>>
<1>1. Tail(q) \in Seq(S) /\ Len(Tail(q)) = 0
  <2>1. q # <<>>
    OBVIOUS
  <2> QED BY <2>1, HeadTailType
<1>2. \A r \in Seq(S) : Len(r) = 0 => r = <<>>
  OBVIOUS
<1> QED BY <1>1, <1>2

LEMMA OneOfTwo ==
    ASSUME NEW m \in Nat, NEW n \in Nat, m + n <= 1, n > 0
    PROVE  m = 0 /\ n = 1
OBVIOUS

-----------------------------------------------------------------------------
(* Types. *)

LEMMA SendType ==
    ASSUME TypeOK, NEW kind \in {"auth", "other", "logout"}, sendMessage(kind)
    PROVE  /\ writeQueue' \in Seq(RequestMsg) /\ writing' \in BOOLEAN
           /\ writeNexts' \in Nat /\ lastRequest' \in Nat
<1>1. lastRequest \in Nat /\ writeNexts \in Nat /\ writeQueue \in Seq(RequestMsg)
  BY DEF TypeOK
<1>2. [id |-> lastRequest', kind |-> kind] \in RequestMsg /\ lastRequest' \in Nat
  BY <1>1 DEF sendMessage, RequestMsg
<1>3. writeQueue' \in Seq(RequestMsg)
  BY <1>1, <1>2, AppendType DEF sendMessage
<1> QED BY <1>1, <1>2, <1>3 DEF sendMessage

\* The part of TypeOK that disconnect writes.
LEMMA DisconnectType ==
    ASSUME TypeOK, disconnect
    PROVE  /\ connected' \in BOOLEAN /\ authenticated' \in BOOLEAN /\ writing' \in BOOLEAN
           /\ session' \in BOOLEAN /\ lost' \in BOOLEAN
           /\ sock' \in {"closed", "connecting", "open"} /\ link' \in {"up", "down"}
           /\ writeQueue' \in Seq(RequestMsg) /\ fromServer' \in Seq(ServerMsg)
           /\ writeNexts' \in Nat /\ unanswered' \in Nat /\ lastRequest' \in Nat
           /\ connected' <=> sock' = "open"
<1>1. CASE connected
  <2>1. writeQueue' \in Seq(RequestMsg) /\ writing' \in BOOLEAN
        /\ writeNexts' \in Nat /\ lastRequest' \in Nat
    BY <1>1, SendType DEF disconnect, TypeOK, queueVars
  <2>2. CloseSocket
    BY <1>1 DEF disconnect
  <2>3. fromServer' \in Seq(ServerMsg)
    BY <2>2 DEF CloseSocket
  <2>4. sock' = "closed" /\ link' = "down" /\ unanswered' = 0
    BY <2>2 DEF CloseSocket
  <2>5. connected' = FALSE /\ authenticated' = FALSE /\ session' = FALSE /\ lost' = TRUE
    BY <2>2 DEF CloseSocket
  <2> QED BY <2>1, <2>3, <2>4, <2>5
<1>2. CASE ~connected
  BY <1>2 DEF disconnect, TypeOK, connVars, queueVars
<1> QED BY <1>1, <1>2

\* What an event of the windows does to their state and to the write queue.
LEMMA EventType ==
    ASSUME TypeOK, RunEvent
    PROVE  /\ writeQueue' \in Seq(RequestMsg) /\ writing' \in BOOLEAN
           /\ writeNexts' \in Nat /\ lastRequest' \in Nat
           /\ buttons' \in BOOLEAN /\ isConnecting' \in BOOLEAN /\ pendingAction' \in BOOLEAN
           /\ welcomes' \in Nat /\ wiped' \in BOOLEAN
           /\ shown' \in Seq(Nat) /\ uiEvents' \in Seq(UiEvent)
<1> DEFINE e == Head(uiEvents)
<1>1. e \in UiEvent /\ uiEvents' \in Seq(UiEvent)
  BY HeadTailType DEF TypeOK, RunEvent
<1>2. e.id \in Nat
  BY <1>1 DEF UiEvent
<1>3. OnConnectionResult(e) \/ OnAuthResult(e) \/ OnMessage(e) \/ OnServerDisconnected(e)
  BY DEF RunEvent
<1> HIDE DEF e
<1>4. CASE OnConnectionResult(e)
  <2>1. /\ writeQueue' \in Seq(RequestMsg) /\ writing' \in BOOLEAN
        /\ writeNexts' \in Nat /\ lastRequest' \in Nat
    BY <1>4, SendType DEF OnConnectionResult, TypeOK, queueVars
  <2>2. buttons' \in BOOLEAN /\ isConnecting' \in BOOLEAN /\ pendingAction' \in BOOLEAN
    BY <1>4 DEF OnConnectionResult, TypeOK
  <2> QED BY <1>1, <1>4, <2>1, <2>2 DEF OnConnectionResult, TypeOK
<1>5. CASE OnAuthResult(e)
  BY <1>1, <1>5 DEF OnAuthResult, TypeOK, queueVars
<1>6. CASE OnMessage(e)
  <2>1. shown' \in Seq(Nat)
    BY <1>2, <1>6, AppendType DEF OnMessage, TypeOK
  <2> QED BY <1>1, <1>6, <2>1 DEF OnMessage, TypeOK, queueVars
<1>7. CASE OnServerDisconnected(e)
  BY <1>1, <1>7 DEF OnServerDisconnected, TypeOK, queueVars
<1> QED BY <1>3, <1>4, <1>5, <1>6, <1>7

LEMMA TypeInit == Init => TypeOK
<1> SUFFICES ASSUME Init PROVE TypeOK
  OBVIOUS
<1>1. /\ connected \in BOOLEAN /\ authenticated \in BOOLEAN /\ reading \in BOOLEAN
      /\ writing \in BOOLEAN /\ buttons \in BOOLEAN /\ isConnecting \in BOOLEAN
      /\ pendingAction \in BOOLEAN /\ chatOpen \in BOOLEAN /\ session \in BOOLEAN
      /\ lost \in BOOLEAN /\ wiped \in BOOLEAN
      /\ connected <=> sock = "open"
  BY DEF Init
<1>2. /\ sock \in {"closed", "connecting", "open"} /\ link \in {"up", "down"}
      /\ closing \in {"no", "logout", "stopped"}
  BY DEF Init
<1>3. /\ writeQueue \in Seq(RequestMsg) /\ fromServer \in Seq(ServerMsg)
      /\ inFlight \in Seq(RequestMsg)
      /\ uiEvents \in Seq(UiEvent) /\ written \in Seq(Nat) /\ shown \in Seq(Nat)
  BY DEF Init
<1>4. /\ writeNexts \in Nat /\ welcomes \in Nat /\ unanswered \in Nat
      /\ lastMessage \in Nat /\ lastRequest \in Nat /\ dropped \subseteq Nat
  BY DEF Init
<1> QED BY <1>1, <1>2, <1>3, <1>4 DEF TypeOK

\* The handlers of the io thread.
LEMMA TypeHandlers ==
    ASSUME TypeOK, ChainInv,
           \/ \E ok \in BOOLEAN : ConnectHandler(ok)
           \/ writeNext \/ WriteHandler \/ WriteError \/ ReadHandler \/ ReadError
    PROVE  TypeOK'
<1>1. ASSUME NEW ok \in BOOLEAN, ConnectHandler(ok) PROVE TypeOK'
  <2>1. \A k \in {"connected", "refused", "disconnected"} :
            Append(uiEvents, Event(k)) \in Seq(UiEvent)
    <3>1. \A k \in {"connected", "refused", "disconnected"} : Event(k) \in UiEvent
      BY DEF Event, UiEvent
    <3> QED BY <3>1, AppendType DEF TypeOK
  <2>2. uiEvents' \in Seq(UiEvent)
    BY <1>1, <2>1 DEF ConnectHandler, Tell, TypeOK
  <2>3. connected' \in BOOLEAN /\ reading' \in BOOLEAN
    BY <1>1 DEF ConnectHandler
  <2>4. /\ sock' \in {"closed", "connecting", "open"} /\ link' \in {"up", "down"}
        /\ connected' <=> sock' = "open"
    BY <1>1 DEF ConnectHandler
  <2> QED BY <1>1, <2>2, <2>3, <2>4
          DEF ConnectHandler, TypeOK, queueVars, loginVars, shownVars
<1>2. CASE writeNext
  <2>1. writeQueue # <<>> /\ writeNexts - 1 \in Nat
    BY <1>2 DEF writeNext, ChainInv, TypeOK
  <2>2. Head(writeQueue) \in RequestMsg
    BY <2>1, HeadTailType DEF TypeOK
  <2>4. inFlight' \in Seq(RequestMsg)
    BY <1>2, <2>2, AppendType DEF writeNext, TypeOK
  <2> QED BY <1>2, <2>1, <2>4 DEF writeNext, TypeOK, connVars, loginVars, shownVars
<1>3. CASE WriteHandler
  <2>1. /\ Head(inFlight) \in RequestMsg
        /\ inFlight' \in Seq(RequestMsg)
    BY <1>3, HeadTailType DEF WriteHandler, TypeOK
  <2>2. Head(inFlight).id \in Nat
    BY <2>1 DEF RequestMsg
  <2>3. writeQueue' \in Seq(RequestMsg)
    <3>1. writeQueue # <<>>
      BY <1>3, HeadTailType DEF WriteHandler, ChainInv, TypeOK
    <3> QED BY <1>3, <3>1, HeadTailType DEF WriteHandler, TypeOK
  <2>4. written' \in Seq(Nat)
    BY <1>3, <2>2, AppendType DEF WriteHandler, TypeOK
  <2>5. writeNexts' \in Nat /\ unanswered' \in Nat
    <3>1. writeNexts \in Nat /\ unanswered \in Nat
      BY DEF TypeOK
    <3>2. writeNexts' = writeNexts + 1 \/ writeNexts' = writeNexts
      BY <1>3 DEF WriteHandler
    <3>3. unanswered' = unanswered + 1 \/ unanswered' = unanswered
      BY <1>3 DEF WriteHandler
    <3> QED BY <3>1, <3>2, <3>3
  <2>7. writing' \in BOOLEAN
    BY <1>3 DEF WriteHandler, TypeOK
  <2> QED BY <1>3, <2>1, <2>3, <2>4, <2>5, <2>7
          DEF WriteHandler, TypeOK, loginVars, shownVars
<1>4. CASE WriteError
  <2>1. inFlight' \in Seq(RequestMsg)
    BY <1>4, HeadTailType DEF WriteError, TypeOK
  <2>2. disconnect
    BY <1>4 DEF WriteError
  <2> QED BY <1>4, <2>1, <2>2, DisconnectType DEF WriteError, TypeOK, loginVars, shownVars
<1>5. CASE ReadHandler
  <2> DEFINE m == Head(fromServer)
  <2>1. m \in ServerMsg /\ fromServer' \in Seq(ServerMsg)
    BY <1>5, HeadTailType DEF ReadHandler, TypeOK
  <2>2. Event("welcome") \in UiEvent /\ Event("failed") \in UiEvent
    BY DEF Event, UiEvent
  <2>3. m.kind = "message" => m \in UiEvent
    BY <2>1 DEF ServerMsg, UiEvent
  <2>4. m.id \in Nat
    BY <2>1 DEF ServerMsg
  <2>5. uiEvents' \in Seq(UiEvent)
    <3>1. uiEvents \in Seq(UiEvent)
      BY DEF TypeOK
    <3>2. \/ uiEvents' = uiEvents
          \/ uiEvents' = Append(uiEvents, Event("welcome"))
          \/ uiEvents' = Append(uiEvents, Event("failed"))
          \/ m.kind = "message" /\ uiEvents' = Append(uiEvents, m)
      BY <1>5 DEF ReadHandler, Tell
    <3> HIDE DEF m
    <3> QED BY <2>2, <2>3, <3>1, <3>2, AppendType
  <2>6. dropped' \subseteq Nat
    BY <1>5, <2>4 DEF ReadHandler, TypeOK
  <2>7. authenticated' \in BOOLEAN
    BY <1>5 DEF ReadHandler, TypeOK
  <2> QED BY <1>5, <2>1, <2>5, <2>6, <2>7
          DEF ReadHandler, TypeOK, queueVars, loginVars
<1>6. CASE ReadError
  <2>1. disconnect /\ reading' \in BOOLEAN
    BY <1>6 DEF ReadError
  <2> QED BY <1>6, <2>1, DisconnectType DEF ReadError, TypeOK, loginVars, shownVars
<1> QED BY <1>1, <1>2, <1>3, <1>4, <1>5, <1>6

\* The windows and the environment.
LEMMA TypeOthers ==
    ASSUME TypeOK,
           \/ ClickLogin \/ RunEvent \/ OpenChatWindow \/ Request \/ BeginClose \/ FinishClose
           \/ ServerAnswers \/ ServerSends \/ LinkBreaks
    PROVE  TypeOK'
<1>1. CASE ClickLogin
  <2>1. /\ writeQueue' \in Seq(RequestMsg) /\ writing' \in BOOLEAN
        /\ writeNexts' \in Nat /\ lastRequest' \in Nat
    BY <1>1, SendType DEF ClickLogin, TypeOK, queueVars
  <2>2. /\ sock' \in {"closed", "connecting", "open"} /\ (connected' <=> sock' = "open")
    BY <1>1 DEF ClickLogin, TypeOK
  <2>3. buttons' \in BOOLEAN /\ isConnecting' \in BOOLEAN /\ pendingAction' \in BOOLEAN
    BY <1>1 DEF ClickLogin, TypeOK
  <2> QED BY <1>1, <2>1, <2>2, <2>3 DEF ClickLogin, TypeOK, shownVars
<1>2. CASE RunEvent
  BY <1>2, EventType DEF RunEvent, TypeOK, connVars
<1>3. CASE OpenChatWindow
  <2>1. /\ writeQueue' \in Seq(RequestMsg) /\ writing' \in BOOLEAN
        /\ writeNexts' \in Nat /\ lastRequest' \in Nat
    BY <1>3, SendType DEF OpenChatWindow, TypeOK, queueVars
  <2>2. welcomes' \in Nat /\ chatOpen' \in BOOLEAN
    BY <1>3 DEF OpenChatWindow, TypeOK
  <2> QED BY <1>3, <2>1, <2>2 DEF OpenChatWindow, TypeOK, connVars, shownVars
<1>4. CASE Request
  <2>1. /\ writeQueue' \in Seq(RequestMsg) /\ writing' \in BOOLEAN
        /\ writeNexts' \in Nat /\ lastRequest' \in Nat
    BY <1>4, SendType DEF Request
  <2> QED BY <1>4, <2>1 DEF Request, TypeOK, connVars, loginVars, shownVars
<1>5. CASE BeginClose
  <2>1. /\ writeQueue' \in Seq(RequestMsg) /\ writing' \in BOOLEAN
        /\ writeNexts' \in Nat /\ lastRequest' \in Nat
    BY <1>5, SendType DEF BeginClose, TypeOK, queueVars
  <2>2. closing' \in {"no", "logout", "stopped"}
    BY <1>5 DEF BeginClose
  <2> QED BY <1>5, <2>1, <2>2 DEF BeginClose, TypeOK, connVars, loginVars, shownVars
<1>6. CASE FinishClose
  <2>1. sock' = "closed" /\ link' = "down" /\ unanswered' = 0 /\ fromServer' \in Seq(ServerMsg)
    BY <1>6 DEF FinishClose, CloseSocket
  <2>2. connected' = FALSE /\ authenticated' = FALSE /\ session' = FALSE /\ lost' = TRUE
    BY <1>6 DEF FinishClose, CloseSocket
  <2> QED BY <1>6, <2>1, <2>2 DEF FinishClose, TypeOK, queueVars, loginVars, shownVars
<1>7. CASE ServerAnswers
  <2>1. Event("success") \in ServerMsg /\ Event("fail") \in ServerMsg
    BY DEF Event, ServerMsg
  <2>2. fromServer' \in Seq(ServerMsg)
    <3>1. fromServer' = Append(fromServer, Event("success"))
          \/ fromServer' = Append(fromServer, Event("fail"))
      BY <1>7 DEF ServerAnswers
    <3>2. fromServer \in Seq(ServerMsg)
      BY DEF TypeOK
    <3> QED BY <2>1, <3>1, <3>2, AppendType
  <2>3. unanswered' \in Nat
    BY <1>7 DEF ServerAnswers, TypeOK
  <2>4. session' \in BOOLEAN
    BY <1>7 DEF ServerAnswers, TypeOK
  <2> QED BY <1>7, <2>2, <2>3, <2>4
          DEF ServerAnswers, TypeOK, queueVars, loginVars, shownVars
<1>8. CASE ServerSends
  <2>1. lastMessage' \in Nat
    BY <1>8 DEF ServerSends, TypeOK
  <2>2. [kind |-> "message", id |-> lastMessage'] \in ServerMsg
    BY <2>1 DEF ServerMsg
  <2>3. fromServer' \in Seq(ServerMsg)
    BY <1>8, <2>2, AppendType DEF ServerSends, TypeOK
  <2> QED BY <1>8, <2>1, <2>3
          DEF ServerSends, TypeOK, queueVars, loginVars, shownVars
<1>9. CASE LinkBreaks
  <2>1. link' = "down" /\ unanswered' = 0 /\ fromServer' \in Seq(ServerMsg)
    <3>1. fromServer' = fromServer \/ fromServer' = <<>>
      BY <1>9 DEF LinkBreaks
    <3>2. <<>> \in Seq(ServerMsg)
      OBVIOUS
    <3>3. link' = "down" /\ unanswered' = 0
      BY <1>9 DEF LinkBreaks
    <3> QED BY <3>1, <3>2, <3>3 DEF TypeOK
  <2>2. session' \in BOOLEAN /\ lost' \in BOOLEAN
    BY <1>9 DEF LinkBreaks
  <2>3. /\ UNCHANGED <<connected, authenticated, sock, reading, inFlight, uiEvents, closing,
                       lastMessage>>
        /\ UNCHANGED <<queueVars, loginVars, shownVars, written>>
    BY <1>9 DEF LinkBreaks
  <2>4. link' \in {"up", "down"} /\ unanswered' \in Nat
    BY <2>1
  <2> QED BY <2>1, <2>2, <2>3, <2>4
          DEF TypeOK, queueVars, loginVars, shownVars
<1> QED BY <1>1, <1>2, <1>3, <1>4, <1>5, <1>6, <1>7, <1>8, <1>9

LEMMA TypeNext == TypeOK /\ ChainInv /\ [Next]_vars => TypeOK'
<1> SUFFICES ASSUME TypeOK, ChainInv, [Next]_vars PROVE TypeOK'
  OBVIOUS
<1>1. CASE Next
  BY <1>1, TypeHandlers, TypeOthers DEF Next
<1>2. CASE UNCHANGED vars
  BY <1>2 DEF vars, TypeOK, queueVars, connVars, loginVars, shownVars
<1> QED BY <1>1, <1>2

-----------------------------------------------------------------------------
(* What a step does to the write queue. *)

\* Anything but a handler of the write chain queues at most one request.
Elsewhere ==
    /\ inFlight' = inFlight /\ written' = written
    /\ UNCHANGED queueVars \/ \E kind \in {"auth", "other", "logout"} : sendMessage(kind)

LEMMA DisconnectQueue ==
    ASSUME disconnect
    PROVE  UNCHANGED queueVars \/ \E kind \in {"auth", "other", "logout"} : sendMessage(kind)
BY DEF disconnect

LEMMA StepKinds ==
    ASSUME [Next]_vars
    PROVE  writeNext \/ WriteHandler \/ WriteError \/ Elsewhere
<1>1. ASSUME NEW ok \in BOOLEAN, ConnectHandler(ok) PROVE Elsewhere
  BY <1>1 DEF ConnectHandler, Elsewhere
<1>2. CASE ReadHandler
  BY <1>2 DEF ReadHandler, Elsewhere
<1>3. CASE ReadError
  BY <1>3, DisconnectQueue DEF ReadError, Elsewhere
<1>4. CASE ClickLogin
  BY <1>4 DEF ClickLogin, Elsewhere
<1>5. CASE RunEvent
  BY <1>5 DEF RunEvent, OnConnectionResult, OnAuthResult, OnMessage, OnServerDisconnected,
              Elsewhere
<1>6. CASE OpenChatWindow
  BY <1>6 DEF OpenChatWindow, Elsewhere
<1>7. CASE Request
  BY <1>7 DEF Request, Elsewhere
<1>8. CASE BeginClose
  BY <1>8 DEF BeginClose, Elsewhere
<1>9. CASE FinishClose
  BY <1>9 DEF FinishClose, Elsewhere
<1>10. CASE ServerAnswers
  BY <1>10 DEF ServerAnswers, Elsewhere
<1>11. CASE ServerSends
  BY <1>11 DEF ServerSends, Elsewhere
<1>12. CASE LinkBreaks
  BY <1>12 DEF LinkBreaks, Elsewhere
<1>13. CASE UNCHANGED vars
  BY <1>13 DEF vars, Elsewhere
<1> QED BY <1>1, <1>2, <1>3, <1>4, <1>5, <1>6, <1>7, <1>8, <1>9, <1>10, <1>11, <1>12, <1>13
        DEF Next

-----------------------------------------------------------------------------
(* The chain. *)

LEMMA SendChain ==
    ASSUME TypeOK, ChainInv, NEW kind \in {"auth", "other", "logout"}, sendMessage(kind)
    PROVE  /\ writeNexts' + Len(inFlight) = IF writing THEN writeNexts + Len(inFlight) ELSE 1
           /\ writing' /\ writeQueue' # <<>>
           /\ writing => Head(writeQueue') = Head(writeQueue)
           /\ ~writing => inFlight = <<>>
<1>1. /\ lastRequest \in Nat /\ writeNexts \in Nat /\ writeQueue \in Seq(RequestMsg)
      /\ Len(inFlight) \in Nat /\ Len(inFlight) = 0 => inFlight = <<>>
  BY DEF TypeOK
<1>2. [id |-> lastRequest', kind |-> kind] \in RequestMsg
  BY <1>1 DEF sendMessage, RequestMsg
<1>3. writeQueue' # <<>> /\ (writeQueue # <<>> => Head(writeQueue') = Head(writeQueue))
  BY <1>1, <1>2, AppendType DEF sendMessage
<1>4. writing'
  BY DEF sendMessage
<1>5. CASE writing
  BY <1>3, <1>4, <1>5 DEF sendMessage, ChainInv
<1>6. CASE ~writing
  <2>1. writeNexts = 0 /\ Len(inFlight) = 0
    BY <1>1, <1>6 DEF ChainInv
  <2>2. writeNexts' = writeNexts + 1
    BY <1>6 DEF sendMessage
  <2> QED BY <1>1, <1>3, <1>4, <1>6, <2>1, <2>2
<1> QED BY <1>5, <1>6

\* The chain consists of the message in flight.
LEMMA InFlight ==
    ASSUME TypeOK, ChainInv, inFlight # <<>>
    PROVE  /\ writeNexts = 0 /\ Len(inFlight) = 1 /\ Tail(inFlight) = <<>>
           /\ writing /\ writeQueue # <<>> /\ Head(inFlight) = Head(writeQueue)
<1>1. inFlight \in Seq(RequestMsg) /\ writeNexts \in Nat
  BY DEF TypeOK
<1>2. Len(inFlight) \in Nat /\ Len(inFlight) > 0
  BY <1>1
<1>3. writeNexts = 0 /\ Len(inFlight) = 1
  BY <1>1, <1>2, OneOfTwo DEF ChainInv
<1>4. Tail(inFlight) = <<>>
  BY <1>1, <1>3, SingletonTail
<1>5. writing
  BY <1>3 DEF ChainInv
<1> QED BY <1>3, <1>4, <1>5 DEF ChainInv

\* The chain consists of a posted writeNext.
LEMMA Posted ==
    ASSUME TypeOK, ChainInv, writeNexts > 0
    PROVE  writeNexts = 1 /\ inFlight = <<>> /\ writing /\ writeQueue # <<>>
<1>1. inFlight \in Seq(RequestMsg) /\ writeNexts \in Nat
  BY DEF TypeOK
<1>2. Len(inFlight) \in Nat
  BY <1>1
<1>3. writeNexts = 1 /\ Len(inFlight) = 0
  <2>1. writeNexts + Len(inFlight) <= 1
    BY DEF ChainInv
  <2> QED BY <1>1, <1>2, <2>1
<1>4. inFlight = <<>>
  <2>1. inFlight \in Seq(RequestMsg) /\ Len(inFlight) = 0
    BY <1>1, <1>3
  <2> QED BY <2>1
<1>5. writing
  BY <1>3 DEF ChainInv
<1> QED BY <1>3, <1>4, <1>5 DEF ChainInv

LEMMA ChainNext == TypeOK /\ ChainInv /\ [Next]_vars => ChainInv'
<1> SUFFICES ASSUME TypeOK, ChainInv, [Next]_vars PROVE ChainInv'
  OBVIOUS
<1>1. CASE writeNext
  <2>1. writeNexts = 1 /\ inFlight = <<>> /\ writing /\ writeQueue # <<>>
    BY <1>1, Posted DEF writeNext
  <2>2. inFlight' = Append(inFlight, Head(writeQueue))
    BY <1>1 DEF writeNext
  <2>3. /\ Len(inFlight') = 1 /\ inFlight' # <<>>
        /\ Head(inFlight') = Head(writeQueue)
    BY <2>1, <2>2
  <2>4. writeNexts' = 0
    BY <1>1, <2>1 DEF writeNext
  <2>5. writeQueue' = writeQueue /\ writing' = writing
    BY <1>1 DEF writeNext
  <2>6. Head(inFlight') = Head(writeQueue')
    BY <2>3, <2>5
  <2>7. writeNexts' + Len(inFlight') <= 1
    BY <2>3, <2>4
  <2> QED BY <2>1, <2>5, <2>6, <2>7 DEF ChainInv
<1>2. CASE WriteHandler
  <2>1. /\ writeNexts = 0 /\ Tail(inFlight) = <<>> /\ writing
    BY <1>2, InFlight DEF WriteHandler
  <2>2. inFlight' = <<>> /\ Len(inFlight') = 0
    BY <1>2, <2>1 DEF WriteHandler
  <2>3. CASE writeQueue' # <<>>
    <3>1. writeNexts' = 1 /\ writing'
      BY <1>2, <2>1, <2>3 DEF WriteHandler
    <3> QED BY <2>2, <2>3, <3>1 DEF ChainInv
  <2>4. CASE writeQueue' = <<>>
    <3>1. writeNexts' = 0 /\ ~writing'
      BY <1>2, <2>1, <2>4 DEF WriteHandler
    <3> QED BY <2>2, <2>4, <3>1 DEF ChainInv
  <2> QED BY <2>3, <2>4
<1>3. CASE WriteError
  <2>1. writeNexts = 0 /\ Tail(inFlight) = <<>> /\ writing /\ writeQueue # <<>>
    BY <1>3, InFlight DEF WriteError
  <2>2. inFlight' = <<>> /\ Len(inFlight') = 0
    BY <1>3, <2>1 DEF WriteError
  <2>3. CASE UNCHANGED queueVars
    <3>1. writeNexts' = 0 /\ writing' = writing /\ writeQueue' = writeQueue
      BY <2>1, <2>3 DEF queueVars
    <3> QED BY <2>1, <2>2, <3>1 DEF ChainInv
  <2>4. CASE \E kind \in {"auth", "other", "logout"} : sendMessage(kind)
    <3>1. writing' /\ writeQueue' # <<>>
      BY <2>4, SendChain
    <3>2. writeNexts' = 0
      BY <2>1, <2>4 DEF sendMessage
    <3> QED BY <2>2, <3>1, <3>2 DEF ChainInv
  <2> QED BY <1>3, <2>3, <2>4, DisconnectQueue DEF WriteError
<1>4. CASE Elsewhere
  <2>1. CASE UNCHANGED queueVars
    BY <1>4, <2>1 DEF Elsewhere, queueVars, ChainInv
  <2>2. ASSUME NEW kind \in {"auth", "other", "logout"}, sendMessage(kind) PROVE ChainInv'
    <3>1. inFlight' = inFlight
      BY <1>4 DEF Elsewhere
    <3>2. writeNexts' + Len(inFlight') <= 1
      BY <2>2, <3>1, SendChain DEF ChainInv
    <3>3. inFlight' # <<>> => Head(inFlight') = Head(writeQueue')
      BY <2>2, <3>1, SendChain DEF ChainInv
    <3> QED BY <2>2, <3>2, <3>3, SendChain DEF ChainInv
  <2> QED BY <1>4, <2>1, <2>2 DEF Elsewhere
<1> QED BY <1>1, <1>2, <1>3, <1>4, StepKinds

-----------------------------------------------------------------------------
(* The first connection. *)

\* Before the first connection nothing is queued and nobody is told of anything but a
\* refusal, whatever step is taken, unless the connection is established.
FirstIdle ==
    /\ writeQueue = <<>> /\ welcomes = 0 /\ ~chatOpen
    /\ \A i \in 1..Len(uiEvents) : uiEvents[i].kind = "refused"

LEMMA QueuedCount ==
    ASSUME TypeOK, ChainInv, FirstInv, ~lost, ~lost', [Next]_vars
    PROVE  writing' => writeNexts' + Len(inFlight') = 1
<1>1. CASE writeNext
  <2>1. writeNexts = 1 /\ inFlight = <<>>
    BY <1>1, Posted DEF writeNext
  <2>2. writeNexts' = 0
    BY <1>1, <2>1 DEF writeNext
  <2>3. Len(inFlight') = 1
    BY <1>1, <2>1 DEF writeNext
  <2> QED BY <2>2, <2>3
<1>2. CASE WriteHandler
  <2>1. writeNexts = 0 /\ Tail(inFlight) = <<>>
    BY <1>2, InFlight DEF WriteHandler
  <2>2. Len(inFlight') = 0
    BY <1>2, <2>1 DEF WriteHandler
  <2>3. writeNexts' = 1 \/ ~writing'
    BY <1>2, <2>1 DEF WriteHandler
  <2> QED BY <2>2, <2>3
<1>3. CASE WriteError
  <2>1. writeQueue # <<>>
    BY <1>3, InFlight DEF WriteError
  <2>2. connected
    BY <2>1 DEF FirstInv
  <2>3. lost'
    BY <1>3, <2>2 DEF WriteError, disconnect, CloseSocket
  <2> QED BY <2>3
<1>4. CASE Elsewhere
  <2>1. CASE UNCHANGED queueVars
    BY <1>4, <2>1 DEF Elsewhere, queueVars, FirstInv
  <2>2. ASSUME NEW kind \in {"auth", "other", "logout"}, sendMessage(kind)
        PROVE  writeNexts' + Len(inFlight') = 1
    <3>1. writeNexts' + Len(inFlight) = IF writing THEN writeNexts + Len(inFlight) ELSE 1
      BY <2>2, SendChain
    <3>2. writing => writeNexts + Len(inFlight) = 1
      BY DEF FirstInv
    <3>3. inFlight' = inFlight
      BY <1>4 DEF Elsewhere
    <3> QED BY <3>1, <3>2, <3>3
  <2> QED BY <1>4, <2>1, <2>2 DEF Elsewhere
<1> QED BY <1>1, <1>2, <1>3, <1>4, StepKinds

LEMMA LinkNext ==
    ASSUME TypeOK, link = "up" => connected, [Next]_vars
    PROVE  link' = "up" => connected'
<1>1. ASSUME NEW ok \in BOOLEAN, ConnectHandler(ok) PROVE link' = "up" => connected'
  BY <1>1 DEF ConnectHandler
<1>2. ASSUME disconnect PROVE link' = "up" => connected'
  BY <1>2 DEF disconnect, CloseSocket, connVars
<1>3. CASE writeNext
  BY <1>3 DEF writeNext, connVars
<1>4. CASE WriteHandler
  BY <1>4 DEF WriteHandler
<1>5. CASE WriteError \/ ReadError
  BY <1>2, <1>5 DEF WriteError, ReadError
<1>6. CASE ReadHandler
  BY <1>6 DEF ReadHandler
<1>7. CASE ClickLogin
  BY <1>7 DEF ClickLogin
<1>8. CASE RunEvent
  BY <1>8 DEF RunEvent, connVars
<1>9. CASE OpenChatWindow \/ Request \/ BeginClose
  BY <1>9 DEF OpenChatWindow, Request, BeginClose, connVars
<1>10. CASE FinishClose
  BY <1>10 DEF FinishClose, CloseSocket
<1>11. CASE ServerAnswers \/ ServerSends \/ LinkBreaks
  BY <1>11 DEF ServerAnswers, ServerSends, LinkBreaks
<1>12. CASE UNCHANGED vars
  BY <1>12 DEF vars, connVars
<1> QED BY <1>1, <1>3, <1>4, <1>5, <1>6, <1>7, <1>8, <1>9, <1>10, <1>11, <1>12 DEF Next

\* A connection ends with lost set.
LEMMA ConnectedStays ==
    ASSUME TypeOK, connected, [Next]_vars
    PROVE  connected' \/ lost'
<1>1. ASSUME NEW ok \in BOOLEAN, ConnectHandler(ok) PROVE FALSE
  BY <1>1 DEF ConnectHandler, TypeOK
<1>2. CASE writeNext \/ WriteHandler \/ ReadHandler
  BY <1>2 DEF writeNext, WriteHandler, ReadHandler, connVars
<1>3. CASE WriteError \/ ReadError
  BY <1>3 DEF WriteError, ReadError, disconnect, CloseSocket
<1>4. CASE ClickLogin \/ RunEvent \/ OpenChatWindow \/ Request \/ BeginClose
  BY <1>4 DEF ClickLogin, RunEvent, OpenChatWindow, Request, BeginClose, connVars
<1>5. CASE FinishClose
  BY <1>5 DEF FinishClose, CloseSocket
<1>6. CASE ServerAnswers \/ ServerSends \/ LinkBreaks
  BY <1>6 DEF ServerAnswers, ServerSends, LinkBreaks
<1>7. CASE UNCHANGED vars
  BY <1>7 DEF vars, connVars
<1> QED BY <1>1, <1>2, <1>3, <1>4, <1>5, <1>6, <1>7 DEF Next

LEMMA FirstIdleNext ==
    ASSUME TypeOK, ChainInv, FirstInv, ~lost, ~connected, ~lost', ~connected', [Next]_vars
    PROVE  FirstIdle'
<1>1. FirstIdle /\ link # "up"
  BY DEF FirstInv, FirstIdle
<1>2. uiEvents \in Seq(UiEvent) /\ writeQueue = <<>> /\ sock # "open"
  BY <1>1 DEF TypeOK, FirstIdle
<1>3. ~writing /\ ~(writeNexts > 0) /\ inFlight = <<>>
  <2>1. ~writing
    BY <1>2 DEF ChainInv
  <2>2. inFlight = <<>>
    BY <1>2, InFlight
  <2>3. ~(writeNexts > 0)
    BY <1>2, Posted
  <2> QED BY <2>1, <2>2, <2>3
<1>4. ASSUME UNCHANGED <<writeQueue, welcomes, chatOpen, uiEvents>> PROVE FirstIdle'
  BY <1>1, <1>4 DEF FirstIdle
<1>5. ASSUME NEW ok \in BOOLEAN, ConnectHandler(ok) PROVE FirstIdle'
  <2>1. ~ok
    BY <1>5 DEF ConnectHandler
  <2>2. uiEvents' = Append(uiEvents, Event("refused"))
    BY <1>1, <1>5, <2>1 DEF ConnectHandler, Tell, FirstIdle
  <2>3. Event("refused") \in UiEvent /\ Event("refused").kind = "refused"
    BY DEF Event, UiEvent
  <2>4. \A i \in 1..Len(uiEvents') : uiEvents'[i].kind = "refused"
    <3>1. \A i \in 1..Len(uiEvents) : uiEvents[i].kind = "refused"
      BY <1>1 DEF FirstIdle
    <3> HIDE DEF Event
    <3>2. /\ Len(uiEvents') = Len(uiEvents) + 1
          /\ uiEvents'[Len(uiEvents) + 1] = Event("refused")
          /\ \A i \in 1..Len(uiEvents) : uiEvents'[i] = uiEvents[i]
      BY <1>2, <2>2, <2>3, AppendType
    <3>3. Len(uiEvents) \in Nat
      BY <1>2
    <3>4. \A i \in 1..Len(uiEvents') : i \in 1..Len(uiEvents) \/ i = Len(uiEvents) + 1
      BY <3>2, <3>3
    <3> QED BY <2>3, <3>1, <3>2, <3>4
  <2>5. UNCHANGED <<writeQueue, welcomes, chatOpen>>
    BY <1>5 DEF ConnectHandler, queueVars, loginVars
  <2> QED BY <1>1, <2>4, <2>5 DEF FirstIdle
<1>6. CASE writeNext
  BY <1>3, <1>6 DEF writeNext
<1>7. CASE WriteHandler \/ WriteError
  BY <1>3, <1>7 DEF WriteHandler, WriteError
<1>8. CASE ReadHandler
  BY <1>2, <1>8 DEF ReadHandler
<1>9. CASE ReadError
  BY <1>4, <1>9 DEF ReadError, disconnect, queueVars, loginVars
<1>10. CASE ClickLogin
  BY <1>4, <1>10 DEF ClickLogin, queueVars
<1>11. CASE RunEvent
  <2>1. uiEvents # <<>>
    BY <1>11 DEF RunEvent
  <2>2. /\ Head(uiEvents) = uiEvents[1] /\ Len(uiEvents) \in Nat /\ Len(uiEvents) > 0
        /\ Len(Tail(uiEvents)) = Len(uiEvents) - 1
        /\ \A i \in 1..Len(Tail(uiEvents)) : Tail(uiEvents)[i] = uiEvents[i + 1]
    BY <1>2, <2>1, HeadTailType
  <2>3. Head(uiEvents).kind = "refused"
    BY <1>1, <2>2 DEF FirstIdle
  <2>4. OnConnectionResult(Head(uiEvents))
    BY <1>11, <2>3 DEF RunEvent, OnAuthResult, OnMessage, OnServerDisconnected
  <2>5. UNCHANGED <<writeQueue, welcomes, chatOpen>>
    BY <1>11, <2>3, <2>4 DEF RunEvent, OnConnectionResult, queueVars
  <2>6. \A i \in 1..Len(uiEvents') : uiEvents'[i].kind = "refused"
    <3>1. \A i \in 1..Len(uiEvents) : uiEvents[i].kind = "refused"
      BY <1>1 DEF FirstIdle
    <3>2. uiEvents' = Tail(uiEvents)
      BY <1>11 DEF RunEvent
    <3>3. \A i \in 1..Len(Tail(uiEvents)) : i + 1 \in 1..Len(uiEvents)
      BY <2>2
    <3> QED BY <2>2, <3>1, <3>2, <3>3
  <2> QED BY <1>1, <2>5, <2>6 DEF FirstIdle
<1>12. CASE OpenChatWindow \/ Request
  BY <1>1, <1>12 DEF OpenChatWindow, Request, FirstIdle
<1>13. CASE BeginClose
  BY <1>4, <1>13 DEF BeginClose, queueVars, loginVars
<1>14. CASE FinishClose
  BY <1>14 DEF FinishClose, CloseSocket
<1>15. CASE ServerAnswers \/ ServerSends \/ LinkBreaks
  BY <1>1, <1>15 DEF ServerAnswers, ServerSends, LinkBreaks
<1>16. CASE UNCHANGED vars
  BY <1>4, <1>16 DEF vars, queueVars, loginVars
<1> QED BY <1>5, <1>6, <1>7, <1>8, <1>9, <1>10, <1>11, <1>12, <1>13, <1>14, <1>15, <1>16 DEF Next

\* lost is never reset.
LEMMA LostStays ==
    ASSUME lost, [Next]_vars
    PROVE  lost'
<1>1. ASSUME NEW ok \in BOOLEAN, ConnectHandler(ok) PROVE lost'
  BY <1>1 DEF ConnectHandler
<1>2. CASE writeNext \/ WriteHandler \/ ReadHandler
  BY <1>2 DEF writeNext, WriteHandler, ReadHandler, connVars
<1>3. CASE WriteError \/ ReadError
  BY <1>3 DEF WriteError, ReadError, disconnect, CloseSocket, connVars
<1>4. CASE ClickLogin \/ RunEvent \/ OpenChatWindow \/ Request \/ BeginClose
  BY <1>4 DEF ClickLogin, RunEvent, OpenChatWindow, Request, BeginClose, connVars
<1>5. CASE FinishClose
  BY <1>5 DEF FinishClose, CloseSocket
<1>6. CASE ServerAnswers \/ ServerSends \/ LinkBreaks
  BY <1>6 DEF ServerAnswers, ServerSends, LinkBreaks
<1>7. CASE UNCHANGED vars
  BY <1>7 DEF vars, connVars
<1> QED BY <1>1, <1>2, <1>3, <1>4, <1>5, <1>6, <1>7 DEF Next

LEMMA FirstNext == TypeOK /\ ChainInv /\ FirstInv /\ [Next]_vars => FirstInv'
<1> SUFFICES ASSUME TypeOK, ChainInv, FirstInv, [Next]_vars PROVE FirstInv'
  OBVIOUS
<1>1. link' = "up" => connected'
  BY LinkNext DEF FirstInv
<1>2. ~lost' => (writing' => writeNexts' + Len(inFlight') = 1)
  BY QueuedCount, LostStays
<1>3. ~lost' /\ ~connected' => FirstIdle'
  BY FirstIdleNext, LostStays, ConnectedStays
<1> QED BY <1>1, <1>2, <1>3 DEF FirstInv, FirstIdle

-----------------------------------------------------------------------------
(* The order of the requests. *)

LEMMA SendOrder ==
    ASSUME TypeOK, OrderInv, NEW kind \in {"auth", "other", "logout"}, sendMessage(kind),
           written' = written
    PROVE  OrderInv'
<1> DEFINE m == [id |-> lastRequest', kind |-> kind]
<1>1. lastRequest \in Nat /\ lastRequest' = lastRequest + 1 /\ m.id = lastRequest'
  BY DEF TypeOK, sendMessage
<1>2. writeQueue \in Seq(RequestMsg) /\ m \in RequestMsg /\ writeQueue' = Append(writeQueue, m)
  BY <1>1 DEF TypeOK, sendMessage, RequestMsg
<1> HIDE DEF m
<1>3. /\ Len(writeQueue) \in Nat /\ Len(writeQueue') = Len(writeQueue) + 1
      /\ writeQueue'[Len(writeQueue) + 1].id = lastRequest + 1
      /\ \A i \in 1..Len(writeQueue) : writeQueue'[i] = writeQueue[i]
  BY <1>1, <1>2, AppendType
<1>4. \A i \in 1..Len(writeQueue) : writeQueue[i].id \in Nat
  <2>1. \A i \in 1..Len(writeQueue) : writeQueue[i] \in RequestMsg
    BY <1>2
  <2> QED BY <2>1 DEF RequestMsg
<1>5. \A i \in 1..Len(writeQueue') : i \in 1..Len(writeQueue) \/ i = Len(writeQueue) + 1
  BY <1>3
<1>6. written \in Seq(Nat) /\ \A i \in 1..Len(written) : written[i] \in Nat
  BY DEF TypeOK
<1>7. \A i \in 1..Len(writeQueue') : writeQueue'[i].id <= lastRequest'
  BY <1>1, <1>3, <1>4, <1>5 DEF OrderInv
<1>8. \A i, j \in 1..Len(writeQueue') : i < j => writeQueue'[i].id < writeQueue'[j].id
  <2>1. \A i \in 1..Len(writeQueue), j \in 1..Len(writeQueue') :
            i < j => writeQueue'[i].id < writeQueue'[j].id
    BY <1>1, <1>3, <1>4, <1>5 DEF OrderInv
  <2>2. \A i, j \in 1..Len(writeQueue') : i < j => i \in 1..Len(writeQueue)
    BY <1>3
  <2> QED BY <2>1, <2>2
<1>9. \A i \in 1..Len(written') : written'[i] <= lastRequest'
  BY <1>1, <1>6 DEF OrderInv
<1>10. \A i \in 1..Len(written'), j \in 1..Len(writeQueue') : written'[i] < writeQueue'[j].id
  BY <1>1, <1>3, <1>5, <1>6 DEF OrderInv
<1> QED BY <1>7, <1>8, <1>9, <1>10 DEF OrderInv

LEMMA WriteOrder ==
    ASSUME TypeOK, ChainInv, OrderInv, WriteHandler
    PROVE  OrderInv'
<1> DEFINE n == Head(writeQueue).id
<1>1. writeQueue \in Seq(RequestMsg) /\ written \in Seq(Nat) /\ lastRequest \in Nat
  BY DEF TypeOK
<1>2. writeQueue # <<>> /\ Head(inFlight) = Head(writeQueue)
  BY InFlight DEF WriteHandler
<1>3. /\ writeQueue' = Tail(writeQueue) /\ written' = Append(written, n)
      /\ lastRequest' = lastRequest
  BY <1>2 DEF WriteHandler
<1>4. /\ Head(writeQueue) = writeQueue[1] /\ Len(writeQueue) \in Nat /\ Len(writeQueue) > 0
      /\ Len(writeQueue') = Len(writeQueue) - 1
      /\ \A i \in 1..Len(writeQueue') : writeQueue'[i] = writeQueue[i + 1]
  BY <1>1, <1>2, <1>3, HeadTailType
<1>5. \A i \in 1..Len(writeQueue) : writeQueue[i].id \in Nat
  <2>1. \A i \in 1..Len(writeQueue) : writeQueue[i] \in RequestMsg
    BY <1>1
  <2> QED BY <2>1 DEF RequestMsg
<1>6. n = writeQueue[1].id /\ n \in Nat /\ 1 \in 1..Len(writeQueue)
  BY <1>4, <1>5
<1> HIDE DEF n
<1>7. /\ Len(written) \in Nat /\ Len(written') = Len(written) + 1
      /\ written'[Len(written) + 1] = n
      /\ \A i \in 1..Len(written) : written'[i] = written[i] /\ written[i] \in Nat
  BY <1>1, <1>3, <1>6, AppendType
<1>8. \A i \in 1..Len(writeQueue') : i + 1 \in 1..Len(writeQueue) /\ 1 < i + 1
  BY <1>4
<1>9. \A i \in 1..Len(written') : i \in 1..Len(written) \/ i = Len(written) + 1
  BY <1>7
<1>10. \A i \in 1..Len(written) : written[i] < n
  BY <1>6 DEF OrderInv
<1>11. \A i \in 1..Len(writeQueue') : n < writeQueue'[i].id
  BY <1>4, <1>6, <1>8 DEF OrderInv
<1>12. \A i \in 1..Len(writeQueue') : writeQueue'[i].id <= lastRequest'
  BY <1>3, <1>4, <1>8 DEF OrderInv
<1>13. \A i, j \in 1..Len(writeQueue') : i < j => writeQueue'[i].id < writeQueue'[j].id
  <2>1. \A i, j \in 1..Len(writeQueue') : i < j => i + 1 < j + 1
    BY <1>4
  <2> QED BY <1>4, <1>8, <2>1 DEF OrderInv
<1>14. n <= lastRequest
  BY <1>6 DEF OrderInv
<1>15. \A i \in 1..Len(written') : written'[i] <= lastRequest'
  BY <1>3, <1>7, <1>9, <1>14 DEF OrderInv
<1>16. \A i \in 1..Len(written'), j \in 1..Len(writeQueue') : written'[i] < writeQueue'[j].id
  <2>1. \A i \in 1..Len(written), j \in 1..Len(writeQueue') : written[i] < writeQueue'[j].id
    BY <1>4, <1>8 DEF OrderInv
  <2> QED BY <1>7, <1>9, <1>11, <2>1
<1>17. Increasing(written')
  <2>1. \A i, j \in 1..Len(written') : i < j => i \in 1..Len(written)
    BY <1>7
  <2>2. \A i, j \in 1..Len(written) : i < j => written[i] < written[j]
    BY DEF OrderInv, Increasing
  <2> QED BY <1>7, <1>9, <1>10, <2>1, <2>2 DEF Increasing
<1> QED BY <1>12, <1>13, <1>15, <1>16, <1>17 DEF OrderInv

LEMMA OrderNext == TypeOK /\ ChainInv /\ OrderInv /\ [Next]_vars => OrderInv'
<1> SUFFICES ASSUME TypeOK, ChainInv, OrderInv, [Next]_vars PROVE OrderInv'
  OBVIOUS
<1>1. ASSUME UNCHANGED queueVars, written' = written PROVE OrderInv'
  BY <1>1 DEF queueVars, OrderInv, Increasing
<1>2. CASE writeNext
  <2>1. UNCHANGED <<writeQueue, lastRequest, written>>
    BY <1>2 DEF writeNext
  <2> QED BY <2>1 DEF OrderInv, Increasing
<1>3. CASE WriteHandler
  BY <1>3, WriteOrder
<1>4. CASE WriteError
  BY <1>1, <1>4, DisconnectQueue, SendOrder DEF WriteError
<1>5. CASE Elsewhere
  BY <1>1, <1>5, SendOrder DEF Elsewhere
<1> QED BY <1>2, <1>3, <1>4, <1>5, StepKinds

-----------------------------------------------------------------------------
(* Theorems. *)

LEMMA ClientInit == Init => TypeOK /\ ChainInv /\ FirstInv /\ OrderInv
<1> SUFFICES ASSUME Init PROVE TypeOK /\ ChainInv /\ FirstInv /\ OrderInv
  OBVIOUS
<1>1. ChainInv
  <2>1. writeNexts + Len(inFlight) = 0
    BY DEF Init
  <2>2. ~writing /\ writeQueue = <<>> /\ inFlight = <<>>
    BY DEF Init
  <2> QED BY <2>1, <2>2 DEF ChainInv
<1>2. FirstInv
  BY DEF Init, FirstInv
<1>3. OrderInv
  BY DEF Init, OrderInv, Increasing
<1> QED BY <1>1, <1>2, <1>3, TypeInit

\* The inductive invariant of the write queue, for any number of requests.
LEMMA ClientInvariant == Spec => [](TypeOK /\ ChainInv /\ FirstInv /\ OrderInv)
BY ClientInit, TypeNext, ChainNext, FirstNext, OrderNext, PTL DEF Spec

\* Every variable of the client keeps its type, and connected_ says whether the socket
\* is open.
THEOREM ClientTypeCorrect == Spec => []TypeOK
BY ClientInvariant, PTL

\* ClientCore.cpp, sendMessage and writeNext: whichever threads call sendMessage, there
\* is at most one async_write, of the message at the front, and until the connection is
\* lost there is one exactly while something is queued.
THEOREM OneWriteChain == Spec => []WriteChain
<1>1. TypeOK /\ ChainInv /\ FirstInv => WriteChain
  <2> SUFFICES ASSUME TypeOK, ChainInv, FirstInv PROVE WriteChain
    OBVIOUS
  <2>1. ~lost => (writing => writeNexts + Len(inFlight) = 1)
    BY DEF FirstInv
  <2>2. writeNexts + Len(inFlight) = 1 => writing
    BY DEF ChainInv
  <2> QED BY <2>1, <2>2 DEF ChainInv, WriteChain
<1> QED BY <1>1, ClientInvariant, PTL

\* The requests of a user reach the network in the order in which they were made, and none
\* of them twice, over all the connections of a session.
THEOREM WrittenInOrder == Spec => []RequestsInOrder
<1>1. OrderInv => RequestsInOrder
  BY DEF OrderInv, RequestsInOrder
<1> QED BY <1>1, ClientInvariant, PTL

-----------------------------------------------------------------------------
(* The messages on their way. *)

\* The identifiers of the messages in a queue, and that they are in order.
Own(e) == IF e.kind = "message" THEN {e.id} ELSE {}
Ids(q) == UNION {Own(q[i]) : i \in 1..Len(q)}
Sorted(q) ==
    \A i, j \in 1..Len(q) :
        i < j /\ q[i].kind = "message" /\ q[j].kind = "message" => q[i].id < q[j].id

Before(S, T) == \A s \in S, t \in T : s < t

Seen == {shown[i] : i \in 1..Len(shown)}

\* shown, the event queue and the connection hold one increasing sequence; dropped
\* messages came before all of it, because none is dropped once the chat window is open.
StreamInv ==
    /\ Increasing(shown) /\ Sorted(uiEvents) /\ Sorted(fromServer)
    /\ Before(Seen, Ids(uiEvents)) /\ Before(Seen \cup Ids(uiEvents), Ids(fromServer))
    /\ Before(dropped, Seen \cup Ids(uiEvents) \cup Ids(fromServer))
    /\ \A n \in dropped \cup Seen \cup Ids(uiEvents) \cup Ids(fromServer) : n <= lastMessage
    /\ ~chatOpen => Seen = {} /\ Ids(uiEvents) = {}

-----------------------------------------------------------------------------
(* The attempt under way. *)

\* At most one element of a queue is of the given kinds, and how many there are.
Once(q, K) == \A i, j \in 1..Len(q) : q[i].kind \in K /\ q[j].kind \in K => i = j
Num(q, K)  == IF \E i \in 1..Len(q) : q[i].kind \in K THEN 1 ELSE 0

Asking     == {"auth"}
Answers    == {"success", "fail"}
Attempts   == {"connected", "refused"}
Results    == {"welcome", "failed"}

\* The stages of an attempt: before the request is made, and from then on.
Early == (IF sock = "connecting" THEN 1 ELSE 0) + Num(uiEvents, Attempts)
Late  == Num(writeQueue, Asking) + unanswered + Num(fromServer, Answers) + Num(uiEvents, Results)

OnceEach ==
    /\ Once(writeQueue, Asking) /\ Once(fromServer, Answers)
    /\ Once(uiEvents, Attempts) /\ Once(uiEvents, Results)

\* An attempt is in one place at a time and there is none while the buttons are enabled;
\* while the window waits for a connection no request has been made.
AttemptInv ==
    /\ OnceEach
    /\ Early + Late <= 1
    /\ buttons => Early + Late = 0
    /\ pendingAction \/ isConnecting => ~buttons /\ Late = 0

-----------------------------------------------------------------------------
(* Queues of events. *)

\* What an element adds to a queue of messages.
LEMMA IdsAppend ==
    ASSUME NEW R, NEW q \in Seq(R), NEW e \in R
    PROVE  /\ Ids(Append(q, e)) = Ids(q) \cup Own(e)
           /\ Sorted(q) /\ Before(Ids(q), Own(e)) => Sorted(Append(q, e))
<1> DEFINE r == Append(q, e)
<1>1. /\ Len(q) \in Nat /\ Len(r) = Len(q) + 1 /\ r[Len(q) + 1] = e
      /\ \A i \in 1..Len(q) : r[i] = q[i]
  BY AppendType
<1>2. 1..Len(r) = (1..Len(q)) \cup {Len(q) + 1}
  BY <1>1
<1> HIDE DEF r
<1>3. Ids(r) = Ids(q) \cup Own(e)
  <2>1. \A x : x \in Ids(r) <=> \E i \in 1..Len(r) : x \in Own(r[i])
    BY DEF Ids
  <2>2. \A x : x \in Ids(q) <=> \E i \in 1..Len(q) : x \in Own(q[i])
    BY DEF Ids
  <2>3. \A x : x \in Ids(r) <=> x \in Ids(q) \/ x \in Own(e)
    BY <1>1, <1>2, <2>1, <2>2
  <2> QED BY <2>3
<1>4. ASSUME Sorted(q), Before(Ids(q), Own(e)) PROVE Sorted(r)
  <2> SUFFICES ASSUME NEW i \in 1..Len(r), NEW j \in 1..Len(r), i < j,
                      r[i].kind = "message", r[j].kind = "message"
               PROVE  r[i].id < r[j].id
    BY DEF Sorted
  <2>1. i \in 1..Len(q) /\ r[i] = q[i]
    BY <1>1
  <2>2. CASE j \in 1..Len(q)
    BY <1>1, <1>4, <2>1, <2>2 DEF Sorted
  <2>3. CASE j = Len(q) + 1
    <3>1. q[i].id \in Ids(q)
      BY <2>1 DEF Ids, Own
    <3>2. e.id \in Own(e) /\ r[j] = e
      BY <1>1, <2>3 DEF Own
    <3> QED BY <1>4, <2>1, <3>1, <3>2 DEF Before
  <2> QED BY <1>1, <2>2, <2>3
<1> QED BY <1>3, <1>4 DEF r

\* The element at the front comes before the others.
LEMMA IdsTail ==
    ASSUME NEW R, NEW q \in Seq(R), q # <<>>
    PROVE  /\ Ids(q) = Own(Head(q)) \cup Ids(Tail(q))
           /\ Sorted(q) => Sorted(Tail(q)) /\ Before(Own(Head(q)), Ids(Tail(q)))
<1> DEFINE t == Tail(q)
<1>1. /\ Head(q) = q[1] /\ Len(q) \in Nat /\ Len(q) > 0 /\ Len(t) = Len(q) - 1
      /\ \A i \in 1..Len(t) : t[i] = q[i + 1]
  BY HeadTailType
<1> HIDE DEF t
<1>2. \A i \in 1..Len(t) : i + 1 \in 1..Len(q) /\ 1 < i + 1
  BY <1>1
<1>3. \A i \in 1..Len(q) : i = 1 \/ (i - 1 \in 1..Len(t) /\ t[i - 1] = q[i])
  BY <1>1
<1>4. 1 \in 1..Len(q)
  BY <1>1
<1>5. Ids(q) = Own(q[1]) \cup Ids(t)
  <2>1. \A x : x \in Ids(t) <=> \E i \in 1..Len(t) : x \in Own(t[i])
    BY DEF Ids
  <2>2. \A x : x \in Ids(q) <=> \E i \in 1..Len(q) : x \in Own(q[i])
    BY DEF Ids
  <2>3. ASSUME NEW x \in Ids(q) PROVE x \in Own(q[1]) \/ x \in Ids(t)
    BY <1>3, <2>1, <2>2, <2>3
  <2>4. ASSUME NEW x \in Ids(t) PROVE x \in Ids(q)
    BY <1>1, <1>2, <2>1, <2>2, <2>4
  <2>5. ASSUME NEW x \in Own(q[1]) PROVE x \in Ids(q)
    BY <1>4, <2>2, <2>5
  <2> QED BY <2>3, <2>4, <2>5
<1>6. ASSUME Sorted(q) PROVE Sorted(t) /\ Before(Own(q[1]), Ids(t))
  <2>1. Sorted(t)
    <3>1. \A i, j \in 1..Len(t) : i < j => i + 1 < j + 1
      BY <1>1
    <3> QED BY <1>1, <1>2, <1>6, <3>1 DEF Sorted
  <2>2. ASSUME NEW x \in Own(q[1]), NEW y \in Ids(t) PROVE x < y
    <3>1. PICK i \in 1..Len(t) : y \in Own(t[i])
      BY <2>2 DEF Ids
    <3>2. q[i + 1].kind = "message" /\ y = q[i + 1].id
      BY <1>1, <3>1 DEF Own
    <3>3. q[1].kind = "message" /\ x = q[1].id
      BY <2>2 DEF Own
    <3> QED BY <1>2, <1>4, <1>6, <3>2, <3>3 DEF Sorted
  <2> QED BY <2>1, <2>2 DEF Before
<1> QED BY <1>1, <1>5, <1>6 DEF t

LEMMA IdsEmpty == Ids(<<>>) = {} /\ Sorted(<<>>)
BY DEF Ids, Sorted

\* How an element changes the number of the elements of some kinds.
LEMMA NumAppend ==
    ASSUME NEW R, NEW q \in Seq(R), NEW e \in R, NEW K, Once(q, K)
    PROVE  /\ e.kind \notin K => Once(Append(q, e), K) /\ Num(Append(q, e), K) = Num(q, K)
           /\ Num(q, K) = 0 => Once(Append(q, e), K)
           /\ Num(q, K) = 0 /\ e.kind \in K => Num(Append(q, e), K) = 1
<1> DEFINE r == Append(q, e)
<1>1. /\ Len(q) \in Nat /\ Len(r) = Len(q) + 1 /\ r[Len(q) + 1] = e
      /\ \A i \in 1..Len(q) : r[i] = q[i]
  BY AppendType
<1>2. 1..Len(r) = (1..Len(q)) \cup {Len(q) + 1}
  BY <1>1
<1> HIDE DEF r
<1>3. ASSUME e.kind \notin K PROVE Once(r, K) /\ Num(r, K) = Num(q, K)
  <2>1. \A i \in 1..Len(r) : r[i].kind \in K => i \in 1..Len(q) /\ q[i].kind \in K
    BY <1>1, <1>2, <1>3
  <2>2. \A i \in 1..Len(q) : i \in 1..Len(r) /\ r[i] = q[i]
    BY <1>1, <1>2
  <2> QED BY <2>1, <2>2 DEF Once, Num
<1>4. ASSUME Num(q, K) = 0 PROVE Once(r, K) /\ (e.kind \in K => Num(r, K) = 1)
  <2>1. \A i \in 1..Len(q) : q[i].kind \notin K
    BY <1>4 DEF Num
  <2>2. \A i \in 1..Len(r) : r[i].kind \in K => i = Len(q) + 1
    BY <1>1, <1>2, <2>1
  <2>3. Len(q) + 1 \in 1..Len(r)
    BY <1>2
  <2> QED BY <1>1, <2>2, <2>3 DEF Once, Num
<1> QED BY <1>3, <1>4 DEF r

LEMMA NumTail ==
    ASSUME NEW R, NEW q \in Seq(R), q # <<>>, NEW K, Once(q, K)
    PROVE  /\ Once(Tail(q), K)
           /\ Head(q).kind \in K => Num(q, K) = 1 /\ Num(Tail(q), K) = 0
           /\ Head(q).kind \notin K => Num(Tail(q), K) = Num(q, K)
<1> DEFINE t == Tail(q)
<1>1. /\ Head(q) = q[1] /\ Len(q) \in Nat /\ Len(q) > 0 /\ Len(t) = Len(q) - 1
      /\ \A i \in 1..Len(t) : t[i] = q[i + 1]
  BY HeadTailType
<1> HIDE DEF t
<1>2. \A i \in 1..Len(t) : i + 1 \in 1..Len(q) /\ i + 1 # 1
  BY <1>1
<1>3. \A i \in 1..Len(q) : i = 1 \/ (i - 1 \in 1..Len(t) /\ t[i - 1] = q[i])
  BY <1>1
<1>4. 1 \in 1..Len(q)
  BY <1>1
<1>5. Once(t, K)
  <2>1. \A i, j \in 1..Len(t) : i + 1 = j + 1 => i = j
    BY <1>1
  <2> QED BY <1>1, <1>2, <2>1 DEF Once
<1>6. ASSUME q[1].kind \in K PROVE Num(q, K) = 1 /\ Num(t, K) = 0
  BY <1>1, <1>2, <1>4, <1>6 DEF Once, Num
<1>7. ASSUME q[1].kind \notin K PROVE Num(t, K) = Num(q, K)
  <2>1. (\E i \in 1..Len(t) : t[i].kind \in K) <=> \E i \in 1..Len(q) : q[i].kind \in K
    BY <1>1, <1>2, <1>3, <1>7
  <2> QED BY <2>1 DEF Num
<1> QED BY <1>1, <1>5, <1>6, <1>7 DEF t

LEMMA NumEmpty == \A K : Once(<<>>, K) /\ Num(<<>>, K) = 0
BY DEF Once, Num

LEMMA NumNat == \A q, K : Num(q, K) \in 0..1
BY DEF Num

-----------------------------------------------------------------------------
(* The order of the messages. *)

LEMMA QuietEvents ==
    ASSUME NEW k, k # "message"
    PROVE  Event(k).kind = k /\ Own(Event(k)) = {}
BY DEF Event, Own

\* A step that gives nobody a message, though it may lose some.
LEMMA StreamShrinks ==
    ASSUME StreamInv, UNCHANGED <<shown, dropped, lastMessage>>, chatOpen => chatOpen',
           Ids(uiEvents') = Ids(uiEvents), Sorted(uiEvents'),
           Ids(fromServer') \subseteq Ids(fromServer), Sorted(fromServer')
    PROVE  StreamInv'
<1>1. Increasing(shown') /\ Seen' = Seen
  BY DEF StreamInv, Increasing, Seen
<1>2. /\ Before(Seen', Ids(uiEvents')) /\ Before(Seen' \cup Ids(uiEvents'), Ids(fromServer'))
      /\ Before(dropped', Seen' \cup Ids(uiEvents') \cup Ids(fromServer'))
  BY <1>1 DEF StreamInv, Before
<1>3. \A n \in dropped' \cup Seen' \cup Ids(uiEvents') \cup Ids(fromServer') : n <= lastMessage'
  BY <1>1 DEF StreamInv
<1>4. ~chatOpen' => Seen' = {} /\ Ids(uiEvents') = {}
  BY <1>1 DEF StreamInv
<1> QED BY <1>1, <1>2, <1>3, <1>4 DEF StreamInv

\* The io thread tells the windows something that is not a message.
LEMMA TellStream ==
    ASSUME TypeOK, StreamInv, NEW k \in {"connected", "refused", "welcome", "failed", "disconnected"},
           Tell(k)
    PROVE  Ids(uiEvents') = Ids(uiEvents) /\ Sorted(uiEvents')
<1>1. uiEvents \in Seq(UiEvent) /\ Event(k) \in UiEvent
  BY DEF TypeOK, Event, UiEvent
<1>2. Own(Event(k)) = {} /\ Before(Ids(uiEvents), {}) /\ Sorted(uiEvents)
  BY QuietEvents DEF Before, StreamInv
<1>3. uiEvents' = Append(uiEvents, Event(k))
  BY DEF Tell
<1> HIDE DEF Event
<1>4. /\ Ids(Append(uiEvents, Event(k))) = Ids(uiEvents) \cup Own(Event(k))
      /\ Sorted(uiEvents) /\ Before(Ids(uiEvents), Own(Event(k))) =>
            Sorted(Append(uiEvents, Event(k)))
  BY <1>1, IdsAppend
<1> QED BY <1>2, <1>3, <1>4

LEMMA DisconnectStream ==
    ASSUME StreamInv, disconnect
    PROVE  Ids(fromServer') \subseteq Ids(fromServer) /\ Sorted(fromServer')
BY IdsEmpty DEF disconnect, CloseSocket, connVars, StreamInv

\* A message of the server is given to the window, or dropped before there is one.
LEMMA ReadMessage ==
    ASSUME TypeOK, StreamInv, ReadHandler, Head(fromServer).kind = "message"
    PROVE  StreamInv'
<1> DEFINE m == Head(fromServer)
           rest == Ids(Tail(fromServer))
<1>1. fromServer \in Seq(ServerMsg) /\ fromServer # <<>> /\ uiEvents \in Seq(UiEvent)
  BY DEF TypeOK, ReadHandler
<1>2. m \in ServerMsg
  BY <1>1, HeadTailType
<1>3. m.id \in Nat /\ m \in UiEvent /\ Own(m) = {m.id}
  BY <1>2 DEF ServerMsg, UiEvent, Own
<1>4. /\ Ids(fromServer) = {m.id} \cup rest /\ Before({m.id}, rest)
      /\ Sorted(Tail(fromServer))
  BY <1>1, <1>3, IdsTail, ZenonT(60) DEF StreamInv
<1>5. /\ fromServer' = Tail(fromServer)
      /\ UNCHANGED <<shown, lastMessage, chatOpen>>
      /\ \/ chatOpen /\ uiEvents' = Append(uiEvents, m) /\ dropped' = dropped
         \/ ~chatOpen /\ uiEvents' = uiEvents /\ dropped' = dropped \cup {m.id}
  BY DEF ReadHandler, loginVars
<1>6. Increasing(shown') /\ Seen' = Seen /\ Ids(fromServer') = rest /\ Sorted(fromServer')
  BY <1>4, <1>5 DEF StreamInv, Increasing, Seen
<1> HIDE DEF m, rest
<1>7. CASE chatOpen
  <2>1. Before(Ids(uiEvents), {m.id})
    BY <1>4 DEF StreamInv, Before
  <2>2. Ids(uiEvents') = Ids(uiEvents) \cup {m.id} /\ Sorted(uiEvents')
    <3>1. /\ Ids(Append(uiEvents, m)) = Ids(uiEvents) \cup Own(m)
          /\ Sorted(uiEvents) /\ Before(Ids(uiEvents), Own(m)) => Sorted(Append(uiEvents, m))
      BY <1>1, <1>3, IdsAppend
    <3> QED BY <1>3, <1>5, <1>7, <2>1, <3>1 DEF StreamInv
  <2>3. dropped' = dropped /\ chatOpen' /\ lastMessage' = lastMessage
    BY <1>5, <1>7
  <2>4. Before(Seen', Ids(uiEvents')) /\ Before(Seen' \cup Ids(uiEvents'), Ids(fromServer'))
    BY <1>4, <1>6, <2>2 DEF StreamInv, Before
  <2>5. Before(dropped', Seen' \cup Ids(uiEvents') \cup Ids(fromServer'))
    BY <1>4, <1>6, <2>2, <2>3 DEF StreamInv, Before
  <2>6. \A n \in dropped' \cup Seen' \cup Ids(uiEvents') \cup Ids(fromServer') : n <= lastMessage'
    BY <1>4, <1>6, <2>2, <2>3 DEF StreamInv
  <2> QED BY <1>6, <2>2, <2>3, <2>4, <2>5, <2>6 DEF StreamInv
<1>8. CASE ~chatOpen
  <2>1. /\ uiEvents' = uiEvents /\ dropped' = dropped \cup {m.id} /\ ~chatOpen'
        /\ lastMessage' = lastMessage
    BY <1>5, <1>8
  <2>2. Seen = {} /\ Ids(uiEvents) = {} /\ Sorted(uiEvents)
    BY <1>8 DEF StreamInv
  <2>3. Before(dropped', Seen' \cup Ids(uiEvents') \cup Ids(fromServer'))
    BY <1>4, <1>6, <2>1, <2>2 DEF StreamInv, Before
  <2>4. \A n \in dropped' \cup Seen' \cup Ids(uiEvents') \cup Ids(fromServer') : n <= lastMessage'
    BY <1>4, <1>6, <2>1, <2>2 DEF StreamInv
  <2>5. Before(Seen', Ids(uiEvents')) /\ Before(Seen' \cup Ids(uiEvents'), Ids(fromServer'))
    BY <1>6, <2>1, <2>2 DEF Before
  <2> QED BY <1>6, <2>1, <2>2, <2>3, <2>4, <2>5 DEF StreamInv
<1> QED BY <1>7, <1>8

\* The chat window is shown the message at the front of the event queue.
LEMMA ShowMessage ==
    ASSUME TypeOK, StreamInv, RunEvent, OnMessage(Head(uiEvents))
    PROVE  StreamInv'
<1> DEFINE e == Head(uiEvents)
           rest == Ids(Tail(uiEvents))
<1>1. uiEvents \in Seq(UiEvent) /\ uiEvents # <<>> /\ shown \in Seq(Nat)
  BY DEF TypeOK, RunEvent
<1>2. e \in UiEvent /\ e.kind = "message"
  BY <1>1, HeadTailType DEF OnMessage
<1>3. e.id \in Nat /\ Own(e) = {e.id}
  BY <1>2 DEF UiEvent, Own
<1>4. /\ Ids(uiEvents) = {e.id} \cup rest /\ Before({e.id}, rest)
      /\ Sorted(Tail(uiEvents))
  BY <1>1, <1>3, IdsTail DEF StreamInv
<1>5. /\ uiEvents' = Tail(uiEvents) /\ shown' = Append(shown, e.id)
      /\ UNCHANGED <<fromServer, dropped, lastMessage, chatOpen>>
  BY DEF RunEvent, OnMessage, connVars
<1> HIDE DEF e
<1>6. /\ Len(shown) \in Nat /\ Len(shown') = Len(shown) + 1 /\ shown'[Len(shown) + 1] = e.id
      /\ \A i \in 1..Len(shown) : shown'[i] = shown[i]
  BY <1>1, <1>3, <1>5, AppendType
<1>7. 1..Len(shown') = (1..Len(shown)) \cup {Len(shown) + 1}
  BY <1>6
<1>8. Seen' = Seen \cup {e.id}
  BY <1>6, <1>7 DEF Seen
<1>9. Before(Seen, {e.id})
  BY <1>4 DEF StreamInv, Before
<1>10. Increasing(shown')
  <2> SUFFICES ASSUME NEW i \in 1..Len(shown'), NEW j \in 1..Len(shown'), i < j
               PROVE  shown'[i] < shown'[j]
    BY DEF Increasing
  <2>1. i \in 1..Len(shown) /\ shown'[i] = shown[i]
    BY <1>6
  <2>2. CASE j \in 1..Len(shown)
    BY <1>6, <2>1, <2>2 DEF StreamInv, Increasing
  <2>3. CASE j = Len(shown) + 1
    <3>1. shown[i] \in Seen
      BY <2>1 DEF Seen
    <3> QED BY <1>6, <1>9, <2>1, <2>3, <3>1 DEF Before
  <2> QED BY <1>7, <2>2, <2>3
<1> DEFINE ev == Ids(uiEvents)  fs == Ids(fromServer)
<1>11. Ids(uiEvents') = rest /\ Sorted(uiEvents') /\ Ids(fromServer') = fs /\ Sorted(fromServer')
  BY <1>4, <1>5 DEF StreamInv
<1> HIDE DEF rest
<1>12. chatOpen /\ chatOpen'
  BY <1>4, <1>5 DEF StreamInv
<1>13. Before(Seen', Ids(uiEvents')) /\ Before(Seen' \cup Ids(uiEvents'), Ids(fromServer'))
  BY <1>4, <1>8, <1>11 DEF StreamInv, Before
<1>14. Before(dropped', Seen' \cup Ids(uiEvents') \cup Ids(fromServer'))
  BY <1>4, <1>5, <1>8, <1>11 DEF StreamInv, Before
<1>15. \A n \in dropped' \cup Seen' \cup Ids(uiEvents') \cup Ids(fromServer') : n <= lastMessage'
  BY <1>4, <1>5, <1>8, <1>11 DEF StreamInv
<1> QED BY <1>10, <1>11, <1>12, <1>13, <1>14, <1>15 DEF StreamInv

\* The server sends the next message.
LEMMA SendMessage ==
    ASSUME TypeOK, StreamInv, ServerSends
    PROVE  StreamInv'
<1> DEFINE m == [kind |-> "message", id |-> lastMessage']
<1>1. lastMessage \in Nat /\ lastMessage' = lastMessage + 1 /\ fromServer \in Seq(ServerMsg)
  BY DEF TypeOK, ServerSends
<1>2. m \in ServerMsg /\ Own(m) = {lastMessage + 1}
  BY <1>1 DEF ServerMsg, Own
<1>3. fromServer' = Append(fromServer, m) /\ UNCHANGED <<uiEvents, shown, dropped, chatOpen>>
  BY DEF ServerSends, shownVars, loginVars
<1> HIDE DEF m
<1>4. /\ dropped \subseteq Nat /\ Seen \subseteq Nat
      /\ Ids(uiEvents) \subseteq Nat /\ Ids(fromServer) \subseteq Nat
  <2>1. \A i \in 1..Len(uiEvents) : uiEvents[i].id \in Nat
    <3>1. \A i \in 1..Len(uiEvents) : uiEvents[i] \in UiEvent
      BY DEF TypeOK
    <3> QED BY <3>1 DEF UiEvent
  <2>2. \A i \in 1..Len(fromServer) : fromServer[i].id \in Nat
    <3>1. \A i \in 1..Len(fromServer) : fromServer[i] \in ServerMsg
      BY DEF TypeOK
    <3> QED BY <3>1 DEF ServerMsg
  <2>3. dropped \subseteq Nat /\ Seen \subseteq Nat
    BY DEF TypeOK, Seen
  <2> QED BY <2>1, <2>2, <2>3 DEF Ids, Own
<1>5. \A n \in dropped \cup Seen \cup Ids(uiEvents) \cup Ids(fromServer) :
          n \in Nat /\ n <= lastMessage /\ n < lastMessage + 1 /\ n <= lastMessage'
  BY <1>1, <1>4 DEF StreamInv
<1>6. Before(Ids(fromServer), {lastMessage + 1})
  BY <1>5 DEF Before
<1>7. Ids(fromServer') = Ids(fromServer) \cup {lastMessage + 1} /\ Sorted(fromServer')
  <2>1. /\ Ids(Append(fromServer, m)) = Ids(fromServer) \cup Own(m)
        /\ Sorted(fromServer) /\ Before(Ids(fromServer), Own(m)) => Sorted(Append(fromServer, m))
    BY <1>1, <1>2, IdsAppend
  <2> QED BY <1>2, <1>3, <1>6, <2>1 DEF StreamInv
<1>8. /\ Increasing(shown') /\ Seen' = Seen /\ Ids(uiEvents') = Ids(uiEvents)
      /\ Sorted(uiEvents') /\ dropped' = dropped /\ chatOpen' = chatOpen
  BY <1>3 DEF StreamInv, Increasing, Seen
<1>9. /\ Before(Seen', Ids(uiEvents')) /\ Before(Seen' \cup Ids(uiEvents'), Ids(fromServer'))
  BY <1>5, <1>7, <1>8 DEF StreamInv, Before
<1>10. Before(dropped', Seen' \cup Ids(uiEvents') \cup Ids(fromServer'))
  BY <1>5, <1>7, <1>8 DEF StreamInv, Before
<1>11. \A n \in dropped' \cup Seen' \cup Ids(uiEvents') \cup Ids(fromServer') : n <= lastMessage'
  <2>1. lastMessage + 1 <= lastMessage'
    BY <1>1
  <2> QED BY <1>5, <1>7, <1>8, <2>1
<1>12. ~chatOpen' => Seen' = {} /\ Ids(uiEvents') = {}
  BY <1>8 DEF StreamInv
<1> QED BY <1>7, <1>8, <1>9, <1>10, <1>11, <1>12 DEF StreamInv

\* The answer to a login is told as an event, and everything else leaves the stream alone
\* or loses the end of it.
LEMMA StreamNext == TypeOK /\ StreamInv /\ [Next]_vars => StreamInv'
<1> SUFFICES ASSUME TypeOK, StreamInv, [Next]_vars PROVE StreamInv'
  OBVIOUS
<1>1. /\ Sorted(uiEvents) /\ Sorted(fromServer)
      /\ uiEvents \in Seq(UiEvent) /\ fromServer \in Seq(ServerMsg)
  BY DEF StreamInv, TypeOK
<1>2. ASSUME UNCHANGED <<shown, dropped, lastMessage, chatOpen, uiEvents>>,
             fromServer' = fromServer \/ fromServer' = <<>>
      PROVE  StreamInv'
  BY <1>1, <1>2, StreamShrinks, IdsEmpty
<1>3. ASSUME NEW ok \in BOOLEAN, ConnectHandler(ok) PROVE StreamInv'
  <2>1. \/ uiEvents' = uiEvents
        \/ \E k \in {"connected", "refused", "welcome", "failed", "disconnected"} : Tell(k)
    BY <1>3 DEF ConnectHandler
  <2>2. Ids(uiEvents') = Ids(uiEvents) /\ Sorted(uiEvents')
    BY <1>1, <2>1, TellStream
  <2>3. UNCHANGED <<shown, dropped, lastMessage, chatOpen, fromServer>>
    BY <1>3 DEF ConnectHandler, loginVars, shownVars
  <2> QED BY <1>1, <2>2, <2>3, StreamShrinks
<1>4. CASE writeNext \/ WriteHandler
  BY <1>2, <1>4 DEF writeNext, WriteHandler, connVars, loginVars, shownVars
<1>5. ASSUME disconnect, UNCHANGED <<loginVars, shownVars, uiEvents, lastMessage>>
      PROVE  StreamInv'
  <2>1. fromServer' = fromServer \/ fromServer' = <<>>
    BY <1>5 DEF disconnect, CloseSocket, connVars
  <2> QED BY <1>2, <1>5, <2>1 DEF loginVars, shownVars
<1>6. CASE WriteError \/ ReadError
  BY <1>5, <1>6 DEF WriteError, ReadError
<1>7. CASE ReadHandler
  <2>1. CASE Head(fromServer).kind = "message"
    BY <1>7, <2>1, ReadMessage
  <2>2. CASE Head(fromServer).kind # "message"
    <3>1. fromServer # <<>> /\ fromServer' = Tail(fromServer)
      BY <1>7 DEF ReadHandler
    <3>2. Ids(fromServer') \subseteq Ids(fromServer) /\ Sorted(fromServer')
      BY <1>1, <3>1, IdsTail
    <3>3. Tell("welcome") \/ Tell("failed")
      BY <1>7, <2>2 DEF ReadHandler
    <3>4. Ids(uiEvents') = Ids(uiEvents) /\ Sorted(uiEvents')
      BY <3>3, TellStream
    <3>5. UNCHANGED <<shown, dropped, lastMessage, chatOpen>>
      BY <1>7, <2>2 DEF ReadHandler, loginVars
    <3> QED BY <3>2, <3>4, <3>5, StreamShrinks
  <2> QED BY <2>1, <2>2
<1>8. CASE ClickLogin \/ Request \/ BeginClose
  BY <1>2, <1>8 DEF ClickLogin, Request, BeginClose, connVars, loginVars, shownVars
<1>9. CASE RunEvent
  <2> DEFINE e == Head(uiEvents)
  <2>1. uiEvents # <<>> /\ uiEvents' = Tail(uiEvents)
    BY <1>9 DEF RunEvent
  <2>2. UNCHANGED <<dropped, lastMessage, chatOpen, fromServer>>
    BY <1>9 DEF RunEvent, connVars
  <2>3. CASE OnMessage(e)
    BY <1>9, <2>3, ShowMessage
  <2>4. CASE ~OnMessage(e)
    <3>1. shown' = shown /\ e.kind # "message"
      BY <1>9, <2>4 DEF RunEvent, OnConnectionResult, OnAuthResult, OnServerDisconnected
    <3>2. /\ Ids(uiEvents) = Own(e) \cup Ids(Tail(uiEvents))
          /\ Sorted(Tail(uiEvents))
      BY <1>1, <2>1, IdsTail
    <3>3. Ids(uiEvents') = Ids(uiEvents) /\ Sorted(uiEvents')
      BY <2>1, <3>1, <3>2 DEF Own
    <3> QED BY <1>1, <2>2, <3>1, <3>3, StreamShrinks
  <2> QED BY <2>3, <2>4
<1>10. CASE OpenChatWindow
  <2>1. UNCHANGED <<shown, dropped, lastMessage, uiEvents, fromServer>> /\ chatOpen'
    BY <1>10 DEF OpenChatWindow, connVars, shownVars
  <2> QED BY <1>1, <2>1, StreamShrinks
<1>11. CASE FinishClose
  BY <1>2, <1>11 DEF FinishClose, CloseSocket, loginVars, shownVars
<1>12. CASE ServerAnswers
  <2>1. PICK k \in {"success", "fail"} : fromServer' = Append(fromServer, Event(k))
    BY <1>12 DEF ServerAnswers
  <2>2. Event(k) \in ServerMsg /\ Own(Event(k)) = {} /\ Before(Ids(fromServer), {})
    BY QuietEvents DEF Event, ServerMsg, Before
  <2>3. /\ Ids(Append(fromServer, Event(k))) = Ids(fromServer) \cup Own(Event(k))
        /\ Sorted(fromServer) /\ Before(Ids(fromServer), Own(Event(k))) =>
              Sorted(Append(fromServer, Event(k)))
    BY <1>1, <2>2, IdsAppend
  <2>4. Ids(fromServer') = Ids(fromServer) /\ Sorted(fromServer')
    BY <1>1, <2>1, <2>2, <2>3
  <2>5. UNCHANGED <<shown, dropped, lastMessage, chatOpen, uiEvents>>
    BY <1>12 DEF ServerAnswers, loginVars, shownVars
  <2> QED BY <1>1, <2>4, <2>5, StreamShrinks
<1>13. CASE ServerSends
  BY <1>13, SendMessage
<1>14. CASE LinkBreaks
  BY <1>2, <1>14 DEF LinkBreaks, loginVars, shownVars
<1>15. CASE UNCHANGED vars
  BY <1>2, <1>15 DEF vars, connVars, loginVars, shownVars
<1> QED BY <1>3, <1>4, <1>6, <1>7, <1>8, <1>9, <1>10, <1>11, <1>12, <1>13, <1>14, <1>15 DEF Next

LEMMA StreamInit == Init => StreamInv
<1> SUFFICES ASSUME Init PROVE StreamInv
  OBVIOUS
<1>1. /\ shown = <<>> /\ uiEvents = <<>> /\ fromServer = <<>> /\ dropped = {}
  BY DEF Init
<1>2. Ids(uiEvents) = {} /\ Sorted(uiEvents) /\ Ids(fromServer) = {} /\ Sorted(fromServer)
  BY <1>1, IdsEmpty
<1>3. Seen = {} /\ Increasing(shown)
  BY <1>1 DEF Seen, Increasing
<1> QED BY <1>1, <1>2, <1>3 DEF StreamInv, Before

\* ClientCore.cpp, handleMessage, and the callbacks of ChatWindow: what the chat window is
\* given is in the order the server sent it, whatever is lost with a connection, and what
\* was read before there was a chat window is older than all of it.
THEOREM MessagesReachTheWindowInOrder == Spec => []MessagesInOrder
<1>1. Spec => []StreamInv
  <2>1. TypeOK /\ StreamInv /\ [Next]_vars => StreamInv'
    BY StreamNext
  <2> QED BY <2>1, StreamInit, ClientTypeCorrect, PTL DEF Spec
<1>2. StreamInv => MessagesInOrder
  BY DEF StreamInv, MessagesInOrder, Before, Seen
<1> QED BY <1>1, <1>2, PTL

-----------------------------------------------------------------------------
(* The attempt: what a step does to its stages. *)

LEMMA StagesNat ==
    ASSUME TypeOK
    PROVE  Early \in Nat /\ Late \in Nat
<1>1. \A q, K : Num(q, K) \in Nat
  BY NumNat
<1>2. unanswered \in Nat
  BY DEF TypeOK
<1> QED BY <1>1, <1>2 DEF Early, Late

LEMMA Fewer ==
    ASSUME NEW a \in Nat, NEW b \in Nat, NEW c \in Nat, NEW d \in Nat, c <= a, d <= b
    PROVE  /\ a + b <= 1 => c + d <= 1
           /\ a + b = 0 => c + d = 0
           /\ b = 0 => d = 0
OBVIOUS

\* A request that is not a login.
LEMMA OtherRequest ==
    ASSUME TypeOK, Once(writeQueue, Asking), NEW kind \in {"other", "logout"}, sendMessage(kind)
    PROVE  Once(writeQueue', Asking) /\ Num(writeQueue', Asking) = Num(writeQueue, Asking)
<1> DEFINE m == [id |-> lastRequest', kind |-> kind]
<1>1. lastRequest \in Nat /\ writeQueue \in Seq(RequestMsg) /\ lastRequest' = lastRequest + 1
  BY DEF TypeOK, sendMessage
<1>2. m \in RequestMsg /\ m.kind \notin Asking /\ writeQueue' = Append(writeQueue, m)
  BY <1>1 DEF sendMessage, RequestMsg, Asking
<1> HIDE DEF m
<1>3. Once(Append(writeQueue, m), Asking) /\ Num(Append(writeQueue, m), Asking) = Num(writeQueue, Asking)
  BY <1>1, <1>2, NumAppend
<1> QED BY <1>2, <1>3

\* A login or registration, while there is none.
LEMMA LoginRequest ==
    ASSUME TypeOK, Once(writeQueue, Asking), Num(writeQueue, Asking) = 0, sendMessage("auth")
    PROVE  Once(writeQueue', Asking) /\ Num(writeQueue', Asking) = 1
<1> DEFINE m == [id |-> lastRequest', kind |-> "auth"]
<1>1. lastRequest \in Nat /\ writeQueue \in Seq(RequestMsg) /\ lastRequest' = lastRequest + 1
  BY DEF TypeOK, sendMessage
<1>2. m \in RequestMsg /\ m.kind \in Asking /\ writeQueue' = Append(writeQueue, m)
  BY <1>1 DEF sendMessage, RequestMsg, Asking
<1> HIDE DEF m
<1>3. Once(Append(writeQueue, m), Asking) /\ Num(Append(writeQueue, m), Asking) = 1
  BY <1>1, <1>2, NumAppend
<1> QED BY <1>2, <1>3

\* What is told the windows counts in the stage it belongs to.
LEMMA TellCounts ==
    ASSUME TypeOK, NEW K, Once(uiEvents, K),
           NEW k \in {"connected", "refused", "welcome", "failed", "disconnected"}, Tell(k)
    PROVE  /\ k \notin K => Once(uiEvents', K) /\ Num(uiEvents', K) = Num(uiEvents, K)
           /\ Num(uiEvents, K) = 0 => Once(uiEvents', K)
           /\ Num(uiEvents, K) = 0 /\ k \in K => Num(uiEvents', K) = 1
<1>1. uiEvents \in Seq(UiEvent) /\ Event(k) \in UiEvent /\ Event(k).kind = k
  BY DEF TypeOK, Event, UiEvent
<1>2. uiEvents' = Append(uiEvents, Event(k))
  BY DEF Tell
<1> HIDE DEF Event
<1>3. /\ k \notin K => Once(Append(uiEvents, Event(k)), K)
                       /\ Num(Append(uiEvents, Event(k)), K) = Num(uiEvents, K)
      /\ Num(uiEvents, K) = 0 => Once(Append(uiEvents, Event(k)), K)
      /\ Num(uiEvents, K) = 0 /\ k \in K => Num(Append(uiEvents, Event(k)), K) = 1
  BY <1>1, NumAppend
<1> QED BY <1>2, <1>3

\* disconnect loses what the server had read and what it had answered.
LEMMA DisconnectAttempt ==
    ASSUME TypeOK, OnceEach, disconnect, uiEvents' = uiEvents
    PROVE  OnceEach' /\ Early' <= Early /\ Late' <= Late
<1>1. /\ \A q, K : Num(q, K) \in Nat
      /\ unanswered \in Nat
  <2>1. \A q, K : Num(q, K) \in Nat
    BY NumNat
  <2> QED BY <2>1 DEF TypeOK
<1>2. CASE ~connected
  <2>1. UNCHANGED <<sock, unanswered, fromServer, writeQueue, uiEvents>>
    BY <1>2 DEF disconnect, connVars, queueVars
  <2>2. OnceEach' /\ Early' = Early /\ Late' = Late
    BY <2>1 DEF OnceEach, Early, Late
  <2>3. Early \in Nat /\ Late \in Nat
    BY StagesNat
  <2> QED BY <2>2, <2>3
<1>3. CASE connected
  <2>1. sock' = "closed" /\ unanswered' = 0 /\ fromServer' = <<>>
    BY <1>3 DEF disconnect, CloseSocket
  <2>2. Once(writeQueue', Asking) /\ Num(writeQueue', Asking) = Num(writeQueue, Asking)
    BY <1>3, OtherRequest DEF disconnect, queueVars, OnceEach
  <2>3. Once(fromServer', Answers) /\ Num(fromServer', Answers) = 0
    BY <2>1, NumEmpty
  <2>4. OnceEach'
    BY <2>2, <2>3 DEF OnceEach
  <2>5. Early' = Num(uiEvents, Attempts)
    BY <1>1, <2>1 DEF Early
  <2>6. Early' <= Early
    BY <1>1, <2>5 DEF Early
  <2>7. Late' <= Late
    BY <1>1, <2>1, <2>2, <2>3 DEF Late
  <2> QED BY <2>4, <2>6, <2>7
<1> QED BY <1>2, <1>3

LEMMA StageParts ==
    ASSUME TypeOK
    PROVE  /\ Num(uiEvents, Attempts) \in 0..1 /\ Num(uiEvents, Results) \in 0..1
           /\ Num(writeQueue, Asking) \in 0..1 /\ Num(fromServer, Answers) \in 0..1
           /\ unanswered \in Nat
<1>1. \A q, K : Num(q, K) \in 0..1
  BY NumNat
<1>2. unanswered \in Nat
  BY DEF TypeOK
<1> QED BY <1>1, <1>2

LEMMA AttemptParts ==
    ASSUME AttemptInv
    PROVE  /\ Once(writeQueue, Asking) /\ Once(fromServer, Answers)
           /\ Once(uiEvents, Attempts) /\ Once(uiEvents, Results)
           /\ Early + Late <= 1
BY DEF AttemptInv, OnceEach

\* The attempt to connect ends and, while the login window waits, its result is told.
LEMMA ConnectAttempt ==
    ASSUME TypeOK, AttemptInv, NEW ok \in BOOLEAN, ConnectHandler(ok)
    PROVE  OnceEach' /\ Early' <= Early /\ Late' = Late
<1>1. UNCHANGED <<writeQueue, fromServer, unanswered>>
  BY DEF ConnectHandler, queueVars
<1>2. sock = "connecting" /\ sock' # "connecting"
  BY DEF ConnectHandler
<1>3. Num(uiEvents, Attempts) = 0
  <2>1. 1 + Num(uiEvents, Attempts) + Late <= 1
    BY <1>2, AttemptParts DEF Early
  <2> HIDE DEF Late
  <2>2. Late \in Nat /\ Num(uiEvents, Attempts) \in 0..1
    BY StagesNat, StageParts
  <2> QED BY <2>1, <2>2
<1>4. PICK k \in {"connected", "refused", "disconnected"} : Tell(k) \/ uiEvents' = uiEvents
  BY DEF ConnectHandler
<1>5. k \notin Results
  BY DEF Results
<1>6. Once(uiEvents', Results) /\ Num(uiEvents', Results) = Num(uiEvents, Results)
  BY <1>4, <1>5, AttemptParts, TellCounts
<1>7. Once(uiEvents', Attempts)
  BY <1>3, <1>4, AttemptParts, TellCounts
<1>8. Num(uiEvents', Attempts) \in 0..1
  BY NumNat
<1>9. OnceEach'
  BY <1>1, <1>6, <1>7, AttemptParts DEF OnceEach
<1>10. Early' <= Early
  <2>1. Early' = Num(uiEvents', Attempts) /\ Early = 1
    BY <1>2, <1>3, <1>8 DEF Early
  <2> QED BY <1>8, <2>1
<1> QED BY <1>1, <1>6, <1>9, <1>10 DEF Late

\* A login leaves the queue when the server has read it.
LEMMA WriteAttempt ==
    ASSUME TypeOK, ChainInv, AttemptInv, WriteHandler
    PROVE  OnceEach' /\ Early' = Early /\ Late' = Late
<1> DEFINE m == Head(writeQueue)
<1>1. writeQueue \in Seq(RequestMsg) /\ writeQueue # <<>> /\ Head(inFlight) = m
  BY InFlight DEF WriteHandler, TypeOK
<1>2. /\ writeQueue' = Tail(writeQueue)
      /\ unanswered' = IF m.kind \in Asking THEN unanswered + 1 ELSE unanswered
      /\ UNCHANGED <<sock, fromServer, uiEvents>>
  BY <1>1 DEF WriteHandler, Asking
<1> HIDE DEF m
<1>3. /\ Once(writeQueue', Asking)
      /\ m.kind \in Asking => Num(writeQueue, Asking) = 1 /\ Num(writeQueue', Asking) = 0
      /\ m.kind \notin Asking => Num(writeQueue', Asking) = Num(writeQueue, Asking)
  BY <1>1, <1>2, NumTail, AttemptParts DEF m
<1>4. OnceEach' /\ Early' = Early
  BY <1>2, <1>3, AttemptParts DEF OnceEach, Early
<1>5. Num(writeQueue', Asking) + unanswered' = Num(writeQueue, Asking) + unanswered
  BY <1>2, <1>3, StageParts
<1>6. Late' = Late
  BY <1>2, <1>5, StageParts DEF Late
<1> QED BY <1>4, <1>6

\* The answer to a login becomes an event; a message is none.
LEMMA ReadAttempt ==
    ASSUME TypeOK, AttemptInv, ReadHandler
    PROVE  OnceEach' /\ Early' = Early /\ Late' = Late
<1> DEFINE m == Head(fromServer)
<1>1. /\ fromServer \in Seq(ServerMsg) /\ fromServer # <<>> /\ fromServer' = Tail(fromServer)
      /\ uiEvents \in Seq(UiEvent)
  BY DEF ReadHandler, TypeOK
<1>2. UNCHANGED <<sock, writeQueue, unanswered>>
  BY DEF ReadHandler, queueVars
<1>3. m \in ServerMsg
  BY <1>1, HeadTailType
<1>4. /\ m.kind \in Answers => Tell("welcome") \/ Tell("failed")
      /\ m.kind \notin Answers =>
            /\ m.kind = "message"
            /\ uiEvents' = uiEvents \/ uiEvents' = Append(uiEvents, m)
  BY DEF ReadHandler, Answers
<1> HIDE DEF m
<1>5. /\ Once(fromServer', Answers)
      /\ m.kind \in Answers => Num(fromServer, Answers) = 1 /\ Num(fromServer', Answers) = 0
      /\ m.kind \notin Answers => Num(fromServer', Answers) = Num(fromServer, Answers)
  BY <1>1, NumTail, AttemptParts DEF m
<1>6. CASE m.kind \in Answers
  <2>1. Num(uiEvents, Results) = 0
    <3>1. Num(writeQueue, Asking) + unanswered + 1 + Num(uiEvents, Results) = Late
      BY <1>5, <1>6 DEF Late
    <3>2. Early + Late <= 1 /\ Early \in Nat /\ Late \in Nat
      BY AttemptParts, StagesNat
    <3> HIDE DEF Late
    <3> QED BY <3>1, <3>2, StageParts
  <2>2. PICK k \in {"welcome", "failed"} : Tell(k)
    BY <1>4, <1>6
  <2>3. k \in Results /\ k \notin Attempts
    BY DEF Results, Attempts
  <2>4. Once(uiEvents', Results) /\ Num(uiEvents', Results) = 1
    BY <2>1, <2>2, <2>3, AttemptParts, TellCounts
  <2>5. Once(uiEvents', Attempts) /\ Num(uiEvents', Attempts) = Num(uiEvents, Attempts)
    BY <2>2, <2>3, AttemptParts, TellCounts
  <2>6. OnceEach' /\ Early' = Early
    BY <1>2, <1>5, <2>4, <2>5, AttemptParts DEF OnceEach, Early
  <2>7. Late' = Late
    BY <1>2, <1>5, <1>6, <2>1, <2>4, StageParts DEF Late
  <2> QED BY <2>6, <2>7
<1>7. CASE m.kind \notin Answers
  <2>1. m.kind = "message" /\ m.kind \notin Results /\ m.kind \notin Attempts
    BY <1>4, <1>7 DEF Results, Attempts
  <2>2. m \in UiEvent
    BY <1>3, <2>1 DEF ServerMsg, UiEvent
  <2>3. /\ Once(uiEvents', Results) /\ Num(uiEvents', Results) = Num(uiEvents, Results)
        /\ Once(uiEvents', Attempts) /\ Num(uiEvents', Attempts) = Num(uiEvents, Attempts)
    <3>1. CASE uiEvents' = uiEvents
      BY <3>1, AttemptParts
    <3>2. CASE uiEvents' = Append(uiEvents, m)
      BY <1>1, <2>1, <2>2, <3>2, AttemptParts, NumAppend
    <3> QED BY <1>4, <1>7, <3>1, <3>2
  <2> QED BY <1>2, <1>5, <1>7, <2>3, AttemptParts DEF OnceEach, Early, Late
<1> QED BY <1>6, <1>7

\* The server answers a login it has read.
LEMMA AnswerAttempt ==
    ASSUME TypeOK, AttemptInv, ServerAnswers
    PROVE  OnceEach' /\ Early' = Early /\ Late' = Late
<1>1. fromServer \in Seq(ServerMsg) /\ UNCHANGED <<sock, uiEvents, writeQueue>>
  BY DEF TypeOK, ServerAnswers, queueVars
<1>2. unanswered > 0 /\ unanswered' = unanswered - 1
  BY DEF ServerAnswers
<1>3. PICK k \in {"success", "fail"} : fromServer' = Append(fromServer, Event(k))
  BY DEF ServerAnswers
<1>4. Event(k) \in ServerMsg /\ Event(k).kind \in Answers
  BY DEF Event, ServerMsg, Answers
<1> HIDE DEF Event
<1>5. Num(fromServer, Answers) = 0
  <2>1. Early + Late <= 1 /\ Early \in Nat /\ Late \in Nat
    BY AttemptParts, StagesNat
  <2>2. Num(writeQueue, Asking) + unanswered + Num(fromServer, Answers) + Num(uiEvents, Results) = Late
    BY DEF Late
  <2> HIDE DEF Late
  <2> QED BY <1>2, <2>1, <2>2, StageParts
<1>6. Once(fromServer', Answers) /\ Num(fromServer', Answers) = 1
  <2>1. Once(Append(fromServer, Event(k)), Answers) /\ Num(Append(fromServer, Event(k)), Answers) = 1
    BY <1>1, <1>4, <1>5, AttemptParts, NumAppend
  <2> QED BY <1>3, <2>1
<1>7. OnceEach' /\ Early' = Early
  BY <1>1, <1>6, AttemptParts DEF OnceEach, Early
<1>8. Late' = Late
  BY <1>1, <1>2, <1>5, <1>6, StageParts DEF Late
<1> QED BY <1>7, <1>8

\* Where there is an attempt there is no other.
LEMMA OneStage ==
    ASSUME TypeOK, AttemptInv
    PROVE  /\ Early = 0 /\ Late = 0 => /\ Num(writeQueue, Asking) = 0
                                       /\ Num(fromServer, Answers) = 0 /\ unanswered = 0
                                       /\ Num(uiEvents, Attempts) = 0
                                       /\ Num(uiEvents, Results) = 0 /\ sock # "connecting"
           /\ Num(uiEvents, Attempts) = 1 => /\ Early = 1 /\ Late = 0 /\ sock # "connecting"
           /\ Num(uiEvents, Results) = 1 => Early = 0 /\ Late = 1
<1>1. /\ Early + Late <= 1 /\ Early \in Nat /\ Late \in Nat
  BY AttemptParts, StagesNat
<1>2. /\ Num(uiEvents, Attempts) \in 0..1 /\ Num(uiEvents, Results) \in 0..1
      /\ Num(writeQueue, Asking) \in 0..1 /\ Num(fromServer, Answers) \in 0..1
      /\ unanswered \in Nat
  BY StageParts
<1>3. ASSUME Early = 0, Late = 0
      PROVE  /\ Num(writeQueue, Asking) = 0 /\ Num(fromServer, Answers) = 0 /\ unanswered = 0
             /\ Num(uiEvents, Attempts) = 0 /\ Num(uiEvents, Results) = 0 /\ sock # "connecting"
  BY <1>2, <1>3 DEF Early, Late
<1>4. ASSUME Num(uiEvents, Attempts) = 1 PROVE Early = 1 /\ Late = 0 /\ sock # "connecting"
  <2>1. Early = (IF sock = "connecting" THEN 1 ELSE 0) + 1
    BY <1>4 DEF Early
  <2> HIDE DEF Early, Late
  <2> QED BY <1>1, <2>1
<1>5. ASSUME Num(uiEvents, Results) = 1 PROVE Early = 0 /\ Late = 1
  <2>1. Late >= 1
    BY <1>2, <1>5 DEF Late
  <2> HIDE DEF Early, Late
  <2> QED BY <1>1, <2>1
<1> QED BY <1>3, <1>4, <1>5

\* The user starts an attempt.
LEMMA ClickAttempt ==
    ASSUME TypeOK, AttemptInv, ClickLogin
    PROVE  AttemptInv'
<1>1. ~buttons' /\ UNCHANGED <<fromServer, unanswered, uiEvents>>
  BY DEF ClickLogin
<1>2. Early = 0 /\ Late = 0 /\ ~pendingAction /\ ~isConnecting
  <2>1. buttons
    BY DEF ClickLogin
  <2>2. Early + Late = 0 /\ ~pendingAction /\ ~isConnecting
    BY <2>1, Zenon DEF AttemptInv
  <2>3. Early \in Nat /\ Late \in Nat
    BY StagesNat
  <2>4. Early = 0 /\ Late = 0
    BY <2>2, <2>3
  <2> QED BY <2>2, <2>4
<1>3. /\ Num(writeQueue, Asking) = 0 /\ Num(fromServer, Answers) = 0 /\ unanswered = 0
      /\ Num(uiEvents, Attempts) = 0 /\ Num(uiEvents, Results) = 0 /\ sock # "connecting"
  BY <1>2, OneStage
<1>4. CASE connected
  <2>1. sendMessage("auth") /\ UNCHANGED <<isConnecting, pendingAction, sock>>
    BY <1>4 DEF ClickLogin
  <2>2. Once(writeQueue', Asking) /\ Num(writeQueue', Asking) = 1
    BY <1>3, <2>1, AttemptParts, LoginRequest
  <2>3. OnceEach'
    BY <1>1, <2>2, AttemptParts DEF OnceEach
  <2>4. Early' = 0 /\ Late' = 1
    BY <1>1, <1>3, <2>1, <2>2 DEF Early, Late
  <2>5. Early' + Late' <= 1
    BY <2>4
  <2>6. ~(pendingAction' \/ isConnecting')
    BY <1>2, <2>1
  <2> QED BY <1>1, <2>3, <2>5, <2>6, Zenon DEF AttemptInv
<1>5. CASE ~connected
  <2>1. sock' = "connecting" /\ writeQueue' = writeQueue
    BY <1>5 DEF ClickLogin, queueVars
  <2>2. OnceEach'
    BY <1>1, <2>1, AttemptParts DEF OnceEach
  <2>3. Early' = 1 /\ Late' = 0
    BY <1>1, <1>3, <2>1 DEF Early, Late
  <2>4. Early' + Late' <= 1
    BY <2>3
  <2> QED BY <1>1, <2>2, <2>3, <2>4, Zenon DEF AttemptInv
<1> QED BY <1>4, <1>5

\* The attempt is over: nothing of it is left anywhere.
LEMMA AttemptOver ==
    ASSUME OnceEach', Early' = 0, Late' = 0, ~pendingAction', ~isConnecting'
    PROVE  AttemptInv'
<1>1. Early' + Late' <= 1 /\ Early' + Late' = 0
  OBVIOUS
<1> QED BY <1>1, Zenon DEF AttemptInv

\* What the event at the front of the queue was counted as.
LEMMA TailCounts ==
    ASSUME TypeOK, AttemptInv, RunEvent
    PROVE  LET e == Head(uiEvents)
           IN  /\ Once(uiEvents', Attempts) /\ Once(uiEvents', Results)
               /\ e.kind \in Attempts => /\ Num(uiEvents, Attempts) = 1
                                         /\ Num(uiEvents', Attempts) = 0
               /\ e.kind \notin Attempts => Num(uiEvents', Attempts) = Num(uiEvents, Attempts)
               /\ e.kind \in Results => /\ Num(uiEvents, Results) = 1
                                        /\ Num(uiEvents', Results) = 0
               /\ e.kind \notin Results => Num(uiEvents', Results) = Num(uiEvents, Results)
<1>1. uiEvents \in Seq(UiEvent) /\ uiEvents # <<>> /\ uiEvents' = Tail(uiEvents)
  BY DEF TypeOK, RunEvent
<1> QED BY <1>1, NumTail, AttemptParts

\* The connection result: the login is sent or the attempt is over.
LEMMA ResultAttempt ==
    ASSUME TypeOK, AttemptInv, RunEvent, OnConnectionResult(Head(uiEvents))
    PROVE  AttemptInv'
<1> DEFINE e == Head(uiEvents)
<1>1. e.kind \in Attempts /\ e.kind \notin Results
  BY DEF OnConnectionResult, Attempts, Results
<1>2. /\ ~pendingAction' /\ ~isConnecting'
      /\ \/ sendMessage("auth") /\ buttons' = buttons
         \/ UNCHANGED queueVars
      /\ UNCHANGED <<sock, fromServer, unanswered>>
  BY DEF RunEvent, OnConnectionResult, connVars
<1>3. /\ Once(uiEvents', Attempts) /\ Once(uiEvents', Results)
      /\ Num(uiEvents, Attempts) = 1 /\ Num(uiEvents', Attempts) = 0
      /\ Num(uiEvents', Results) = Num(uiEvents, Results)
  BY <1>1, TailCounts
<1> HIDE DEF e
<1>4. Early = 1 /\ Late = 0 /\ sock # "connecting"
  BY <1>3, OneStage
<1>5. /\ Num(writeQueue, Asking) = 0 /\ Num(fromServer, Answers) = 0 /\ unanswered = 0
      /\ Num(uiEvents, Results) = 0
  BY <1>4, StageParts DEF Late
<1>6. Early' = 0
  BY <1>2, <1>3, <1>4 DEF Early
<1>7. CASE UNCHANGED queueVars
  <2>1. writeQueue' = writeQueue
    BY <1>7 DEF queueVars
  <2>2. OnceEach' /\ Late' = 0
    BY <1>2, <1>3, <1>5, <2>1, AttemptParts DEF OnceEach, Late
  <2> QED BY <1>2, <1>6, <2>2, AttemptOver
<1>8. CASE sendMessage("auth") /\ buttons' = buttons
  <2>1. Once(writeQueue', Asking) /\ Num(writeQueue', Asking) = 1
    BY <1>5, <1>8, AttemptParts, LoginRequest
  <2>2. OnceEach' /\ Late' = 1
    BY <1>2, <1>3, <1>5, <2>1, AttemptParts DEF OnceEach, Late
  <2>3. Early' + Late' <= 1 /\ Early + Late # 0
    BY <1>4, <1>6, <2>2
  <2>4. ~buttons'
    BY <1>8, <2>3, Zenon DEF AttemptInv
  <2> QED BY <1>2, <2>2, <2>3, <2>4, Zenon DEF AttemptInv
<1> QED BY <1>2, <1>7, <1>8

\* The answer ends the attempt.
LEMMA AnswerEnds ==
    ASSUME TypeOK, AttemptInv, RunEvent, OnAuthResult(Head(uiEvents))
    PROVE  AttemptInv'
<1> DEFINE e == Head(uiEvents)
<1>1. e.kind \in Results /\ e.kind \notin Attempts
  BY DEF OnAuthResult, Attempts, Results
<1>2. UNCHANGED <<pendingAction, isConnecting, sock, fromServer, unanswered, writeQueue>>
  BY DEF RunEvent, OnAuthResult, connVars, queueVars
<1>3. /\ Once(uiEvents', Attempts) /\ Once(uiEvents', Results)
      /\ Num(uiEvents, Results) = 1 /\ Num(uiEvents', Results) = 0
      /\ Num(uiEvents', Attempts) = Num(uiEvents, Attempts)
  BY <1>1, TailCounts
<1> HIDE DEF e
<1>4. Early = 0 /\ Late = 1
  BY <1>3, OneStage
<1>5. ~pendingAction /\ ~isConnecting
  <2>1. Late # 0
    BY <1>4
  <2> QED BY <2>1, Zenon DEF AttemptInv
<1>6. Early' = 0
  BY <1>2, <1>3, <1>4 DEF Early
<1>7. Late' = 0
  <2>1. Num(writeQueue, Asking) + unanswered + Num(fromServer, Answers) + 1 = 1
    BY <1>3, <1>4 DEF Late
  <2>2. Num(writeQueue, Asking) + unanswered + Num(fromServer, Answers) = 0
    BY <2>1, StageParts
  <2> QED BY <1>2, <1>3, <2>2, StageParts DEF Late
<1>8. OnceEach'
  BY <1>2, <1>3, AttemptParts DEF OnceEach
<1> QED BY <1>2, <1>5, <1>6, <1>7, <1>8, AttemptOver

\* Steps that leave the stages of the attempt alone, or lose them with the connection.
LEMMA AttemptKept ==
    ASSUME TypeOK, TypeOK', AttemptInv, OnceEach', Early' <= Early, Late' <= Late,
           UNCHANGED <<buttons, pendingAction, isConnecting>>
    PROVE  AttemptInv'
<1>1. Early \in Nat /\ Late \in Nat
  BY StagesNat
<1>2. Early' \in Nat /\ Late' \in Nat
  <2>1. (\A q, K : Num(q, K) \in Nat) /\ unanswered' \in Nat
    <3>1. \A q, K : Num(q, K) \in Nat
      BY NumNat
    <3> QED BY <3>1 DEF TypeOK
  <2> QED BY <2>1 DEF Early, Late
<1>3. Early + Late <= 1 => Early' + Late' <= 1
  BY <1>1, <1>2, Fewer
<1>4. Early + Late = 0 => Early' + Late' = 0
  <2>1. Early + Late = 0 => Early = 0 /\ Late = 0
    BY <1>1
  <2>2. Early = 0 /\ Late = 0 => Early' = 0 /\ Late' = 0
    BY <1>1, <1>2
  <2> QED BY <2>1, <2>2
<1>5. Late = 0 => Late' = 0
  BY <1>1, <1>2, Fewer
<1> QED BY <1>3, <1>4, <1>5, Zenon DEF AttemptInv

LEMMA AttemptNext == TypeOK /\ ChainInv /\ AttemptInv /\ [Next]_vars => AttemptInv'
<1> SUFFICES ASSUME TypeOK, ChainInv, AttemptInv, [Next]_vars PROVE AttemptInv'
  OBVIOUS
<1>1. TypeOK' /\ OnceEach /\ Early <= Early /\ Late <= Late
  <2>1. Early \in Nat /\ Late \in Nat
    BY StagesNat
  <2>2. Early <= Early /\ Late <= Late
    BY <2>1
  <2>3. TypeOK' /\ OnceEach
    BY TypeNext DEF AttemptInv
  <2> QED BY <2>2, <2>3
<1>2. ASSUME UNCHANGED <<buttons, pendingAction, isConnecting, uiEvents>>,
             UNCHANGED <<sock, fromServer, unanswered>>,
             \/ writeQueue' = writeQueue
             \/ \E kind \in {"other", "logout"} : sendMessage(kind)
      PROVE  AttemptInv'
  <2>1. Once(writeQueue', Asking) /\ Num(writeQueue', Asking) = Num(writeQueue, Asking)
    BY <1>2, OtherRequest, AttemptParts
  <2>2. OnceEach' /\ Early' = Early /\ Late' = Late
    BY <1>2, <2>1, AttemptParts DEF OnceEach, Early, Late
  <2> QED BY <1>1, <1>2, <2>2, AttemptKept
<1>3. ASSUME NEW ok \in BOOLEAN, ConnectHandler(ok) PROVE AttemptInv'
  <2>1. OnceEach' /\ Early' <= Early /\ Late' = Late
    BY <1>3, ConnectAttempt
  <2>2. UNCHANGED <<buttons, pendingAction, isConnecting>>
    BY <1>3 DEF ConnectHandler, loginVars
  <2> QED BY <1>1, <2>1, <2>2, AttemptKept
<1>4. CASE writeNext
  BY <1>2, <1>4 DEF writeNext, connVars, loginVars
<1>5. CASE WriteHandler
  <2>1. OnceEach' /\ Early' = Early /\ Late' = Late
    BY <1>5, WriteAttempt
  <2>2. UNCHANGED <<buttons, pendingAction, isConnecting>>
    BY <1>5 DEF WriteHandler, loginVars
  <2> QED BY <1>1, <2>1, <2>2, AttemptKept
<1>6. CASE WriteError \/ ReadError
  <2>1. disconnect /\ UNCHANGED <<uiEvents, buttons, pendingAction, isConnecting>>
    BY <1>6 DEF WriteError, ReadError, loginVars
  <2>2. OnceEach' /\ Early' <= Early /\ Late' <= Late
    BY <1>1, <2>1, DisconnectAttempt
  <2> QED BY <1>1, <2>1, <2>2, AttemptKept
<1>7. CASE ReadHandler
  <2>1. OnceEach' /\ Early' = Early /\ Late' = Late
    BY <1>7, ReadAttempt
  <2>2. UNCHANGED <<buttons, pendingAction, isConnecting>>
    BY <1>7 DEF ReadHandler, loginVars
  <2> QED BY <1>1, <2>1, <2>2, AttemptKept
<1>8. CASE ClickLogin
  BY <1>8, ClickAttempt
<1>9. CASE RunEvent
  <2> DEFINE e == Head(uiEvents)
  <2>1. CASE OnConnectionResult(e)
    BY <1>9, <2>1, ResultAttempt
  <2>2. CASE OnAuthResult(e)
    BY <1>9, <2>2, AnswerEnds
  <2>3. CASE OnMessage(e) \/ OnServerDisconnected(e)
    <3>1. e.kind \notin Attempts /\ e.kind \notin Results
      BY <2>3 DEF OnMessage, OnServerDisconnected, Attempts, Results
    <3>2. UNCHANGED <<buttons, pendingAction, isConnecting, writeQueue>>
      BY <2>3 DEF OnMessage, OnServerDisconnected, queueVars
    <3>3. UNCHANGED <<sock, fromServer, unanswered>>
      BY <1>9 DEF RunEvent, connVars
    <3>4. /\ Once(uiEvents', Attempts) /\ Once(uiEvents', Results)
          /\ Num(uiEvents', Attempts) = Num(uiEvents, Attempts)
          /\ Num(uiEvents', Results) = Num(uiEvents, Results)
      BY <1>9, <3>1, TailCounts
    <3>5. OnceEach' /\ Early' = Early /\ Late' = Late
      BY <3>2, <3>3, <3>4, AttemptParts DEF OnceEach, Early, Late
    <3> QED BY <1>1, <3>2, <3>5, AttemptKept
  <2> QED BY <1>9, <2>1, <2>2, <2>3 DEF RunEvent
<1>10. CASE OpenChatWindow
  BY <1>2, <1>10 DEF OpenChatWindow, connVars, queueVars
<1>11. CASE Request
  BY <1>2, <1>11 DEF Request, connVars, loginVars
<1>12. CASE BeginClose
  BY <1>2, <1>12 DEF BeginClose, connVars, loginVars, queueVars
<1>13. ASSUME UNCHANGED <<buttons, pendingAction, isConnecting, uiEvents, writeQueue>>,
              sock' # "connecting" \/ sock' = sock, unanswered' = 0,
              fromServer' = fromServer \/ fromServer' = <<>>
       PROVE  AttemptInv'
  <2>1. /\ Once(fromServer', Answers) /\ Num(fromServer', Answers) \in 0..1
        /\ Num(fromServer', Answers) <= Num(fromServer, Answers)
    <3>1. CASE fromServer' = fromServer
      BY <3>1, AttemptParts, StageParts
    <3>2. CASE fromServer' = <<>>
      BY <3>2, NumEmpty, StageParts
    <3> QED BY <1>13, <3>1, <3>2
  <2>2. OnceEach'
    BY <1>13, <2>1, AttemptParts DEF OnceEach
  <2>3. Early' <= Early
    BY <1>13, StageParts DEF Early
  <2>4. Late' <= Late
    BY <1>13, <2>1, StageParts DEF Late
  <2> QED BY <1>1, <1>13, <2>2, <2>3, <2>4, AttemptKept
<1>14. CASE FinishClose
  BY <1>13, <1>14 DEF FinishClose, CloseSocket, loginVars, queueVars
<1>15. CASE ServerAnswers
  <2>1. OnceEach' /\ Early' = Early /\ Late' = Late
    BY <1>15, AnswerAttempt
  <2>2. UNCHANGED <<buttons, pendingAction, isConnecting>>
    BY <1>15 DEF ServerAnswers, loginVars
  <2> QED BY <1>1, <2>1, <2>2, AttemptKept
<1>16. CASE ServerSends
  <2> DEFINE m == [kind |-> "message", id |-> lastMessage']
  <2>1. fromServer' = Append(fromServer, m) /\ fromServer \in Seq(ServerMsg)
    BY <1>16 DEF ServerSends, TypeOK
  <2>2. UNCHANGED <<buttons, pendingAction, isConnecting, uiEvents, sock, unanswered, writeQueue>>
    BY <1>16 DEF ServerSends, loginVars, queueVars
  <2>3. m \in ServerMsg /\ m.kind \notin Answers
    BY <1>16 DEF ServerSends, TypeOK, ServerMsg, Answers
  <2> HIDE DEF m
  <2>4. Once(Append(fromServer, m), Answers) /\ Num(Append(fromServer, m), Answers) = Num(fromServer, Answers)
    BY <2>1, <2>3, NumAppend, AttemptParts
  <2>5. OnceEach' /\ Early' = Early /\ Late' = Late
    BY <2>1, <2>2, <2>4, AttemptParts DEF OnceEach, Early, Late
  <2> QED BY <1>1, <2>2, <2>5, AttemptKept
<1>17. CASE LinkBreaks
  BY <1>13, <1>17 DEF LinkBreaks, loginVars, queueVars
<1>18. CASE UNCHANGED vars
  BY <1>2, <1>18 DEF vars, connVars, loginVars, queueVars
<1> QED BY <1>3, <1>4, <1>5, <1>6, <1>7, <1>8, <1>9, <1>10, <1>11, <1>12, <1>14, <1>15, <1>16,
           <1>17, <1>18 DEF Next

LEMMA AttemptInit == Init => AttemptInv
<1> SUFFICES ASSUME Init PROVE AttemptInv
  OBVIOUS
<1>1. /\ uiEvents = <<>> /\ fromServer = <<>> /\ writeQueue = <<>>
      /\ unanswered = 0 /\ sock = "closed" /\ ~pendingAction /\ ~isConnecting
  BY DEF Init
<1>2. OnceEach /\ Early = 0 /\ Late = 0
  BY <1>1, NumEmpty DEF OnceEach, Early, Late
<1>3. Early + Late <= 1 /\ Early + Late = 0
  BY <1>2
<1> QED BY <1>1, <1>2, <1>3, Zenon DEF AttemptInv

\* LoginWindow.cpp, setLoading and onAuthResult: the buttons are enabled only when nothing
\* of an attempt is left, so that no second login can overtake the first.
THEOREM EnabledButtonsMeanIdle == Spec => []ButtonsMeanIdle
<1>1. Spec => []AttemptInv
  <2>1. TypeOK /\ ChainInv /\ AttemptInv /\ [Next]_vars => AttemptInv'
    BY AttemptNext
  <2> QED BY <2>1, AttemptInit, ClientInvariant, PTL DEF Spec
<1>2. TypeOK /\ AttemptInv => ButtonsMeanIdle
  <2> SUFFICES ASSUME TypeOK, AttemptInv, buttons
               PROVE  /\ ~isConnecting /\ ~pendingAction /\ sock # "connecting"
                      /\ "auth" \notin Kinds(writeQueue) /\ unanswered = 0
                      /\ Kinds(fromServer) \cap {"success", "fail"} = {}
                      /\ Kinds(uiEvents) \cap {"connected", "refused", "welcome", "failed"} = {}
    BY Zenon DEF ButtonsMeanIdle
  <2>1. Early + Late = 0 /\ ~isConnecting /\ ~pendingAction
    BY Zenon DEF AttemptInv
  <2>2. Early \in Nat /\ Late \in Nat
    BY StagesNat
  <2>3. Early = 0 /\ Late = 0
    BY <2>1, <2>2
  <2>4. /\ Num(writeQueue, Asking) = 0 /\ Num(fromServer, Answers) = 0 /\ unanswered = 0
        /\ Num(uiEvents, Attempts) = 0 /\ Num(uiEvents, Results) = 0 /\ sock # "connecting"
    BY <2>3, OneStage
  <2>5. ASSUME NEW q, NEW K, Num(q, K) = 0 PROVE Kinds(q) \cap K = {}
    BY <2>5 DEF Num, Kinds
  <2>6. "auth" \notin Kinds(writeQueue)
    BY <2>4, <2>5 DEF Asking
  <2>7. Kinds(fromServer) \cap {"success", "fail"} = {}
    BY <2>4, <2>5 DEF Answers
  <2>8. Kinds(uiEvents) \cap {"connected", "refused", "welcome", "failed"} = {}
    <3>1. Kinds(uiEvents) \cap Attempts = {} /\ Kinds(uiEvents) \cap Results = {}
      BY <2>4, <2>5
    <3> QED BY <3>1 DEF Attempts, Results
  <2> QED BY <2>1, <2>4, <2>6, <2>7, <2>8
<1> QED BY <1>1, <1>2, ClientTypeCorrect, PTL
=============================================================================
