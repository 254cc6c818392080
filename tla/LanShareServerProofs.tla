------------------------ MODULE LanShareServerProofs ------------------------
(***************************************************************************)
(* Proofs about LanShareServer, for every set of connections, users and    *)
(* groups.                                                                 *)
(***************************************************************************)
EXTENDS LanShareServer, FiniteSetTheorems, SequenceTheorems, TLAPS

-----------------------------------------------------------------------------
(* Sequences of copies. *)

LEMMA SetToSeqType ==
    ASSUME NEW S, IsFiniteSet(S)
    PROVE  /\ SetToSeq(S) \in Seq(S)
           /\ \A i, j \in 1..Len(SetToSeq(S)) : i # j => SetToSeq(S)[i] # SetToSeq(S)[j]
<1>1. Cardinality(S) \in Nat /\ ExistsBijection(1..Cardinality(S), S)
  BY FS_CardinalityType
<1>2. PICK f \in [1..Cardinality(S) -> S] : IsInjective(f)
  BY <1>1 DEF ExistsBijection, Bijection, Injection
<1>3. SetToSeq(S) \in [1..Cardinality(S) -> S] /\ IsInjective(SetToSeq(S))
  BY <1>2 DEF SetToSeq
<1>4. SetToSeq(S) \in Seq(S) /\ DOMAIN SetToSeq(S) = 1..Len(SetToSeq(S))
  BY <1>1, <1>3, SeqDef
<1> QED BY <1>3, <1>4 DEF IsInjective

(* The copies of a message for a set of users are messages to those users. *)
LEMMA CopiesType ==
    ASSUME NEW R \in SUBSET UserID, NEW m \in Message
    PROVE  /\ Copies(R, m) \in Seq(Message)
           /\ \A i \in 1..Len(Copies(R, m)) : /\ Copies(R, m)[i].to \in R
                                              /\ Copies(R, m)[i].id = m.id
                                              /\ Copies(R, m)[i].type = m.type
           /\ \A i, j \in 1..Len(Copies(R, m)) :
                 i # j => Copies(R, m)[i].to # Copies(R, m)[j].to
<1> DEFINE us == SetToSeq(R)
<1>1. IsFiniteSet(R)
  BY FS_Subset, ServerAssumption
<1>2. us \in Seq(R) /\ \A i, j \in 1..Len(us) : i # j => us[i] # us[j]
  BY <1>1, SetToSeqType
<1>3. Len(us) \in Nat /\ \A i \in 1..Len(us) : us[i] \in R
  BY <1>2
<1>4. \A i \in 1..Len(us) : [m EXCEPT !.to = us[i]] \in Message
  BY <1>3 DEF Message
<1>5. \A i \in 1..Len(us) : /\ [m EXCEPT !.to = us[i]].to = us[i]
                            /\ [m EXCEPT !.to = us[i]].id = m.id
                            /\ [m EXCEPT !.to = us[i]].type = m.type
  BY DEF Message
<1>6. Copies(R, m) = [i \in 1..Len(us) |-> [m EXCEPT !.to = us[i]]]
  BY DEF Copies
<1> HIDE DEF us
<1>7. Copies(R, m) \in [1..Len(us) -> Message]
  BY <1>4, <1>6
<1>8. Copies(R, m) \in Seq(Message) /\ Len(Copies(R, m)) = Len(us)
  BY <1>3, <1>6, <1>7, SeqDef
<1> DEFINE c == Copies(R, m)
<1>9. \A i \in 1..Len(c) : c[i] = [m EXCEPT !.to = us[i]]
  BY <1>3, <1>6, <1>8
<1>10. \A i \in 1..Len(c) : c[i].to = us[i] /\ c[i].id = m.id /\ c[i].type = m.type
  BY <1>5, <1>8, <1>9
<1> HIDE DEF c
<1>11. /\ \A i \in 1..Len(c) : c[i].to \in R /\ c[i].id = m.id /\ c[i].type = m.type
       /\ \A i, j \in 1..Len(c) : i # j => c[i].to # c[j].to
  BY <1>2, <1>3, <1>8, <1>10 DEF c
<1> QED BY <1>8, <1>11 DEF c

-----------------------------------------------------------------------------
(* sendMessage. *)

LEMMA SendType ==
    ASSUME TypeOK, NEW out \in [Session -> Seq(Message)], Send(out)
    PROVE  /\ writeQueue' \in [Session -> Seq(Message)]
           /\ writing' \in [Session -> {"idle", "pending", "failed"}]
<1>1. \A x \in Session : writeQueue[x] \o out[x] \in Seq(Message)
  BY ConcatProperties DEF TypeOK
<1> QED BY <1>1 DEF TypeOK, Send

LEMMA ReplyIsMessage == Reply \in Message
BY DEF Reply, Message

LEMMA RoutedIsMessage ==
    ASSUME TypeOK, NEW type \in {"MSG_PRIVATE", "MSG_GROUP", "FILE"},
           NEW g \in GroupName \cup {NoName}
    PROVE  Routed(type, g) \in Message
BY DEF TypeOK, Routed, Message

LEMMA SendToType ==
    ASSUME TypeOK, NEW s \in Session, NEW ms \in Seq(Message), SendTo(s, ms)
    PROVE  /\ writeQueue' \in [Session -> Seq(Message)]
           /\ writing' \in [Session -> {"idle", "pending", "failed"}]
<1> DEFINE out == [x \in Session |-> IF x = s THEN ms ELSE <<>>]
<1>1. out \in [Session -> Seq(Message)]
  BY EmptySeq
<1>2. Send(out)
  BY DEF SendTo
<1> QED BY <1>1, <1>2, SendType

LEMMA ForwardType ==
    ASSUME TypeOK, NEW R \in SUBSET UserID, NEW m \in Message, Forward(R, m)
    PROVE  /\ writeQueue' \in [Session -> Seq(Message)]
           /\ writing' \in [Session -> {"idle", "pending", "failed"}]
<1> DEFINE out == [x \in Session |-> Copies({u \in R : clients[u] = x}, m)]
<1>1. out \in [Session -> Seq(Message)]
  BY CopiesType
<1>2. Send(out)
  BY DEF Forward
<1> QED BY <1>1, <1>2, SendType

LEMMA StoreType ==
    ASSUME TypeOK, NEW R \in SUBSET UserID, NEW m \in Message, Store(R, m)
    PROVE  offlineMessages' \in [UserID -> Seq(Message)]
<1>1. \A u \in UserID : [m EXCEPT !.to = u, !.group = NoName] \in Message
  BY DEF Message
<1>2. \A u \in UserID :
        Append(offlineMessages[u], [m EXCEPT !.to = u, !.group = NoName]) \in Seq(Message)
  BY <1>1, AppendProperties DEF TypeOK
<1> QED BY <1>2 DEF TypeOK, Store

LEMMA AcceptType ==
    ASSUME TypeOK, NEW R \in SUBSET UserID, NEW m \in Message, Accept(R, m)
    PROVE  lastID' \in Nat /\ accepted' \subseteq Nat \X UserID
BY DEF TypeOK, Accept, Message

\* The part of TypeOK that a routing handler writes.
LEMMA RouteType ==
    ASSUME TypeOK, NEW R \in SUBSET UserID, NEW m \in Message,
           RouteMessage(R, m) \/ RouteFile(R, m)
    PROVE  /\ writeQueue' \in [Session -> Seq(Message)]
           /\ writing' \in [Session -> {"idle", "pending", "failed"}]
           /\ offlineMessages' \in [UserID -> Seq(Message)]
           /\ lastID' \in Nat /\ accepted' \subseteq Nat \X UserID
<1>1. R \ Online(R) \in SUBSET UserID /\ Online(R) \in SUBSET UserID
  BY DEF Online
<1>2. CASE RouteMessage(R, m)
  BY <1>1, <1>2, ForwardType, StoreType, AcceptType DEF RouteMessage
<1>3. CASE RouteFile(R, m)
  BY <1>1, <1>3, ForwardType, AcceptType DEF RouteFile, TypeOK
<1> QED BY <1>2, <1>3

-----------------------------------------------------------------------------
(* The group table. *)

LEMMA GroupsType ==
    ASSUME GM!GroupsTypeOK, NEW g, NEW u \in UserID,
           \/ g \in GroupName /\ \E code \in JoinCode : GM!createGroup(g, u, code)
           \/ \E code \in JoinCode : GM!joinGroup(g, u, code)
           \/ GM!leaveGroup(g, u)
    PROVE  GM!GroupsTypeOK'
<1>1. CASE g \in GroupName /\ \E code \in JoinCode : GM!createGroup(g, u, code)
  BY <1>1 DEF GM!GroupsTypeOK, GM!GroupInfo, GM!createGroup, GM!groupExists
<1>2. ASSUME g \in DOMAIN groups, NEW ms \in SUBSET UserID
      PROVE  LET new == [groups EXCEPT ![g].members = ms]
             IN  DOMAIN new = DOMAIN groups /\ new \in [DOMAIN groups -> GM!GroupInfo]
  <2>1. groups[g] \in GM!GroupInfo
    BY <1>2 DEF GM!GroupsTypeOK
  <2>2. [groups[g] EXCEPT !.members = ms] \in GM!GroupInfo
    BY <2>1, <1>2 DEF GM!GroupInfo
  <2> QED BY <2>2, <1>2 DEF GM!GroupsTypeOK
<1>3. g \in DOMAIN groups => groups[g].members \subseteq UserID
  BY DEF GM!GroupsTypeOK, GM!GroupInfo
<1>4. CASE \E code \in JoinCode : GM!joinGroup(g, u, code)
  <2>1. g \in DOMAIN groups /\ groups[g].members \cup {u} \in SUBSET UserID
    BY <1>3, <1>4 DEF GM!joinGroup, GM!groupExists
  <2>2. groups' = [groups EXCEPT ![g].members = groups[g].members \cup {u}]
    BY <1>4 DEF GM!joinGroup
  <2> QED BY <1>2, <2>1, <2>2 DEF GM!GroupsTypeOK
<1>5. CASE GM!leaveGroup(g, u)
  <2> DEFINE left == groups[g].members \ {u}
  <2>1. g \in DOMAIN groups /\ left \in SUBSET UserID
    BY <1>3, <1>5 DEF GM!leaveGroup, GM!groupExists
  <2>2. CASE left = {}
    <3>1. groups' = [h \in DOMAIN groups \ {g} |-> groups[h]]
      BY <1>5, <2>2 DEF GM!leaveGroup, GM!Restrict
    <3> QED BY <3>1 DEF GM!GroupsTypeOK
  <2>3. CASE left # {}
    <3>1. groups' = [groups EXCEPT ![g].members = left]
      BY <1>5, <2>3 DEF GM!leaveGroup
    <3> QED BY <1>2, <2>1, <3>1 DEF GM!GroupsTypeOK
  <2> QED BY <2>2, <2>3
<1> QED BY <1>1, <1>4, <1>5

LEMMA MembersType ==
    ASSUME GM!GroupsTypeOK, NEW g
    PROVE  GM!getGroupMembers(g) \subseteq UserID
BY DEF GM!GroupsTypeOK, GM!GroupInfo, GM!getGroupMembers, GM!groupExists

-----------------------------------------------------------------------------
(* Type correctness. *)

LEMMA TypeInit == Init => TypeOK
<1> SUFFICES ASSUME Init PROVE TypeOK
  OBVIOUS
<1>1. GM!GroupsTypeOK
  BY DEF Init, GM!Init, GM!GroupsTypeOK
<1>2. <<>> \in Seq(Message)
  BY EmptySeq
<1> QED BY <1>1, <1>2 DEF Init, TypeOK

\* A handler of s that only answers it.
LEMMA TypeAnswer ==
    ASSUME TypeOK, NEW s \in Session, Answer(s)
    PROVE  TypeOK'
<1>1. <<Reply>> \in Seq(Message)
  BY ReplyIsMessage
<1>2. SendTo(s, <<Reply>>)
  BY DEF Answer
<1>3. GM!GroupsTypeOK'
  BY DEF Answer, TypeOK, GM!GroupsTypeOK
<1>4. /\ writeQueue' \in [Session -> Seq(Message)]
      /\ writing' \in [Session -> {"idle", "pending", "failed"}]
  BY <1>1, <1>2, SendToType
<1> QED BY <1>3, <1>4 DEF Answer, ReadNext, routerVars, TypeOK

LEMMA TypeRouting ==
    ASSUME TypeOK, NEW s \in Session, NEW R \in SUBSET UserID, NEW m \in Message,
           RouteMessage(R, m) \/ RouteFile(R, m), Routing(s)
    PROVE  TypeOK'
<1>1. GM!GroupsTypeOK'
  BY DEF Routing, TypeOK, GM!GroupsTypeOK
<1> QED BY <1>1, RouteType DEF Routing, ReadNext, TypeOK

LEMMA TypeRequest ==
    ASSUME TypeOK, NEW s \in Session, HandleRequest(s)
    PROVE  TypeOK'
<1>1. CASE HandleAuthLogout(s)
  <2>1. GM!GroupsTypeOK'
    BY <1>1 DEF HandleAuthLogout, TypeOK, GM!GroupsTypeOK
  <2>2. clients' \in [UserID -> Session \cup {NoSession}] /\ ioThread' \in {"running", "blocked"}
    BY <1>1 DEF HandleAuthLogout, SetClient, TypeOK
  <2> QED BY <1>1, <2>1, <2>2, ZenonT(60) DEF HandleAuthLogout, ReadNext, routerVars, TypeOK
<1>2. CASE HandleAnswered(s)
  BY <1>2, TypeAnswer DEF HandleAnswered
<1>2a. CASE HandleUnknown(s)
  <2>1. GM!GroupsTypeOK'
    BY <1>2a DEF HandleUnknown, TypeOK, GM!GroupsTypeOK
  <2> QED BY <1>2a, <2>1 DEF HandleUnknown, ReadNext, routerVars, TypeOK
<1>3. ASSUME NEW u \in UserID, HandleAuthRegister(s, u) \/ HandleAuthLogin(s, u)
      PROVE  TypeOK'
  <2>1. /\ clients' \in [UserID -> Session \cup {NoSession}]
        /\ ioThread' \in {"running", "blocked"}
        /\ userID' \in [Session -> UserID \cup {NoUser}]
        /\ authenticated' \in [Session -> BOOLEAN]
        /\ identities' \in [Session -> SUBSET UserID]
        /\ registered' \subseteq UserID
        /\ \A x \in Session : authenticated'[x] => userID'[x] \in UserID
    <3>1. Authenticate(s, u) /\ registered' = registered \cup {u}
      BY <1>3 DEF HandleAuthRegister, HandleAuthLogin
    <3> QED BY <3>1 DEF Authenticate, SetClient, TypeOK
  <2>2. GM!GroupsTypeOK' /\ UNCHANGED <<lastID, accepted, sock, peer, wire>>
    <3>1. UNCHANGED <<groups, lastID, accepted, sock, peer, wire>>
      BY <1>3 DEF HandleAuthRegister, HandleAuthLogin, Authenticate
    <3> QED BY <3>1 DEF TypeOK, GM!GroupsTypeOK
  <2>3. reading' \in [Session -> {"none", "pending", "ready"}]
    BY <1>3 DEF HandleAuthRegister, HandleAuthLogin, ReadNext, TypeOK
  <2>4. offlineMessages' \in [UserID -> Seq(Message)]
    <3>1. <<>> \in Seq(Message)
      BY EmptySeq
    <3>2. \/ UNCHANGED offlineMessages
          \/ offlineMessages' = [offlineMessages EXCEPT ![u] = <<>>]
      BY <1>3 DEF HandleAuthRegister, HandleAuthLogin
    <3> QED BY <3>1, <3>2 DEF TypeOK
  <2>5. <<Reply>> \in Seq(Message) /\ <<Reply>> \o offlineMessages[u] \in Seq(Message)
    BY ReplyIsMessage, ConcatProperties DEF TypeOK
  <2>6. \/ UNCHANGED <<writeQueue, writing>>
        \/ SendTo(s, <<Reply>>)
        \/ SendTo(s, <<Reply>> \o offlineMessages[u])
    BY <1>3 DEF HandleAuthRegister, HandleAuthLogin
  <2>7. /\ writeQueue' \in [Session -> Seq(Message)]
        /\ writing' \in [Session -> {"idle", "pending", "failed"}]
    BY <2>5, <2>6, SendToType DEF TypeOK
  <2> QED BY <2>1, <2>2, <2>3, <2>4, <2>7 DEF TypeOK
<1>4. ASSUME NEW u \in UserID, HandlePrivateMessage(s, u) \/ HandleFilePrivate(s, u)
      PROVE  TypeOK'
  <2>1. CASE Answer(s)
    BY <2>1, TypeAnswer
  <2>2. CASE ~Answer(s)
    <3>1. /\ Routing(s)
          /\ \E type \in {"MSG_PRIVATE", "FILE"} :
                \/ RouteMessage({u}, Routed(type, NoName))
                \/ RouteFile({u}, Routed(type, NoName))
      BY <1>4, <2>2 DEF HandlePrivateMessage, HandleFilePrivate
    <3> QED BY <3>1, RoutedIsMessage, TypeRouting
  <2> QED BY <2>1, <2>2
<1>5. ASSUME NEW g \in GroupName, HandleGroupMessage(s, g) \/ HandleFileGroup(s, g)
      PROVE  TypeOK'
  <2>1. CASE Answer(s)
    BY <2>1, TypeAnswer
  <2>2. CASE ~Answer(s)
    <3> DEFINE R == GM!getGroupMembers(g) \ {userID[s]}
    <3>1. R \in SUBSET UserID
      BY MembersType DEF TypeOK
    <3>2. /\ Routing(s)
          /\ \E type \in {"MSG_GROUP", "FILE"}, n \in GroupName \cup {NoName} :
                RouteMessage(R, Routed(type, n)) \/ RouteFile(R, Routed(type, n))
      BY <1>5, <2>2 DEF HandleGroupMessage, HandleFileGroup
    <3> HIDE DEF R
    <3> QED BY <3>1, <3>2, RoutedIsMessage, TypeRouting
  <2> QED BY <2>1, <2>2
<1>6. ASSUME NEW g \in GroupName, HandleGroupUpdate(s, g)
      PROVE  TypeOK'
  <2>1. GM!GroupsTypeOK /\ userID[s] \in UserID
    BY <1>6 DEF HandleGroupUpdate, TypeOK
  <2>2. GM!GroupsTypeOK'
    <3>1. CASE \E code \in JoinCode : GM!createGroup(g, userID[s], code)
      BY <2>1, <3>1, GroupsType
    <3>2. CASE \E code \in JoinCode : GM!joinGroup(JoinTarget(g), userID[s], code)
      BY <2>1, <3>2, GroupsType
    <3>3. CASE GM!leaveGroup(g, userID[s])
      BY <2>1, <3>3, GroupsType
    <3> QED BY <1>6, <3>1, <3>2, <3>3 DEF HandleGroupUpdate
  <2>3. <<Reply>> \in Seq(Message)
    BY ReplyIsMessage
  <2>4. /\ writeQueue' \in [Session -> Seq(Message)]
        /\ writing' \in [Session -> {"idle", "pending", "failed"}]
    BY <1>6, <2>3, SendToType DEF HandleGroupUpdate
  <2> QED BY <1>6, <2>2, <2>4 DEF HandleGroupUpdate, ReadNext, routerVars, TypeOK
<1> QED BY <1>1, <1>2, <1>3, <1>4, <1>2a, <1>5, <1>6 DEF HandleRequest

-----------------------------------------------------------------------------
(* The write queue, the read chain, and connections not yet accepted. *)

\* Nothing refers to a connection that has not been accepted.
AbsentIsIdle ==
    \A s \in Session : peer[s] = "absent" =>
        /\ ~sock[s] /\ reading[s] = "none" /\ writing[s] = "idle"
        /\ \A u \in UserID : clients[u] # s

ConnInv == TypeOK /\ NoStalledConnection /\ AbsentIsIdle

\* sendMessage starts a write exactly where the queue stops being empty.
LEMMA SendQueue ==
    ASSUME TypeOK, NoStalledConnection, NEW out \in [Session -> Seq(Message)], Send(out),
           NEW x \in Session
    PROVE  /\ writeQueue'[x] = <<>> <=> writing'[x] = "idle"
           /\ writing'[x] = "failed" <=> writing[x] = "failed"
           /\ out[x] = <<>> => writing'[x] = writing[x]
<1>1. writeQueue'[x] = writeQueue[x] \o out[x]
  BY DEF Send
<1>2. writeQueue[x] \o out[x] = <<>> <=> writeQueue[x] = <<>> /\ out[x] = <<>>
  BY ConcatEqualIffEmpty DEF TypeOK
<1>3. writing'[x] = IF writing[x] = "idle" /\ out[x] # <<>> THEN "pending" ELSE writing[x]
  BY DEF Send
<1> QED BY <1>1, <1>2, <1>3 DEF NoStalledConnection, TypeOK

\* Every request handler sends through Send, if it sends at all, and only to
\* itself and to listed sessions.
LEMMA RequestSends ==
    ASSUME TypeOK, NEW s \in Session, HandleRequest(s)
    PROVE  \/ UNCHANGED <<writeQueue, writing>>
           \/ \E out \in [Session -> Seq(Message)] :
                /\ Send(out)
                /\ \A x \in Session :
                      out[x] # <<>> => x = s \/ \E u \in UserID : clients[u] = x
<1> DEFINE Sends == \E out \in [Session -> Seq(Message)] :
                /\ Send(out)
                /\ \A x \in Session :
                      out[x] # <<>> => x = s \/ \E u \in UserID : clients[u] = x
<1>1. ASSUME NEW ms \in Seq(Message), SendTo(s, ms) PROVE Sends
  <2> DEFINE out == [x \in Session |-> IF x = s THEN ms ELSE <<>>]
  <2>1. out \in [Session -> Seq(Message)]
    BY EmptySeq
  <2>2. Send(out)
    BY <1>1 DEF SendTo
  <2> QED BY <2>1, <2>2
<1>2. ASSUME NEW R \in SUBSET UserID, NEW m \in Message, Forward(R, m) PROVE Sends
  <2> DEFINE out == [x \in Session |-> Copies({u \in R : clients[u] = x}, m)]
  <2>1. out \in [Session -> Seq(Message)]
    BY CopiesType
  <2>2. Send(out)
    BY <1>2 DEF Forward
  <2>3. ASSUME NEW x \in Session, out[x] # <<>>
        PROVE  \E u \in UserID : clients[u] = x
    <3> DEFINE T == {u \in R : clients[u] = x}
    <3>1. T \in SUBSET UserID /\ Copies(T, m) # <<>>
      BY <2>3
    <3> HIDE DEF T
    <3>2. /\ Copies(T, m) \in Seq(Message)
          /\ \A i \in 1..Len(Copies(T, m)) : Copies(T, m)[i].to \in T
      BY <3>1, CopiesType
    <3>3. Len(Copies(T, m)) \in Nat \ {0}
      BY <3>1, <3>2, EmptySeq
    <3>4. Copies(T, m)[1].to \in T
      BY <3>2, <3>3
    <3> QED BY <3>4 DEF T
  <2> QED BY <2>1, <2>2, <2>3
<1> HIDE DEF Sends
<1>3. <<Reply>> \in Seq(Message)
  BY ReplyIsMessage
<1>4. CASE HandleAuthLogout(s) \/ HandleUnknown(s)
  BY <1>4 DEF HandleAuthLogout, HandleUnknown
<1>5. ASSUME Answer(s) PROVE Sends
  BY <1>1, <1>3, <1>5 DEF Answer
<1>6. ASSUME NEW u \in UserID, HandleAuthRegister(s, u) \/ HandleAuthLogin(s, u)
      PROVE  UNCHANGED <<writeQueue, writing>> \/ Sends
  <2>1. <<Reply>> \o offlineMessages[u] \in Seq(Message)
    BY <1>3, ConcatProperties DEF TypeOK
  <2>2. \/ UNCHANGED <<writeQueue, writing>>
        \/ SendTo(s, <<Reply>>)
        \/ SendTo(s, <<Reply>> \o offlineMessages[u])
    BY <1>6 DEF HandleAuthRegister, HandleAuthLogin
  <2> QED BY <1>1, <1>3, <2>1, <2>2
<1>7. ASSUME NEW u \in UserID, HandlePrivateMessage(s, u) \/ HandleFilePrivate(s, u), ~Answer(s)
      PROVE  Sends
  <2>1. \E type \in {"MSG_PRIVATE", "FILE"} : Forward({u}, Routed(type, NoName))
    BY <1>7 DEF HandlePrivateMessage, HandleFilePrivate, RouteMessage, RouteFile
  <2> QED BY <1>2, <2>1, RoutedIsMessage
<1>8. ASSUME NEW g \in GroupName, HandleGroupMessage(s, g) \/ HandleFileGroup(s, g), ~Answer(s)
      PROVE  Sends
  <2> DEFINE R == GM!getGroupMembers(g) \ {userID[s]}
  <2>1. R \in SUBSET UserID
    BY MembersType DEF TypeOK
  <2>2. \E type \in {"MSG_GROUP", "FILE"}, n \in GroupName \cup {NoName} :
            Forward(R, Routed(type, n))
    BY <1>8 DEF HandleGroupMessage, HandleFileGroup, RouteMessage, RouteFile
  <2> HIDE DEF R
  <2> QED BY <1>2, <2>1, <2>2, RoutedIsMessage
<1>9. ASSUME NEW g \in GroupName, HandleGroupUpdate(s, g) PROVE Sends
  BY <1>1, <1>3, <1>9 DEF HandleGroupUpdate
<1>10. ASSUME HandleAnswered(s) PROVE Sends
  BY <1>5, <1>10 DEF HandleAnswered
<1> QED BY <1>4, <1>5, <1>6, <1>7, <1>8, <1>9, <1>10 DEF HandleRequest, Sends

\* What a request handler of s does to the connections themselves.
LEMMA RequestConnections ==
    ASSUME TypeOK, NEW s \in Session, HandleRequest(s)
    PROVE  /\ UNCHANGED <<peer, wire>>
           /\ sock' = sock \/ sock' = [sock EXCEPT ![s] = FALSE]
           /\ reading' = reading \/ reading' = [reading EXCEPT ![s] = "pending"]
           /\ reading[s] # "none"
           /\ \A u \in UserID : clients'[u] = s \/ clients'[u] = clients[u] \/ clients'[u] = NoSession
<1>1. reading[s] # "none"
  BY DEF HandleRequest, Handling, HandleAuthLogout, HandleAnswered, HandleAuthRegister,
         HandleAuthLogin, HandlePrivateMessage, HandleFilePrivate, HandleGroupMessage,
         HandleFileGroup, HandleGroupUpdate, HandleUnknown
<1>2. CASE Answer(s) \/ HandleUnknown(s)
  BY <1>1, <1>2 DEF Answer, HandleUnknown, ReadNext
<1>3. CASE Routing(s)
  BY <1>1, <1>3 DEF Routing, ReadNext, TypeOK
<1>4. CASE HandleAuthLogout(s)
  BY <1>1, <1>4 DEF HandleAuthLogout, ReadNext, SetClient, TypeOK
<1>5. CASE \E u \in UserID : HandleAuthRegister(s, u) \/ HandleAuthLogin(s, u)
  BY <1>1, <1>5 DEF HandleAuthRegister, HandleAuthLogin, Authenticate, ReadNext, SetClient, TypeOK
<1>6. CASE \E g \in GroupName : HandleGroupUpdate(s, g)
  BY <1>1, <1>6 DEF HandleGroupUpdate, ReadNext
<1>7. \/ Answer(s) \/ HandleUnknown(s) \/ Routing(s) \/ HandleAuthLogout(s)
      \/ \E u \in UserID : HandleAuthRegister(s, u) \/ HandleAuthLogin(s, u)
      \/ \E g \in GroupName : HandleGroupUpdate(s, g)
  BY DEF HandleRequest, HandleAnswered, HandlePrivateMessage, HandleFilePrivate,
         HandleGroupMessage, HandleFileGroup
<1> QED BY <1>2, <1>3, <1>4, <1>5, <1>6, <1>7

\* What dropping a handler's self does to the registry.
LEMMA DropSelfClients ==
    ASSUME TypeOK, NEW s \in Session, ReadError(s) \/ WriteError(s)
    PROVE  /\ clients' \in [UserID -> Session \cup {NoSession}]
           /\ ioThread' \in {"running", "blocked"}
           /\ \A u \in UserID : clients'[u] = clients[u] \/ clients'[u] = NoSession
BY DEF ReadError, WriteError, DropSelf, SetClient, TypeOK

LEMMA TypeNext ==
    ASSUME TypeOK, NoStalledConnection, [Next]_vars
    PROVE  TypeOK'
<1>1. ASSUME NEW s \in Session, AcceptConnection(s) PROVE TypeOK'
  <2>1. GM!GroupsTypeOK'
    BY <1>1 DEF AcceptConnection, TypeOK, GM!GroupsTypeOK
  <2> QED BY <1>1, <2>1 DEF AcceptConnection, ReadNext, routerVars, TypeOK
<1>2. ASSUME NEW s \in Session, PeerLeaves(s) PROVE TypeOK'
  <2>1. GM!GroupsTypeOK'
    BY <1>2 DEF PeerLeaves, TypeOK, GM!GroupsTypeOK
  <2> QED BY <1>2, <2>1 DEF PeerLeaves, routerVars, sessionVars, TypeOK
<1>3. ASSUME NEW s \in Session, HandleRequest(s) PROVE TypeOK'
  BY <1>3, TypeRequest
<1>4. ASSUME NEW s \in Session, ReadError(s) PROVE TypeOK'
  <2>1. GM!GroupsTypeOK'
    BY <1>4 DEF ReadError, TypeOK, GM!GroupsTypeOK
  <2>2. clients' \in [UserID -> Session \cup {NoSession}] /\ ioThread' \in {"running", "blocked"}
    BY <1>4, DropSelfClients
  <2> QED BY <1>4, <2>1, <2>2 DEF ReadError, routerVars, TypeOK
<1>5. ASSUME NEW s \in Session, WriteHandler(s) PROVE TypeOK'
  <2> DEFINE q == writeQueue[s]
  <2>1. q \in Seq(Message) /\ wire[s] \in Seq(Message) /\ q # <<>>
    BY <1>5 DEF WriteHandler, NoStalledConnection, TypeOK
  <2>2. Head(q) \in Message /\ Tail(q) \in Seq(Message)
    BY <2>1, HeadTailProperties
  <2>3. Append(wire[s], Head(q)) \in Seq(Message)
    BY <2>1, <2>2, AppendProperties
  <2>4. wire' \in [Session -> Seq(Message)]
    BY <1>5, <2>1, <2>3 DEF WriteHandler, TypeOK
  <2>5. GM!GroupsTypeOK'
    BY <1>5 DEF WriteHandler, TypeOK, GM!GroupsTypeOK
  <2>6. writeQueue' \in [Session -> Seq(Message)]
    BY <1>5, <2>2 DEF WriteHandler, TypeOK
  <2> QED BY <1>5, <2>4, <2>5, <2>6 DEF WriteHandler, routerVars, TypeOK
<1>6. ASSUME NEW s \in Session, WriteError(s) PROVE TypeOK'
  <2>1. GM!GroupsTypeOK'
    BY <1>6 DEF WriteError, TypeOK, GM!GroupsTypeOK
  <2>2. clients' \in [UserID -> Session \cup {NoSession}] /\ ioThread' \in {"running", "blocked"}
    BY <1>6, DropSelfClients
  <2>3. reading' \in [Session -> {"none", "pending", "ready"}]
    BY <1>6, ZenonT(60) DEF WriteError, TypeOK
  <2> QED BY <1>6, <2>1, <2>2, <2>3 DEF WriteError, routerVars, TypeOK
<1>7. CASE UNCHANGED vars
  <2>1. GM!GroupsTypeOK'
    BY <1>7 DEF vars, TypeOK, GM!GroupsTypeOK
  <2> QED BY <1>7, <2>1 DEF vars, routerVars, sessionVars, TypeOK
<1> QED BY <1>1, <1>2, <1>3, <1>4, <1>5, <1>6, <1>7 DEF Next

LEMMA ConnInit == Init => ConnInv
<1> SUFFICES ASSUME Init PROVE ConnInv
  OBVIOUS
<1>1. TypeOK
  BY TypeInit
<1>2. NoStalledConnection /\ AbsentIsIdle
  BY ServerAssumption DEF Init, NoStalledConnection, AbsentIsIdle
<1> QED BY <1>1, <1>2 DEF ConnInv

LEMMA ConnRequest ==
    ASSUME ConnInv, NEW s \in Session, HandleRequest(s)
    PROVE  NoStalledConnection' /\ AbsentIsIdle'
<1> USE DEF ConnInv
<1>1. /\ UNCHANGED peer
      /\ sock' = sock \/ sock' = [sock EXCEPT ![s] = FALSE]
      /\ reading' = reading \/ reading' = [reading EXCEPT ![s] = "pending"]
      /\ reading[s] # "none"
      /\ \A u \in UserID : clients'[u] = s \/ clients'[u] = clients[u] \/ clients'[u] = NoSession
  BY RequestConnections
<1>2. PICK out \in [Session -> Seq(Message)] :
         /\ UNCHANGED <<writeQueue, writing>> \/ Send(out)
         /\ \A x \in Session :
               out[x] # <<>> => x = s \/ \E u \in UserID : clients[u] = x
  <2>1. [x \in Session |-> <<>>] \in [Session -> Seq(Message)]
    BY EmptySeq
  <2> QED BY <2>1, RequestSends
<1>3. ASSUME NEW x \in Session
      PROVE  /\ writeQueue'[x] = <<>> <=> writing'[x] = "idle"
             /\ writing'[x] = "failed" <=> writing[x] = "failed"
             /\ out[x] = <<>> => writing'[x] = writing[x]
  BY <1>2, SendQueue DEF NoStalledConnection
<1>4. peer[s] # "absent"
  BY <1>1 DEF AbsentIsIdle
<1>5. NoStalledConnection'
  <2> SUFFICES ASSUME NEW x \in Session
               PROVE  /\ writeQueue'[x] = <<>> <=> writing'[x] = "idle"
                      /\ sock'[x] => reading'[x] # "none" /\ writing'[x] # "failed"
    BY DEF NoStalledConnection
  <2>1. sock'[x] => sock[x] /\ reading'[x] # "none"
    BY <1>1, ZenonT(60) DEF NoStalledConnection, TypeOK
  <2>2. sock[x] => writing[x] # "failed"
    BY DEF NoStalledConnection
  <2> QED BY <1>3, <2>1, <2>2
<1>6. AbsentIsIdle'
  <2> SUFFICES ASSUME NEW x \in Session, peer[x] = "absent"
               PROVE  /\ ~sock'[x] /\ reading'[x] = "none" /\ writing'[x] = "idle"
                      /\ \A u \in UserID : clients'[u] # x
    BY <1>1 DEF AbsentIsIdle
  <2>1. x # s /\ (\A u \in UserID : clients[u] # x) /\ writing[x] = "idle"
        /\ ~sock[x] /\ reading[x] = "none"
    BY <1>4 DEF AbsentIsIdle
  <2>2. writing'[x] = "idle"
    BY <1>2, <1>3, <2>1
  <2>3. ~sock'[x] /\ reading'[x] = "none"
    BY <1>1, <2>1 DEF TypeOK
  <2>4. \A u \in UserID : clients'[u] # x
    BY <1>1, <2>1, ServerAssumption
  <2> QED BY <2>2, <2>3, <2>4
<1> QED BY <1>5, <1>6

LEMMA ConnNext == ConnInv /\ [Next]_vars => ConnInv'
<1> SUFFICES ASSUME ConnInv, [Next]_vars PROVE ConnInv'
  OBVIOUS
<1> USE DEF ConnInv
<1>1. TypeOK'
  BY TypeNext
<1>2. ASSUME NEW s \in Session, HandleRequest(s) PROVE NoStalledConnection' /\ AbsentIsIdle'
  BY <1>2, ConnRequest
<1>3. ASSUME NEW s \in Session, AcceptConnection(s) PROVE NoStalledConnection' /\ AbsentIsIdle'
  BY <1>3 DEF AcceptConnection, ReadNext, NoStalledConnection, AbsentIsIdle, TypeOK
<1>4. ASSUME NEW s \in Session, PeerLeaves(s) PROVE NoStalledConnection' /\ AbsentIsIdle'
  BY <1>4 DEF PeerLeaves, sessionVars, NoStalledConnection, AbsentIsIdle, TypeOK
<1>5. ASSUME NEW s \in Session, ReadError(s) PROVE NoStalledConnection' /\ AbsentIsIdle'
  <2>1. \A u \in UserID : clients'[u] = clients[u] \/ clients'[u] = NoSession
    BY <1>5, DropSelfClients
  <2> QED BY <1>5, <2>1, ServerAssumption
          DEF ReadError, NoStalledConnection, AbsentIsIdle, TypeOK
<1>6. ASSUME NEW s \in Session, WriteError(s) PROVE NoStalledConnection' /\ AbsentIsIdle'
  <2>1. \A u \in UserID : clients'[u] = clients[u] \/ clients'[u] = NoSession
    BY <1>6, DropSelfClients
  <2> QED BY <1>6, <2>1, ServerAssumption
          DEF WriteError, NoStalledConnection, AbsentIsIdle, TypeOK
<1>7. ASSUME NEW s \in Session, WriteHandler(s) PROVE NoStalledConnection' /\ AbsentIsIdle'
  BY <1>7 DEF WriteHandler, NoStalledConnection, AbsentIsIdle, TypeOK
<1>8. CASE UNCHANGED vars
  BY <1>1, <1>8 DEF vars, sessionVars, NoStalledConnection, AbsentIsIdle
<1> QED BY <1>1, <1>2, <1>3, <1>4, <1>5, <1>6, <1>7, <1>8 DEF Next

LEMMA ConnInvariant == Spec => []ConnInv
<1> QED BY ConnInit, ConnNext, PTL DEF Spec

(* Every reachable state is type correct, however many connections, users,
   groups and messages there are.                                           *)
THEOREM TypeCorrect == Spec => []TypeOK
<1>1. ConnInv => TypeOK
  BY DEF ConnInv
<1> QED BY <1>1, ConnInvariant, PTL

(* No open connection waits for a read or a write that nobody will start.    *)
THEOREM ConnectionsNeverStall == Spec => []NoStalledConnection
<1>1. ConnInv => NoStalledConnection
  BY DEF ConnInv
<1> QED BY <1>1, ConnInvariant, PTL

-----------------------------------------------------------------------------
(* What a request does to the registry and to the router, case by case. *)

LEMMA RequestRouting ==
    ASSUME TypeOK, NEW s \in Session, HandleRequest(s)
    PROVE  \/ /\ UNCHANGED <<writeQueue, writing>> \/ SendTo(s, <<Reply>>)
              /\ UNCHANGED <<offlineMessages, lastID, accepted, wire>>
           \/ \E u \in UserID : HandleAuthLogin(s, u) /\ ioThread' = "running"
           \/ \E R \in SUBSET UserID, m \in Message :
                /\ IsRouted(m) /\ m.id = lastID + 1
                /\ RouteMessage(R, m) \/ RouteFile(R, m)
                /\ Routing(s)
<1> DEFINE Quiet == /\ UNCHANGED <<writeQueue, writing>> \/ SendTo(s, <<Reply>>)
                    /\ UNCHANGED <<offlineMessages, lastID, accepted, wire>>
           Routes == \E R \in SUBSET UserID, m \in Message :
                       /\ IsRouted(m) /\ m.id = lastID + 1
                       /\ RouteMessage(R, m) \/ RouteFile(R, m)
                       /\ Routing(s)
<1>1. ASSUME Answer(s) PROVE Quiet
  BY <1>1 DEF Answer, routerVars
<1>2. ASSUME HandleAuthLogout(s) \/ HandleUnknown(s) PROVE Quiet
  BY <1>2 DEF HandleAuthLogout, HandleUnknown, routerVars
<1>3. ASSUME NEW u \in UserID, HandleAuthRegister(s, u) PROVE Quiet
  BY <1>3 DEF HandleAuthRegister, Authenticate
<1>4. ASSUME NEW u \in UserID, HandleAuthLogin(s, u), ioThread' # "running" PROVE Quiet
  BY <1>4 DEF HandleAuthLogin, Authenticate
<1>5. ASSUME NEW g \in GroupName, HandleGroupUpdate(s, g) PROVE Quiet
  BY <1>5 DEF HandleGroupUpdate, routerVars
<1>6. \A type \in {"MSG_PRIVATE", "MSG_GROUP", "FILE"}, g \in GroupName \cup {NoName} :
        /\ Routed(type, g) \in Message
        /\ IsRouted(Routed(type, g)) /\ Routed(type, g).id = lastID + 1
  BY RoutedIsMessage DEF Routed, IsRouted
<1>7. ASSUME NEW u \in UserID, HandlePrivateMessage(s, u) \/ HandleFilePrivate(s, u), ~Answer(s)
      PROVE  Routes
  <2>1. \E type \in {"MSG_PRIVATE", "FILE"} :
            /\ Routing(s)
            /\ RouteMessage({u}, Routed(type, NoName)) \/ RouteFile({u}, Routed(type, NoName))
    BY <1>7 DEF HandlePrivateMessage, HandleFilePrivate
  <2> QED BY <1>6, <2>1
<1>8. ASSUME NEW g \in GroupName, HandleGroupMessage(s, g) \/ HandleFileGroup(s, g), ~Answer(s)
      PROVE  Routes
  <2> DEFINE R == GM!getGroupMembers(g) \ {userID[s]}
  <2>1. R \in SUBSET UserID
    BY MembersType DEF TypeOK
  <2>2. \E type \in {"MSG_GROUP", "FILE"}, n \in GroupName \cup {NoName} :
            /\ Routing(s)
            /\ RouteMessage(R, Routed(type, n)) \/ RouteFile(R, Routed(type, n))
    BY <1>8 DEF HandleGroupMessage, HandleFileGroup
  <2> HIDE DEF R
  <2> QED BY <1>6, <2>1, <2>2
<1>9. HandleAnswered(s) => Answer(s)
  BY DEF HandleAnswered
<1> HIDE DEF Quiet, Routes
<1>10. Quiet \/ Routes \/ \E u \in UserID : HandleAuthLogin(s, u) /\ ioThread' = "running"
  BY <1>1, <1>2, <1>3, <1>4, <1>5, <1>7, <1>8, <1>9 DEF HandleRequest
<1> QED BY <1>10 DEF Quiet, Routes

LEMMA RequestRegistry ==
    ASSUME NEW s \in Session, HandleRequest(s)
    PROVE  /\ ioThread = "running"
           /\ \/ UNCHANGED <<clients, ioThread, registered, userID, authenticated, identities>>
              \/ HandleAuthLogout(s)
              \/ \E u \in UserID : HandleAuthRegister(s, u) \/ HandleAuthLogin(s, u)
BY DEF HandleRequest, Handling, Answer, Routing, HandleAuthLogout, HandleAnswered, HandleUnknown,
       HandleAuthRegister, HandleAuthLogin, HandlePrivateMessage, HandleFilePrivate,
       HandleGroupMessage, HandleFileGroup, HandleGroupUpdate

\* The steps that handle no request leave the router alone and list nobody.
LEMMA OtherSteps ==
    ASSUME TypeOK, [Next]_vars, ~\E s \in Session : HandleRequest(s)
    PROVE  /\ UNCHANGED <<registered, offlineMessages, lastID, accepted, userID, authenticated,
                          identities>>
           /\ \A u \in UserID : clients'[u] = clients[u] \/ clients'[u] = NoSession
           /\ ioThread' = "running" => ioThread = "running"
<1>1. ASSUME NEW s \in Session, ReadError(s) \/ WriteError(s)
      PROVE  /\ UNCHANGED <<registered, offlineMessages, lastID, accepted, userID, authenticated,
                            identities>>
             /\ ioThread = "running"
  BY <1>1 DEF ReadError, WriteError, routerVars
<1>2. ASSUME NEW s \in Session, AcceptConnection(s) \/ PeerLeaves(s) \/ WriteHandler(s)
      PROVE  UNCHANGED <<clients, registered, offlineMessages, lastID, accepted, userID,
                         authenticated, identities, ioThread>>
  BY <1>2 DEF AcceptConnection, PeerLeaves, WriteHandler, routerVars, sessionVars
<1>3. UNCHANGED vars => UNCHANGED <<clients, registered, offlineMessages, lastID, accepted,
                                    userID, authenticated, identities, ioThread>>
  BY DEF vars, routerVars, sessionVars
<1> QED BY <1>1, <1>2, <1>3, DropSelfClients DEF Next

-----------------------------------------------------------------------------
(* The registry. *)

RegistryInv == ListedIsRegistered /\ OfflineOnlyWhenAbsent /\ LoggedOutIsUnlisted

LEMMA RegistryNext == TypeOK /\ RegistryInv /\ [Next]_vars => RegistryInv'
<1> SUFFICES ASSUME TypeOK, RegistryInv, [Next]_vars PROVE RegistryInv'
  OBVIOUS
<1> USE DEF RegistryInv, ListedIsRegistered, OfflineOnlyWhenAbsent, LoggedOutIsUnlisted
<1>1. CASE ~\E s \in Session : HandleRequest(s)
  BY <1>1, OtherSteps, ServerAssumption DEF TypeOK
<1>2. ASSUME NEW s \in Session, HandleAuthLogout(s) PROVE RegistryInv'
  <2>1. UNCHANGED <<registered, offlineMessages, userID, identities>>
    BY <1>2 DEF HandleAuthLogout, routerVars
  <2>2. \A u \in UserID : clients'[u] = clients[u] \/ clients'[u] = NoSession
    BY <1>2 DEF HandleAuthLogout, SetClient, TypeOK
  <2>3. ioThread = "running"
    BY <1>2 DEF HandleAuthLogout, Handling
  <2>4. ListedIsRegistered' /\ OfflineOnlyWhenAbsent'
    BY <2>1, <2>2, <2>3
  <2>5. authenticated[s] => userID[s] \in UserID /\ clients'[userID[s]] = NoSession
    BY <1>2 DEF HandleAuthLogout, SetClient, TypeOK
  <2>6. \A x \in Session : x # s => authenticated'[x] = authenticated[x]
    BY <1>2 DEF HandleAuthLogout, TypeOK
  <2>7. ASSUME NEW x \in Session, userID[x] # NoUser, ~authenticated'[x]
        PROVE  clients'[userID[x]] # x
    <3>1. userID[x] \in UserID
      BY <2>7 DEF TypeOK
    <3>2. authenticated[x] => x = s
      BY <2>6, <2>7
    <3> QED BY <2>2, <2>5, <2>7, <3>1, <3>2, ServerAssumption
  <2> QED BY <2>1, <2>4, <2>7
<1>3. ASSUME NEW s \in Session, NEW u \in UserID, HandleAuthRegister(s, u) \/ HandleAuthLogin(s, u)
      PROVE  RegistryInv'
  <2>1. /\ userID' = [userID EXCEPT ![s] = u]
        /\ authenticated' = [authenticated EXCEPT ![s] = TRUE]
        /\ identities' = [identities EXCEPT ![s] = identities[s] \cup {u}]
        /\ clients' = [clients EXCEPT ![u] = s]
        /\ registered' = registered \cup {u}
    BY <1>3 DEF HandleAuthRegister, HandleAuthLogin, Authenticate, SetClient
  <2>2. ioThread = "running"
    BY <1>3 DEF HandleAuthRegister, HandleAuthLogin, Handling
  <2>3. ioThread' = "running" => offlineMessages' = [offlineMessages EXCEPT ![u] = <<>>]
    BY <1>3 DEF HandleAuthRegister, HandleAuthLogin, TypeOK
  <2>4. ListedIsRegistered'
    BY <2>1 DEF TypeOK
  <2>5. OfflineOnlyWhenAbsent'
    BY <2>1, <2>2, <2>3 DEF TypeOK
  <2>6. LoggedOutIsUnlisted'
    BY <2>1 DEF TypeOK
  <2> QED BY <2>4, <2>5, <2>6
<1>4. ASSUME NEW s \in Session, HandleRequest(s),
             UNCHANGED <<clients, ioThread, registered, userID, authenticated, identities>>
      PROVE  RegistryInv'
  <2>1. ListedIsRegistered' /\ LoggedOutIsUnlisted'
    BY <1>4
  <2>2. OfflineOnlyWhenAbsent'
    <3>1. CASE UNCHANGED offlineMessages
      BY <1>4, <3>1
    <3>2. ASSUME NEW u \in UserID, HandleAuthLogin(s, u), ioThread' = "running"
          PROVE  OfflineOnlyWhenAbsent'
      BY <1>3, <3>2
    <3>3. ASSUME NEW R \in SUBSET UserID, NEW m, RouteMessage(R, m)
          PROVE  OfflineOnlyWhenAbsent'
      BY <1>4, <3>3 DEF RouteMessage, Store, Online, TypeOK
    <3>4. ASSUME NEW R \in SUBSET UserID, NEW m, RouteFile(R, m)
          PROVE  UNCHANGED offlineMessages
      BY <3>4 DEF RouteFile
    <3> QED BY <1>4, <3>1, <3>2, <3>3, <3>4, RequestRouting
  <2> QED BY <2>1, <2>2
<1> QED BY <1>1, <1>2, <1>3, <1>4, RequestRegistry

LEMMA RegistryInvariant == Spec => []RegistryInv
<1>1. Init => RegistryInv
  BY DEF Init, RegistryInv, ListedIsRegistered, OfflineOnlyWhenAbsent, LoggedOutIsUnlisted
<1> QED BY <1>1, TypeCorrect, RegistryNext, PTL DEF Spec

(* Whom the registry lists is registered and did authenticate on the session he
   or she is listed under.                                                     *)
THEOREM ListedAreRegistered == Spec => []ListedIsRegistered
<1>1. RegistryInv => ListedIsRegistered
  BY DEF RegistryInv
<1> QED BY <1>1, RegistryInvariant, PTL

(* Messages wait in the offline store for users who are not listed only.        *)
THEOREM OfflineOnlyForAbsent == Spec => []OfflineOnlyWhenAbsent
<1>1. RegistryInv => OfflineOnlyWhenAbsent
  BY DEF RegistryInv
<1> QED BY <1>1, RegistryInvariant, PTL

(* A session that has logged out is not listed under its user any more.          *)
THEOREM LoggedOutAreUnlisted == Spec => []LoggedOutIsUnlisted
<1>1. RegistryInv => LoggedOutIsUnlisted
  BY DEF RegistryInv
<1> QED BY <1>1, RegistryInvariant, PTL

-----------------------------------------------------------------------------
(* Order.  Sequences of messages, their ids and their addressees.           *)

\* Every id is one the router has given out.
Bounded(q, n) == \A i \in 1..Len(q) : q[i].id <= n

LEMMA OrderedConcat ==
    ASSUME NEW p \in Seq(Message), NEW q \in Seq(Message), Ordered(p), Ordered(q), Before(p, q)
    PROVE  Ordered(p \o q)
<1>1. /\ Len(p \o q) = Len(p) + Len(q)
      /\ \A i \in 1..Len(p) + Len(q) : (p \o q)[i] = IF i <= Len(p) THEN p[i] ELSE q[i - Len(p)]
      /\ Len(p) \in Nat /\ Len(q) \in Nat
  BY ConcatProperties, LenProperties
<1> SUFFICES ASSUME NEW i \in 1..Len(p) + Len(q), NEW j \in 1..Len(p) + Len(q), i < j
             PROVE  Precedes((p \o q)[i], (p \o q)[j])
  BY <1>1 DEF Ordered
<1>2. CASE j <= Len(p)
  BY <1>1, <1>2 DEF Ordered
<1>3. CASE i <= Len(p) /\ Len(p) < j
  <2>1. j - Len(p) \in 1..Len(q) /\ i \in 1..Len(p)
    BY <1>1, <1>3
  <2> QED BY <1>1, <1>3, <2>1 DEF Before
<1>4. CASE Len(p) < i
  <2>1. i - Len(p) \in 1..Len(q) /\ j - Len(p) \in 1..Len(q) /\ i - Len(p) < j - Len(p)
    BY <1>1, <1>4
  <2> QED BY <1>1, <1>4, <2>1 DEF Ordered
<1> QED BY <1>1, <1>2, <1>3, <1>4

LEMMA BeforeConcat ==
    ASSUME NEW p \in Seq(Message), NEW q \in Seq(Message), NEW r \in Seq(Message)
    PROVE  /\ Before(p, q) /\ Before(p, r) => Before(p, q \o r)
           /\ Before(p, r) /\ Before(q, r) => Before(p \o q, r)
<1>1. Len(p) \in Nat /\ Len(q) \in Nat /\ Len(r) \in Nat
  BY LenProperties
<1>2. ASSUME Before(p, q), Before(p, r) PROVE Before(p, q \o r)
  <2>1. /\ Len(q \o r) = Len(q) + Len(r)
        /\ \A j \in 1..Len(q) + Len(r) : (q \o r)[j] = IF j <= Len(q) THEN q[j] ELSE r[j - Len(q)]
    BY ConcatProperties
  <2> SUFFICES ASSUME NEW i \in 1..Len(p), NEW j \in 1..Len(q) + Len(r)
               PROVE  Precedes(p[i], (q \o r)[j])
    BY <2>1 DEF Before
  <2>2. \/ j \in 1..Len(q) /\ (q \o r)[j] = q[j]
        \/ j - Len(q) \in 1..Len(r) /\ (q \o r)[j] = r[j - Len(q)]
    BY <1>1, <2>1
  <2> QED BY <1>2, <2>2 DEF Before
<1>3. ASSUME Before(p, r), Before(q, r) PROVE Before(p \o q, r)
  <2>1. /\ Len(p \o q) = Len(p) + Len(q)
        /\ \A i \in 1..Len(p) + Len(q) : (p \o q)[i] = IF i <= Len(p) THEN p[i] ELSE q[i - Len(p)]
    BY ConcatProperties
  <2> SUFFICES ASSUME NEW i \in 1..Len(p) + Len(q), NEW j \in 1..Len(r)
               PROVE  Precedes((p \o q)[i], r[j])
    BY <2>1 DEF Before
  <2>2. \/ i \in 1..Len(p) /\ (p \o q)[i] = p[i]
        \/ i - Len(p) \in 1..Len(q) /\ (p \o q)[i] = q[i - Len(p)]
    BY <1>1, <2>1
  <2> QED BY <1>3, <2>2 DEF Before
<1> QED BY <1>2, <1>3

LEMMA AddressedConcat ==
    ASSUME NEW p \in Seq(Message), NEW q \in Seq(Message), NEW U,
           AddressedTo(p, U), AddressedTo(q, U)
    PROVE  AddressedTo(p \o q, U)
<1>1. /\ Len(p \o q) = Len(p) + Len(q) /\ Len(p) \in Nat /\ Len(q) \in Nat
      /\ \A i \in 1..Len(p) + Len(q) : \/ i \in 1..Len(p) /\ (p \o q)[i] = p[i]
                                       \/ i - Len(p) \in 1..Len(q) /\ (p \o q)[i] = q[i - Len(p)]
  BY ConcatProperties, LenProperties
<1> QED BY <1>1 DEF AddressedTo

LEMMA BoundedConcat ==
    ASSUME NEW p \in Seq(Message), NEW q \in Seq(Message), NEW n, Bounded(p, n), Bounded(q, n)
    PROVE  Bounded(p \o q, n)
<1>1. /\ Len(p \o q) = Len(p) + Len(q) /\ Len(p) \in Nat /\ Len(q) \in Nat
      /\ \A i \in 1..Len(p) + Len(q) : \/ i \in 1..Len(p) /\ (p \o q)[i] = p[i]
                                       \/ i - Len(p) \in 1..Len(q) /\ (p \o q)[i] = q[i - Len(p)]
  BY ConcatProperties, LenProperties
<1> QED BY <1>1 DEF Bounded

\* A sequence of one message, and one of replies and fresh messages.
LEMMA Singleton ==
    ASSUME NEW m \in Message
    PROVE  /\ <<m>> \in Seq(Message) /\ Ordered(<<m>>)
           /\ \A U : (IsRouted(m) => m.to \in U) => AddressedTo(<<m>>, U)
           /\ \A n : m.id <= n => Bounded(<<m>>, n)
<1>1. Len(<<m>>) = 1 /\ <<m>>[1] = m /\ <<m>> \in Seq(Message)
  OBVIOUS
<1> HIDE DEF Message
<1> QED BY <1>1 DEF Ordered, AddressedTo, Bounded

LEMMA ReplyIsNeutral ==
    /\ <<Reply>> \in Seq(Message) /\ Ordered(<<Reply>>)
    /\ \A U : AddressedTo(<<Reply>>, U)
    /\ \A n \in Nat : Bounded(<<Reply>>, n)
    /\ \A p : Before(p, <<Reply>>) /\ Before(<<Reply>>, p)
<1>1. Len(<<Reply>>) = 1 /\ <<Reply>>[1] = Reply /\ ~IsRouted(Reply) /\ Reply.id = 0
  BY DEF Reply, IsRouted
<1> QED BY <1>1, ReplyIsMessage, Singleton DEF Before, Precedes, Ordered, AddressedTo, Bounded

\* Messages with an id above those of p come after p.
LEMMA FreshBefore ==
    ASSUME NEW p \in Seq(Message), NEW q \in Seq(Message), NEW n \in Nat, Bounded(p, n),
           \A j \in 1..Len(q) : q[j].id = n + 1
    PROVE  Before(p, q)
<1>1. \A i \in 1..Len(p) : p[i].id \in Nat
  <2>1. \A i \in 1..Len(p) : p[i] \in Message
    BY ElementOfSeq
  <2> QED BY <2>1 DEF Message
<1> QED BY <1>1 DEF Before, Precedes, Bounded

LEMMA BoundedWeaken ==
    ASSUME NEW p \in Seq(Message), NEW n \in Nat, Bounded(p, n)
    PROVE  Bounded(p, n + 1)
<1>1. \A i \in 1..Len(p) : p[i].id \in Nat
  <2>1. \A i \in 1..Len(p) : p[i] \in Message
    BY ElementOfSeq
  <2> QED BY <2>1 DEF Message
<1> QED BY <1>1 DEF Bounded

-----------------------------------------------------------------------------
(* The inductive invariant behind first-in-first-out delivery: what waits in the
   offline store was routed after all that its addressee has been sent on any
   connection, and no id is ahead of the router's count.                      *)

StoreInv ==
    /\ \A u \in UserID : /\ Ordered(offlineMessages[u])
                         /\ AddressedTo(offlineMessages[u], {u})
                         /\ Bounded(offlineMessages[u], lastID)
    /\ \A s \in Session, u \in UserID :
          Before(wire[s], offlineMessages[u]) /\ Before(writeQueue[s], offlineMessages[u])

CountInv == \A s \in Session : Bounded(wire[s], lastID) /\ Bounded(writeQueue[s], lastID)

OrderInv == FifoPerConnection /\ OnlyToItsAddressee /\ StoreInv /\ CountInv

\* Sending `out' keeps the order if out continues it on every connection.
LEMMA SendOrder ==
    ASSUME TypeOK, OrderInv, NEW out \in [Session -> Seq(Message)], Send(out),
           UNCHANGED wire,
           \A u \in UserID : /\ offlineMessages'[u] \in Seq(Message)
                             /\ Ordered(offlineMessages'[u])
                             /\ AddressedTo(offlineMessages'[u], {u})
                             /\ Bounded(offlineMessages'[u], lastID'),
           \A x \in Session, u \in UserID : /\ Before(wire[x], offlineMessages'[u])
                                            /\ Before(writeQueue[x], offlineMessages'[u])
                                            /\ Before(out[x], offlineMessages'[u]),
           \A x \in Session : identities[x] \subseteq identities'[x],
           \A x \in Session : Bounded(wire[x], lastID') /\ Bounded(writeQueue[x], lastID'),
           \A x \in Session : /\ Ordered(out[x])
                              /\ Before(wire[x], out[x]) /\ Before(writeQueue[x], out[x])
                              /\ AddressedTo(out[x], identities'[x])
                              /\ Bounded(out[x], lastID')
    PROVE  OrderInv'
<1>1. ASSUME NEW x \in Session
      PROVE  /\ writeQueue'[x] = writeQueue[x] \o out[x]
             /\ wire'[x] = wire[x]
             /\ writeQueue[x] \in Seq(Message) /\ wire[x] \in Seq(Message) /\ out[x] \in Seq(Message)
  BY DEF Send, TypeOK
<1>2. ASSUME NEW x \in Session
      PROVE  Ordered(wire'[x]) /\ Ordered(writeQueue'[x]) /\ Before(wire'[x], writeQueue'[x])
  <2>1. Ordered(wire[x]) /\ Ordered(writeQueue[x]) /\ Before(wire[x], writeQueue[x])
    BY DEF OrderInv, FifoPerConnection
  <2>2. Ordered(out[x]) /\ Before(wire[x], out[x]) /\ Before(writeQueue[x], out[x])
    OBVIOUS
  <2>3. Ordered(writeQueue[x] \o out[x])
    BY <1>1, <2>1, <2>2, OrderedConcat
  <2>4. Before(wire[x], writeQueue[x] \o out[x])
    BY <1>1, <2>1, <2>2, BeforeConcat
  <2> QED BY <1>1, <2>1, <2>3, <2>4
<1>3. ASSUME NEW x \in Session
      PROVE  AddressedTo(wire'[x], identities'[x]) /\ AddressedTo(writeQueue'[x], identities'[x])
  <2>1. AddressedTo(wire[x], identities[x]) /\ AddressedTo(writeQueue[x], identities[x])
    BY DEF OrderInv, OnlyToItsAddressee
  <2>2. AddressedTo(wire[x], identities'[x]) /\ AddressedTo(writeQueue[x], identities'[x])
    BY <2>1 DEF AddressedTo
  <2> QED BY <1>1, <2>2, AddressedConcat, ZenonT(60)
<1>4. ASSUME NEW x \in Session
      PROVE  Bounded(wire'[x], lastID') /\ Bounded(writeQueue'[x], lastID')
  BY <1>1, BoundedConcat
<1>5. FifoPerConnection' /\ OnlyToItsAddressee' /\ CountInv'
  BY <1>2, <1>3, <1>4 DEF FifoPerConnection, OnlyToItsAddressee, CountInv
<1>6. ASSUME NEW x \in Session, NEW u \in UserID
      PROVE  /\ Before(wire'[x], offlineMessages'[u])
             /\ Before(writeQueue'[x], offlineMessages'[u])
  <2> DEFINE off == offlineMessages'[u]
  <2>1. off \in Seq(Message) /\ Before(wire[x], off)
    OBVIOUS
  <2>2. Before(writeQueue[x], off) /\ Before(out[x], off)
    OBVIOUS
  <2> HIDE DEF off
  <2>3. Before(writeQueue[x] \o out[x], off)
    BY <1>1, <2>1, <2>2, BeforeConcat
  <2>4. Before(wire'[x], off) /\ Before(writeQueue'[x], off)
    BY <1>1, <2>1, <2>3
  <2> QED BY <2>4 DEF off
<1>7. StoreInv'
  BY <1>6 DEF StoreInv
<1> QED BY <1>5, <1>7 DEF OrderInv

\* A step that queues a reply at most, and routes nothing.
LEMMA QuietOrder ==
    ASSUME TypeOK, OrderInv, NEW s \in Session,
           UNCHANGED <<writeQueue, writing>> \/ SendTo(s, <<Reply>>),
           UNCHANGED <<offlineMessages, lastID, wire>>,
           \A x \in Session : identities[x] \subseteq identities'[x]
    PROVE  OrderInv'
<1>1. CASE UNCHANGED <<writeQueue, writing>>
  <2>1. FifoPerConnection' /\ StoreInv' /\ CountInv'
    BY <1>1 DEF OrderInv, FifoPerConnection, StoreInv, CountInv
  <2>2. OnlyToItsAddressee'
    BY <1>1 DEF OrderInv, OnlyToItsAddressee, AddressedTo
  <2> QED BY <2>1, <2>2 DEF OrderInv
<1>2. CASE SendTo(s, <<Reply>>)
  <2> DEFINE out == [x \in Session |-> IF x = s THEN <<Reply>> ELSE <<>>]
  <2>1. out \in [Session -> Seq(Message)] /\ Send(out)
    BY <1>2, ReplyIsNeutral, EmptySeq DEF SendTo
  <2>2. /\ <<>> \in Seq(Message) /\ Ordered(<<>>)
        /\ \A U : AddressedTo(<<>>, U)
        /\ \A n \in Nat : Bounded(<<>>, n)
        /\ \A p : Before(p, <<>>) /\ Before(<<>>, p)
    BY EmptySeq DEF Before, Ordered, AddressedTo, Bounded
  <2>3. ASSUME NEW x \in Session
        PROVE  /\ Ordered(out[x])
               /\ \A U : AddressedTo(out[x], U)
               /\ \A n \in Nat : Bounded(out[x], n)
               /\ \A p : Before(p, out[x]) /\ Before(out[x], p)
    BY <2>2, ReplyIsNeutral
  <2>4. lastID \in Nat /\ \A u \in UserID : offlineMessages[u] \in Seq(Message)
    BY DEF TypeOK
  <2> HIDE DEF out
  <2> QED BY <2>1, <2>3, <2>4, SendOrder DEF OrderInv, StoreInv, CountInv
<1> QED BY <1>1, <1>2

\* A login flushes the user's stored messages to the session.
LEMMA LoginOrder ==
    ASSUME TypeOK, OrderInv, NEW s \in Session, NEW u \in UserID,
           HandleAuthLogin(s, u), ioThread' = "running"
    PROVE  OrderInv'
<1> DEFINE flush == <<Reply>> \o offlineMessages[u]
           out == [x \in Session |-> IF x = s THEN flush ELSE <<>>]
<1>1. offlineMessages[u] \in Seq(Message) /\ <<Reply>> \in Seq(Message) /\ lastID \in Nat
  BY ReplyIsNeutral DEF TypeOK
<1>2. flush \in Seq(Message)
  BY <1>1, ConcatProperties
<1>3. out \in [Session -> Seq(Message)] /\ Send(out)
  BY <1>2, EmptySeq DEF HandleAuthLogin, SendTo
<1>4. /\ UNCHANGED <<wire, lastID>>
      /\ offlineMessages' = [offlineMessages EXCEPT ![u] = <<>>]
      /\ identities' = [identities EXCEPT ![s] = identities[s] \cup {u}]
  BY DEF HandleAuthLogin, Authenticate
<1>5. /\ <<>> \in Seq(Message) /\ Ordered(<<>>)
      /\ \A U : AddressedTo(<<>>, U)
      /\ \A n \in Nat : Bounded(<<>>, n)
      /\ \A p : Before(p, <<>>) /\ Before(<<>>, p)
  BY EmptySeq DEF Before, Ordered, AddressedTo, Bounded
<1>6. /\ Ordered(offlineMessages[u]) /\ AddressedTo(offlineMessages[u], {u})
      /\ Bounded(offlineMessages[u], lastID)
  BY DEF OrderInv, StoreInv
<1>7. Ordered(flush)
  BY <1>1, <1>6, ReplyIsNeutral, OrderedConcat
<1>8. AddressedTo(flush, {u})
  BY <1>1, <1>6, ReplyIsNeutral, AddressedConcat
<1>9. Bounded(flush, lastID)
  BY <1>1, <1>6, ReplyIsNeutral, BoundedConcat
<1>10. ASSUME NEW x \in Session
       PROVE  Before(wire[x], flush) /\ Before(writeQueue[x], flush)
  <2>1. Before(wire[x], offlineMessages[u]) /\ Before(writeQueue[x], offlineMessages[u])
    BY DEF OrderInv, StoreInv
  <2>2. wire[x] \in Seq(Message) /\ writeQueue[x] \in Seq(Message)
    BY DEF TypeOK
  <2> QED BY <1>1, <2>1, <2>2, ReplyIsNeutral, BeforeConcat
<1>11. ASSUME NEW v \in UserID
       PROVE  Before(flush, offlineMessages'[v])
  <2>1. CASE v = u
    BY <1>4, <1>5, <2>1 DEF TypeOK
  <2>2. CASE v # u
    <3>1. offlineMessages'[v] = offlineMessages[v]
      BY <1>4, <2>2 DEF TypeOK
    <3>2. AddressedTo(offlineMessages[v], {v})
      BY DEF OrderInv, StoreInv
    <3> HIDE DEF flush
    <3> QED BY <1>8, <2>2, <3>1, <3>2 DEF AddressedTo, Before, Precedes
  <2> QED BY <2>1, <2>2
<1> HIDE DEF flush
<1>12. ASSUME NEW x \in Session
       PROVE  /\ Ordered(out[x])
              /\ Before(wire[x], out[x]) /\ Before(writeQueue[x], out[x])
              /\ AddressedTo(out[x], identities'[x])
              /\ Bounded(out[x], lastID)
  <2>1. CASE x = s
    <3>1. out[x] = flush /\ u \in identities'[x]
      BY <1>4, <2>1 DEF TypeOK
    <3>2. AddressedTo(flush, identities'[x])
      BY <1>8, <3>1 DEF AddressedTo
    <3> QED BY <1>7, <1>9, <1>10, <3>1, <3>2
  <2>2. CASE x # s
    BY <1>1, <1>5, <2>2
  <2> QED BY <2>1, <2>2
<1>13. ASSUME NEW x \in Session, NEW v \in UserID
       PROVE  /\ Before(wire[x], offlineMessages'[v])
              /\ Before(writeQueue[x], offlineMessages'[v])
              /\ Before(out[x], offlineMessages'[v])
  <2>1. Before(wire[x], offlineMessages[v]) /\ Before(writeQueue[x], offlineMessages[v])
    BY DEF OrderInv, StoreInv
  <2>2. offlineMessages'[v] = offlineMessages[v] \/ offlineMessages'[v] = <<>>
    BY <1>4 DEF TypeOK
  <2>3. out[x] = flush \/ out[x] = <<>>
    OBVIOUS
  <2> QED BY <1>5, <1>11, <2>1, <2>2, <2>3
<1>14. ASSUME NEW v \in UserID
       PROVE  /\ offlineMessages'[v] \in Seq(Message) /\ Ordered(offlineMessages'[v])
              /\ AddressedTo(offlineMessages'[v], {v}) /\ Bounded(offlineMessages'[v], lastID)
  <2>1. /\ offlineMessages[v] \in Seq(Message) /\ Ordered(offlineMessages[v])
        /\ AddressedTo(offlineMessages[v], {v}) /\ Bounded(offlineMessages[v], lastID)
    BY DEF OrderInv, StoreInv, TypeOK
  <2>2. offlineMessages'[v] = offlineMessages[v] \/ offlineMessages'[v] = <<>>
    BY <1>4 DEF TypeOK
  <2> QED BY <1>1, <1>5, <2>1, <2>2
<1>15. ASSUME NEW x \in Session
       PROVE  /\ identities[x] \subseteq identities'[x]
              /\ Bounded(wire[x], lastID') /\ Bounded(writeQueue[x], lastID')
  BY <1>4 DEF OrderInv, CountInv, TypeOK
<1> HIDE DEF out
<1> QED BY <1>3, <1>4, <1>12, <1>13, <1>14, <1>15, SendOrder

\* What a routing handler puts into the offline store comes after all the rest.
LEMMA StoreOrder ==
    ASSUME TypeOK, OrderInv, NEW R \in SUBSET UserID, NEW m \in Message,
           m.id = lastID + 1, lastID' = m.id, Store(R, m) \/ UNCHANGED offlineMessages
    PROVE  /\ \A v \in UserID : /\ offlineMessages'[v] \in Seq(Message)
                                /\ Ordered(offlineMessages'[v])
                                /\ AddressedTo(offlineMessages'[v], {v})
                                /\ Bounded(offlineMessages'[v], lastID')
           /\ \A x \in Session, v \in UserID : /\ Before(wire[x], offlineMessages'[v])
                                               /\ Before(writeQueue[x], offlineMessages'[v])
<1>1. lastID \in Nat
  BY DEF TypeOK
<1>2. ASSUME NEW v \in UserID
      PROVE  /\ offlineMessages[v] \in Seq(Message) /\ Ordered(offlineMessages[v])
             /\ AddressedTo(offlineMessages[v], {v})
             /\ Bounded(offlineMessages[v], lastID) /\ Bounded(offlineMessages[v], lastID + 1)
             /\ \A x \in Session : /\ Before(wire[x], offlineMessages[v])
                                   /\ Before(writeQueue[x], offlineMessages[v])
  <2>1. /\ offlineMessages[v] \in Seq(Message) /\ Ordered(offlineMessages[v])
        /\ AddressedTo(offlineMessages[v], {v}) /\ Bounded(offlineMessages[v], lastID)
        /\ \A x \in Session : /\ Before(wire[x], offlineMessages[v])
                              /\ Before(writeQueue[x], offlineMessages[v])
    BY DEF TypeOK, OrderInv, StoreInv
  <2> QED BY <1>1, <2>1, BoundedWeaken
<1>3. ASSUME NEW v \in UserID, offlineMessages'[v] # offlineMessages[v]
      PROVE  /\ offlineMessages'[v] \in Seq(Message) /\ Ordered(offlineMessages'[v])
             /\ AddressedTo(offlineMessages'[v], {v}) /\ Bounded(offlineMessages'[v], lastID + 1)
             /\ \A x \in Session : /\ Before(wire[x], offlineMessages'[v])
                                   /\ Before(writeQueue[x], offlineMessages'[v])
  <2> DEFINE r == [m EXCEPT !.to = v, !.group = NoName]
  <2>1. r \in Message /\ r.to = v /\ r.id = lastID + 1
    BY DEF Message
  <2>2. offlineMessages'[v] = Append(offlineMessages[v], r)
    BY <1>3 DEF Store
  <2> HIDE DEF r
  <2>3. offlineMessages'[v] = offlineMessages[v] \o <<r>>
    BY <1>2, <2>1, <2>2, AppendIsConcat
  <2>4. /\ <<r>> \in Seq(Message) /\ Ordered(<<r>>) /\ AddressedTo(<<r>>, {v})
        /\ Bounded(<<r>>, lastID + 1)
    BY <1>1, <2>1, Singleton
  <2>5. Len(<<r>>) = 1 /\ \A j \in 1..Len(<<r>>) : <<r>>[j].id = lastID + 1
    BY <2>1
  <2>6. Before(offlineMessages[v], <<r>>)
    BY <1>1, <1>2, <2>4, <2>5, FreshBefore
  <2>7. ASSUME NEW x \in Session
        PROVE  Before(wire[x], <<r>>) /\ Before(writeQueue[x], <<r>>)
    <3>1. /\ wire[x] \in Seq(Message) /\ Bounded(wire[x], lastID)
          /\ writeQueue[x] \in Seq(Message) /\ Bounded(writeQueue[x], lastID)
      BY DEF TypeOK, OrderInv, CountInv
    <3> QED BY <1>1, <2>4, <2>5, <3>1, FreshBefore
  <2>8. offlineMessages'[v] \in Seq(Message) /\ Ordered(offlineMessages'[v])
    BY <1>2, <2>3, <2>4, <2>6, OrderedConcat, ConcatProperties
  <2>9. AddressedTo(offlineMessages'[v], {v})
    BY <1>2, <2>3, <2>4, AddressedConcat, ZenonT(60)
  <2>10. Bounded(offlineMessages'[v], lastID + 1)
    BY <1>2, <2>3, <2>4, BoundedConcat
  <2>11. ASSUME NEW x \in Session
         PROVE  Before(wire[x], offlineMessages'[v]) /\ Before(writeQueue[x], offlineMessages'[v])
    <3>1. wire[x] \in Seq(Message) /\ writeQueue[x] \in Seq(Message)
      BY DEF TypeOK
    <3>2. Before(wire[x], offlineMessages[v]) /\ Before(writeQueue[x], offlineMessages[v])
      BY <1>2
    <3>3. offlineMessages[v] \in Seq(Message) /\ <<r>> \in Seq(Message)
      BY <1>2, <2>4
    <3>4. Before(wire[x], <<r>>) /\ Before(writeQueue[x], <<r>>)
      BY <2>7
    <3>5. Before(wire[x], offlineMessages[v] \o <<r>>)
      BY <3>1, <3>2, <3>3, <3>4, BeforeConcat
    <3>6. Before(writeQueue[x], offlineMessages[v] \o <<r>>)
      BY <3>1, <3>2, <3>3, <3>4, BeforeConcat
    <3> QED BY <2>3, <3>5, <3>6
  <2> QED BY <2>8, <2>9, <2>10, <2>11
<1>4. ASSUME NEW v \in UserID
      PROVE  /\ offlineMessages'[v] \in Seq(Message) /\ Ordered(offlineMessages'[v])
             /\ AddressedTo(offlineMessages'[v], {v}) /\ Bounded(offlineMessages'[v], lastID')
             /\ \A x \in Session : /\ Before(wire[x], offlineMessages'[v])
                                   /\ Before(writeQueue[x], offlineMessages'[v])
  BY <1>2, <1>3
<1> QED BY <1>4

\* A message routed to R: the copies for the users listed under a session go to
\* it, those for absent users into the offline store, which was empty for all of
\* the former.
LEMMA RouteOrder ==
    ASSUME TypeOK, RegistryInv, OrderInv, ioThread = "running",
           NEW R \in SUBSET UserID, NEW m \in Message, IsRouted(m), m.id = lastID + 1,
           RouteMessage(R, m) \/ RouteFile(R, m), UNCHANGED <<wire, identities>>
    PROVE  OrderInv'
<1> DEFINE At(x) == {u \in R : clients[u] = x}
           out == [x \in Session |-> Copies(At(x), m)]
<1>1. Send(out) /\ lastID' = m.id /\ lastID \in Nat
  BY DEF RouteMessage, RouteFile, Forward, Accept, TypeOK
<1>2. Store(R \ Online(R), m) \/ UNCHANGED offlineMessages
  BY DEF RouteMessage, RouteFile
<1>3. R \ Online(R) \in SUBSET UserID
  OBVIOUS
<1>4. /\ \A v \in UserID : /\ offlineMessages'[v] \in Seq(Message)
                           /\ Ordered(offlineMessages'[v])
                           /\ AddressedTo(offlineMessages'[v], {v})
                           /\ Bounded(offlineMessages'[v], lastID')
      /\ \A x \in Session, v \in UserID : /\ Before(wire[x], offlineMessages'[v])
                                          /\ Before(writeQueue[x], offlineMessages'[v])
  BY <1>1, <1>2, <1>3, StoreOrder
<1>5. ASSUME NEW x \in Session
      PROVE  /\ out[x] \in Seq(Message)
             /\ \A i \in 1..Len(out[x]) : out[x][i].to \in At(x) /\ out[x][i].id = lastID + 1
             /\ \A i, j \in 1..Len(out[x]) : i # j => out[x][i].to # out[x][j].to
  <2>1. At(x) \in SUBSET UserID /\ out[x] = Copies(At(x), m)
    OBVIOUS
  <2> HIDE DEF At, out
  <2> QED BY <2>1, CopiesType
<1>6. ASSUME NEW u \in UserID, NEW x \in Session, clients[u] = x
      PROVE  u \in identities[x] /\ offlineMessages'[u] = <<>>
  <2>1. clients[u] # NoSession
    BY <1>6, ServerAssumption
  <2>2. u \in identities[x] /\ offlineMessages[u] = <<>>
    BY <1>6, <2>1 DEF RegistryInv, ListedIsRegistered, OfflineOnlyWhenAbsent
  <2>3. u \notin R \ Online(R)
    BY <2>1 DEF Online
  <2> QED BY <1>2, <2>2, <2>3 DEF Store
<1>7. ASSUME NEW x \in Session
      PROVE  Before(wire[x], out[x]) /\ Before(writeQueue[x], out[x])
  <2>1. /\ wire[x] \in Seq(Message) /\ Bounded(wire[x], lastID)
        /\ writeQueue[x] \in Seq(Message) /\ Bounded(writeQueue[x], lastID)
    BY DEF TypeOK, OrderInv, CountInv
  <2> HIDE DEF out, At
  <2> QED BY <1>1, <1>5, <2>1, FreshBefore
<1>8. ASSUME NEW x \in Session
      PROVE  Ordered(out[x]) /\ Bounded(out[x], lastID')
  <2> HIDE DEF out, At
  <2> QED BY <1>1, <1>5 DEF Ordered, Precedes, Bounded
<1>9. ASSUME NEW x \in Session
      PROVE  AddressedTo(out[x], identities'[x])
  BY <1>5, <1>6 DEF AddressedTo
<1>10. ASSUME NEW x \in Session, NEW v \in UserID
       PROVE  Before(out[x], offlineMessages'[v])
  <2>1. CASE clients[v] = x
    BY <1>6, <2>1 DEF Before
  <2>2. CASE clients[v] # x
    <3>1. \A i \in 1..Len(out[x]) : out[x][i].to # v
      BY <1>5, <2>2
    <3>2. AddressedTo(offlineMessages'[v], {v})
      BY <1>4
    <3> HIDE DEF out
    <3> QED BY <3>1, <3>2 DEF AddressedTo, Before, Precedes
  <2> QED BY <2>1, <2>2
<1>11. ASSUME NEW x \in Session
       PROVE  Bounded(wire[x], lastID') /\ Bounded(writeQueue[x], lastID')
  <2>1. /\ wire[x] \in Seq(Message) /\ Bounded(wire[x], lastID)
        /\ writeQueue[x] \in Seq(Message) /\ Bounded(writeQueue[x], lastID)
    BY DEF TypeOK, OrderInv, CountInv
  <2> QED BY <1>1, <2>1, BoundedWeaken
<1>12. out \in [Session -> Seq(Message)]
  BY <1>5
<1> HIDE DEF out
<1> QED BY <1>1, <1>4, <1>7, <1>8, <1>9, <1>10, <1>11, <1>12, SendOrder

\* The front of a queue goes to the end of what has been sent, and the rest stays.
LEMMA WriteOrder ==
    ASSUME TypeOK, NoStalledConnection, OrderInv, NEW s \in Session, WriteHandler(s)
    PROVE  OrderInv'
<1> DEFINE m == Head(writeQueue[s])
           rest == Tail(writeQueue[s])
<1>1. /\ writeQueue[s] \in Seq(Message) /\ writeQueue[s] # <<>> /\ wire[s] \in Seq(Message)
      /\ lastID \in Nat
  BY DEF WriteHandler, NoStalledConnection, TypeOK
<1>2. m \in Message /\ rest \in Seq(Message) /\ writeQueue[s] = <<m>> \o rest
  BY <1>1, HeadTailProperties
<1>3. /\ Len(writeQueue[s]) \in Nat /\ Len(writeQueue[s]) >= 1 /\ m = writeQueue[s][1]
      /\ Len(rest) = Len(writeQueue[s]) - 1
      /\ \A i \in 1..Len(rest) : rest[i] = writeQueue[s][i + 1]
  BY <1>1
<1>4. /\ writeQueue' = [writeQueue EXCEPT ![s] = rest]
      /\ wire' = [wire EXCEPT ![s] = IF IsRouted(m) THEN Append(wire[s], m) ELSE wire[s]]
      /\ UNCHANGED <<offlineMessages, lastID, identities>>
  BY DEF WriteHandler, routerVars
<1> HIDE DEF m, rest
<1>5. /\ Ordered(writeQueue[s]) /\ Ordered(wire[s]) /\ Before(wire[s], writeQueue[s])
      /\ AddressedTo(writeQueue[s], identities[s]) /\ AddressedTo(wire[s], identities[s])
      /\ Bounded(writeQueue[s], lastID) /\ Bounded(wire[s], lastID)
  BY DEF OrderInv, FifoPerConnection, OnlyToItsAddressee, CountInv
<1>6. /\ Ordered(rest) /\ Before(wire[s], rest) /\ AddressedTo(rest, identities[s])
      /\ Bounded(rest, lastID)
  <2>1. \A i \in 1..Len(rest) : i + 1 \in 1..Len(writeQueue[s])
    BY <1>3
  <2>2. \A i, j \in 1..Len(rest) : i < j => i + 1 < j + 1
    OBVIOUS
  <2>3. Ordered(rest)
    BY <1>3, <1>5, <2>1, <2>2 DEF Ordered
  <2>4. Before(wire[s], rest)
    BY <1>3, <1>5, <2>1 DEF Before
  <2>5. AddressedTo(rest, identities[s]) /\ Bounded(rest, lastID)
    BY <1>3, <1>5, <2>1 DEF AddressedTo, Bounded
  <2> QED BY <2>3, <2>4, <2>5
<1>7. /\ <<m>> \in Seq(Message) /\ Len(<<m>>) = 1 /\ <<m>>[1] = m /\ Ordered(<<m>>)
      /\ Before(wire[s], <<m>>) /\ Before(<<m>>, rest)
      /\ AddressedTo(<<m>>, identities[s]) /\ Bounded(<<m>>, lastID)
  <2>1. 1 \in 1..Len(writeQueue[s]) /\ \A i \in 1..Len(rest) : 1 < i + 1 /\ i + 1 \in 1..Len(writeQueue[s])
    BY <1>3
  <2>2. <<m>> \in Seq(Message) /\ Len(<<m>>) = 1 /\ <<m>>[1] = m /\ Ordered(<<m>>)
    BY <1>2, Singleton
  <2>3. Before(wire[s], <<m>>)
    BY <1>3, <1>5, <2>1, <2>2 DEF Before
  <2>4. Before(<<m>>, rest)
    BY <1>3, <1>5, <2>1, <2>2 DEF Before, Ordered
  <2>5. AddressedTo(<<m>>, identities[s]) /\ Bounded(<<m>>, lastID)
    BY <1>3, <1>5, <2>1, <2>2 DEF AddressedTo, Bounded
  <2> QED BY <2>2, <2>3, <2>4, <2>5
<1>8. ASSUME NEW u \in UserID
      PROVE  /\ offlineMessages[u] \in Seq(Message)
             /\ Before(wire[s], offlineMessages[u]) /\ Before(<<m>>, offlineMessages[u])
             /\ Before(rest, offlineMessages[u])
  <2>1. /\ offlineMessages[u] \in Seq(Message) /\ Before(wire[s], offlineMessages[u])
        /\ Before(writeQueue[s], offlineMessages[u])
    BY DEF TypeOK, OrderInv, StoreInv
  <2>2. 1 \in 1..Len(writeQueue[s]) /\ \A i \in 1..Len(rest) : i + 1 \in 1..Len(writeQueue[s])
    BY <1>3
  <2>3. Before(<<m>>, offlineMessages[u])
    BY <1>3, <1>7, <2>1, <2>2 DEF Before
  <2>4. Before(rest, offlineMessages[u])
    BY <1>3, <2>1, <2>2 DEF Before
  <2> QED BY <2>1, <2>3, <2>4
<1>9. wire'[s] = wire[s] \o <<m>> \/ wire'[s] = wire[s]
  BY <1>1, <1>2, <1>4, AppendIsConcat DEF TypeOK
<1> DEFINE sent == wire[s] \o <<m>>
<1>10. /\ sent \in Seq(Message) /\ Ordered(sent) /\ Before(sent, rest)
       /\ AddressedTo(sent, identities[s]) /\ Bounded(sent, lastID)
  <2>1. sent \in Seq(Message)
    BY <1>1, <1>7, ConcatProperties
  <2>2. Ordered(sent)
    BY <1>1, <1>5, <1>7, OrderedConcat
  <2>3. Before(sent, rest)
    <3>1. Before(wire[s], rest) /\ Before(<<m>>, rest)
      BY <1>6, <1>7
    <3>2. wire[s] \in Seq(Message) /\ <<m>> \in Seq(Message) /\ rest \in Seq(Message)
      BY <1>1, <1>2, <1>7
    <3> QED BY <3>1, <3>2, BeforeConcat
  <2>4. AddressedTo(sent, identities[s])
    BY <1>1, <1>5, <1>7, AddressedConcat
  <2>5. Bounded(sent, lastID)
    BY <1>1, <1>5, <1>7, BoundedConcat
  <2> QED BY <2>1, <2>2, <2>3, <2>4, <2>5
<1>11. ASSUME NEW u \in UserID
       PROVE  Before(sent, offlineMessages[u])
  BY <1>1, <1>7, <1>8, BeforeConcat
<1> HIDE DEF sent
<1>12. /\ Ordered(wire'[s]) /\ Before(wire'[s], rest)
       /\ AddressedTo(wire'[s], identities[s]) /\ Bounded(wire'[s], lastID)
       /\ \A u \in UserID : Before(wire'[s], offlineMessages[u])
  BY <1>5, <1>6, <1>8, <1>9, <1>10, <1>11 DEF sent
<1>13. /\ writeQueue'[s] = rest
       /\ \A x \in Session : x # s => writeQueue'[x] = writeQueue[x] /\ wire'[x] = wire[x]
  BY <1>4 DEF TypeOK
<1>14. FifoPerConnection'
  BY <1>6, <1>12, <1>13 DEF OrderInv, FifoPerConnection
<1>15. OnlyToItsAddressee'
  BY <1>4, <1>6, <1>12, <1>13 DEF OrderInv, OnlyToItsAddressee
<1>16. CountInv'
  BY <1>4, <1>6, <1>12, <1>13 DEF OrderInv, CountInv
<1>17. StoreInv'
  BY <1>4, <1>8, <1>12, <1>13 DEF OrderInv, StoreInv
<1> QED BY <1>14, <1>15, <1>16, <1>17 DEF OrderInv

LEMMA OrderInit == Init => OrderInv
<1> SUFFICES ASSUME Init PROVE OrderInv
  OBVIOUS
<1>1. \A q : q = <<>> => /\ Ordered(q) /\ \A U : AddressedTo(q, U)
                         /\ \A n : Bounded(q, n)
                         /\ \A p : Before(p, q) /\ Before(q, p)
  BY DEF Ordered, AddressedTo, Bounded, Before
<1>2. /\ \A s \in Session : wire[s] = <<>> /\ writeQueue[s] = <<>>
      /\ \A u \in UserID : offlineMessages[u] = <<>>
  BY DEF Init
<1> QED BY <1>1, <1>2 DEF OrderInv, FifoPerConnection, OnlyToItsAddressee, StoreInv, CountInv

LEMMA OrderNext ==
    TypeOK /\ NoStalledConnection /\ RegistryInv /\ OrderInv /\ [Next]_vars => OrderInv'
<1> SUFFICES ASSUME TypeOK, NoStalledConnection, RegistryInv, OrderInv, [Next]_vars
             PROVE  OrderInv'
  OBVIOUS
<1>1. ASSUME NEW s \in Session, HandleRequest(s) PROVE OrderInv'
  <2>1. ioThread = "running" /\ \A x \in Session : identities[x] \subseteq identities'[x]
    <3>1. ASSUME NEW u \in UserID, HandleAuthRegister(s, u) \/ HandleAuthLogin(s, u)
          PROVE  identities' = [identities EXCEPT ![s] = identities[s] \cup {u}]
      BY <3>1 DEF HandleAuthRegister, HandleAuthLogin, Authenticate
    <3>2. HandleAuthLogout(s) => UNCHANGED identities
      BY DEF HandleAuthLogout
    <3>3. /\ ioThread = "running"
          /\ \/ UNCHANGED identities
             \/ \E u \in UserID : identities' = [identities EXCEPT ![s] = identities[s] \cup {u}]
      <4>1. \/ UNCHANGED <<clients, ioThread, registered, userID, authenticated, identities>>
            \/ HandleAuthLogout(s)
            \/ \E u \in UserID : HandleAuthRegister(s, u) \/ HandleAuthLogin(s, u)
        BY <1>1, RequestRegistry
      <4>2. ioThread = "running"
        BY <1>1, RequestRegistry
      <4> QED BY <3>1, <3>2, <4>1, <4>2
    <3> QED BY <3>3 DEF TypeOK
  <2>2. CASE /\ UNCHANGED <<writeQueue, writing>> \/ SendTo(s, <<Reply>>)
             /\ UNCHANGED <<offlineMessages, lastID, accepted, wire>>
    BY <2>1, <2>2, QuietOrder
  <2>3. ASSUME NEW u \in UserID, HandleAuthLogin(s, u), ioThread' = "running" PROVE OrderInv'
    BY <2>3, LoginOrder
  <2>4. ASSUME NEW R \in SUBSET UserID, NEW m \in Message, IsRouted(m), m.id = lastID + 1,
               RouteMessage(R, m) \/ RouteFile(R, m), Routing(s)
        PROVE  OrderInv'
    BY <2>1, <2>4, RouteOrder DEF Routing
  <2> QED BY <1>1, <2>2, <2>3, <2>4, RequestRouting
<1>2. ASSUME NEW s \in Session, WriteHandler(s) PROVE OrderInv'
  BY <1>2, WriteOrder
<1>3. CASE UNCHANGED <<writeQueue, wire, offlineMessages, lastID, identities>>
  <2>1. FifoPerConnection' /\ OnlyToItsAddressee' /\ CountInv'
    BY <1>3 DEF OrderInv, FifoPerConnection, OnlyToItsAddressee, CountInv
  <2>2. StoreInv'
    BY <1>3 DEF OrderInv, StoreInv
  <2> QED BY <2>1, <2>2 DEF OrderInv
<1>4. ASSUME NEW s \in Session, \/ AcceptConnection(s) \/ PeerLeaves(s)
                                \/ ReadError(s) \/ WriteError(s)
      PROVE  UNCHANGED <<writeQueue, wire, offlineMessages, lastID, identities>>
  BY <1>4 DEF AcceptConnection, PeerLeaves, ReadError, WriteError, routerVars, sessionVars
<1>5. UNCHANGED vars => UNCHANGED <<writeQueue, wire, offlineMessages, lastID, identities>>
  BY DEF vars, routerVars, sessionVars
<1> QED BY <1>1, <1>2, <1>3, <1>4, <1>5 DEF Next

LEMMA OrderInvariant == Spec => []OrderInv
<1> QED BY OrderInit, OrderNext, TypeCorrect, ConnectionsNeverStall, RegistryInvariant, PTL DEF Spec

(* Each user's messages leave every connection in the order the router took
   them, for any number of users, groups, connections and messages.          *)
THEOREM DeliveryIsFifo == Spec => []FifoPerConnection
<1>1. OrderInv => FifoPerConnection
  BY DEF OrderInv
<1> QED BY <1>1, OrderInvariant, PTL

(* No copy of a message is queued at, or sent over, a connection on which its
   addressee never logged in or registered.                                  *)
THEOREM DeliveryToAddressee == Spec => []OnlyToItsAddressee
<1>1. OrderInv => OnlyToItsAddressee
  BY DEF OrderInv
<1> QED BY <1>1, OrderInvariant, PTL

-----------------------------------------------------------------------------
(* The group table: only successful group requests change it. *)

LEMMA GroupSteps ==
    ASSUME TypeOK, [Next]_vars, ~UNCHANGED groups
    PROVE  \E u \in UserID, code \in JoinCode, g \in GroupName :
              GM!createGroup(g, u, code) \/ GM!joinGroup(g, u, code) \/ GM!leaveGroup(g, u)
<1>1. ASSUME NEW s \in Session, HandleRequest(s)
      PROVE  \E g \in GroupName : HandleGroupUpdate(s, g)
  BY <1>1 DEF HandleRequest, HandleAuthLogout, HandleAnswered, Answer, HandleUnknown,
              HandleAuthRegister, HandleAuthLogin, Authenticate, HandlePrivateMessage,
              HandleFilePrivate, HandleGroupMessage, HandleFileGroup, Routing
<1>2. ASSUME NEW s \in Session, NEW g \in GroupName, HandleGroupUpdate(s, g)
      PROVE  \E u \in UserID, code \in JoinCode, h \in GroupName :
                GM!createGroup(h, u, code) \/ GM!joinGroup(h, u, code) \/ GM!leaveGroup(h, u)
  <2>1. userID[s] \in UserID
    BY <1>2 DEF HandleGroupUpdate, TypeOK
  <2>2. GM!leaveGroup(g, userID[s]) => \E code \in JoinCode : TRUE
    BY DEF TypeOK, GM!leaveGroup, GM!groupExists, GM!GroupsTypeOK, GM!GroupInfo
  <2>3. \A h, code : GM!joinGroup(h, userID[s], code) => h \in GroupName
    BY DEF TypeOK, GM!joinGroup, GM!groupExists, GM!GroupsTypeOK
  <2> QED BY <1>2, <2>1, <2>2, <2>3 DEF HandleGroupUpdate
<1>3. ASSUME NEW s \in Session, \/ AcceptConnection(s) \/ PeerLeaves(s) \/ ReadError(s)
                                \/ WriteHandler(s) \/ WriteError(s)
      PROVE  UNCHANGED groups
  BY <1>3 DEF AcceptConnection, PeerLeaves, ReadError, WriteHandler, WriteError
<1>4. UNCHANGED vars => UNCHANGED groups
  BY DEF vars
<1> QED BY <1>1, <1>2, <1>3, <1>4 DEF Next

LEMMA GroupUpdateFacts ==
    ASSUME GM!GroupsTypeOK, NEW u \in UserID, NEW g, NEW code \in JoinCode,
           GM!createGroup(g, u, code) \/ GM!joinGroup(g, u, code) \/ GM!leaveGroup(g, u)
    PROVE  /\ GM!GroupsHaveMembers => GM!GroupsHaveMembers'
           /\ \A h \in DOMAIN groups \cap DOMAIN groups' :
                 /\ groups'[h].joinCode = groups[h].joinCode
                 /\ groups'[h].creatorUserID = groups[h].creatorUserID
                 /\ groups[h].members \ groups'[h].members \subseteq {u}
<1> DEFINE Kept == \A h \in DOMAIN groups \cap DOMAIN groups' :
                     /\ groups'[h].joinCode = groups[h].joinCode
                     /\ groups'[h].creatorUserID = groups[h].creatorUserID
                     /\ groups[h].members \ groups'[h].members \subseteq {u}
           Peopled == GM!GroupsHaveMembers => GM!GroupsHaveMembers'
<1>1. CASE GM!createGroup(g, u, code)
  <2>1. /\ DOMAIN groups' = DOMAIN groups \cup {g} /\ g \notin DOMAIN groups
        /\ groups'[g].members = {u}
        /\ \A h \in DOMAIN groups : groups'[h] = groups[h]
    BY <1>1 DEF GM!createGroup, GM!groupExists
  <2> QED BY <2>1 DEF GM!GroupsHaveMembers
<1>2. ASSUME g \in DOMAIN groups, NEW ms, groups' = [groups EXCEPT ![g].members = ms]
      PROVE  /\ DOMAIN groups' = DOMAIN groups
             /\ groups'[g].members = ms
             /\ groups'[g].joinCode = groups[g].joinCode
             /\ groups'[g].creatorUserID = groups[g].creatorUserID
             /\ \A h \in DOMAIN groups : h # g => groups'[h] = groups[h]
  <2>1. groups[g] \in GM!GroupInfo
    BY <1>2 DEF GM!GroupsTypeOK
  <2>2. groups' = [groups EXCEPT ![g] = [groups[g] EXCEPT !.members = ms]]
    BY <1>2
  <2> QED BY <1>2, <2>1, <2>2 DEF GM!GroupInfo, GM!GroupsTypeOK
<1>3. CASE GM!joinGroup(g, u, code)
  <2>1. g \in DOMAIN groups /\ groups' = [groups EXCEPT ![g].members = groups[g].members \cup {u}]
    BY <1>3 DEF GM!joinGroup, GM!groupExists
  <2>2. groups'[g].members = groups[g].members \cup {u}
    BY <1>2, <2>1
  <2> QED BY <1>2, <2>1, <2>2 DEF GM!GroupsHaveMembers
<1>4. CASE GM!leaveGroup(g, u)
  <2> DEFINE left == groups[g].members \ {u}
  <2>1. g \in DOMAIN groups
    BY <1>4 DEF GM!leaveGroup, GM!groupExists
  <2>2. CASE left = {}
    <3>1. groups' = [h \in DOMAIN groups \ {g} |-> groups[h]]
      BY <1>4, <2>2 DEF GM!leaveGroup, GM!Restrict
    <3> QED BY <3>1 DEF GM!GroupsHaveMembers
  <2>3. CASE left # {}
    <3>1. groups' = [groups EXCEPT ![g].members = left]
      BY <1>4, <2>3 DEF GM!leaveGroup
    <3> QED BY <1>2, <2>1, <2>3, <3>1 DEF GM!GroupsHaveMembers
  <2> QED BY <2>2, <2>3
<1> QED BY <1>1, <1>3, <1>4

(* No group outlives its last member, whatever the order in which members
   create, join and leave, over whatever connections.                        *)
THEOREM NoGroupIsEmpty == Spec => []GroupsHaveMembers
<1>1. Init => GroupsHaveMembers
  BY DEF Init, GM!Init, GroupsHaveMembers, GM!GroupsHaveMembers
<1>2. TypeOK /\ GroupsHaveMembers /\ [Next]_vars => GroupsHaveMembers'
  <2> SUFFICES ASSUME TypeOK, GroupsHaveMembers, [Next]_vars PROVE GroupsHaveMembers'
    OBVIOUS
  <2>1. CASE UNCHANGED groups
    BY <2>1 DEF GroupsHaveMembers, GM!GroupsHaveMembers
  <2>2. GM!GroupsTypeOK
    BY DEF TypeOK
  <2>3. ASSUME NEW u \in UserID, NEW code \in JoinCode, NEW g \in GroupName,
               GM!createGroup(g, u, code) \/ GM!joinGroup(g, u, code) \/ GM!leaveGroup(g, u)
        PROVE  GroupsHaveMembers'
    BY <2>2, <2>3, GroupUpdateFacts DEF GroupsHaveMembers
  <2> QED BY <2>1, <2>3, GroupSteps
<1> QED BY <1>1, <1>2, TypeCorrect, PTL DEF Spec

\* The table's own notion of cardinality is that of this module.
LEMMA TableCardinality == ASSUME NEW S PROVE GM!Cardinality(S) = Cardinality(S)
BY DEF GM!Cardinality, Cardinality

LEMMA GroupStable ==
    ASSUME TypeOK, [Next]_vars, NEW h \in DOMAIN groups \cap DOMAIN groups'
    PROVE  /\ groups'[h].joinCode = groups[h].joinCode
           /\ groups'[h].creatorUserID = groups[h].creatorUserID
           /\ Cardinality(groups[h].members \ groups'[h].members) <= 1
<1> DEFINE gone == groups[h].members \ groups'[h].members
<1>1. ASSUME NEW u \in UserID, gone \subseteq {u}
      PROVE  Cardinality(gone) <= 1
  <2>1. IsFiniteSet({u}) /\ Cardinality({u}) = 1
    BY FS_Singleton
  <2> HIDE DEF gone
  <2> QED BY <1>1, <2>1, FS_Subset
<1>2. GM!GroupsTypeOK
  BY DEF TypeOK
<1>3. ASSUME NEW u \in UserID, NEW g \in GroupName, NEW code \in JoinCode,
             GM!createGroup(g, u, code) \/ GM!joinGroup(g, u, code) \/ GM!leaveGroup(g, u)
      PROVE  /\ groups'[h].joinCode = groups[h].joinCode
             /\ groups'[h].creatorUserID = groups[h].creatorUserID
             /\ Cardinality(gone) <= 1
  <2>1. gone \subseteq {u} /\ groups'[h].joinCode = groups[h].joinCode
        /\ groups'[h].creatorUserID = groups[h].creatorUserID
    BY <1>2, <1>3, GroupUpdateFacts
  <2> QED BY <1>1, <2>1
<1>4. ASSUME UNCHANGED groups
      PROVE  /\ groups'[h].joinCode = groups[h].joinCode
             /\ groups'[h].creatorUserID = groups[h].creatorUserID
             /\ Cardinality(gone) <= 1
  <2>1. gone = {}
    BY <1>4
  <2>2. Cardinality(gone) = 0
    BY <2>1, FS_EmptySet
  <2> HIDE DEF gone
  <2> QED BY <1>4, <2>2 DEF gone
<1> HIDE DEF gone
<1>5. /\ groups'[h].joinCode = groups[h].joinCode
      /\ groups'[h].creatorUserID = groups[h].creatorUserID
      /\ Cardinality(gone) <= 1
  <2>1. CASE ~UNCHANGED groups
    <3>1. PICK u \in UserID, code \in JoinCode, g \in GroupName :
             GM!createGroup(g, u, code) \/ GM!joinGroup(g, u, code) \/ GM!leaveGroup(g, u)
      BY <2>1, GroupSteps
    <3> QED BY <1>3, <3>1
  <2> QED BY <1>4, <2>1
<1> QED BY <1>5 DEF gone

(* While a group lives, its code and its creator stay, and each step takes at
   most one member out of it.                                                 *)
THEOREM GroupIdentityIsStable == Spec => GroupIdentityStable
<1>1. TypeOK /\ [Next]_vars
      => [ \A g \in DOMAIN groups \cap DOMAIN groups' :
             /\ groups'[g].joinCode = groups[g].joinCode
             /\ groups'[g].creatorUserID = groups[g].creatorUserID
             /\ GM!Cardinality(groups[g].members \ groups'[g].members) <= 1 ]_groups
  BY GroupStable, TableCardinality
<1> QED BY <1>1, TypeCorrect, PTL DEF Spec, GroupIdentityStable, GM!GroupIdentityStable

-----------------------------------------------------------------------------
(* Who is listed.  A witness for an entry that is gone is another session of
   the user with a closed socket: sockets do not open again, and a session that
   has not been accepted yet is nobody's.                                       *)

KnownInv ==
    \A s \in Session :
        /\ authenticated[s] => userID[s] \in identities[s]
        /\ peer[s] = "absent" => identities[s] = {}

LiveInv == KnownInv /\ UnlistedOnlyByAnother

LEMMA LiveRequest ==
    ASSUME ConnInv, LiveInv, NEW r \in Session, HandleRequest(r)
    PROVE  LiveInv'
<1> USE DEF LiveInv, KnownInv, UnlistedOnlyByAnother
<1>1. /\ TypeOK
      /\ UNCHANGED peer
      /\ sock' = sock \/ sock' = [sock EXCEPT ![r] = FALSE]
      /\ peer[r] # "absent"
      /\ ioThread = "running"
  BY RequestConnections, RequestRegistry DEF ConnInv, AbsentIsIdle
<1>2. CASE UNCHANGED <<clients, ioThread, registered, userID, authenticated, identities>>
  <2>1. \A s \in Session : sock'[s] => sock[s]
    BY <1>1 DEF TypeOK
  <2>2. KnownInv'
    BY <1>1, <1>2
  <2> QED BY <1>1, <1>2, <2>1, <2>2
<1>3. CASE HandleAuthLogout(r)
  <2>1. UNCHANGED <<userID, identities>> /\ ioThread' \in {"running", "blocked"}
    BY <1>1, <1>3 DEF HandleAuthLogout, SetClient, TypeOK
  <2>2. CASE ioThread' # "running"
    BY <1>1, <1>3, <2>1, <2>2 DEF HandleAuthLogout
  <2>3. CASE ioThread' = "running"
    <3>1. /\ authenticated' = [authenticated EXCEPT ![r] = FALSE]
          /\ sock' = [sock EXCEPT ![r] = FALSE]
          /\ \/ UNCHANGED clients
             \/ authenticated[r] /\ clients' = [clients EXCEPT ![userID[r]] = NoSession]
      BY <1>3, <2>3 DEF HandleAuthLogout, SetClient
    <3>2. KnownInv'
      BY <1>1, <2>1, <3>1 DEF TypeOK
    <3>3. ASSUME NEW s \in Session, authenticated'[s], sock'[s], peer'[s] = "up",
                 clients'[userID'[s]] = NoSession
          PROVE  \E t \in Session \ {s} : userID'[s] \in identities'[t] /\ ~sock'[t]
      <4>1. s # r /\ authenticated[s] /\ sock[s] /\ peer[s] = "up" /\ userID[s] \in UserID
        BY <1>1, <3>1, <3>3 DEF TypeOK
      <4>2. CASE authenticated[r] /\ userID[r] = userID[s]
        BY <1>1, <2>1, <3>1, <4>1, <4>2 DEF TypeOK
      <4>3. CASE ~(authenticated[r] /\ userID[r] = userID[s])
        <5>1. clients[userID[s]] = NoSession
          BY <1>1, <2>1, <3>1, <3>3, <4>1, <4>3 DEF TypeOK
        <5>2. PICK t \in Session \ {s} : userID[s] \in identities[t] /\ ~sock[t]
          BY <1>1, <4>1, <5>1
        <5> QED BY <1>1, <2>1, <3>1, <5>2 DEF TypeOK
      <4> QED BY <4>2, <4>3
    <3> QED BY <3>2, <3>3
  <2> QED BY <2>2, <2>3
<1>4. ASSUME NEW u \in UserID, HandleAuthRegister(r, u) \/ HandleAuthLogin(r, u)
      PROVE  LiveInv'
  <2>1. /\ userID' = [userID EXCEPT ![r] = u]
        /\ authenticated' = [authenticated EXCEPT ![r] = TRUE]
        /\ identities' = [identities EXCEPT ![r] = identities[r] \cup {u}]
        /\ clients' = [clients EXCEPT ![u] = r]
        /\ UNCHANGED sock
    BY <1>4 DEF HandleAuthRegister, HandleAuthLogin, Authenticate, SetClient
  <2>2. KnownInv'
    BY <1>1, <2>1 DEF TypeOK
  <2>3. ASSUME NEW s \in Session, authenticated'[s], sock'[s], peer'[s] = "up",
               clients'[userID'[s]] = NoSession
        PROVE  \E t \in Session \ {s} : userID'[s] \in identities'[t] /\ ~sock'[t]
    <3>1. s # r /\ authenticated[s] /\ sock[s] /\ peer[s] = "up" /\ userID[s] \in UserID
          /\ userID'[s] = userID[s] /\ clients[userID[s]] = NoSession
      BY <1>1, <2>1, <2>3, ServerAssumption DEF TypeOK
    <3>2. PICK t \in Session \ {s} : userID[s] \in identities[t] /\ ~sock[t]
      BY <1>1, <3>1
    <3> QED BY <1>1, <2>1, <3>1, <3>2 DEF TypeOK
  <2> QED BY <2>2, <2>3
<1> QED BY <1>2, <1>3, <1>4, RequestRegistry

\* A session that fails closes its socket, and erases its own user's entry at most.
LEMMA LiveFailure ==
    ASSUME TypeOK, LiveInv, NEW r \in Session, ReadError(r) \/ WriteError(r)
    PROVE  LiveInv'
<1> USE DEF LiveInv, KnownInv, UnlistedOnlyByAnother
<1>1. /\ UNCHANGED <<userID, authenticated, identities, peer>>
      /\ sock' = [sock EXCEPT ![r] = FALSE]
      /\ ioThread = "running"
      /\ \/ UNCHANGED clients
         \/ authenticated[r] /\ clients' = [clients EXCEPT ![userID[r]] = NoSession]
  BY DEF ReadError, WriteError, DropSelf, SetClient
<1>2. KnownInv'
  BY <1>1
<1>3. ASSUME NEW s \in Session, authenticated[s], sock'[s], peer[s] = "up",
             clients'[userID[s]] = NoSession
      PROVE  \E t \in Session \ {s} : userID[s] \in identities[t] /\ ~sock'[t]
  <2>1. s # r /\ sock[s] /\ userID[s] \in UserID
    BY <1>1, <1>3 DEF TypeOK
  <2>2. CASE authenticated[r] /\ userID[r] = userID[s]
    BY <1>1, <2>1, <2>2 DEF TypeOK
  <2>3. CASE ~(authenticated[r] /\ userID[r] = userID[s])
    <3>1. clients[userID[s]] = NoSession
      BY <1>1, <1>3, <2>1, <2>3 DEF TypeOK
    <3>2. PICK t \in Session \ {s} : userID[s] \in identities[t] /\ ~sock[t]
      BY <1>1, <1>3, <2>1, <3>1
    <3> QED BY <1>1, <3>2 DEF TypeOK
  <2> QED BY <2>2, <2>3
<1> QED BY <1>1, <1>2, <1>3

LEMMA LiveNext == ConnInv /\ LiveInv /\ [Next]_vars => LiveInv'
<1> SUFFICES ASSUME ConnInv, LiveInv, [Next]_vars PROVE LiveInv'
  OBVIOUS
<1> USE DEF LiveInv, KnownInv, UnlistedOnlyByAnother
<1>1. ASSUME NEW s \in Session, HandleRequest(s) PROVE LiveInv'
  BY <1>1, LiveRequest
<1>2. ASSUME NEW s \in Session, ReadError(s) \/ WriteError(s) PROVE LiveInv'
  BY <1>2, LiveFailure DEF ConnInv
<1>3. ASSUME NEW r \in Session, AcceptConnection(r) PROVE LiveInv'
  <2>1. /\ UNCHANGED <<clients, ioThread, userID, authenticated, identities>>
        /\ sock' = [sock EXCEPT ![r] = TRUE] /\ peer' = [peer EXCEPT ![r] = "up"]
        /\ identities[r] = {} /\ ~authenticated[r] /\ TypeOK
    BY <1>3 DEF AcceptConnection, ConnInv
  <2>2. KnownInv'
    BY <2>1 DEF TypeOK
  <2>3. ASSUME NEW s \in Session, authenticated[s], sock'[s], peer'[s] = "up",
               ioThread = "running", clients[userID[s]] = NoSession
        PROVE  \E t \in Session \ {s} : userID[s] \in identities[t] /\ ~sock'[t]
    <3>1. s # r /\ sock[s] /\ peer[s] = "up"
      BY <2>1, <2>3 DEF TypeOK
    <3>2. PICK t \in Session \ {s} : userID[s] \in identities[t] /\ ~sock[t]
      BY <2>3, <3>1
    <3> QED BY <2>1, <3>2 DEF TypeOK
  <2> QED BY <2>1, <2>2, <2>3
<1>4. ASSUME NEW r \in Session, PeerLeaves(r) PROVE LiveInv'
  BY <1>4 DEF PeerLeaves, sessionVars, ConnInv, TypeOK
<1>5. ASSUME NEW r \in Session, WriteHandler(r) PROVE LiveInv'
  BY <1>5 DEF WriteHandler
<1>6. CASE UNCHANGED vars
  BY <1>6 DEF vars, sessionVars
<1> QED BY <1>1, <1>2, <1>3, <1>4, <1>5, <1>6 DEF Next

(* A user with a working connection on which he or she is logged in is listed,
   unless another connection of the same user has ended: no login of another
   user, refused request, message or eviction takes the entry away.           *)
THEOREM LiveUsersAreListed == Spec => []UnlistedOnlyByAnother
<1>1. Init => LiveInv
  BY DEF Init, LiveInv, KnownInv, UnlistedOnlyByAnother
<1>2. LiveInv => UnlistedOnlyByAnother
  BY DEF LiveInv
<1> QED BY <1>1, <1>2, ConnInvariant, LiveNext, PTL DEF Spec
=============================================================================
