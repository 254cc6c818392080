-------------------------- MODULE ServerRelayProofs --------------------------
(***************************************************************************)
(* LanShareServer implements MessageRelay, and keeps every message it      *)
(* takes charge of at exactly one place per addressee: proofs for every    *)
(* number of connections, users, groups and messages.                      *)
(***************************************************************************)
EXTENDS LanShareServerProofs

-----------------------------------------------------------------------------
(* The copies for a user in a sequence of messages. *)

LEMMA CopiesForMember ==
    ASSUME NEW q \in Seq(Message), NEW u, NEW id
    PROVE  id \in CopiesFor(u, q) <=> \E i \in 1..Len(q) : IsCopy(q[i], id, u)
<1>1. DOMAIN q = 1..Len(q)
  OBVIOUS
<1> QED BY <1>1 DEF CopiesFor, ToSet, IsCopy

LEMMA CopiesForEmpty == ASSUME NEW u PROVE CopiesFor(u, <<>>) = {}
BY DEF CopiesFor, ToSet

LEMMA CopiesForConcat ==
    ASSUME NEW p \in Seq(Message), NEW q \in Seq(Message), NEW u
    PROVE  CopiesFor(u, p \o q) = CopiesFor(u, p) \cup CopiesFor(u, q)
<1>1. /\ p \o q \in Seq(Message) /\ Len(p \o q) = Len(p) + Len(q)
      /\ Len(p) \in Nat /\ Len(q) \in Nat
      /\ \A i \in 1..Len(p) : (p \o q)[i] = p[i]
      /\ \A i \in 1..Len(q) : (p \o q)[i + Len(p)] = q[i]
  BY ConcatProperties, LenProperties
<1>2. \A i \in 1..Len(p) + Len(q) : i \in 1..Len(p) \/ \E j \in 1..Len(q) : i = j + Len(p)
  <2> TAKE i \in 1..Len(p) + Len(q)
  <2>1. CASE i <= Len(p)
    BY <1>1, <2>1
  <2>2. CASE i > Len(p)
    <3>1. i - Len(p) \in 1..Len(q) /\ i = (i - Len(p)) + Len(p)
      BY <1>1, <2>2
    <3> QED BY <3>1
  <2> QED BY <1>1, <2>1, <2>2
<1>3. \A i \in 1..Len(p) : i \in 1..Len(p) + Len(q)
  BY <1>1
<1>4. \A i \in 1..Len(q) : i + Len(p) \in 1..Len(p) + Len(q)
  BY <1>1
<1>5. ASSUME NEW id
      PROVE  id \in CopiesFor(u, p \o q) <=> id \in CopiesFor(u, p) \/ id \in CopiesFor(u, q)
  <2>1. id \in CopiesFor(u, p \o q) <=> \E i \in 1..Len(p) + Len(q) : IsCopy((p \o q)[i], id, u)
    BY <1>1, CopiesForMember
  <2>2. id \in CopiesFor(u, p) <=> \E i \in 1..Len(p) : IsCopy(p[i], id, u)
    BY CopiesForMember
  <2>3. id \in CopiesFor(u, q) <=> \E i \in 1..Len(q) : IsCopy(q[i], id, u)
    BY CopiesForMember
  <2>4. ASSUME NEW i \in 1..Len(p) + Len(q), IsCopy((p \o q)[i], id, u)
        PROVE  (\E j \in 1..Len(p) : IsCopy(p[j], id, u)) \/ \E j \in 1..Len(q) : IsCopy(q[j], id, u)
    BY <1>1, <1>2, <2>4
  <2>5. ASSUME NEW i \in 1..Len(p), IsCopy(p[i], id, u)
        PROVE  \E j \in 1..Len(p) + Len(q) : IsCopy((p \o q)[j], id, u)
    BY <1>1, <1>3, <2>5
  <2>6. ASSUME NEW i \in 1..Len(q), IsCopy(q[i], id, u)
        PROVE  \E j \in 1..Len(p) + Len(q) : IsCopy((p \o q)[j], id, u)
    BY <1>1, <1>4, <2>6
  <2> QED BY <2>1, <2>2, <2>3, <2>4, <2>5, <2>6
<1> QED BY <1>5

LEMMA CopiesForSingle ==
    ASSUME NEW m \in Message, NEW u
    PROVE  CopiesFor(u, <<m>>) = IF IsRouted(m) /\ m.to = u THEN {m.id} ELSE {}
BY DEF CopiesFor, ToSet

\* Messages of others are no copies for u.
LEMMA CopiesForOthers ==
    ASSUME NEW q \in Seq(Message), NEW U, AddressedTo(q, U), NEW u, u \notin U
    PROVE  CopiesFor(u, q) = {}
BY CopiesForMember DEF AddressedTo, IsCopy

\* What comes before something else is something else.
LEMMA BeforeDisjoint ==
    ASSUME NEW p \in Seq(Message), NEW q \in Seq(Message), Before(p, q), NEW u
    PROVE  CopiesFor(u, p) \cap CopiesFor(u, q) = {}
<1> SUFFICES ASSUME NEW id, id \in CopiesFor(u, p), id \in CopiesFor(u, q)
             PROVE  FALSE
  OBVIOUS
<1>1. PICK i \in 1..Len(p) : IsCopy(p[i], id, u)
  BY CopiesForMember
<1>2. PICK j \in 1..Len(q) : IsCopy(q[j], id, u)
  BY CopiesForMember
<1>3. id < id /\ id \in Nat
  <2>1. p[i].id < q[j].id
    BY <1>1, <1>2 DEF Before, Precedes, IsCopy
  <2>2. p[i] \in Message
    OBVIOUS
  <2> QED BY <1>1, <1>2, <2>1, <2>2 DEF IsCopy, Message
<1> QED BY <1>3

LEMMA CopiesForBounded ==
    ASSUME NEW q \in Seq(Message), NEW n, Bounded(q, n), NEW u, NEW id \in CopiesFor(u, q)
    PROVE  id \in Nat /\ id <= n
<1>1. PICK i \in 1..Len(q) : IsCopy(q[i], id, u)
  BY CopiesForMember
<1>2. q[i] \in Message /\ q[i].id <= n
  BY DEF Bounded
<1> QED BY <1>1, <1>2 DEF IsCopy, Message

\* A set of users becomes a sequence without leaving anybody out.
LEMMA SetToSeqOnto ==
    ASSUME NEW S, IsFiniteSet(S)
    PROVE  \A x \in S : \E i \in 1..Len(SetToSeq(S)) : SetToSeq(S)[i] = x
<1> DEFINE n == Cardinality(S)
           f == SetToSeq(S)
<1>1. n \in Nat /\ ExistsBijection(1..n, S)
  BY FS_CardinalityType
<1>2. PICK g \in [1..n -> S] : IsInjective(g)
  BY <1>1 DEF ExistsBijection, Bijection, Injection
<1>3. f \in [1..n -> S] /\ IsInjective(f)
  BY <1>2 DEF SetToSeq
<1>4. f \in Seq(S) /\ Len(f) = n
  BY <1>1, <1>3, SeqDef
<1>5. Cardinality(1..n) = n
  BY <1>1, FS_Interval
<1> HIDE DEF f, n
<1>6. f \in Injection(1..n, S)
  BY <1>3 DEF Injection
<1>7. f \in Surjection(1..n, S)
  BY <1>5, <1>6, FS_Injection DEF n
<1>8. \A x \in S : \E i \in 1..n : f[i] = x
  BY <1>7 DEF Surjection
<1> QED BY <1>4, <1>8 DEF f

\* One copy for each user of R.
LEMMA CopiesForCopies ==
    ASSUME NEW R \in SUBSET UserID, NEW m \in Message, IsRouted(m), NEW u
    PROVE  CopiesFor(u, Copies(R, m)) = IF u \in R THEN {m.id} ELSE {}
<1> DEFINE c == Copies(R, m)
<1>1. /\ c \in Seq(Message)
      /\ \A i \in 1..Len(c) : c[i].to \in R /\ c[i].id = m.id /\ c[i].type = m.type
  BY CopiesType
<1>2. ASSUME u \in R PROVE \E i \in 1..Len(c) : c[i].to = u
  <2> DEFINE us == SetToSeq(R)
  <2>1. IsFiniteSet(R)
    BY FS_Subset, ServerAssumption
  <2>2. PICK i \in 1..Len(us) : us[i] = u
    BY <1>2, <2>1, SetToSeqOnto
  <2>3. Len(us) \in Nat
    BY <2>1, SetToSeqType
  <2>4. c = [j \in 1..Len(us) |-> [m EXCEPT !.to = us[j]]]
    BY DEF Copies
  <2> HIDE DEF us
  <2>5. Len(c) = Len(us)
    BY <2>3, <2>4
  <2>6. c[i].to = u
    <3>1. c[i] = [m EXCEPT !.to = u]
      BY <2>2, <2>4
    <3> QED BY <3>1 DEF Message
  <2> QED BY <2>5, <2>6
<1> HIDE DEF c
<1>3. ASSUME NEW id
      PROVE  id \in CopiesFor(u, c) <=> u \in R /\ id = m.id
  <2>1. id \in CopiesFor(u, c) <=> \E i \in 1..Len(c) : IsCopy(c[i], id, u)
    BY <1>1, CopiesForMember
  <2>2. \A i \in 1..Len(c) : IsCopy(c[i], id, u) <=> c[i].to = u /\ id = m.id
    BY <1>1 DEF IsCopy, IsRouted
  <2> QED BY <1>1, <1>2, <2>1, <2>2
<1> QED BY <1>3 DEF c

-----------------------------------------------------------------------------
(* What a step does to the copies.  Of all the actions, only those that route a
   message, log a user in or complete a write move any.                         *)

Stored(u) == CopiesFor(u, offlineMessages[u])
Queued(x, u) == CopiesFor(u, writeQueue[x])
Sent(x, u) == CopiesFor(u, wire[x])

CopiesStay ==
    /\ \A u \in UserID : Stored(u)' = Stored(u)
    /\ \A x \in Session, u \in UserID : Queued(x, u)' = Queued(x, u) /\ Sent(x, u)' = Sent(x, u)
    /\ UNCHANGED <<lastID, accepted>>

\* Copies for the listed users of R are queued, and those for W are stored.
CopiesRouted(R, W) ==
    /\ W \cap Online(R) = {}
    /\ \A u \in Online(R) : Stored(u) = {}
    /\ lastID' = lastID + 1
    /\ accepted' = accepted \cup {<<lastID + 1, u>> : u \in Online(R) \cup W}
    /\ \A u \in UserID : Stored(u)' = Stored(u) \cup (IF u \in W THEN {lastID + 1} ELSE {})
    /\ \A x \in Session, u \in UserID :
          /\ Queued(x, u)' = Queued(x, u) \cup (IF u \in R /\ clients[u] = x THEN {lastID + 1} ELSE {})
          /\ Sent(x, u)' = Sent(x, u)

CopiesFlushed(s, v) ==
    /\ \A u \in UserID : Stored(u)' = IF u = v THEN {} ELSE Stored(u)
    /\ \A x \in Session, u \in UserID :
          /\ Queued(x, u)' = Queued(x, u) \cup (IF x = s /\ u = v THEN Stored(v) ELSE {})
          /\ Sent(x, u)' = Sent(x, u)
    /\ UNCHANGED <<lastID, accepted>>

CopySent(s, v, id) ==
    /\ id \in Queued(s, v)
    /\ \A u \in UserID : Stored(u)' = Stored(u)
    /\ \A x \in Session, u \in UserID :
          /\ Queued(x, u)' = Queued(x, u) \ (IF x = s /\ u = v THEN {id} ELSE {})
          /\ Sent(x, u)' = Sent(x, u) \cup (IF x = s /\ u = v THEN {id} ELSE {})
    /\ UNCHANGED <<lastID, accepted>>

LEMMA SendCopies ==
    ASSUME TypeOK, NEW out \in [Session -> Seq(Message)], Send(out),
           NEW x \in Session, NEW u
    PROVE  Queued(x, u)' = Queued(x, u) \cup CopiesFor(u, out[x])
<1>1. writeQueue'[x] = writeQueue[x] \o out[x]
  BY DEF Send
<1>2. writeQueue[x] \in Seq(Message) /\ out[x] \in Seq(Message)
  BY DEF TypeOK
<1> QED BY <1>1, <1>2, CopiesForConcat DEF Queued

LEMMA SendToCopies ==
    ASSUME TypeOK, NEW s \in Session, NEW ms \in Seq(Message), SendTo(s, ms),
           NEW x \in Session, NEW u
    PROVE  Queued(x, u)' = Queued(x, u) \cup (IF x = s THEN CopiesFor(u, ms) ELSE {})
<1> DEFINE out == [y \in Session |-> IF y = s THEN ms ELSE <<>>]
<1>1. out \in [Session -> Seq(Message)] /\ Send(out)
  BY EmptySeq DEF SendTo
<1>2. CopiesFor(u, out[x]) = IF x = s THEN CopiesFor(u, ms) ELSE {}
  BY CopiesForEmpty
<1> HIDE DEF out
<1> QED BY <1>1, <1>2, SendCopies

LEMMA ReplyIsNoCopy == ASSUME NEW u PROVE CopiesFor(u, <<Reply>>) = {}
BY ReplyIsMessage, CopiesForSingle DEF Reply, IsRouted

LEMMA LoginCopies ==
    ASSUME TypeOK, OrderInv, NEW s \in Session, NEW v \in UserID,
           HandleAuthLogin(s, v), ioThread' = "running"
    PROVE  CopiesFlushed(s, v)
<1> DEFINE ms == <<Reply>> \o offlineMessages[v]
<1>1. /\ SendTo(s, ms)
      /\ offlineMessages' = [offlineMessages EXCEPT ![v] = <<>>]
      /\ UNCHANGED <<lastID, accepted, wire>>
  BY DEF HandleAuthLogin, Authenticate
<1>2. <<Reply>> \in Seq(Message) /\ offlineMessages[v] \in Seq(Message)
  BY ReplyIsMessage DEF TypeOK
<1>3. ms \in Seq(Message)
  BY <1>2, ConcatProperties
<1>4. ASSUME NEW u
      PROVE  CopiesFor(u, ms) = CopiesFor(u, offlineMessages[v])
  <2>1. CopiesFor(u, ms) = CopiesFor(u, <<Reply>>) \cup CopiesFor(u, offlineMessages[v])
    BY <1>2, CopiesForConcat
  <2>2. CopiesFor(u, <<Reply>>) = {}
    BY ReplyIsNoCopy
  <2> QED BY <2>1, <2>2
<1>5. AddressedTo(offlineMessages[v], {v})
  BY DEF OrderInv, StoreInv
<1>6. ASSUME NEW u \in UserID
      PROVE  CopiesFor(u, ms) = IF u = v THEN Stored(v) ELSE {}
  <2>1. u # v => CopiesFor(u, offlineMessages[v]) = {}
    BY <1>2, <1>5, CopiesForOthers
  <2> QED BY <1>4, <2>1 DEF Stored
<1> HIDE DEF ms
<1>7. \A u \in UserID : Stored(u)' = IF u = v THEN {} ELSE Stored(u)
  BY <1>1, CopiesForEmpty DEF Stored, TypeOK
<1>8. ASSUME NEW x \in Session, NEW u \in UserID
      PROVE  Queued(x, u)' = Queued(x, u) \cup (IF x = s /\ u = v THEN Stored(v) ELSE {})
  <2>1. Queued(x, u)' = Queued(x, u) \cup (IF x = s THEN CopiesFor(u, ms) ELSE {})
    BY <1>1, <1>3, SendToCopies
  <2> QED BY <1>6, <2>1
<1> QED BY <1>1, <1>7, <1>8 DEF CopiesFlushed, Sent

LEMMA StoreCopies ==
    ASSUME TypeOK, NEW W \in SUBSET UserID, NEW m \in Message, IsRouted(m), Store(W, m),
           NEW u \in UserID
    PROVE  Stored(u)' = Stored(u) \cup (IF u \in W THEN {m.id} ELSE {})
<1> DEFINE r == [m EXCEPT !.to = u, !.group = NoName]
<1>1. r \in Message /\ r.to = u /\ r.id = m.id /\ IsRouted(r)
  BY DEF Message, IsRouted
<1>2. offlineMessages'[u] = IF u \in W THEN Append(offlineMessages[u], r) ELSE offlineMessages[u]
  BY DEF Store
<1> HIDE DEF r
<1>3. offlineMessages[u] \in Seq(Message)
  BY DEF TypeOK
<1>4. Append(offlineMessages[u], r) = offlineMessages[u] \o <<r>> /\ <<r>> \in Seq(Message)
  BY <1>1, <1>3, AppendIsConcat
<1>5. CopiesFor(u, <<r>>) = {m.id}
  BY <1>1, CopiesForSingle
<1>6. CopiesFor(u, offlineMessages[u] \o <<r>>)
          = CopiesFor(u, offlineMessages[u]) \cup CopiesFor(u, <<r>>)
  BY <1>3, <1>4, CopiesForConcat
<1> QED BY <1>2, <1>4, <1>5, <1>6 DEF Stored

LEMMA RouteCopies ==
    ASSUME TypeOK, RegistryInv, ioThread = "running",
           NEW R \in SUBSET UserID, NEW m \in Message, IsRouted(m), m.id = lastID + 1,
           RouteMessage(R, m) \/ RouteFile(R, m), UNCHANGED wire
    PROVE  \E W \in SUBSET UserID : CopiesRouted(R, W)
<1> DEFINE W == IF RouteMessage(R, m) THEN R \ Online(R) ELSE {}
           out == [x \in Session |-> Copies({u \in R : clients[u] = x}, m)]
<1>1. /\ Send(out) /\ lastID' = lastID + 1
      /\ accepted' = accepted \cup {<<lastID + 1, u>> : u \in Online(R) \cup W}
  <2>1. Forward(R, m) /\ lastID' = m.id
    BY DEF RouteMessage, RouteFile, Accept
  <2>2. CASE RouteMessage(R, m)
    <3>1. R = Online(R) \cup W
      BY <2>2 DEF Online
    <3>2. accepted' = accepted \cup {<<lastID + 1, u>> : u \in R}
      BY <2>2 DEF RouteMessage, Accept
    <3> HIDE DEF W
    <3> QED BY <2>1, <3>1, <3>2 DEF Forward
  <2>3. CASE ~RouteMessage(R, m)
    <3>1. Online(R) = Online(R) \cup W
      BY <2>3
    <3>2. accepted' = accepted \cup {<<lastID + 1, u>> : u \in Online(R)}
      BY <2>3 DEF RouteFile, Accept
    <3> HIDE DEF W
    <3> QED BY <2>1, <3>1, <3>2 DEF Forward
  <2> QED BY <2>2, <2>3
<1>2. W \in SUBSET UserID /\ W \cap Online(R) = {}
  OBVIOUS
<1>3. \A u \in Online(R) : Stored(u) = {}
  <2>1. \A u \in Online(R) : offlineMessages[u] = <<>>
    BY DEF RegistryInv, OfflineOnlyWhenAbsent, Online
  <2> QED BY <2>1, CopiesForEmpty DEF Stored
<1>4. ASSUME NEW u \in UserID
      PROVE  Stored(u)' = Stored(u) \cup (IF u \in W THEN {lastID + 1} ELSE {})
  <2>1. CASE RouteMessage(R, m)
    <3>1. Store(W, m)
      BY <2>1 DEF RouteMessage
    <3> HIDE DEF W
    <3> QED BY <1>2, <3>1, StoreCopies
  <2>2. CASE ~RouteMessage(R, m)
    BY <2>2 DEF RouteFile, Stored
  <2> QED BY <2>1, <2>2
<1>5. ASSUME NEW x \in Session
      PROVE  /\ out[x] \in Seq(Message)
             /\ \A u \in UserID : CopiesFor(u, out[x])
                                 = IF u \in R /\ clients[u] = x THEN {lastID + 1} ELSE {}
  <2> DEFINE At == {u \in R : clients[u] = x}
  <2>1. At \in SUBSET UserID /\ out[x] = Copies(At, m)
    OBVIOUS
  <2>2. \A u \in UserID : u \in At <=> u \in R /\ clients[u] = x
    OBVIOUS
  <2> HIDE DEF At, out
  <2>3. out[x] \in Seq(Message)
    BY <2>1, CopiesType
  <2>4. \A u \in UserID : CopiesFor(u, out[x]) = IF u \in At THEN {lastID + 1} ELSE {}
    BY <2>1, CopiesForCopies
  <2> QED BY <2>2, <2>3, <2>4
<1>6. out \in [Session -> Seq(Message)]
  BY <1>5
<1> HIDE DEF out, W
<1>7. ASSUME NEW x \in Session, NEW u \in UserID
      PROVE  Queued(x, u)' = Queued(x, u)
                   \cup (IF u \in R /\ clients[u] = x THEN {lastID + 1} ELSE {})
  BY <1>1, <1>5, <1>6, SendCopies
<1>8. CopiesRouted(R, W)
  BY <1>1, <1>2, <1>3, <1>4, <1>7 DEF CopiesRouted, Sent
<1> QED BY <1>2, <1>8

\* The front of the queue moves to the wire.  Its number occurs once in the queue.
LEMMA WriteCopies ==
    ASSUME TypeOK, NoStalledConnection, OrderInv, NEW s \in Session, WriteHandler(s)
    PROVE  CopiesStay \/ \E u \in UserID, id \in Nat : CopySent(s, u, id)
<1> DEFINE m == Head(writeQueue[s])
           rest == Tail(writeQueue[s])
<1>1. writeQueue[s] \in Seq(Message) /\ writeQueue[s] # <<>> /\ wire[s] \in Seq(Message)
  BY DEF WriteHandler, NoStalledConnection, TypeOK
<1>2. m \in Message /\ rest \in Seq(Message) /\ writeQueue[s] = <<m>> \o rest /\ m = writeQueue[s][1]
      /\ Len(writeQueue[s]) \in Nat /\ Len(rest) = Len(writeQueue[s]) - 1
      /\ \A i \in 1..Len(rest) : rest[i] = writeQueue[s][i + 1]
  BY <1>1, HeadTailProperties
<1>3. /\ writeQueue' = [writeQueue EXCEPT ![s] = rest]
      /\ wire' = [wire EXCEPT ![s] = IF IsRouted(m) THEN Append(wire[s], m) ELSE wire[s]]
      /\ UNCHANGED <<offlineMessages, lastID, accepted>>
  BY DEF WriteHandler, routerVars
<1> HIDE DEF m, rest
<1>4. Before(<<m>>, rest) /\ <<m>> \in Seq(Message)
  <2>1. Ordered(writeQueue[s])
    BY DEF OrderInv, FifoPerConnection
  <2>2. <<m>> \in Seq(Message) /\ Len(<<m>>) = 1 /\ <<m>>[1] = m
    BY <1>2
  <2>3. \A i \in 1..Len(rest) : 1 < i + 1 /\ 1 \in 1..Len(writeQueue[s]) /\ i + 1 \in 1..Len(writeQueue[s])
    BY <1>2
  <2>4. \A i \in 1..Len(rest) : Precedes(m, rest[i])
    BY <1>2, <2>1, <2>3 DEF Ordered
  <2> QED BY <2>2, <2>4 DEF Before
<1>5. ASSUME NEW x \in Session, x # s
      PROVE  writeQueue'[x] = writeQueue[x] /\ wire'[x] = wire[x]
  BY <1>3, <1>5 DEF TypeOK
<1>6. writeQueue'[s] = rest /\ wire'[s] = IF IsRouted(m) THEN Append(wire[s], m) ELSE wire[s]
  BY <1>3 DEF TypeOK
<1>7. ASSUME NEW u \in UserID
      PROVE  /\ Queued(s, u) = CopiesFor(u, <<m>>) \cup Queued(s, u)'
             /\ CopiesFor(u, <<m>>) \cap Queued(s, u)' = {}
             /\ Sent(s, u)' = Sent(s, u) \cup CopiesFor(u, <<m>>)
  <2>1. CopiesFor(u, writeQueue[s]) = CopiesFor(u, <<m>>) \cup CopiesFor(u, rest)
    <3>1. CopiesFor(u, <<m>> \o rest) = CopiesFor(u, <<m>>) \cup CopiesFor(u, rest)
      BY <1>2, <1>4, CopiesForConcat
    <3> QED BY <1>2, <3>1
  <2>2. CopiesFor(u, <<m>>) \cap CopiesFor(u, rest) = {}
    BY <1>2, <1>4, BeforeDisjoint
  <2>3. CASE IsRouted(m)
    <3>1. wire'[s] = wire[s] \o <<m>>
      BY <1>1, <1>2, <1>6, <2>3, AppendIsConcat
    <3>2. CopiesFor(u, wire[s] \o <<m>>) = CopiesFor(u, wire[s]) \cup CopiesFor(u, <<m>>)
      BY <1>1, <1>4, CopiesForConcat
    <3> QED BY <1>6, <2>1, <2>2, <3>1, <3>2 DEF Queued, Sent
  <2>4. CASE ~IsRouted(m)
    <3>1. CopiesFor(u, <<m>>) = {}
      BY <1>2, <2>4, CopiesForSingle
    <3> QED BY <1>6, <2>1, <2>2, <2>4, <3>1 DEF Queued, Sent
  <2> QED BY <2>3, <2>4
<1>8. \A u \in UserID : Stored(u)' = Stored(u)
  BY <1>3 DEF Stored
<1>9. \A x \in Session, u \in UserID : x # s => Queued(x, u)' = Queued(x, u) /\ Sent(x, u)' = Sent(x, u)
  BY <1>5 DEF Queued, Sent
<1>10. CASE ~IsRouted(m)
  <2>1. \A u \in UserID : CopiesFor(u, <<m>>) = {}
    BY <1>2, <1>10, CopiesForSingle
  <2>2. CopiesStay
    BY <1>3, <1>7, <1>8, <1>9, <2>1 DEF CopiesStay
  <2> QED BY <2>2
<1>11. CASE IsRouted(m)
  <2>1. m.to \in UserID /\ m.id \in Nat
    <3>1. AddressedTo(writeQueue[s], identities[s])
      BY DEF OrderInv, OnlyToItsAddressee
    <3>2. 1 \in 1..Len(writeQueue[s])
      BY <1>1
    <3>3. m.to \in identities[s]
      BY <1>2, <1>11, <3>1, <3>2 DEF AddressedTo
    <3> QED BY <1>2, <3>3 DEF TypeOK, Message
  <2>2. \A u \in UserID : CopiesFor(u, <<m>>) = IF u = m.to THEN {m.id} ELSE {}
    BY <1>2, <1>11, CopiesForSingle
  <2>3. m.id \in Queued(s, m.to)
    BY <1>7, <2>1, <2>2
  <2>4. ASSUME NEW x \in Session, NEW u \in UserID
        PROVE  /\ Queued(x, u)' = Queued(x, u) \ (IF x = s /\ u = m.to THEN {m.id} ELSE {})
               /\ Sent(x, u)' = Sent(x, u) \cup (IF x = s /\ u = m.to THEN {m.id} ELSE {})
    BY <1>7, <1>9, <2>2
  <2>5. CopySent(s, m.to, m.id)
    BY <1>3, <1>8, <2>3, <2>4 DEF CopySent
  <2> QED BY <2>1, <2>5
<1> QED BY <1>10, <1>11

LEMMA CopySteps ==
    ASSUME TypeOK, NoStalledConnection, RegistryInv, OrderInv, [Next]_vars
    PROVE  \/ CopiesStay
           \/ \E R, W \in SUBSET UserID : CopiesRouted(R, W)
           \/ \E s \in Session, u \in UserID : CopiesFlushed(s, u)
           \/ \E s \in Session, u \in UserID, id \in Nat : CopySent(s, u, id)
<1> DEFINE Effect == \/ CopiesStay
                     \/ \E R, W \in SUBSET UserID : CopiesRouted(R, W)
                     \/ \E s \in Session, u \in UserID : CopiesFlushed(s, u)
                     \/ \E s \in Session, u \in UserID, id \in Nat : CopySent(s, u, id)
<1>1. ASSUME UNCHANGED <<writeQueue, wire, offlineMessages, lastID, accepted>>
      PROVE  CopiesStay
  BY <1>1 DEF CopiesStay, Stored, Queued, Sent
<1>2. ASSUME NEW s \in Session, HandleRequest(s) PROVE Effect
  <2>1. CASE /\ UNCHANGED <<writeQueue, writing>> \/ SendTo(s, <<Reply>>)
             /\ UNCHANGED <<offlineMessages, lastID, accepted, wire>>
    <3>1. CASE SendTo(s, <<Reply>>)
      <4>1. <<Reply>> \in Seq(Message)
        BY ReplyIsMessage
      <4>2. ASSUME NEW x \in Session, NEW u \in UserID
            PROVE  Queued(x, u)' = Queued(x, u)
        <5>1. Queued(x, u)' = Queued(x, u) \cup (IF x = s THEN CopiesFor(u, <<Reply>>) ELSE {})
          BY <3>1, <4>1, SendToCopies
        <5>2. CopiesFor(u, <<Reply>>) = {}
          BY ReplyIsNoCopy
        <5> QED BY <5>1, <5>2
      <4> QED BY <2>1, <4>2 DEF CopiesStay, Stored, Sent
    <3> QED BY <1>1, <2>1, <3>1
  <2>2. ASSUME NEW u \in UserID, HandleAuthLogin(s, u), ioThread' = "running" PROVE Effect
    BY <2>2, LoginCopies
  <2>3. ASSUME NEW R \in SUBSET UserID, NEW m \in Message, IsRouted(m), m.id = lastID + 1,
               RouteMessage(R, m) \/ RouteFile(R, m), Routing(s)
        PROVE  Effect
    <3>1. ioThread = "running" /\ UNCHANGED wire
      BY <1>2, <2>3, RequestRegistry DEF Routing
    <3> QED BY <2>3, <3>1, RouteCopies
  <2> HIDE DEF Effect
  <2> QED BY <1>2, <2>1, <2>2, <2>3, RequestRouting
<1>3. ASSUME NEW s \in Session, WriteHandler(s) PROVE Effect
  BY <1>3, WriteCopies
<1>4. ASSUME NEW s \in Session, \/ AcceptConnection(s) \/ PeerLeaves(s)
                                \/ ReadError(s) \/ WriteError(s)
      PROVE  Effect
  <2>1. UNCHANGED <<writeQueue, wire, offlineMessages, lastID, accepted>>
    BY <1>4 DEF AcceptConnection, PeerLeaves, ReadError, WriteError, routerVars, sessionVars
  <2> QED BY <1>1, <2>1
<1>5. CASE UNCHANGED vars
  BY <1>1, <1>5 DEF vars, routerVars, sessionVars
<1> QED BY <1>2, <1>3, <1>4, <1>5 DEF Next

-----------------------------------------------------------------------------
(* Every copy at one place.  Two connections never hold copies of the same
   message for the same user, and the copies that exist are those the router
   took charge of.                                                            *)

OneConnection ==
    \A s, t \in Session, u \in UserID :
        s # t => (Queued(s, u) \cup Sent(s, u)) \cap (Queued(t, u) \cup Sent(t, u)) = {}

Accounted ==
    \A u \in UserID, id \in Nat :
        <<id, u>> \in accepted
            <=> id \in Stored(u) \/ \E x \in Session : id \in Queued(x, u) \/ id \in Sent(x, u)

CopiesInv == OneConnection /\ Accounted

LEMMA CopiesInit == Init => CopiesInv
<1> SUFFICES ASSUME Init PROVE CopiesInv
  OBVIOUS
<1>1. /\ \A u \in UserID : Stored(u) = {}
      /\ \A x \in Session, u \in UserID : Queued(x, u) = {} /\ Sent(x, u) = {}
  BY CopiesForEmpty DEF Init, Stored, Queued, Sent
<1>2. accepted = {}
  BY DEF Init
<1> QED BY <1>1, <1>2 DEF CopiesInv, OneConnection, Accounted

\* What the order of the copies says about their sets.
LEMMA CopiesApart ==
    ASSUME TypeOK, OrderInv, NEW u \in UserID
    PROVE  /\ Stored(u) \subseteq 0..lastID
           /\ \A x \in Session : /\ Queued(x, u) \subseteq 0..lastID
                                /\ Sent(x, u) \subseteq 0..lastID
                                /\ (Queued(x, u) \cup Sent(x, u)) \cap Stored(u) = {}
<1>1. offlineMessages[u] \in Seq(Message) /\ Bounded(offlineMessages[u], lastID) /\ lastID \in Nat
  BY DEF TypeOK, OrderInv, StoreInv, CountInv
<1>2. Stored(u) \subseteq 0..lastID
  BY <1>1, CopiesForBounded DEF Stored
<1>3. ASSUME NEW x \in Session
      PROVE  /\ Queued(x, u) \subseteq 0..lastID /\ Sent(x, u) \subseteq 0..lastID
             /\ (Queued(x, u) \cup Sent(x, u)) \cap Stored(u) = {}
  <2>1. /\ writeQueue[x] \in Seq(Message) /\ Bounded(writeQueue[x], lastID)
        /\ wire[x] \in Seq(Message) /\ Bounded(wire[x], lastID)
        /\ Before(writeQueue[x], offlineMessages[u]) /\ Before(wire[x], offlineMessages[u])
    BY DEF TypeOK, OrderInv, CountInv, StoreInv
  <2>2. Queued(x, u) \subseteq 0..lastID /\ Sent(x, u) \subseteq 0..lastID
    BY <1>1, <2>1, CopiesForBounded DEF Queued, Sent
  <2>3. Queued(x, u) \cap Stored(u) = {}
    BY <1>1, <2>1, BeforeDisjoint DEF Queued, Stored
  <2>4. Sent(x, u) \cap Stored(u) = {}
    BY <1>1, <2>1, BeforeDisjoint DEF Sent, Stored
  <2> QED BY <2>2, <2>3, <2>4
<1> QED BY <1>2, <1>3

LEMMA CopiesNext ==
    ASSUME TypeOK, NoStalledConnection, RegistryInv, OrderInv, CopiesInv, [Next]_vars
    PROVE  CopiesInv'
<1> DEFINE OnLine(x, u) == Queued(x, u) \cup Sent(x, u)
<1>1. /\ \A u \in UserID : Stored(u) \subseteq 0..lastID
      /\ \A x \in Session, u \in UserID : /\ Queued(x, u) \subseteq 0..lastID
                                          /\ Sent(x, u) \subseteq 0..lastID
                                          /\ (Queued(x, u) \cup Sent(x, u)) \cap Stored(u) = {}
  BY CopiesApart
<1>2. lastID \in Nat /\ lastID + 1 \notin 0..lastID
  BY DEF TypeOK
<1>3. CASE CopiesStay
  BY <1>3 DEF CopiesStay, CopiesInv, OneConnection, Accounted
<1>4. ASSUME NEW R \in SUBSET UserID, NEW W \in SUBSET UserID, CopiesRouted(R, W)
      PROVE  CopiesInv'
  <2>1. OneConnection'
    BY <1>1, <1>2, <1>4 DEF CopiesRouted, CopiesInv, OneConnection
  <2>2. ASSUME NEW u \in UserID, NEW id \in Nat
        PROVE  <<id, u>> \in accepted'
                  <=> \/ id \in Stored(u)'
                      \/ \E x \in Session : id \in Queued(x, u)' \/ id \in Sent(x, u)'
    <3>1. <<id, u>> \in accepted'
            <=> <<id, u>> \in accepted \/ (id = lastID + 1 /\ u \in Online(R) \cup W)
      BY <1>4 DEF CopiesRouted
    <3>2. id \in Stored(u)' <=> id \in Stored(u) \/ (id = lastID + 1 /\ u \in W)
      BY <1>4 DEF CopiesRouted
    <3>3. \A x \in Session :
             /\ id \in Queued(x, u)'
                   <=> id \in Queued(x, u) \/ (id = lastID + 1 /\ u \in R /\ clients[u] = x)
             /\ id \in Sent(x, u)' <=> id \in Sent(x, u)
      BY <1>4 DEF CopiesRouted
    <3>4. u \in Online(R) <=> u \in R /\ \E x \in Session : clients[u] = x
      BY ServerAssumption DEF Online, TypeOK
    <3>5. <<id, u>> \in accepted
            <=> id \in Stored(u) \/ \E x \in Session : id \in Queued(x, u) \/ id \in Sent(x, u)
      BY DEF CopiesInv, Accounted
    <3> QED BY <3>1, <3>2, <3>3, <3>4, <3>5
  <2> QED BY <2>1, <2>2 DEF CopiesInv, Accounted
<1>5. ASSUME NEW s \in Session, NEW v \in UserID, CopiesFlushed(s, v)
      PROVE  CopiesInv'
  <2>1. OneConnection'
    BY <1>1, <1>5 DEF CopiesFlushed, CopiesInv, OneConnection
  <2>2. ASSUME NEW u \in UserID, NEW id \in Nat
        PROVE  /\ UNCHANGED accepted
               /\ \/ id \in Stored(u)
                  \/ \E x \in Session : id \in Queued(x, u) \/ id \in Sent(x, u)
                  <=> \/ id \in Stored(u)'
                      \/ \E x \in Session : id \in Queued(x, u)' \/ id \in Sent(x, u)'
    <3>1. CASE u = v
      BY <1>5, <3>1 DEF CopiesFlushed
    <3>2. CASE u # v
      BY <1>5, <3>2 DEF CopiesFlushed
    <3> QED BY <3>1, <3>2
  <2>3. Accounted'
    BY <2>2 DEF CopiesInv, Accounted
  <2> QED BY <2>1, <2>3 DEF CopiesInv
<1>6. ASSUME NEW s \in Session, NEW v \in UserID, NEW n \in Nat, CopySent(s, v, n)
      PROVE  CopiesInv'
  <2>1. \A x \in Session, u \in UserID :
            Queued(x, u)' \cup Sent(x, u)' = Queued(x, u) \cup Sent(x, u)
    BY <1>6 DEF CopySent
  <2>2. OneConnection'
    BY <2>1 DEF CopiesInv, OneConnection
  <2>3. \A u \in UserID : Stored(u)' = Stored(u) /\ UNCHANGED accepted
    BY <1>6 DEF CopySent
  <2>4. ASSUME NEW u \in UserID, NEW id \in Nat
        PROVE  (\E x \in Session : id \in Queued(x, u) \/ id \in Sent(x, u))
                  <=> \E x \in Session : id \in Queued(x, u)' \/ id \in Sent(x, u)'
    BY <2>1
  <2>5. Accounted'
    BY <2>3, <2>4 DEF CopiesInv, Accounted
  <2> QED BY <2>2, <2>5 DEF CopiesInv
<1> QED BY <1>3, <1>4, <1>5, <1>6, CopySteps

LEMMA CopiesInvariant == Spec => []CopiesInv
<1>1. TypeOK /\ NoStalledConnection /\ RegistryInv /\ OrderInv /\ CopiesInv /\ [Next]_vars
      => CopiesInv'
  BY CopiesNext
<1> QED BY <1>1, CopiesInit, TypeCorrect, ConnectionsNeverStall, RegistryInvariant,
           OrderInvariant, PTL DEF Spec

-----------------------------------------------------------------------------
(* The refinement. *)

LEMMA RelayInit == Init => Relay!Init
<1> SUFFICES ASSUME Init PROVE Relay!Init
  OBVIOUS
<1>1. \A u \in UserID : CopiesFor(u, offlineMessages[u]) = {}
  BY CopiesForEmpty DEF Init
<1>2. \A x \in Session, u \in UserID : CopiesFor(u, writeQueue[x]) = {} /\ CopiesFor(u, wire[x]) = {}
  BY CopiesForEmpty DEF Init
<1>3. /\ \A u \in UserID : UNION {CopiesFor(u, writeQueue[x]) : x \in Session} = {}
      /\ \A u \in UserID : UNION {CopiesFor(u, wire[x]) : x \in Session} = {}
  BY <1>2
<1>4. lastID = 0
  BY DEF Init
<1> QED BY <1>1, <1>3, <1>4 DEF Relay!Init, OnConnections

\* The variables of MessageRelay.
RelayVars == <<[u \in UserID |-> CopiesFor(u, offlineMessages[u])],
               OnConnections(writeQueue), OnConnections(wire), lastID>>

LEMMA RelayRoute ==
    ASSUME TypeOK, NEW R \in SUBSET UserID, NEW W \in SUBSET UserID, CopiesRouted(R, W)
    PROVE  Relay!Route(Online(R), W)
<1>1. /\ W \cap Online(R) = {} /\ lastID' = lastID + 1 /\ Online(R) \in SUBSET UserID
      /\ \A u \in Online(R) : Stored(u) = {}
  BY DEF CopiesRouted, Online
<1>2. \A u \in UserID : Stored(u)' = IF u \in W THEN Stored(u) \cup {lastID + 1} ELSE Stored(u)
  BY DEF CopiesRouted
<1>3. ASSUME NEW u \in UserID
      PROVE  /\ OnConnections(writeQueue)'[u] = IF u \in Online(R)
                                                THEN OnConnections(writeQueue)[u] \cup {lastID + 1}
                                                ELSE OnConnections(writeQueue)[u]
             /\ OnConnections(wire)'[u] = OnConnections(wire)[u]
  <2>1. /\ OnConnections(writeQueue)[u] = UNION {Queued(x, u) : x \in Session}
        /\ OnConnections(writeQueue)'[u] = UNION {Queued(x, u)' : x \in Session}
        /\ OnConnections(wire)[u] = UNION {Sent(x, u) : x \in Session}
        /\ OnConnections(wire)'[u] = UNION {Sent(x, u)' : x \in Session}
    BY DEF OnConnections, Queued, Sent
  <2>2. \A x \in Session :
           /\ Queued(x, u)' = Queued(x, u) \cup (IF u \in R /\ clients[u] = x THEN {lastID + 1} ELSE {})
           /\ Sent(x, u)' = Sent(x, u)
    BY DEF CopiesRouted
  <2>3. u \in Online(R) <=> u \in R /\ \E x \in Session : clients[u] = x
    BY ServerAssumption DEF Online, TypeOK
  <2>4. UNION {Sent(x, u)' : x \in Session} = UNION {Sent(x, u) : x \in Session}
    BY <2>2
  <2>5. UNION {Queued(x, u)' : x \in Session}
           = (UNION {Queued(x, u) : x \in Session}) \cup (IF u \in Online(R) THEN {lastID + 1} ELSE {})
    BY <2>2, <2>3
  <2> QED BY <2>1, <2>4, <2>5
<1> QED BY <1>1, <1>2, <1>3 DEF Relay!Route, Relay!Gain, OnConnections, Stored

LEMMA RelayFlush ==
    ASSUME NEW s \in Session, NEW v \in UserID, CopiesFlushed(s, v)
    PROVE  Relay!Flush(v)
<1>1. \A u \in UserID : Stored(u)' = IF u = v THEN {} ELSE Stored(u)
  BY DEF CopiesFlushed
<1>2. ASSUME NEW u \in UserID
      PROVE  /\ OnConnections(writeQueue)'[u] = IF u = v
                                                THEN OnConnections(writeQueue)[u] \cup Stored(v)
                                                ELSE OnConnections(writeQueue)[u]
             /\ OnConnections(wire)'[u] = OnConnections(wire)[u]
  <2>1. /\ OnConnections(writeQueue)[u] = UNION {Queued(x, u) : x \in Session}
        /\ OnConnections(writeQueue)'[u] = UNION {Queued(x, u)' : x \in Session}
        /\ OnConnections(wire)[u] = UNION {Sent(x, u) : x \in Session}
        /\ OnConnections(wire)'[u] = UNION {Sent(x, u)' : x \in Session}
    BY DEF OnConnections, Queued, Sent
  <2>2. \A x \in Session :
           /\ Queued(x, u)' = Queued(x, u) \cup (IF x = s /\ u = v THEN Stored(v) ELSE {})
           /\ Sent(x, u)' = Sent(x, u)
    BY DEF CopiesFlushed
  <2>3. UNION {Sent(x, u)' : x \in Session} = UNION {Sent(x, u) : x \in Session}
    BY <2>2
  <2>4. UNION {Queued(x, u)' : x \in Session}
           = (UNION {Queued(x, u) : x \in Session}) \cup (IF u = v THEN Stored(v) ELSE {})
    BY <2>2
  <2> QED BY <2>1, <2>3, <2>4
<1>3. UNCHANGED lastID
  BY DEF CopiesFlushed
<1> QED BY <1>1, <1>2, <1>3 DEF Relay!Flush, OnConnections, Stored

\* Removing a number from one connection's queue removes it from the user's
\* messages, because no other connection has it.
LEMMA RelayTransmit ==
    ASSUME OneConnection, NEW s \in Session, NEW v \in UserID, NEW id \in Nat, CopySent(s, v, id)
    PROVE  /\ id \in OnConnections(writeQueue)[v]
           /\ Relay!Transmit(v, id)
<1>1. (\A u \in UserID : Stored(u)' = Stored(u)) /\ UNCHANGED lastID /\ id \in Queued(s, v)
  BY DEF CopySent
<1>2. \A x \in Session : x # s => id \notin Queued(x, v)
  BY <1>1 DEF OneConnection
<1>3. ASSUME NEW u \in UserID
      PROVE  /\ OnConnections(writeQueue)[u] = UNION {Queued(x, u) : x \in Session}
             /\ OnConnections(writeQueue)'[u] = UNION {Queued(x, u)' : x \in Session}
             /\ OnConnections(wire)[u] = UNION {Sent(x, u) : x \in Session}
             /\ OnConnections(wire)'[u] = UNION {Sent(x, u)' : x \in Session}
  BY DEF OnConnections, Queued, Sent
<1>4. ASSUME NEW u \in UserID
      PROVE  /\ OnConnections(writeQueue)'[u] = IF u = v
                                                THEN OnConnections(writeQueue)[u] \ {id}
                                                ELSE OnConnections(writeQueue)[u]
             /\ OnConnections(wire)'[u] = IF u = v
                                          THEN OnConnections(wire)[u] \cup {id}
                                          ELSE OnConnections(wire)[u]
  <2>1. \A x \in Session :
           /\ Queued(x, u)' = Queued(x, u) \ (IF x = s /\ u = v THEN {id} ELSE {})
           /\ Sent(x, u)' = Sent(x, u) \cup (IF x = s /\ u = v THEN {id} ELSE {})
    BY DEF CopySent
  <2>2. UNION {Sent(x, u)' : x \in Session}
           = (UNION {Sent(x, u) : x \in Session}) \cup (IF u = v THEN {id} ELSE {})
    BY <2>1
  <2>3. UNION {Queued(x, u)' : x \in Session}
           = (UNION {Queued(x, u) : x \in Session}) \ (IF u = v THEN {id} ELSE {})
    BY <1>2, <2>1
  <2> QED BY <1>3, <2>2, <2>3
<1>5. id \in OnConnections(writeQueue)[v]
  BY <1>1, <1>3
<1> QED BY <1>1, <1>4, <1>5 DEF Relay!Transmit, OnConnections, Stored

LEMMA RelayStay == CopiesStay => UNCHANGED RelayVars
<1> SUFFICES ASSUME CopiesStay PROVE UNCHANGED RelayVars
  OBVIOUS
<1>1. \A u \in UserID : /\ CopiesFor(u, offlineMessages[u])' = CopiesFor(u, offlineMessages[u])
                        /\ \A x \in Session :
                              /\ CopiesFor(u, writeQueue[x])' = CopiesFor(u, writeQueue[x])
                              /\ CopiesFor(u, wire[x])' = CopiesFor(u, wire[x])
  BY DEF CopiesStay, Stored, Queued, Sent
<1>2. UNCHANGED lastID
  BY DEF CopiesStay
<1> QED BY <1>1, <1>2 DEF RelayVars, OnConnections

LEMMA RelayNext ==
    ASSUME TypeOK, NoStalledConnection, RegistryInv, OrderInv, CopiesInv, [Next]_vars
    PROVE  [Relay!Next]_RelayVars
<1>1. CASE CopiesStay
  BY <1>1, RelayStay
<1>2. ASSUME NEW R \in SUBSET UserID, NEW W \in SUBSET UserID, CopiesRouted(R, W)
      PROVE  Relay!Next
  <2>1. Relay!Route(Online(R), W) /\ Online(R) \in SUBSET UserID
    BY <1>2, RelayRoute DEF Online
  <2> QED BY <2>1 DEF Relay!Next
<1>3. ASSUME NEW s \in Session, NEW v \in UserID, CopiesFlushed(s, v)
      PROVE  Relay!Next
  BY <1>3, RelayFlush DEF Relay!Next
<1>4. ASSUME NEW s \in Session, NEW v \in UserID, NEW id \in Nat, CopySent(s, v, id)
      PROVE  Relay!Next
  <2>1. id \in OnConnections(writeQueue)[v] /\ Relay!Transmit(v, id)
    BY <1>4, RelayTransmit DEF CopiesInv
  <2> QED BY <2>1 DEF Relay!Next
<1> QED BY <1>1, <1>2, <1>3, <1>4, CopySteps

(* The server implements MessageRelay: every step of any handler is a step of
   the relay or changes no copy.  In particular a message routed to a listed
   user never overtakes stored ones, a login flushes all or nothing, and a copy
   given to a connection is transmitted once and never stored again.           *)
THEOREM ServerImplementsRelay == Spec => ImplementsRelay
<1>1. TypeOK /\ NoStalledConnection /\ RegistryInv /\ OrderInv /\ CopiesInv /\ [Next]_vars
      => [Relay!Next]_RelayVars
  BY RelayNext
<1> QED BY <1>1, RelayInit, TypeCorrect, ConnectionsNeverStall, RegistryInvariant, OrderInvariant,
           CopiesInvariant, PTL DEF Spec, ImplementsRelay, Relay!Spec, RelayVars

-----------------------------------------------------------------------------
(* Accounting: from sets of copies to places. *)

\* The place of a copy is a connection or the store, and a position in its line.
LEMMA PlaceOf ==
    ASSUME NEW id, NEW u, NEW x, NEW i
    PROVE  <<x, i>> \in PlacesOf(id, u)
              <=> /\ x \in Session \cup {NoSession} /\ i \in 1..Len(Line(x, u))
                  /\ IsCopy(Line(x, u)[i], id, u)
BY DEF PlacesOf

LEMMA LineFacts ==
    ASSUME TypeOK, OrderInv, NEW u \in UserID, NEW x \in Session \cup {NoSession}
    PROVE  /\ Line(x, u) \in Seq(Message) /\ Ordered(Line(x, u))
           /\ x = NoSession => CopiesFor(u, Line(x, u)) = Stored(u)
           /\ x # NoSession => CopiesFor(u, Line(x, u)) = Sent(x, u) \cup Queued(x, u)
<1>1. CASE x = NoSession
  BY <1>1 DEF Line, TypeOK, OrderInv, StoreInv, Stored
<1>2. CASE x # NoSession
  <2>1. /\ x \in Session /\ wire[x] \in Seq(Message) /\ writeQueue[x] \in Seq(Message)
        /\ Line(x, u) = wire[x] \o writeQueue[x]
    BY <1>2 DEF TypeOK, Line
  <2>2. Ordered(wire[x]) /\ Ordered(writeQueue[x]) /\ Before(wire[x], writeQueue[x])
    BY <2>1 DEF OrderInv, FifoPerConnection
  <2>3. Line(x, u) \in Seq(Message) /\ Ordered(Line(x, u))
    BY <2>1, <2>2, ConcatProperties, OrderedConcat
  <2>4. CopiesFor(u, wire[x] \o writeQueue[x]) = CopiesFor(u, wire[x]) \cup CopiesFor(u, writeQueue[x])
    BY <2>1, CopiesForConcat
  <2> QED BY <1>2, <2>1, <2>3, <2>4 DEF Sent, Queued
<1> QED BY <1>1, <1>2

\* In one line a message occurs once for a user, and no two lines share one.
LEMMA OnePlace ==
    ASSUME TypeOK, OrderInv, CopiesInv, NEW u \in UserID, NEW id,
           NEW x, NEW i, NEW y, NEW j,
           <<x, i>> \in PlacesOf(id, u), <<y, j>> \in PlacesOf(id, u)
    PROVE  x = y /\ i = j
<1> DEFINE P == Line(x, u)
           Q == Line(y, u)
<1>1. /\ x \in Session \cup {NoSession} /\ i \in 1..Len(P) /\ IsCopy(P[i], id, u)
      /\ y \in Session \cup {NoSession} /\ j \in 1..Len(Q) /\ IsCopy(Q[j], id, u)
  BY PlaceOf
<1>2. P \in Seq(Message) /\ Ordered(P) /\ Q \in Seq(Message)
  BY <1>1, LineFacts
<1>3. id \in CopiesFor(u, P) /\ id \in CopiesFor(u, Q)
  BY <1>1, <1>2, CopiesForMember
<1>4. x = y
  <2>1. SUFFICES ASSUME x # y PROVE FALSE
    OBVIOUS
  <2>2. CASE x # NoSession /\ y # NoSession
    <3>1. id \in Sent(x, u) \cup Queued(x, u) /\ id \in Sent(y, u) \cup Queued(y, u)
      BY <1>1, <1>3, <2>2, LineFacts
    <3> QED BY <1>1, <2>1, <2>2, <3>1 DEF CopiesInv, OneConnection
  <2>3. CASE x = NoSession
    <3>1. y \in Session /\ id \in Stored(u) /\ id \in Sent(y, u) \cup Queued(y, u)
      BY <1>1, <1>3, <2>1, <2>3, LineFacts
    <3> QED BY <3>1, CopiesApart
  <2>4. CASE y = NoSession
    <3>1. x \in Session /\ id \in Stored(u) /\ id \in Sent(x, u) \cup Queued(x, u)
      BY <1>1, <1>3, <2>1, <2>4, LineFacts
    <3> QED BY <3>1, CopiesApart
  <2> QED BY <2>2, <2>3, <2>4
<1>5. i = j
  <2>1. /\ i \in 1..Len(P) /\ j \in 1..Len(P) /\ Ordered(P)
        /\ IsCopy(P[i], id, u) /\ IsCopy(P[j], id, u) /\ P[i] \in Message
    BY <1>1, <1>2, <1>4
  <2> HIDE DEF P
  <2>2. id \in Nat
    BY <2>1 DEF IsCopy, Message
  <2>3. ~(i < j) /\ ~(j < i)
    BY <2>1, <2>2 DEF Ordered, Precedes, IsCopy
  <2> QED BY <2>1, <2>3
<1> QED BY <1>4, <1>5

LEMMA SomePlace ==
    ASSUME TypeOK, OrderInv, CopiesInv, NEW u \in UserID, NEW id \in Nat
    PROVE  <<id, u>> \in accepted <=> \E x, i : <<x, i>> \in PlacesOf(id, u)
<1>1. ASSUME NEW x \in Session \cup {NoSession}
      PROVE  id \in CopiesFor(u, Line(x, u)) <=> \E i : <<x, i>> \in PlacesOf(id, u)
  <2>1. Line(x, u) \in Seq(Message)
    BY LineFacts
  <2>2. id \in CopiesFor(u, Line(x, u)) <=> \E i \in 1..Len(Line(x, u)) : IsCopy(Line(x, u)[i], id, u)
    BY <2>1, CopiesForMember
  <2> QED BY <2>2, PlaceOf
<1>2. NoSession \notin Session
  BY ServerAssumption
<1>3. id \in Stored(u) <=> id \in CopiesFor(u, Line(NoSession, u))
  BY LineFacts
<1>4. \A x \in Session : id \in CopiesFor(u, Line(x, u)) <=> id \in Queued(x, u) \/ id \in Sent(x, u)
  BY <1>2, LineFacts
<1>5. <<id, u>> \in accepted
        <=> id \in Stored(u) \/ \E x \in Session : id \in Queued(x, u) \/ id \in Sent(x, u)
  BY DEF CopiesInv, Accounted
<1>6. \A x, i : <<x, i>> \in PlacesOf(id, u) => x \in Session \cup {NoSession}
  BY PlaceOf
<1> QED BY <1>1, <1>3, <1>4, <1>5, <1>6

(* Every message the router took charge of exists at exactly one place for each
   addressee, and nothing else exists anywhere: no interleaving of routing, logins
   and failing connections loses or doubles a copy.                               *)
THEOREM NothingLostOrDoubled == Spec => []MessageAccounting
<1>1. TypeOK /\ OrderInv /\ CopiesInv => MessageAccounting
  <2> SUFFICES ASSUME TypeOK, OrderInv, CopiesInv, NEW id \in 1..MaxMessages, NEW u \in UserID
               PROVE  Cardinality(PlacesOf(id, u)) = IF <<id, u>> \in accepted THEN 1 ELSE 0
    BY DEF MessageAccounting
  <2>1. id \in Nat
    BY ServerAssumption
  <2>2. \A p \in PlacesOf(id, u) : p = <<p[1], p[2]>>
    BY DEF PlacesOf
  <2>3. CASE <<id, u>> \in accepted
    <3>1. PICK x, i : <<x, i>> \in PlacesOf(id, u)
      BY <2>1, <2>3, SomePlace
    <3>2. ASSUME NEW p \in PlacesOf(id, u) PROVE p = <<x, i>>
      <4>1. p = <<p[1], p[2]>> /\ <<p[1], p[2]>> \in PlacesOf(id, u)
        BY <2>2
      <4>2. p[1] = x /\ p[2] = i
        BY <3>1, <4>1, OnePlace
      <4> QED BY <4>1, <4>2
    <3>3. PlacesOf(id, u) = {<<x, i>>}
      BY <3>1, <3>2
    <3> QED BY <2>3, <3>3, FS_Singleton
  <2>4. CASE <<id, u>> \notin accepted
    <3>1. ASSUME NEW p \in PlacesOf(id, u) PROVE FALSE
      <4>1. <<p[1], p[2]>> \in PlacesOf(id, u)
        BY <2>2
      <4> QED BY <2>1, <2>4, <4>1, SomePlace
    <3>2. PlacesOf(id, u) = {}
      BY <3>1
    <3> QED BY <2>4, <3>2, FS_EmptySet
  <2> QED BY <2>3, <2>4
<1> QED BY <1>1, TypeCorrect, OrderInvariant, CopiesInvariant, PTL
=============================================================================
