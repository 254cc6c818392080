--------------------------- MODULE ChatWindowProofs ---------------------------
(***************************************************************************)
(* Proofs about ChatWindow, for any number of contacts, messages and       *)
(* restarts: what a chat shows are messages of its contact in the order of *)
(* the table, counters and badges agree with the table, and nothing that   *)
(* was shown or decrypted is taken back.  The inductive invariant is       *)
(* TypeOK with RowsInv, ChatInv, UnreadInv, ReadInv and BadgeInv.          *)
(***************************************************************************)
EXTENDS ChatWindow, PositionsProofs, FiniteSetTheorems, TLAPS

\* A message of the log l is filed under c: it is of that chat or, if it came from the
\* offline store, a group message that its sender's chat was given.
Filed(c, id, l) == l[id].chat = c \/ (l[id].chat \in Group /\ c \in User)

\* The rows of a table are messages of the log, in order and none twice.
Table(t, l) ==
    /\ \A i \in DOMAIN t : t[i].id \in 1..Len(l) /\ Filed(t[i].contact, t[i].id, l)
    /\ \A i, j \in DOMAIN t : i < j => t[i].id < t[j].id

\* The bubbles q are messages filed under c, in order and none twice, and if the table is
\* in use its rows.
Held(c, q, t, l, open) ==
    /\ \A i \in DOMAIN q : q[i] # 0 =>
          /\ q[i] \in 1..Len(l) /\ Filed(c, q[i], l)
          /\ \A j \in DOMAIN t : t[j].id = q[i] => t[j].contact = c
          /\ open => \E j \in DOMAIN t : t[j].id = q[i]
    /\ \A i, j \in DOMAIN q : i < j /\ q[i] # 0 /\ q[j] # 0 => q[i] < q[j]

RowsInv == Table(rows, messageLog)

\* The open chat is the one in the cache, and only a cached bubble has been decrypted.
ChatInv ==
    /\ \A c \in DOMAIN messageHistory : Held(c, messageHistory[c], rows, messageLog, isOpen)
    /\ currentContact = NoContact => currentMessages = <<>>
    /\ currentContact # NoContact =>
          /\ currentContact \in DOMAIN messageHistory
          /\ messageHistory[currentContact] = currentMessages
    /\ \A id \in opened : id # 0 /\ \E c \in DOMAIN messageHistory : id \in ToSet(messageHistory[c])

UnreadInv == isOpen => unreadCounts = getAllUnreadCounts

ReadInv ==
    isOpen => \A i \in DOMAIN rows :
        rows[i].contact = currentContact /\ ~rows[i].isRead => ~KeyFits(rows[i].id)

\* Until the server is lost a user has one row in the sidebar.
BadgeInv ==
    ~cleared =>
        \A i \in DOMAIN contactList : contactList[i].contact \in User =>
            /\ contactList[i].badge = unreadCounts[contactList[i].contact]
            /\ \A j \in DOMAIN contactList : contactList[j].contact = contactList[i].contact => i = j

WindowInv == TypeOK /\ RowsInv /\ ChatInv /\ UnreadInv /\ ReadInv /\ BadgeInv

-----------------------------------------------------------------------------
(* Tables, logs and bubbles. *)

LogEntry == [chat : Contact, isOwn : BOOLEAN]

SameRow(r, s) == r.contact = s.contact /\ r.id = s.id /\ r.isOwn = s.isOwn

LogGrows(l1, l2) == Len(l1) <= Len(l2) /\ \A i \in 1..Len(l1) : l2[i] = l1[i]

\* Rows may be marked; new ones are of messages later than n.
TableGrows(t1, t2, n) ==
    /\ Len(t1) <= Len(t2)
    /\ \A i \in 1..Len(t1) : SameRow(t2[i], t1[i])
    /\ \A i \in 1..Len(t2) : i > Len(t1) => t2[i].id > n

LEMMA TableKept ==
    ASSUME NEW t1 \in Seq(Row), NEW t2 \in Seq(Row), NEW l1 \in Seq(LogEntry),
           NEW l2 \in Seq(LogEntry), Table(t1, l1), LogGrows(l1, l2),
           TableGrows(t1, t2, Len(l1)), Len(t2) = Len(t1)
    PROVE  Table(t2, l2)
<1>1. DOMAIN t2 = DOMAIN t1 /\ DOMAIN t1 = 1..Len(t1) /\ Len(l1) \in Nat /\ Len(l2) \in Nat
  OBVIOUS
<1>2. \A i \in DOMAIN t1 : t2[i].contact = t1[i].contact /\ t2[i].id = t1[i].id
  BY <1>1 DEF TableGrows, SameRow
<1>3. \A i \in DOMAIN t1 : t1[i].id \in 1..Len(l1) /\ Filed(t1[i].contact, t1[i].id, l1)
  BY DEF Table
<1>4. \A i \in 1..Len(l1) : i \in 1..Len(l2) /\ l2[i] = l1[i]
  BY <1>1 DEF LogGrows
<1>5. \A i \in DOMAIN t2 : t2[i].id \in 1..Len(l2) /\ Filed(t2[i].contact, t2[i].id, l2)
  BY <1>1, <1>2, <1>3, <1>4 DEF Filed
<1>6. \A i, j \in DOMAIN t2 : i < j => t2[i].id < t2[j].id
  BY <1>1, <1>2 DEF Table
<1> QED BY <1>5, <1>6 DEF Table

LEMMA TableAdded ==
    ASSUME NEW t1 \in Seq(Row), NEW t2 \in Seq(Row), NEW l1 \in Seq(LogEntry),
           NEW l2 \in Seq(LogEntry), Table(t1, l1), LogGrows(l1, l2),
           TableGrows(t1, t2, Len(l1)), Len(t2) = Len(t1) + 1,
           t2[Len(t2)].id \in 1..Len(l2), Filed(t2[Len(t2)].contact, t2[Len(t2)].id, l2)
    PROVE  Table(t2, l2)
<1>1. /\ DOMAIN t1 = 1..Len(t1) /\ DOMAIN t2 = 1..Len(t2)
      /\ Len(l1) \in Nat /\ Len(l2) \in Nat /\ Len(t1) \in Nat /\ Len(t2) \in Nat
  OBVIOUS
<1>2. \A i \in DOMAIN t1 : t2[i].contact = t1[i].contact /\ t2[i].id = t1[i].id
  BY <1>1 DEF TableGrows, SameRow
<1>3. \A i \in DOMAIN t1 : t1[i].id \in 1..Len(l1) /\ Filed(t1[i].contact, t1[i].id, l1)
  BY DEF Table
<1>4. \A i \in 1..Len(l1) : i \in 1..Len(l2) /\ l2[i] = l1[i]
  BY <1>1 DEF LogGrows
<1>5. \A i \in DOMAIN t2 : i \in DOMAIN t1 \/ (i = Len(t2) /\ i > Len(t1))
  BY <1>1
<1>6. t2[Len(t2)].id > Len(l1)
  BY <1>1 DEF TableGrows
<1>7. \A i \in DOMAIN t2 : t2[i].id \in 1..Len(l2) /\ Filed(t2[i].contact, t2[i].id, l2)
  <2>1. \A i \in DOMAIN t1 : t2[i].id \in 1..Len(l2) /\ Filed(t2[i].contact, t2[i].id, l2)
    BY <1>2, <1>3, <1>4 DEF Filed
  <2> QED BY <1>5, <2>1
<1>8. ASSUME NEW i \in DOMAIN t2, NEW j \in DOMAIN t2, i < j PROVE t2[i].id < t2[j].id
  <2>1. i \in DOMAIN t1
    BY <1>1, <1>8
  <2>2. CASE j \in DOMAIN t1
    BY <1>2, <1>8, <2>1, <2>2 DEF Table
  <2>3. CASE j = Len(t2)
    <3>1. t2[i].id \in 1..Len(l1)
      BY <1>2, <1>3, <2>1
    <3>2. t2[j].id \in 1..Len(l2)
      BY <2>3
    <3> QED BY <1>1, <1>6, <2>3, <3>1, <3>2
  <2> QED BY <1>5, <2>2, <2>3
<1> QED BY <1>7, <1>8 DEF Table

\* Bubbles stay in order while the table is marked and grows.
LEMMA HeldGrows ==
    ASSUME NEW c, NEW q, NEW open,
           NEW t1 \in Seq(Row), NEW t2 \in Seq(Row), NEW l1 \in Seq(LogEntry),
           NEW l2 \in Seq(LogEntry), Held(c, q, t1, l1, open), LogGrows(l1, l2),
           TableGrows(t1, t2, Len(l1))
    PROVE  Held(c, q, t2, l2, open)
<1>1. /\ DOMAIN t1 = 1..Len(t1) /\ DOMAIN t2 = 1..Len(t2)
      /\ Len(l1) \in Nat /\ Len(l2) \in Nat /\ Len(t1) \in Nat /\ Len(t2) \in Nat
  OBVIOUS
<1>2. \A i \in 1..Len(l1) : i \in 1..Len(l2) /\ l2[i] = l1[i]
  BY <1>1 DEF LogGrows
<1>3. \A i \in DOMAIN t1 :
          i \in DOMAIN t2 /\ t2[i].contact = t1[i].contact /\ t2[i].id = t1[i].id
  BY <1>1 DEF TableGrows, SameRow
<1>4. ASSUME NEW i \in DOMAIN q, q[i] # 0
      PROVE  /\ q[i] \in 1..Len(l2) /\ Filed(c, q[i], l2)
             /\ \A j \in DOMAIN t2 : t2[j].id = q[i] => t2[j].contact = c
             /\ open => \E j \in DOMAIN t2 : t2[j].id = q[i]
  <2>1. q[i] \in 1..Len(l1) /\ Filed(c, q[i], l1)
    BY <1>4 DEF Held
  <2>2. q[i] \in 1..Len(l2) /\ Filed(c, q[i], l2)
    BY <1>2, <2>1 DEF Filed
  <2>3. ASSUME NEW j \in DOMAIN t2, t2[j].id = q[i] PROVE t2[j].contact = c
    <3>1. j \in DOMAIN t1
      <4>1. j \notin DOMAIN t1 => t2[j].id > Len(l1)
        BY <1>1 DEF TableGrows
      <4> QED BY <1>1, <2>1, <2>3, <4>1
    <3> QED BY <1>3, <1>4, <2>3, <3>1 DEF Held
  <2>4. ASSUME open PROVE \E j \in DOMAIN t2 : t2[j].id = q[i]
    <3>1. PICK j \in DOMAIN t1 : t1[j].id = q[i]
      BY <1>4, <2>4 DEF Held
    <3> QED BY <1>3, <3>1
  <2> QED BY <2>2, <2>3, <2>4
<1>5. \A i, j \in DOMAIN q : i < j /\ q[i] # 0 /\ q[j] # 0 => q[i] < q[j]
  BY DEF Held
<1> QED BY <1>4, <1>5 DEF Held

\* A new message is added to its chat.
LEMMA HeldNew ==
    ASSUME NEW c, NEW q \in Seq(Nat), NEW open, NEW t \in Seq(Row), NEW l \in Seq(LogEntry),
           NEW id \in 1..Len(l), Held(c, q, t, l, open), Filed(c, id, l),
           \A i \in DOMAIN q : q[i] < id,
           \A j \in DOMAIN t : t[j].id = id => t[j].contact = c,
           open => \E j \in DOMAIN t : t[j].id = id
    PROVE  Held(c, Append(q, id), t, l, open)
<1> DEFINE r == Append(q, id)
<1>1. /\ Len(q) \in Nat /\ DOMAIN q = 1..Len(q) /\ DOMAIN r = 1..(Len(q) + 1)
      /\ r[Len(q) + 1] = id /\ \A i \in 1..Len(q) : r[i] = q[i]
  OBVIOUS
<1> HIDE DEF r
<1>2. \A i \in DOMAIN r : i \in DOMAIN q \/ i = Len(q) + 1
  <2>1. \A i \in 1..(Len(q) + 1) : i \in 1..Len(q) \/ i = Len(q) + 1
    BY <1>1
  <2> QED BY <1>1, <2>1
<1>3. \A i \in DOMAIN r : r[i] # 0 =>
          /\ r[i] \in 1..Len(l) /\ Filed(c, r[i], l)
          /\ \A j \in DOMAIN t : t[j].id = r[i] => t[j].contact = c
          /\ open => \E j \in DOMAIN t : t[j].id = r[i]
  <2>1. ASSUME NEW i \in DOMAIN r, r[i] # 0
        PROVE  /\ r[i] \in 1..Len(l) /\ Filed(c, r[i], l)
               /\ \A j \in DOMAIN t : t[j].id = r[i] => t[j].contact = c
               /\ open => \E j \in DOMAIN t : t[j].id = r[i]
    <3>1. CASE i \in DOMAIN q
      <4>1. r[i] = q[i]
        BY <1>1, <3>1
      <4> QED BY <2>1, <3>1, <4>1 DEF Held
    <3>2. CASE i = Len(q) + 1
      <4>1. r[i] = id
        BY <1>1, <3>2
      <4> QED BY <4>1
    <3> QED BY <1>2, <3>1, <3>2
  <2> QED BY <2>1
<1>4. \A i, j \in DOMAIN r : i < j /\ r[i] # 0 /\ r[j] # 0 => r[i] < r[j]
  <2>1. \A i, j \in DOMAIN r : i < j => i \in DOMAIN q
    BY <1>1
  <2>2. \A i, j \in DOMAIN q : i < j /\ q[i] # 0 /\ q[j] # 0 => q[i] < q[j]
    BY DEF Held
  <2> QED BY <1>1, <1>2, <2>1, <2>2
<1> QED BY <1>3, <1>4 DEF Held, r

\* The widget of a file is added to a chat.
LEMMA HeldFile ==
    ASSUME NEW c, NEW q \in Seq(Nat), NEW open, NEW t \in Seq(Row), NEW l \in Seq(LogEntry),
           Held(c, q, t, l, open)
    PROVE  Held(c, Append(q, 0), t, l, open)
<1> DEFINE r == Append(q, 0)
<1>1. /\ Len(q) \in Nat /\ DOMAIN q = 1..Len(q) /\ DOMAIN r = 1..(Len(q) + 1)
      /\ r[Len(q) + 1] = 0 /\ \A i \in 1..Len(q) : r[i] = q[i]
  OBVIOUS
<1> HIDE DEF r
<1>2. \A i \in DOMAIN r : r[i] # 0 => i \in DOMAIN q /\ r[i] = q[i]
  BY <1>1
<1> QED BY <1>2 DEF Held, r

\* What loadMessages finds.
LEMMA StoredFacts ==
    ASSUME NEW c, NEW t \in Seq(Row)
    PROVE  /\ Stored(c, t) \in Seq(Nat)
           /\ \A k \in DOMAIN Stored(c, t) :
                 \E j \in DOMAIN t : Stored(c, t)[k] = t[j].id /\ t[j].contact = c
           /\ \A b \in ToSet(Stored(c, t)) : \E j \in DOMAIN t : t[j].id = b /\ t[j].contact = c
<1> DEFINE P == {i \in DOMAIN t : t[i].contact = c}
           own == Picked(t, P)
<1>1. P \in SUBSET DOMAIN t
  OBVIOUS
<1>2. \A j \in DOMAIN t : t[j].id \in Nat
  <2>1. \A j \in DOMAIN t : t[j] \in Row
    OBVIOUS
  <2> QED BY <2>1 DEF Row
<1> HIDE DEF P
<1>3. /\ own \in Seq(Row) /\ DOMAIN own = 1..Cardinality(P) /\ Cardinality(P) \in Nat
      /\ \A k \in 1..Cardinality(P) : own[k] = t[Nth(P, k)] /\ Nth(P, k) \in P
  BY <1>1, PickedType
<1>4. Stored(c, t) = [k \in DOMAIN own |-> own[k].id]
  BY DEF Stored, P
<1> HIDE DEF own
<1>5. \A k \in 1..Cardinality(P) :
          \E j \in DOMAIN t : Stored(c, t)[k] = t[j].id /\ t[j].contact = c
  BY <1>3, <1>4 DEF P
<1>6. DOMAIN Stored(c, t) = 1..Cardinality(P)
  BY <1>3, <1>4
<1>7. Stored(c, t) \in Seq(Nat)
  <2>1. \A k \in 1..Cardinality(P) : own[k].id \in Nat
    BY <1>1, <1>2, <1>3
  <2>2. Stored(c, t) = [k \in 1..Cardinality(P) |-> own[k].id]
    BY <1>3, <1>4
  <2> QED BY <1>3, <2>1, <2>2
<1> QED BY <1>5, <1>6, <1>7 DEF ToSet

LEMMA StoredOrder ==
    ASSUME NEW c, NEW t \in Seq(Row), \A i, j \in DOMAIN t : i < j => t[i].id < t[j].id
    PROVE  \A k, m \in DOMAIN Stored(c, t) : k < m => Stored(c, t)[k] < Stored(c, t)[m]
<1> DEFINE P == {i \in DOMAIN t : t[i].contact = c}
           own == Picked(t, P)
<1>1. P \in SUBSET DOMAIN t /\ DOMAIN t = 1..Len(t) /\ Len(t) \in Nat
  OBVIOUS
<1>2. Stored(c, t) = [k \in DOMAIN own |-> own[k].id]
  BY DEF Stored
<1> HIDE DEF P
<1>3. /\ DOMAIN own = 1..Cardinality(P)
      /\ \A k \in 1..Cardinality(P) : own[k] = t[Nth(P, k)] /\ Nth(P, k) \in P
  BY <1>1, PickedType
<1>4. \A k, m \in 1..Cardinality(P) : k < m => Nth(P, k) < Nth(P, m)
  BY <1>1, NthFacts
<1> HIDE DEF own
<1> QED BY <1>1, <1>2, <1>3, <1>4

LEMMA HeldStored ==
    ASSUME NEW c, NEW open, NEW t \in Seq(Row), NEW l \in Seq(LogEntry), Table(t, l)
    PROVE  Held(c, Stored(c, t), t, l, open)
<1> DEFINE q == Stored(c, t)
<1>1. \A k \in DOMAIN q : \E j \in DOMAIN t : q[k] = t[j].id /\ t[j].contact = c
  BY StoredFacts
<1>2. \A i, j \in DOMAIN q : i < j => q[i] < q[j]
  BY StoredOrder DEF Table
<1>3. \A i \in DOMAIN t : t[i].id \in 1..Len(l) /\ Filed(t[i].contact, t[i].id, l)
  BY DEF Table
<1>4. \A i, j \in DOMAIN t : t[i].id = t[j].id => i = j
  <2>1. \A i, j \in DOMAIN t : i < j \/ j < i \/ i = j
    OBVIOUS
  <2>2. \A i \in DOMAIN t : t[i].id \in Nat
    BY <1>3
  <2> QED BY <2>1, <2>2 DEF Table
<1> HIDE DEF q
<1>5. ASSUME NEW i \in DOMAIN q, q[i] # 0
      PROVE  /\ q[i] \in 1..Len(l) /\ Filed(c, q[i], l)
             /\ \A j \in DOMAIN t : t[j].id = q[i] => t[j].contact = c
             /\ open => \E j \in DOMAIN t : t[j].id = q[i]
  <2>1. PICK j \in DOMAIN t : q[i] = t[j].id /\ t[j].contact = c
    BY <1>1
  <2> QED BY <1>3, <1>4, <2>1
<1> QED BY <1>2, <1>5 DEF Held, q

LEMMA HeldNothing ==
    ASSUME NEW c, NEW open, NEW t, NEW l
    PROVE  Held(c, <<>>, t, l, open)
BY DEF Held

-----------------------------------------------------------------------------
(* What the slots do to the table and the log. *)

LEMMA MarkFacts ==
    ASSUME NEW c, NEW t \in Seq(Row)
    PROVE  /\ markAsRead(c, t) \in Seq(Row) /\ Len(markAsRead(c, t)) = Len(t)
           /\ DOMAIN markAsRead(c, t) = 1..Len(t)
           /\ \A i \in 1..Len(t) :
                 /\ SameRow(markAsRead(c, t)[i], t[i])
                 /\ t[i].contact = c => markAsRead(c, t)[i].isRead
                 /\ t[i].contact # c => markAsRead(c, t)[i] = t[i]
<1> DEFINE m == markAsRead(c, t)
<1>1. DOMAIN t = 1..Len(t) /\ Len(t) \in Nat /\ \A i \in 1..Len(t) : t[i] \in Row
  OBVIOUS
<1>2. m = [i \in 1..Len(t) |-> IF t[i].contact = c THEN [t[i] EXCEPT !.isRead = TRUE] ELSE t[i]]
  BY <1>1 DEF markAsRead
<1> HIDE DEF m
<1>3. \A r \in Row : /\ [r EXCEPT !.isRead = TRUE] \in Row
                     /\ [r EXCEPT !.isRead = TRUE].isRead
                     /\ SameRow([r EXCEPT !.isRead = TRUE], r) /\ SameRow(r, r)
  BY DEF Row, SameRow
<1>4. \A i \in 1..Len(t) : m[i] = IF t[i].contact = c THEN [t[i] EXCEPT !.isRead = TRUE] ELSE t[i]
  BY <1>2
<1>5. \A i \in 1..Len(t) : m[i] \in Row
  BY <1>1, <1>3, <1>4
<1>6. m \in Seq(Row) /\ Len(m) = Len(t) /\ DOMAIN m = 1..Len(t)
  <2>1. m = [i \in 1..Len(t) |-> m[i]]
    BY <1>2
  <2> QED BY <1>1, <1>5, <2>1
<1>7. \A i \in 1..Len(t) : /\ SameRow(m[i], t[i])
                           /\ t[i].contact = c => m[i].isRead
                           /\ t[i].contact # c => m[i] = t[i]
  BY <1>1, <1>3, <1>4
<1> QED BY <1>6, <1>7 DEF m

\* A message of the chat d gets the next number.
LEMMA LogFacts ==
    ASSUME TypeOK, NEW d \in Contact, NEW own \in BOOLEAN, NewMessage(d, own)
    PROVE  /\ messageLog' \in Seq(LogEntry) /\ LogGrows(messageLog, messageLog')
           /\ lastMessage \in Nat /\ lastMessage' = lastMessage + 1
           /\ messageLog'[lastMessage'].chat = d /\ DOMAIN messageLog \subseteq DOMAIN messageLog'
<1>1. messageLog \in Seq(LogEntry)
  BY DEF TypeOK, LogEntry
<1>2. [chat |-> d, isOwn |-> own] \in LogEntry
  BY DEF LogEntry
<1>3. messageLog' = Append(messageLog, [chat |-> d, isOwn |-> own])
  BY DEF NewMessage
<1>4. messageLog' \in Seq(LogEntry) /\ Len(messageLog') = Len(messageLog) + 1
  BY <1>1, <1>2, <1>3
<1>5. messageLog'[Len(messageLog) + 1] = [chat |-> d, isOwn |-> own]
  BY <1>1, <1>3
<1>6. \A i \in 1..Len(messageLog) : messageLog'[i] = messageLog[i]
  BY <1>1, <1>3
<1>7. Len(messageLog) \in Nat /\ DOMAIN messageLog = 1..Len(messageLog)
      /\ DOMAIN messageLog' = 1..Len(messageLog')
  BY <1>1, <1>4
<1> QED BY <1>4, <1>5, <1>6, <1>7 DEF LogGrows, lastMessage

\* The table keeps its rows, as marked as they are.
LEMMA SameTable ==
    ASSUME NEW t \in Seq(Row), NEW n
    PROVE  TableGrows(t, t, n)
BY DEF TableGrows, SameRow

LEMMA SameLog ==
    ASSUME NEW l \in Seq(LogEntry)
    PROVE  LogGrows(l, l)
BY DEF LogGrows

\* The message is saved as a row of c if the database is open, and the rows of c may be
\* marked after that.
LEMMA SavedFacts ==
    ASSUME TypeOK, RowsInv, NEW c \in Contact, NEW d \in Contact, NEW own \in BOOLEAN,
           NewMessage(d, own), c = d \/ (d \in Group /\ c \in User),
           NEW r \in Row, r.contact = c, r.id = lastMessage',
           rows' = saveMessage(r) \/ rows' = IF isOpen THEN markAsRead(c, saveMessage(r))
                                                       ELSE saveMessage(r)
    PROVE  /\ rows' \in Seq(Row) /\ TableGrows(rows, rows', Len(messageLog))
           /\ ~isOpen => rows' = rows
           /\ isOpen => Len(rows') = Len(rows) + 1
           /\ RowsInv' /\ Filed(c, lastMessage', messageLog')
           /\ \A j \in DOMAIN rows' : rows'[j].id = lastMessage' => rows'[j].contact = c
           /\ isOpen => \E j \in DOMAIN rows' : rows'[j].id = lastMessage'
<1>1. /\ messageLog' \in Seq(LogEntry) /\ LogGrows(messageLog, messageLog')
      /\ lastMessage \in Nat /\ lastMessage' = lastMessage + 1
      /\ messageLog'[lastMessage'].chat = d
  BY LogFacts
<1>2. /\ rows \in Seq(Row) /\ messageLog \in Seq(LogEntry)
      /\ lastMessage = Len(messageLog) /\ lastMessage' = Len(messageLog')
      /\ Len(rows) \in Nat
  BY DEF TypeOK, LogEntry, lastMessage
<1>3. Filed(c, lastMessage', messageLog')
  BY <1>1 DEF Filed
<1>4. \A i \in DOMAIN rows : rows[i].id \in 1..lastMessage
  BY <1>2 DEF RowsInv, Table
<1>5. CASE ~isOpen
  <2>1. rows' = rows
    BY <1>5 DEF saveMessage
  <2>2. TableGrows(rows, rows', Len(messageLog)) /\ Len(rows') = Len(rows)
    BY <1>2, <2>1, SameTable
  <2>3. Table(rows', messageLog')
    BY <1>1, <1>2, <2>1, <2>2, TableKept DEF RowsInv
  <2>4. \A j \in DOMAIN rows' : rows'[j].id # lastMessage'
    BY <1>1, <1>4, <2>1
  <2> QED BY <1>2, <1>3, <1>5, <2>1, <2>2, <2>3, <2>4 DEF RowsInv
<1>6. CASE isOpen
  <2> DEFINE t == Append(rows, r)
             n == Len(rows) + 1
  <2>1. t \in Seq(Row) /\ Len(t) = n /\ t[n] = r /\ \A i \in 1..Len(rows) : t[i] = rows[i]
    BY <1>2
  <2>2. rows' = t \/ rows' = markAsRead(c, t)
    BY <1>6 DEF saveMessage
  <2> HIDE DEF t
  <2>3. rows' \in Seq(Row) /\ Len(rows') = n /\ \A i \in 1..n : SameRow(rows'[i], t[i])
    <3>1. CASE rows' = t
      BY <2>1, <3>1 DEF SameRow
    <3>2. CASE rows' = markAsRead(c, t)
      BY <2>1, <3>2, MarkFacts
    <3> QED BY <2>2, <3>1, <3>2
  <2>4. rows'[n].contact = c /\ rows'[n].id = lastMessage' /\ n \in 1..n
    BY <1>2, <2>1, <2>3 DEF SameRow
  <2>5. \A i \in 1..Len(rows) : SameRow(rows'[i], rows[i])
    BY <1>2, <2>1, <2>3
  <2>6. \A i \in 1..Len(rows') : i \in 1..Len(rows) \/ i = n
    BY <1>2, <2>3
  <2>7. TableGrows(rows, rows', Len(messageLog))
    <3>1. \A i \in 1..Len(rows') : i > Len(rows) => rows'[i].id > Len(messageLog)
      BY <1>1, <1>2, <2>3, <2>4
    <3> QED BY <1>2, <2>3, <2>5, <3>1 DEF TableGrows
  <2>8. Table(rows', messageLog')
    <3>1. rows'[Len(rows')].id \in 1..Len(messageLog')
      BY <1>1, <1>2, <2>3, <2>4
    <3>2. Filed(rows'[Len(rows')].contact, rows'[Len(rows')].id, messageLog')
      BY <1>3, <2>3, <2>4
    <3> QED BY <1>1, <1>2, <2>3, <2>7, <3>1, <3>2, TableAdded DEF RowsInv
  <2>9. \A j \in DOMAIN rows' : rows'[j].id = lastMessage' => rows'[j].contact = c
    <3>1. \A j \in 1..Len(rows) : rows'[j].id # lastMessage'
      BY <1>1, <1>2, <1>4, <2>5 DEF SameRow
    <3>2. DOMAIN rows' = 1..Len(rows')
      BY <2>3
    <3> QED BY <2>4, <2>6, <3>1, <3>2
  <2>10. \E j \in DOMAIN rows' : rows'[j].id = lastMessage'
    BY <2>3, <2>4
  <2> QED BY <1>3, <1>6, <2>3, <2>7, <2>8, <2>9, <2>10 DEF RowsInv
<1> QED BY <1>5, <1>6

-----------------------------------------------------------------------------
(* What the slots do to the chats and the sidebar. *)

\* A bubble is added to the open chat, and to no other.
LEMMA BubbleAdded ==
    ASSUME TypeOK, ChatInv, NEW b \in Nat, currentContact # NoContact, AddBubble(b),
           UNCHANGED <<currentContact, opened, isOpen>>,
           rows' \in Seq(Row), messageLog' \in Seq(LogEntry),
           LogGrows(messageLog, messageLog'), TableGrows(rows, rows', Len(messageLog)),
           Held(currentContact, Append(currentMessages, b), rows', messageLog', isOpen)
    PROVE  /\ currentMessages' \in Seq(Nat) /\ currentMessages' = Append(currentMessages, b)
           /\ DOMAIN messageHistory' = DOMAIN messageHistory
           /\ messageHistory' \in [DOMAIN messageHistory' -> Seq(Nat)]
           /\ messageHistory'[currentContact] = Append(currentMessages, b)
           /\ \A c \in DOMAIN messageHistory : c # currentContact =>
                 messageHistory'[c] = messageHistory[c]
           /\ ChatInv'
<1>1. /\ rows \in Seq(Row) /\ messageLog \in Seq(LogEntry) /\ currentMessages \in Seq(Nat)
      /\ messageHistory \in [DOMAIN messageHistory -> Seq(Nat)]
  BY DEF TypeOK, LogEntry
<1>2. /\ currentContact \in DOMAIN messageHistory
      /\ messageHistory[currentContact] = currentMessages
  BY DEF ChatInv
<1>3. currentMessages' = Append(currentMessages, b) /\ currentMessages' \in Seq(Nat)
  BY <1>1 DEF AddBubble
<1>4. messageHistory' = [c \in DOMAIN messageHistory |->
          IF c = currentContact THEN Append(currentMessages, b) ELSE messageHistory[c]]
  <2>1. DOMAIN messageHistory \cup {currentContact} = DOMAIN messageHistory
    BY <1>2
  <2> QED BY <1>3, <2>1 DEF AddBubble
<1>5. /\ DOMAIN messageHistory' = DOMAIN messageHistory
      /\ messageHistory'[currentContact] = Append(currentMessages, b)
      /\ \A c \in DOMAIN messageHistory : c # currentContact =>
            messageHistory'[c] = messageHistory[c]
  BY <1>2, <1>4
<1>6. messageHistory' \in [DOMAIN messageHistory' -> Seq(Nat)]
  BY <1>1, <1>3, <1>4, <1>5
<1>7. ASSUME NEW c \in DOMAIN messageHistory'
      PROVE  Held(c, messageHistory'[c], rows', messageLog', isOpen')
  <2>1. CASE c = currentContact
    BY <1>5, <2>1
  <2>2. CASE c # currentContact
    <3>1. Held(c, messageHistory[c], rows, messageLog, isOpen)
      BY <1>5 DEF ChatInv
    <3>2. Held(c, messageHistory[c], rows', messageLog', isOpen)
      BY <1>1, <3>1, HeldGrows
    <3> QED BY <1>5, <2>2, <3>2
  <2> QED BY <2>1, <2>2
<1>8. ASSUME NEW id \in opened'
      PROVE  id # 0 /\ \E c \in DOMAIN messageHistory' : id \in ToSet(messageHistory'[c])
  <2>1. id # 0 /\ \E c \in DOMAIN messageHistory : id \in ToSet(messageHistory[c])
    BY DEF ChatInv
  <2>2. PICK c \in DOMAIN messageHistory : id \in ToSet(messageHistory[c])
    BY <2>1
  <2>3. CASE c = currentContact
    <3>1. id \in ToSet(currentMessages)
      BY <1>2, <2>2, <2>3
    <3>2. id \in ToSet(Append(currentMessages, b))
      <4>1. PICK i \in DOMAIN currentMessages : currentMessages[i] = id
        BY <3>1 DEF ToSet
      <4>2. /\ i \in DOMAIN Append(currentMessages, b)
            /\ Append(currentMessages, b)[i] = currentMessages[i]
        BY <1>1
      <4> QED BY <4>1, <4>2 DEF ToSet
    <3> QED BY <1>5, <2>1, <2>2, <2>3, <3>2
  <2>4. CASE c # currentContact
    BY <1>5, <2>1, <2>2, <2>4
  <2> QED BY <2>3, <2>4
<1>9. ChatInv'
  BY <1>2, <1>3, <1>5, <1>7, <1>8 DEF ChatInv
<1> QED BY <1>3, <1>5, <1>6, <1>9

\* No chat changes.
LEMMA ChatsKept ==
    ASSUME TypeOK, ChatInv, UNCHANGED <<chatVars, isOpen>>,
           rows' \in Seq(Row), messageLog' \in Seq(LogEntry),
           LogGrows(messageLog, messageLog'), TableGrows(rows, rows', Len(messageLog)),
           \A id \in opened' : id # 0 /\ \E c \in DOMAIN messageHistory : id \in ToSet(messageHistory[c])
    PROVE  ChatInv'
<1>1. rows \in Seq(Row) /\ messageLog \in Seq(LogEntry)
  BY DEF TypeOK, LogEntry
<1>2. UNCHANGED <<currentContact, currentMessages, messageHistory, isOpen>>
  BY DEF chatVars
<1>3. ASSUME NEW c \in DOMAIN messageHistory
      PROVE  Held(c, messageHistory[c], rows', messageLog', isOpen)
  <2>1. Held(c, messageHistory[c], rows, messageLog, isOpen)
    BY DEF ChatInv
  <2> QED BY <1>1, <2>1, HeldGrows
<1> QED BY <1>2, <1>3 DEF ChatInv

\* A chat that is opened is the cached one, or what the table holds.
LEMMA SwitchFacts ==
    ASSUME TypeOK, RowsInv, ChatInv, NEW c \in Contact, switchToContact(c)
    PROVE  /\ rows' \in Seq(Row) /\ TableGrows(rows, rows', Len(messageLog))
           /\ Len(rows') = Len(rows)
           /\ DOMAIN messageHistory' = DOMAIN messageHistory \cup {c}
           /\ \A d \in DOMAIN messageHistory : messageHistory'[d] = messageHistory[d]
           /\ c \notin DOMAIN messageHistory =>
                 messageHistory'[c] = IF isOpen THEN Stored(c, rows) ELSE <<>>
           /\ currentMessages' = messageHistory'[c] /\ currentMessages' \in Seq(Nat)
           /\ messageHistory' \in [DOMAIN messageHistory' -> Seq(Nat)]
           /\ opened' = opened /\ ChatInv'
<1>1. /\ rows \in Seq(Row) /\ messageLog \in Seq(LogEntry) /\ currentMessages \in Seq(Nat)
      /\ messageHistory \in [DOMAIN messageHistory -> Seq(Nat)]
      /\ UNCHANGED <<messageLog, isOpen>> /\ currentContact' = c
      /\ Len(rows) \in Nat
  BY DEF TypeOK, LogEntry, switchToContact
<1>2. /\ rows' \in Seq(Row) /\ Len(rows') = Len(rows)
      /\ \A i \in 1..Len(rows) : SameRow(rows'[i], rows[i])
  <2>1. CASE isOpen
    <3>1. rows' = markAsRead(c, rows)
      BY <2>1 DEF switchToContact
    <3> QED BY <1>1, <3>1, MarkFacts
  <2>2. CASE ~isOpen
    <3>1. rows' = rows
      BY <2>2 DEF switchToContact
    <3> QED BY <1>1, <3>1 DEF SameRow
  <2> QED BY <2>1, <2>2
<1>3. TableGrows(rows, rows', Len(messageLog))
  BY <1>1, <1>2 DEF TableGrows
<1>4. LogGrows(messageLog, messageLog')
  BY <1>1, SameLog
<1>5. \A d \in DOMAIN messageHistory : d = currentContact => messageHistory[d] = currentMessages
  <2>1. NoContact \notin DOMAIN messageHistory
    BY WindowAssumption DEF TypeOK, Contact
  <2> QED BY <2>1 DEF ChatInv
<1>6. currentContact # NoContact => currentContact \in DOMAIN messageHistory
  BY DEF ChatInv
<1>7. DOMAIN messageHistory \cup {c} \cup ({currentContact} \ {NoContact})
          = DOMAIN messageHistory \cup {c}
  BY <1>6
<1>8. messageHistory' = [d \in DOMAIN messageHistory \cup {c} |->
          IF d = currentContact THEN currentMessages
          ELSE IF d \in DOMAIN messageHistory THEN messageHistory[d]
          ELSE IF isOpen THEN Stored(c, rows) ELSE <<>>]
  BY <1>7 DEF switchToContact
<1>9. c \notin DOMAIN messageHistory => c # currentContact
  <2>1. c # NoContact
    BY WindowAssumption DEF Contact
  <2> QED BY <1>6, <2>1
<1>10. /\ DOMAIN messageHistory' = DOMAIN messageHistory \cup {c}
       /\ \A d \in DOMAIN messageHistory : messageHistory'[d] = messageHistory[d]
       /\ c \notin DOMAIN messageHistory =>
             messageHistory'[c] = IF isOpen THEN Stored(c, rows) ELSE <<>>
  BY <1>5, <1>8, <1>9
<1>11. Stored(c, rows) \in Seq(Nat)
  BY <1>1, StoredFacts
<1>12. \A d \in DOMAIN messageHistory' : messageHistory'[d] \in Seq(Nat)
  <2>1. <<>> \in Seq(Nat)
    OBVIOUS
  <2> QED BY <1>1, <1>10, <1>11, <2>1
<1>13. messageHistory' \in [DOMAIN messageHistory' -> Seq(Nat)]
  <2>1. messageHistory' = [d \in DOMAIN messageHistory' |-> messageHistory'[d]]
    BY <1>8
  <2> QED BY <1>12, <2>1
<1>14. currentMessages' = messageHistory'[c] /\ currentMessages' \in Seq(Nat)
  BY <1>10, <1>12 DEF switchToContact
<1>15. ASSUME NEW d \in DOMAIN messageHistory'
       PROVE  Held(d, messageHistory'[d], rows', messageLog', isOpen')
  <2>1. CASE d \in DOMAIN messageHistory
    <3>1. Held(d, messageHistory[d], rows, messageLog, isOpen)
      BY <2>1 DEF ChatInv
    <3>2. Held(d, messageHistory[d], rows', messageLog', isOpen)
      BY <1>1, <1>2, <1>3, <1>4, <3>1, HeldGrows
    <3> QED BY <1>1, <1>10, <2>1, <3>2
  <2>2. CASE d \notin DOMAIN messageHistory
    <3>1. d = c
      BY <1>10, <2>2
    <3>2. Held(c, Stored(c, rows), rows, messageLog, isOpen)
      BY <1>1, HeldStored DEF RowsInv
    <3>3. Held(c, Stored(c, rows), rows', messageLog', isOpen)
      BY <1>1, <1>2, <1>3, <1>4, <3>2, HeldGrows
    <3>4. Held(c, <<>>, rows', messageLog', isOpen)
      BY HeldNothing
    <3> QED BY <1>1, <1>10, <2>2, <3>1, <3>3, <3>4
  <2> QED BY <2>1, <2>2
<1>16. opened' = opened
  <2>1. CASE c \in DOMAIN messageHistory
    BY <2>1 DEF switchToContact, Lock
  <2>2. CASE c \notin DOMAIN messageHistory
    <3>1. ASSUME NEW id \in opened PROVE id \notin ToSet(Stored(c, rows))
      <4>1. PICK d \in DOMAIN messageHistory : id \in ToSet(messageHistory[d])
        BY DEF ChatInv
      <4>2. id # 0
        BY DEF ChatInv
      <4>3. PICK i \in DOMAIN messageHistory[d] : messageHistory[d][i] = id
        BY <4>1 DEF ToSet
      <4>4. Held(d, messageHistory[d], rows, messageLog, isOpen)
        BY DEF ChatInv
      <4>5. \A j \in DOMAIN rows : rows[j].id = id => rows[j].contact = d
        BY <4>2, <4>3, <4>4 DEF Held
      <4>6. \A b \in ToSet(Stored(c, rows)) : \E j \in DOMAIN rows : rows[j].id = b /\ rows[j].contact = c
        BY <1>1, StoredFacts
      <4> QED BY <2>2, <4>5, <4>6
    <3>2. opened' = opened \ ToSet(Stored(c, rows))
      BY <2>2 DEF switchToContact, Lock
    <3> QED BY <3>1, <3>2
  <2> QED BY <2>1, <2>2
<1>17. \A id \in opened : id # 0 /\ \E d \in DOMAIN messageHistory' : id \in ToSet(messageHistory'[d])
  BY <1>10 DEF ChatInv
<1>18. ChatInv'
  <2>1. c # NoContact /\ c \in DOMAIN messageHistory'
    BY <1>10, WindowAssumption DEF Contact
  <2> QED BY <1>1, <1>14, <1>15, <1>16, <1>17, <2>1 DEF ChatInv
<1> QED BY <1>2, <1>3, <1>10, <1>13, <1>14, <1>16, <1>18

ListEntry == [contact : Contact, badge : Nat]

LEMMA BadgeFacts ==
    ASSUME NEW c \in Contact, NEW counts \in [Contact -> Nat], contactList \in Seq(ListEntry),
           updateContactBadge(c, counts)
    PROVE  /\ contactList' \in Seq(ListEntry) /\ DOMAIN contactList' = DOMAIN contactList
           /\ \A i \in DOMAIN contactList :
                 /\ contactList'[i].contact = contactList[i].contact
                 /\ contactList[i].contact # c => contactList'[i] = contactList[i]
                 /\ contactList[i].contact = c
                    /\ (\A j \in DOMAIN contactList : contactList[j].contact = c => i = j)
                    => contactList'[i].badge = counts[c]
<1> DEFINE at == {i \in DOMAIN contactList : contactList[i].contact = c}
           first(i) == i \in at /\ \A j \in at : i <= j
<1>1. contactList' = [i \in DOMAIN contactList |->
                        IF first(i) THEN Item(c, counts[c]) ELSE contactList[i]]
  BY DEF updateContactBadge
<1>2. /\ Item(c, counts[c]) \in ListEntry
      /\ Item(c, counts[c]).contact = c /\ Item(c, counts[c]).badge = counts[c]
  BY DEF Item, ListEntry
<1>3. DOMAIN contactList = 1..Len(contactList) /\ Len(contactList) \in Nat
  OBVIOUS
<1>4. \A i \in DOMAIN contactList : contactList[i] \in ListEntry
  OBVIOUS
<1>5. \A i \in DOMAIN contactList :
          /\ first(i) => contactList[i].contact = c
          /\ contactList[i].contact = c
             /\ (\A j \in DOMAIN contactList : contactList[j].contact = c => i = j) => first(i)
  BY <1>3
<1> HIDE DEF first
<1>6. contactList' \in Seq(ListEntry) /\ DOMAIN contactList' = DOMAIN contactList
  BY <1>1, <1>2, <1>3, <1>4
<1>7. \A i \in DOMAIN contactList :
          contactList'[i] = IF first(i) THEN Item(c, counts[c]) ELSE contactList[i]
  BY <1>1
<1> QED BY <1>2, <1>5, <1>6, <1>7

\* The badge follows the count of the one contact that changes.
LEMMA BadgesFollow ==
    ASSUME TypeOK, BadgeInv, NEW c \in Contact, unreadCounts' \in [Contact -> Nat],
           updateContactBadge(c, unreadCounts'), cleared' = cleared,
           \A d \in Contact : d # c => unreadCounts'[d] = unreadCounts[d]
    PROVE  contactList' \in Seq(ListEntry) /\ BadgeInv'
<1>1. contactList \in Seq(ListEntry)
  BY DEF TypeOK, ListEntry
<1>2. /\ contactList' \in Seq(ListEntry) /\ DOMAIN contactList' = DOMAIN contactList
      /\ \A i \in DOMAIN contactList :
            /\ contactList'[i].contact = contactList[i].contact
            /\ contactList[i].contact # c => contactList'[i] = contactList[i]
            /\ contactList[i].contact = c
               /\ (\A j \in DOMAIN contactList : contactList[j].contact = c => i = j)
               => contactList'[i].badge = unreadCounts'[c]
  BY <1>1, BadgeFacts
<1>3. \A i \in DOMAIN contactList : contactList[i].contact \in Contact
  <2>1. \A i \in DOMAIN contactList : contactList[i] \in ListEntry
    BY <1>1
  <2> QED BY <2>1 DEF ListEntry
<1>4. ASSUME ~cleared, NEW i \in DOMAIN contactList, contactList[i].contact \in User
      PROVE  /\ contactList'[i].badge = unreadCounts'[contactList[i].contact]
             /\ \A j \in DOMAIN contactList : contactList[j].contact = contactList[i].contact => i = j
  <2>1. /\ contactList[i].badge = unreadCounts[contactList[i].contact]
        /\ \A j \in DOMAIN contactList : contactList[j].contact = contactList[i].contact => i = j
    BY <1>4 DEF BadgeInv
  <2>2. CASE contactList[i].contact = c
    BY <1>2, <2>1, <2>2
  <2>3. CASE contactList[i].contact # c
    BY <1>2, <1>3, <2>1, <2>3
  <2> QED BY <2>1, <2>2, <2>3
<1>5. BadgeInv'
  BY <1>2, <1>4 DEF BadgeInv
<1> QED BY <1>2, <1>5

-----------------------------------------------------------------------------
(* Unread messages of the table. *)

Unread(c, t) == {i \in DOMAIN t : t[i].contact = c /\ ~t[i].isRead /\ ~t[i].isOwn}

LEMMA UnreadFinite ==
    ASSUME NEW c, NEW t \in Seq(Row)
    PROVE  /\ IsFiniteSet(Unread(c, t)) /\ Cardinality(Unread(c, t)) \in Nat
           /\ Len(t) + 1 \notin Unread(c, t)
<1>1. DOMAIN t = 1..Len(t) /\ Len(t) \in Nat /\ Len(t) + 1 \notin DOMAIN t
  OBVIOUS
<1>2. IsFiniteSet(1..Len(t))
  BY <1>1, FS_Interval
<1>3. Unread(c, t) \in SUBSET (1..Len(t))
  BY <1>1 DEF Unread
<1>4. IsFiniteSet(Unread(c, t))
  BY <1>2, <1>3, FS_Subset
<1> QED BY <1>1, <1>3, <1>4, FS_CardinalityType

LEMMA UnreadMarked ==
    ASSUME NEW c, NEW t \in Seq(Row)
    PROVE  /\ Unread(c, markAsRead(c, t)) = {}
           /\ \A d : d # c => Unread(d, markAsRead(c, t)) = Unread(d, t)
<1> DEFINE m == markAsRead(c, t)
<1>1. /\ DOMAIN m = DOMAIN t
      /\ \A i \in DOMAIN t : /\ SameRow(m[i], t[i])
                             /\ t[i].contact = c => m[i].isRead
                             /\ t[i].contact # c => m[i] = t[i]
  BY MarkFacts
<1> HIDE DEF m
<1>2. Unread(c, m) = {}
  BY <1>1 DEF Unread, SameRow
<1>3. ASSUME NEW d, d # c PROVE Unread(d, m) = Unread(d, t)
  <2>1. \A i \in DOMAIN t : (m[i].contact = d /\ ~m[i].isRead /\ ~m[i].isOwn)
                                <=> (t[i].contact = d /\ ~t[i].isRead /\ ~t[i].isOwn)
    BY <1>1, <1>3 DEF SameRow
  <2> QED BY <1>1, <2>1 DEF Unread
<1> QED BY <1>2, <1>3 DEF m

LEMMA UnreadAdded ==
    ASSUME NEW t \in Seq(Row), NEW r \in Row
    PROVE  \A d : Unread(d, Append(t, r)) =
              IF d = r.contact /\ ~r.isRead /\ ~r.isOwn THEN Unread(d, t) \cup {Len(t) + 1}
                                                        ELSE Unread(d, t)
<1> DEFINE a == Append(t, r)
<1>1. /\ DOMAIN a = DOMAIN t \cup {Len(t) + 1} /\ Len(t) + 1 \notin DOMAIN t
      /\ a[Len(t) + 1] = r /\ \A i \in DOMAIN t : a[i] = t[i]
  OBVIOUS
<1> HIDE DEF a
<1>2. ASSUME NEW d
      PROVE  Unread(d, a) = IF d = r.contact /\ ~r.isRead /\ ~r.isOwn
                            THEN Unread(d, t) \cup {Len(t) + 1} ELSE Unread(d, t)
  BY <1>1 DEF Unread
<1> QED BY <1>2 DEF a

\* A contact has one more unread message in t2 than in t1, or as many.
LEMMA UnreadCounted ==
    ASSUME NEW t \in Seq(Row), NEW r \in Row
    PROVE  \A d : Cardinality(Unread(d, Append(t, r))) =
              IF d = r.contact /\ ~r.isRead /\ ~r.isOwn THEN Cardinality(Unread(d, t)) + 1
                                                        ELSE Cardinality(Unread(d, t))
<1>1. ASSUME NEW d
      PROVE  Cardinality(Unread(d, Append(t, r))) =
                IF d = r.contact /\ ~r.isRead /\ ~r.isOwn THEN Cardinality(Unread(d, t)) + 1
                                                          ELSE Cardinality(Unread(d, t))
  <2> DEFINE U == Unread(d, t)
  <2>1. IsFiniteSet(U) /\ Len(t) + 1 \notin U
    BY UnreadFinite
  <2>2. Unread(d, Append(t, r)) =
            IF d = r.contact /\ ~r.isRead /\ ~r.isOwn THEN U \cup {Len(t) + 1} ELSE U
    BY UnreadAdded
  <2> HIDE DEF U
  <2>3. Cardinality(U \cup {Len(t) + 1}) = Cardinality(U) + 1
    BY <2>1, FS_AddElement
  <2> QED BY <2>2, <2>3 DEF U
<1> QED BY <1>1

LEMMA CountsByContact ==
    ASSUME rows \in Seq(Row)
    PROVE  /\ getAllUnreadCounts = [c \in Contact |-> Cardinality(Unread(c, rows))]
           /\ getAllUnreadCounts \in [Contact -> Nat]
<1>1. getAllUnreadCounts = [c \in Contact |-> Cardinality(Unread(c, rows))]
  BY DEF getAllUnreadCounts, Unread
<1>2. \A c \in Contact : Cardinality(Unread(c, rows)) \in Nat
  BY UnreadFinite
<1> QED BY <1>1, <1>2

-----------------------------------------------------------------------------
(* Every slot keeps the invariant. *)

LEMMA SwitchStep ==
    ASSUME WindowInv, NEW c \in Contact, switchToContact(c)
    PROVE  WindowInv'
<1> USE DEF WindowInv
<1>1. /\ rows' \in Seq(Row) /\ TableGrows(rows, rows', Len(messageLog))
      /\ Len(rows') = Len(rows)
      /\ DOMAIN messageHistory' = DOMAIN messageHistory \cup {c}
      /\ currentMessages' = messageHistory'[c] /\ currentMessages' \in Seq(Nat)
      /\ messageHistory' \in [DOMAIN messageHistory' -> Seq(Nat)]
      /\ opened' = opened /\ ChatInv'
  BY SwitchFacts
<1>2. /\ rows \in Seq(Row) /\ messageLog \in Seq(LogEntry) /\ DOMAIN messageHistory \subseteq Contact
      /\ unreadCounts \in [Contact -> Nat] /\ opened \subseteq DOMAIN messageLog
  BY DEF TypeOK, LogEntry
<1>3. /\ UNCHANGED <<window, isOpen, messageLog, files, cleared>> /\ currentContact' = c
      /\ unreadCounts' = [unreadCounts EXCEPT ![c] = 0]
      /\ updateContactBadge(c, unreadCounts')
      /\ isOpen => rows' = markAsRead(c, rows)
  BY DEF switchToContact
<1>4. /\ unreadCounts' \in [Contact -> Nat] /\ unreadCounts'[c] = 0
      /\ \A d \in Contact : d # c => unreadCounts'[d] = unreadCounts[d]
  BY <1>2, <1>3
<1>5. contactList' \in Seq(ListEntry) /\ BadgeInv'
  BY <1>3, <1>4, BadgesFollow
<1>6. TypeOK'
  BY <1>1, <1>2, <1>3, <1>4, <1>5 DEF TypeOK, ListEntry, LogEntry
<1>7. RowsInv'
  <2>1. LogGrows(messageLog, messageLog')
    BY <1>2, <1>3, SameLog
  <2> QED BY <1>1, <1>2, <1>3, <2>1, TableKept DEF RowsInv
<1>8. UnreadInv'
  <2>1. ASSUME isOpen PROVE unreadCounts' = [d \in Contact |-> Cardinality(Unread(d, rows'))]
    <3>1. unreadCounts = [d \in Contact |-> Cardinality(Unread(d, rows))]
      BY <1>2, <2>1, CountsByContact DEF UnreadInv
    <3>2. /\ Unread(c, rows') = {}
          /\ \A d \in Contact : d # c => Unread(d, rows') = Unread(d, rows)
      BY <1>2, <1>3, <2>1, UnreadMarked
    <3>3. \A d \in Contact : unreadCounts'[d] = Cardinality(Unread(d, rows'))
      BY <1>4, <3>1, <3>2, FS_EmptySet
    <3> QED BY <1>4, <3>3
  <2>2. getAllUnreadCounts' = [d \in Contact |-> Cardinality(Unread(d, rows'))]
    BY DEF getAllUnreadCounts, Unread
  <2> QED BY <1>3, <2>1, <2>2 DEF UnreadInv
<1>9. ReadInv'
  <2>1. ASSUME isOpen, NEW i \in DOMAIN rows' PROVE ~(rows'[i].contact = c /\ ~rows'[i].isRead)
    <3>1. rows' = markAsRead(c, rows) /\ DOMAIN rows' = 1..Len(rows)
      BY <1>2, <1>3, <2>1, MarkFacts
    <3>2. SameRow(rows'[i], rows[i]) /\ (rows[i].contact = c => rows'[i].isRead)
      BY <1>2, <3>1, MarkFacts
    <3> QED BY <3>2 DEF SameRow
  <2> QED BY <1>3, <2>1 DEF ReadInv
<1> QED BY <1>1, <1>5, <1>6, <1>7, <1>8, <1>9

LEMMA FreshMessage ==
    ASSUME WindowInv, NEW d \in Contact, NEW own \in BOOLEAN, NewMessage(d, own)
    PROVE  /\ lastMessage' \in 1..Len(messageLog') /\ lastMessage' \in Nat
           /\ currentContact # NoContact =>
                 \A i \in DOMAIN currentMessages : currentMessages[i] < lastMessage'
<1>1. /\ lastMessage \in Nat /\ lastMessage' = lastMessage + 1
      /\ messageLog' \in Seq(LogEntry)
  BY LogFacts DEF WindowInv
<1>2. lastMessage = Len(messageLog) /\ lastMessage' = Len(messageLog')
  BY DEF lastMessage
<1>3. ASSUME currentContact # NoContact, NEW i \in DOMAIN currentMessages
      PROVE  currentMessages[i] < lastMessage'
  <2>1. Held(currentContact, currentMessages, rows, messageLog, isOpen)
    BY <1>3 DEF WindowInv, ChatInv
  <2>2. currentMessages[i] # 0 => currentMessages[i] \in 1..lastMessage
    BY <1>2, <2>1 DEF Held
  <2>3. CASE currentMessages[i] = 0
    BY <1>1, <2>3
  <2>4. CASE currentMessages[i] # 0
    BY <1>1, <2>2, <2>4
  <2> QED BY <2>3, <2>4
<1> QED BY <1>1, <1>2, <1>3

LEMMA SendStep ==
    ASSUME WindowInv, Send
    PROVE  WindowInv'
<1> USE DEF WindowInv
<1> DEFINE c == currentContact
           r == [contact |-> c, id |-> lastMessage', isOwn |-> TRUE, isRead |-> TRUE]
<1>1. /\ rows \in Seq(Row) /\ messageLog \in Seq(LogEntry) /\ currentMessages \in Seq(Nat)
      /\ unreadCounts \in [Contact -> Nat] /\ opened \subseteq DOMAIN messageLog
      /\ DOMAIN messageHistory \subseteq Contact
  BY DEF TypeOK, LogEntry
<1>2. /\ c # NoContact /\ NewMessage(c, TRUE) /\ rows' = saveMessage(r) /\ AddBubble(lastMessage')
      /\ UNCHANGED <<window, isOpen, unreadCounts, currentContact, opened, contactList, files, cleared>>
  BY DEF Send
<1>3. c \in Contact
  BY <1>2 DEF TypeOK
<1>4. /\ messageLog' \in Seq(LogEntry) /\ LogGrows(messageLog, messageLog')
      /\ lastMessage \in Nat /\ lastMessage' = lastMessage + 1
      /\ DOMAIN messageLog \subseteq DOMAIN messageLog'
  BY <1>2, <1>3, LogFacts
<1>5. r \in Row /\ r.contact = c /\ r.id = lastMessage' /\ r.isOwn /\ r.isRead
  BY <1>3, <1>4 DEF Row
<1> HIDE DEF r
<1>6. /\ rows' \in Seq(Row) /\ TableGrows(rows, rows', Len(messageLog))
      /\ RowsInv' /\ Filed(c, lastMessage', messageLog')
      /\ \A j \in DOMAIN rows' : rows'[j].id = lastMessage' => rows'[j].contact = c
      /\ isOpen => \E j \in DOMAIN rows' : rows'[j].id = lastMessage'
  <2> HIDE DEF c
  <2> QED BY <1>2, <1>3, <1>5, SavedFacts
<1>7. /\ lastMessage' \in 1..Len(messageLog') /\ lastMessage' \in Nat
      /\ \A i \in DOMAIN currentMessages : currentMessages[i] < lastMessage'
  BY <1>2, <1>3, FreshMessage
<1>8. Held(c, Append(currentMessages, lastMessage'), rows', messageLog', isOpen)
  <2>1. Held(c, currentMessages, rows, messageLog, isOpen)
    BY <1>2 DEF ChatInv
  <2>2. Held(c, currentMessages, rows', messageLog', isOpen)
    BY <1>1, <1>4, <1>6, <2>1, HeldGrows
  <2> QED BY <1>1, <1>4, <1>6, <1>7, <2>2, HeldNew
<1>9. /\ currentMessages' \in Seq(Nat) /\ DOMAIN messageHistory' = DOMAIN messageHistory
      /\ messageHistory' \in [DOMAIN messageHistory' -> Seq(Nat)] /\ ChatInv'
  BY <1>1, <1>2, <1>4, <1>6, <1>7, <1>8, BubbleAdded
<1>10. TypeOK'
  BY <1>1, <1>2, <1>4, <1>6, <1>9 DEF TypeOK, LogEntry
<1>11. isOpen => rows' = Append(rows, r)
  BY <1>2 DEF saveMessage
<1>12. UnreadInv'
  <2>1. getAllUnreadCounts' = [d \in Contact |-> Cardinality(Unread(d, rows'))]
    BY DEF getAllUnreadCounts, Unread
  <2>2. ASSUME isOpen PROVE \A d \in Contact : Cardinality(Unread(d, rows')) = Cardinality(Unread(d, rows))
    BY <1>1, <1>5, <1>11, <2>2, UnreadCounted
  <2>3. getAllUnreadCounts = [d \in Contact |-> Cardinality(Unread(d, rows))]
    BY <1>1, CountsByContact
  <2> QED BY <1>2, <2>1, <2>2, <2>3 DEF UnreadInv
<1>13. ReadInv'
  <2>1. ASSUME isOpen, NEW i \in DOMAIN rows', rows'[i].contact = c, ~rows'[i].isRead
        PROVE  messageLog'[rows'[i].id].chat # c
    <3>1. i \in DOMAIN rows /\ rows'[i] = rows[i]
      <4>1. rows' = Append(rows, r)
        BY <1>11, <2>1
      <4>2. DOMAIN rows' = DOMAIN rows \cup {Len(rows) + 1} /\ rows'[Len(rows) + 1] = r
            /\ \A j \in DOMAIN rows : rows'[j] = rows[j]
        BY <1>1, <1>5, <4>1
      <4> QED BY <1>5, <2>1, <4>2
    <3>2. rows[i].id \in 1..Len(messageLog)
      BY <3>1 DEF RowsInv, Table
    <3>3. messageLog'[rows[i].id] = messageLog[rows[i].id]
      BY <1>4, <3>2 DEF LogGrows
    <3>4. messageLog[rows[i].id].chat # c
      BY <2>1, <3>1 DEF ReadInv, KeyFits
    <3> QED BY <3>1, <3>3, <3>4
  <2> QED BY <1>2, <2>1 DEF ReadInv, KeyFits
<1>14. BadgeInv'
  BY <1>2 DEF BadgeInv
<1> QED BY <1>6, <1>9, <1>10, <1>12, <1>13, <1>14

\* A message that no open chat shows: of a chat that is not open, or filed under its sender.
LEMMA CountStep ==
    ASSUME WindowInv, NEW c \in Contact, NEW d \in Contact, NewMessage(d, FALSE),
           (c = d /\ c # currentContact) \/ (d \in Group /\ c \in User),
           CountUnread(c), updateContactBadge(c, unreadCounts'),
           UNCHANGED <<window, isOpen, currentContact, opened, files, cleared>>
    PROVE  WindowInv'
<1> USE DEF WindowInv
<1> DEFINE r == [contact |-> c, id |-> lastMessage', isOwn |-> FALSE, isRead |-> FALSE]
<1>1. /\ rows \in Seq(Row) /\ messageLog \in Seq(LogEntry) /\ currentMessages \in Seq(Nat)
      /\ unreadCounts \in [Contact -> Nat] /\ opened \subseteq DOMAIN messageLog
      /\ DOMAIN messageHistory \subseteq Contact
      /\ messageHistory \in [DOMAIN messageHistory -> Seq(Nat)]
  BY DEF TypeOK, LogEntry
<1>2. /\ rows' = saveMessage(r) /\ unreadCounts' = [unreadCounts EXCEPT ![c] = @ + 1]
      /\ UNCHANGED <<currentMessages, messageHistory>>
  BY DEF CountUnread
<1>3. /\ messageLog' \in Seq(LogEntry) /\ LogGrows(messageLog, messageLog')
      /\ lastMessage \in Nat /\ lastMessage' = lastMessage + 1
      /\ messageLog'[lastMessage'].chat = d /\ DOMAIN messageLog \subseteq DOMAIN messageLog'
  BY LogFacts
<1>4. /\ r \in Row /\ r.contact = c /\ r.id = lastMessage' /\ ~r.isOwn /\ ~r.isRead
  BY <1>3 DEF Row
<1> HIDE DEF r
<1>5. c = d \/ (d \in Group /\ c \in User)
  OBVIOUS
<1>6. /\ rows' \in Seq(Row) /\ TableGrows(rows, rows', Len(messageLog)) /\ RowsInv'
  BY <1>2, <1>4, <1>5, SavedFacts
<1>7. /\ unreadCounts' \in [Contact -> Nat] /\ unreadCounts'[c] = unreadCounts[c] + 1
      /\ \A e \in Contact : e # c => unreadCounts'[e] = unreadCounts[e]
  BY <1>1, <1>2
<1>8. contactList' \in Seq(ListEntry) /\ BadgeInv'
  BY <1>7, BadgesFollow
<1>9. TypeOK'
  BY <1>1, <1>2, <1>3, <1>6, <1>7, <1>8, NewMessage(d, FALSE) DEF TypeOK, ListEntry, LogEntry, NewMessage
<1>10. ChatInv'
  <2>1. UNCHANGED <<chatVars, isOpen>>
    BY <1>2 DEF chatVars
  <2>2. \A id \in opened' : id # 0 /\ \E e \in DOMAIN messageHistory : id \in ToSet(messageHistory[e])
    BY DEF ChatInv
  <2> QED BY <1>3, <1>6, <2>1, <2>2, ChatsKept
<1>11. isOpen => rows' = Append(rows, r)
  BY <1>2 DEF saveMessage
<1>12. UnreadInv'
  <2>1. getAllUnreadCounts' = [e \in Contact |-> Cardinality(Unread(e, rows'))]
    BY DEF getAllUnreadCounts, Unread
  <2>2. ASSUME isOpen
        PROVE  \A e \in Contact : Cardinality(Unread(e, rows')) =
                   IF e = c THEN Cardinality(Unread(e, rows)) + 1 ELSE Cardinality(Unread(e, rows))
    BY <1>1, <1>4, <1>11, <2>2, UnreadCounted, ZenonT(60)
  <2>3. getAllUnreadCounts = [e \in Contact |-> Cardinality(Unread(e, rows))]
    BY <1>1, CountsByContact
  <2>4. ASSUME isOpen PROVE \A e \in Contact : unreadCounts'[e] = Cardinality(Unread(e, rows'))
    <3>1. \A e \in Contact : unreadCounts[e] = Cardinality(Unread(e, rows))
      BY <2>3, <2>4 DEF UnreadInv
    <3> QED BY <1>7, <2>2, <2>4, <3>1
  <2>5. unreadCounts' = [e \in Contact |-> unreadCounts'[e]]
    BY <1>7
  <2> QED BY <2>1, <2>4, <2>5 DEF UnreadInv
<1>13. ReadInv'
  <2>1. ASSUME isOpen, NEW i \in DOMAIN rows', rows'[i].contact = currentContact, ~rows'[i].isRead
        PROVE  messageLog'[rows'[i].id].chat # currentContact
    <3>1. DOMAIN rows' = DOMAIN rows \cup {Len(rows) + 1} /\ rows'[Len(rows) + 1] = r
          /\ \A j \in DOMAIN rows : rows'[j] = rows[j]
      <4>1. rows' = Append(rows, r)
        BY <1>11, <2>1
      <4> QED BY <1>1, <1>4, <4>1
    <3>2. CASE i = Len(rows) + 1
      <4>1. c = currentContact /\ messageLog'[rows'[i].id].chat = d
        BY <1>3, <1>4, <2>1, <3>1, <3>2
      <4>2. d \in Group /\ c \in User
        BY <4>1
      <4> QED BY <4>1, <4>2, WindowAssumption
    <3>3. CASE i \in DOMAIN rows
      <4>1. rows[i].id \in 1..Len(messageLog)
        BY <3>3 DEF RowsInv, Table
      <4>2. messageLog'[rows[i].id] = messageLog[rows[i].id]
        BY <1>3, <4>1 DEF LogGrows
      <4>3. messageLog[rows[i].id].chat # currentContact
        BY <2>1, <3>1, <3>3 DEF ReadInv, KeyFits
      <4> QED BY <3>1, <3>3, <4>2, <4>3
    <3> QED BY <3>1, <3>2, <3>3
  <2> QED BY <2>1 DEF ReadInv, KeyFits
<1> QED BY <1>6, <1>8, <1>9, <1>10, <1>12, <1>13

LEMMA ReceiveStep ==
    ASSUME WindowInv, NEW c \in Contact, Receive(c)
    PROVE  WindowInv'
<1>1. /\ NewMessage(c, FALSE) /\ updateContactBadge(c, unreadCounts')
      /\ UNCHANGED <<window, isOpen, currentContact, opened, files, cleared>>
  BY DEF Receive
<1>2. CASE c # currentContact
  <2>1. CountUnread(c)
    BY <1>2 DEF Receive
  <2> QED BY <1>1, <1>2, <2>1, CountStep
<1>3. CASE c = currentContact
  <2> USE DEF WindowInv
  <2> DEFINE r == [contact |-> c, id |-> lastMessage', isOwn |-> FALSE, isRead |-> FALSE]
  <2>1. /\ rows \in Seq(Row) /\ messageLog \in Seq(LogEntry) /\ currentMessages \in Seq(Nat)
        /\ unreadCounts \in [Contact -> Nat] /\ opened \subseteq DOMAIN messageLog
        /\ DOMAIN messageHistory \subseteq Contact
    BY DEF TypeOK, LogEntry
  <2>2. /\ AddBubble(lastMessage') /\ unreadCounts' = [unreadCounts EXCEPT ![c] = 0]
        /\ rows' = IF isOpen THEN markAsRead(c, saveMessage(r)) ELSE saveMessage(r)
    BY <1>3 DEF Receive
  <2>3. c # NoContact
    BY WindowAssumption DEF Contact
  <2>4. /\ messageLog' \in Seq(LogEntry) /\ LogGrows(messageLog, messageLog')
        /\ lastMessage \in Nat /\ lastMessage' = lastMessage + 1
        /\ DOMAIN messageLog \subseteq DOMAIN messageLog'
    BY <1>1, LogFacts
  <2>5. r \in Row /\ r.contact = c /\ r.id = lastMessage' /\ ~r.isOwn
    BY <2>4 DEF Row
  <2> HIDE DEF r
  <2>6. /\ rows' \in Seq(Row) /\ TableGrows(rows, rows', Len(messageLog))
        /\ RowsInv' /\ Filed(c, lastMessage', messageLog')
        /\ \A j \in DOMAIN rows' : rows'[j].id = lastMessage' => rows'[j].contact = c
        /\ isOpen => \E j \in DOMAIN rows' : rows'[j].id = lastMessage'
    BY <1>1, <2>2, <2>5, SavedFacts
  <2>7. /\ lastMessage' \in 1..Len(messageLog') /\ lastMessage' \in Nat
        /\ \A i \in DOMAIN currentMessages : currentMessages[i] < lastMessage'
    BY <1>1, <1>3, <2>3, FreshMessage
  <2>8. Held(c, Append(currentMessages, lastMessage'), rows', messageLog', isOpen)
    <3>1. Held(c, currentMessages, rows, messageLog, isOpen)
      BY <1>3, <2>3 DEF ChatInv
    <3>2. Held(c, currentMessages, rows', messageLog', isOpen)
      BY <2>1, <2>4, <2>6, <3>1, HeldGrows
    <3> QED BY <2>1, <2>4, <2>6, <2>7, <3>2, HeldNew
  <2>9. /\ currentMessages' \in Seq(Nat) /\ DOMAIN messageHistory' = DOMAIN messageHistory
        /\ messageHistory' \in [DOMAIN messageHistory' -> Seq(Nat)] /\ ChatInv'
    BY <1>1, <1>3, <2>1, <2>2, <2>3, <2>4, <2>6, <2>7, <2>8, BubbleAdded
  <2>10. /\ unreadCounts' \in [Contact -> Nat] /\ unreadCounts'[c] = 0
         /\ \A d \in Contact : d # c => unreadCounts'[d] = unreadCounts[d]
    BY <2>1, <2>2
  <2>11. contactList' \in Seq(ListEntry) /\ BadgeInv'
    BY <1>1, <2>10, BadgesFollow
  <2>12. TypeOK'
    BY <1>1, <2>1, <2>4, <2>6, <2>9, <2>10, <2>11 DEF TypeOK, LogEntry, ListEntry
  <2> DEFINE t == Append(rows, r)
  <2>13. t \in Seq(Row) /\ (isOpen => rows' = markAsRead(c, t))
    BY <2>1, <2>2, <2>5 DEF saveMessage
  <2>14. \A d : d # c => Cardinality(Unread(d, t)) = Cardinality(Unread(d, rows))
    BY <2>1, <2>5, UnreadCounted
  <2> HIDE DEF t
  <2>15. UnreadInv'
    <3>1. getAllUnreadCounts' = [d \in Contact |-> Cardinality(Unread(d, rows'))]
      BY DEF getAllUnreadCounts, Unread
    <3>2. ASSUME isOpen
          PROVE  /\ Cardinality(Unread(c, rows')) = 0
                 /\ \A d : d # c => Cardinality(Unread(d, rows')) = Cardinality(Unread(d, rows))
      <4>1. Unread(c, rows') = {} /\ \A d : d # c => Unread(d, rows') = Unread(d, t)
        BY <2>13, <3>2, UnreadMarked
      <4> QED BY <2>14, <4>1, FS_EmptySet
    <3>3. getAllUnreadCounts = [d \in Contact |-> Cardinality(Unread(d, rows))]
      BY <2>1, CountsByContact
    <3>4. ASSUME isOpen PROVE \A d \in Contact : unreadCounts'[d] = Cardinality(Unread(d, rows'))
      <4>1. \A d \in Contact : unreadCounts[d] = Cardinality(Unread(d, rows))
        BY <3>3, <3>4 DEF UnreadInv
      <4> QED BY <2>10, <3>2, <3>4, <4>1
    <3>5. unreadCounts' = [d \in Contact |-> unreadCounts'[d]]
      BY <2>10
    <3> QED BY <1>1, <3>1, <3>4, <3>5 DEF UnreadInv
  <2>16. ReadInv'
    <3>1. ASSUME isOpen, NEW i \in DOMAIN rows' PROVE ~(rows'[i].contact = c /\ ~rows'[i].isRead)
      <4>1. rows' = markAsRead(c, t) /\ DOMAIN rows' = 1..Len(t)
        BY <2>13, <3>1, MarkFacts
      <4>2. SameRow(rows'[i], t[i]) /\ (t[i].contact = c => rows'[i].isRead)
        BY <2>13, <4>1, MarkFacts
      <4> QED BY <4>2 DEF SameRow
    <3> QED BY <1>1, <1>3, <3>1 DEF ReadInv
  <2> QED BY <2>6, <2>9, <2>11, <2>12, <2>15, <2>16
<1> QED BY <1>2, <1>3

LEMMA ReceiveStoredStep ==
    ASSUME WindowInv, NEW u \in User, NEW g \in Group, ReceiveStored(u, g)
    PROVE  WindowInv'
<1>1. u \in Contact /\ g \in Contact
  BY DEF Contact
<1> QED BY <1>1, CountStep DEF ReceiveStored

LEMMA AttachStep ==
    ASSUME WindowInv, Attach
    PROVE  WindowInv'
<1> USE DEF WindowInv
<1>1. /\ rows \in Seq(Row) /\ messageLog \in Seq(LogEntry) /\ currentMessages \in Seq(Nat)
  BY DEF TypeOK, LogEntry
<1>2. /\ currentContact # NoContact /\ files' = files + 1 /\ AddBubble(0)
      /\ UNCHANGED <<window, isOpen, rows, unreadCounts, currentContact, opened, contactList,
                     messageLog, cleared>>
  BY DEF Attach
<1>3. Held(currentContact, Append(currentMessages, 0), rows', messageLog', isOpen)
  <2>1. Held(currentContact, currentMessages, rows, messageLog, isOpen)
    BY <1>2 DEF ChatInv
  <2> QED BY <1>1, <1>2, <2>1, HeldFile
<1>4. LogGrows(messageLog, messageLog') /\ TableGrows(rows, rows', Len(messageLog))
  BY <1>1, <1>2, SameLog, SameTable
<1>5. /\ currentMessages' \in Seq(Nat) /\ DOMAIN messageHistory' = DOMAIN messageHistory
      /\ messageHistory' \in [DOMAIN messageHistory' -> Seq(Nat)] /\ ChatInv'
  BY <1>1, <1>2, <1>3, <1>4, BubbleAdded
<1>6. TypeOK'
  BY <1>2, <1>5 DEF TypeOK
<1>7. RowsInv' /\ ReadInv' /\ BadgeInv'
  BY <1>2 DEF RowsInv, ReadInv, KeyFits, BadgeInv
<1>8. UnreadInv'
  BY <1>2 DEF UnreadInv, getAllUnreadCounts
<1> QED BY <1>5, <1>6, <1>7, <1>8

LEMMA DecryptStep ==
    ASSUME WindowInv, NEW id \in 1..lastMessage, Decrypt(id)
    PROVE  WindowInv'
<1> USE DEF WindowInv
<1>1. /\ rows \in Seq(Row) /\ messageLog \in Seq(LogEntry) /\ currentMessages \in Seq(Nat)
      /\ lastMessage = Len(messageLog)
  BY DEF TypeOK, LogEntry, lastMessage
<1>2. /\ id \in ToSet(currentMessages) /\ opened' = opened \cup {id}
      /\ UNCHANGED <<window, isOpen, rows, unreadCounts, chatVars, contactList, messageLog, files, cleared>>
  BY DEF Decrypt
<1>3. currentContact # NoContact
  BY <1>2 DEF ChatInv, ToSet
<1>4. id # 0 /\ \E c \in DOMAIN messageHistory : id \in ToSet(messageHistory[c])
  <2>1. id # 0
    BY <1>1
  <2> QED BY <1>2, <1>3, <2>1 DEF ChatInv
<1>5. LogGrows(messageLog, messageLog') /\ TableGrows(rows, rows', Len(messageLog))
  BY <1>1, <1>2, SameLog, SameTable
<1>6. ChatInv'
  <2>1. \A i \in opened' : i # 0 /\ \E c \in DOMAIN messageHistory : i \in ToSet(messageHistory[c])
    BY <1>2, <1>4 DEF ChatInv
  <2> QED BY <1>1, <1>2, <1>5, <2>1, ChatsKept
<1>7. TypeOK'
  BY <1>1, <1>2 DEF TypeOK, chatVars
<1>8. RowsInv' /\ ReadInv' /\ BadgeInv'
  BY <1>2 DEF RowsInv, ReadInv, KeyFits, BadgeInv, chatVars
<1>9. UnreadInv'
  BY <1>2 DEF UnreadInv, getAllUnreadCounts
<1> QED BY <1>6, <1>7, <1>8, <1>9

\* Only the sidebar changes.
LEMMA SidebarStep ==
    ASSUME WindowInv, contactList' \in Seq(ListEntry), BadgeInv',
           UNCHANGED <<window, isOpen, rows, unreadCounts, chatVars, opened, messageLog, files, cleared>>
    PROVE  WindowInv'
<1> USE DEF WindowInv
<1>1. UNCHANGED <<currentContact, currentMessages, messageHistory>>
  BY DEF chatVars
<1>2. TypeOK'
  BY <1>1 DEF TypeOK, ListEntry
<1>3. RowsInv' /\ ReadInv'
  BY <1>1 DEF RowsInv, ReadInv, KeyFits
<1>4. UnreadInv'
  BY DEF UnreadInv, getAllUnreadCounts
<1>5. ChatInv'
  BY <1>1 DEF ChatInv
<1> QED BY <1>2, <1>3, <1>4, <1>5

LEMMA UserListStep ==
    ASSUME WindowInv, NEW online \in SUBSET User, onUserListReceived(online)
    PROVE  WindowInv'
<1>1. PICK us \in SetToSeqs(online) :
          contactList' = [i \in DOMAIN us |-> Item(us[i], unreadCounts[us[i]])]
  BY DEF onUserListReceived
<1> DEFINE n == Cardinality(online)
<1>2. n \in Nat
  BY WindowAssumption, FS_Subset, FS_CardinalityType
<1>3. us \in [1..n -> online] /\ \A i, j \in 1..n : i # j => us[i] # us[j]
  BY DEF SetToSeqs
<1> HIDE DEF n
<1>4. \A i \in 1..n : us[i] \in User /\ us[i] \in Contact /\ unreadCounts[us[i]] \in Nat
  BY <1>3 DEF WindowInv, TypeOK, Contact
<1>5. \A i \in 1..n : Item(us[i], unreadCounts[us[i]]) \in ListEntry
  BY <1>4 DEF Item, ListEntry
<1>6. contactList' = [i \in 1..n |-> Item(us[i], unreadCounts[us[i]])]
  BY <1>1, <1>3
<1>7. contactList' \in Seq(ListEntry) /\ DOMAIN contactList' = 1..n
  BY <1>2, <1>5, <1>6
<1>8. \A i \in 1..n : contactList'[i].contact = us[i] /\ contactList'[i].badge = unreadCounts[us[i]]
  BY <1>6 DEF Item
<1>9. UNCHANGED <<window, isOpen, rows, unreadCounts, chatVars, opened, messageLog, files, cleared>>
  BY DEF onUserListReceived
<1>10. BadgeInv'
  BY <1>3, <1>7, <1>8, <1>9 DEF BadgeInv
<1> QED BY <1>7, <1>9, <1>10, SidebarStep

LEMMA GroupStep ==
    ASSUME WindowInv, NEW g \in Group, onCreateGroupClicked(g) \/ onJoinGroupClicked(g)
    PROVE  WindowInv'
<1>1. contactList \in Seq(ListEntry) /\ Len(contactList) \in Nat
  BY DEF WindowInv, TypeOK, ListEntry
<1>2. Item(g, 0) \in ListEntry /\ Item(g, 0).contact = g /\ g \notin User
  BY WindowAssumption DEF Item, ListEntry, Contact
<1>3. PICK items \in {<<Item(g, 0), Item(g, 0)>>, <<Item(g, 0)>>} : AddGroup(g, items)
  BY DEF onCreateGroupClicked, onJoinGroupClicked
<1>4. /\ items \in Seq(ListEntry) /\ Len(items) \in Nat
      /\ \A i \in 1..Len(items) : items[i].contact \notin User
  <2>1. CASE items = <<Item(g, 0)>>
    BY <1>2, <2>1
  <2>2. CASE items = <<Item(g, 0), Item(g, 0)>>
    BY <1>2, <2>2
  <2> QED BY <1>3, <2>1, <2>2
<1>5. /\ contactList' = contactList \o items
      /\ UNCHANGED <<window, isOpen, rows, unreadCounts, chatVars, opened, messageLog, files, cleared>>
  BY <1>3 DEF AddGroup
<1>6. contactList' \in Seq(ListEntry) /\ Len(contactList') = Len(contactList) + Len(items)
  BY <1>1, <1>4, <1>5
<1>7. \A i \in 1..Len(contactList') :
          IF i <= Len(contactList) THEN contactList'[i] = contactList[i]
                                   ELSE contactList'[i].contact \notin User
  <2>1. \A i \in 1..Len(contactList') :
            contactList'[i] = IF i <= Len(contactList) THEN contactList[i]
                                                       ELSE items[i - Len(contactList)]
    BY <1>1, <1>4, <1>5, <1>6
  <2>2. \A i \in 1..Len(contactList') : ~(i <= Len(contactList)) => i - Len(contactList) \in 1..Len(items)
    BY <1>1, <1>4, <1>6
  <2> QED BY <1>4, <2>1, <2>2
<1>8. /\ DOMAIN contactList = 1..Len(contactList) /\ DOMAIN contactList' = 1..Len(contactList')
      /\ \A i \in 1..Len(contactList') : i <= Len(contactList) => i \in 1..Len(contactList)
  BY <1>1, <1>6
<1>9. BadgeInv'
  <2>1. ASSUME ~cleared, NEW i \in DOMAIN contactList', contactList'[i].contact \in User
        PROVE  /\ contactList'[i].badge = unreadCounts[contactList'[i].contact]
               /\ \A j \in DOMAIN contactList' : contactList'[j].contact = contactList'[i].contact => i = j
    <3>1. i \in DOMAIN contactList /\ contactList'[i] = contactList[i]
      BY <1>7, <1>8, <2>1
    <3>2. \A j \in DOMAIN contactList' : contactList'[j].contact \in User =>
              j \in DOMAIN contactList /\ contactList'[j] = contactList[j]
      BY <1>7, <1>8
    <3> QED BY <2>1, <3>1, <3>2 DEF WindowInv, BadgeInv
  <2> QED BY <1>5, <2>1 DEF BadgeInv
<1> QED BY <1>5, <1>6, <1>9, SidebarStep

\* Nothing is open or cached.
LEMMA NoChats ==
    ASSUME currentContact' = NoContact, currentMessages' = <<>>,
           messageHistory' = [c \in {} |-> <<>>], opened' = {}
    PROVE  /\ ChatInv' /\ DOMAIN messageHistory' = {}
           /\ messageHistory' \in [DOMAIN messageHistory' -> Seq(Nat)]
<1>1. DOMAIN messageHistory' = {}
  OBVIOUS
<1>2. messageHistory' \in [DOMAIN messageHistory' -> Seq(Nat)]
  OBVIOUS
<1> QED BY <1>1, <1>2 DEF ChatInv

LEMMA NoRows ==
    ASSUME rows' = <<>>, unreadCounts' = [c \in Contact |-> 0]
    PROVE  RowsInv' /\ UnreadInv' /\ ReadInv' /\ rows' \in Seq(Row)
<1>1. RowsInv' /\ ReadInv' /\ rows' \in Seq(Row)
  BY DEF RowsInv, Table, ReadInv
<1>2. \A c : Unread(c, rows') = {}
  BY DEF Unread
<1>3. getAllUnreadCounts' = [c \in Contact |-> Cardinality(Unread(c, rows'))]
  BY DEF getAllUnreadCounts, Unread
<1>4. getAllUnreadCounts' = [c \in Contact |-> 0]
  BY <1>2, <1>3, FS_EmptySet
<1> QED BY <1>1, <1>4 DEF UnreadInv

LEMMA DisconnectStep ==
    ASSUME WindowInv, onServerDisconnected
    PROVE  WindowInv'
<1> USE DEF WindowInv
<1>1. /\ rows' = (IF isOpen THEN <<>> ELSE rows) /\ unreadCounts' = [c \in Contact |-> 0]
      /\ currentContact' = NoContact /\ currentMessages' = <<>>
      /\ messageHistory' = [c \in {} |-> <<>>] /\ opened' = {} /\ cleared' = TRUE
      /\ contactList' = Picked(contactList, {i \in DOMAIN contactList : contactList[i].contact \in User})
      /\ UNCHANGED <<window, isOpen, messageLog, files>>
  BY DEF onServerDisconnected
<1>2. contactList' \in Seq(ListEntry)
  <2> DEFINE P == {i \in DOMAIN contactList : contactList[i].contact \in User}
  <2>1. contactList \in Seq(ListEntry) /\ P \in SUBSET DOMAIN contactList
    BY DEF TypeOK, ListEntry
  <2> HIDE DEF P
  <2>2. Picked(contactList, P) \in Seq(ListEntry)
    BY <2>1, PickedType
  <2> QED BY <1>1, <2>2 DEF P
<1>3. /\ ChatInv' /\ DOMAIN messageHistory' = {}
      /\ messageHistory' \in [DOMAIN messageHistory' -> Seq(Nat)]
  BY <1>1, NoChats
<1>4. RowsInv' /\ UnreadInv' /\ ReadInv' /\ rows' \in Seq(Row)
  <2>1. CASE isOpen
    BY <1>1, <2>1, NoRows
  <2>2. CASE ~isOpen
    BY <1>1, <2>2 DEF TypeOK, RowsInv, UnreadInv, ReadInv
  <2> QED BY <2>1, <2>2
<1>5. unreadCounts' \in [Contact -> Nat]
  BY <1>1
<1>6. TypeOK'
  BY <1>1, <1>2, <1>3, <1>4, <1>5 DEF TypeOK, ListEntry
<1>7. BadgeInv'
  BY <1>1 DEF BadgeInv
<1> QED BY <1>3, <1>4, <1>6, <1>7

LEMMA StartStep ==
    ASSUME WindowInv, NEW ok \in BOOLEAN, Start(ok)
    PROVE  WindowInv'
<1> USE DEF WindowInv
<1>1. /\ window' = "open" /\ isOpen' = ok /\ UNCHANGED <<rows, messageLog, files>>
      /\ unreadCounts' = IF ok THEN getAllUnreadCounts ELSE [c \in Contact |-> 0]
      /\ currentContact' = NoContact /\ currentMessages' = <<>>
      /\ contactList' = <<>> /\ opened' = {} /\ cleared' = FALSE
  BY DEF Start, Blank
<1>2. rows \in Seq(Row) /\ \A i \in DOMAIN rows : rows[i].contact # NoContact
  <2>1. \A i \in DOMAIN rows : rows[i] \in Row
    BY DEF TypeOK
  <2>2. \A i \in DOMAIN rows : rows[i].contact \in Contact
    BY <2>1 DEF Row
  <2> QED BY <2>2, WindowAssumption DEF Contact, TypeOK
<1>3. /\ ChatInv' /\ DOMAIN messageHistory' = {}
      /\ messageHistory' \in [DOMAIN messageHistory' -> Seq(Nat)]
  BY <1>1, NoChats DEF Start, Blank
<1>4. unreadCounts' \in [Contact -> Nat]
  <2>1. [c \in Contact |-> 0] \in [Contact -> Nat]
    OBVIOUS
  <2> QED BY <1>1, <1>2, <2>1, CountsByContact
<1>5. TypeOK'
  <2>1. currentMessages' \in Seq(Nat) /\ contactList' \in Seq([contact : Contact, badge : Nat])
    BY <1>1
  <2>2. DOMAIN messageHistory' \subseteq Contact
    BY <1>3
  <2> QED BY <1>1, <1>3, <1>4, <2>1, <2>2 DEF TypeOK
<1>6. RowsInv' /\ ReadInv' /\ BadgeInv'
  BY <1>1, <1>2 DEF RowsInv, ReadInv, BadgeInv
<1>7. UnreadInv'
  <2>1. getAllUnreadCounts' = getAllUnreadCounts
    BY <1>1 DEF getAllUnreadCounts
  <2> QED BY <1>1, <2>1 DEF UnreadInv
<1> QED BY <1>3, <1>5, <1>6, <1>7

LEMMA EndStep ==
    ASSUME WindowInv, Close \/ Kill
    PROVE  WindowInv'
<1> USE DEF WindowInv
<1>1. /\ window' = "closed" /\ isOpen' = FALSE /\ unreadCounts' = [c \in Contact |-> 0]
      /\ UNCHANGED <<messageLog, files>>
      /\ currentContact' = NoContact /\ currentMessages' = <<>>
      /\ contactList' = <<>> /\ opened' = {} /\ cleared' = FALSE
  BY DEF Close, Kill, End, Blank
<1>2. rows' = <<>> \/ rows' = rows
  BY DEF Close, Kill
<1>3. /\ ChatInv' /\ DOMAIN messageHistory' = {}
      /\ messageHistory' \in [DOMAIN messageHistory' -> Seq(Nat)]
  BY <1>1, NoChats DEF Close, Kill, End, Blank
<1>4. RowsInv' /\ rows' \in Seq(Row)
  <2>1. CASE rows' = <<>>
    BY <1>1, <2>1, NoRows
  <2>2. CASE rows' = rows
    BY <1>1, <2>2 DEF TypeOK, RowsInv
  <2> QED BY <1>2, <2>1, <2>2
<1>5. unreadCounts' \in [Contact -> Nat]
  BY <1>1
<1>6. TypeOK'
  <2>1. currentMessages' \in Seq(Nat) /\ contactList' \in Seq([contact : Contact, badge : Nat])
    BY <1>1
  <2>2. DOMAIN messageHistory' \subseteq Contact
    BY <1>3
  <2> QED BY <1>1, <1>3, <1>4, <1>5, <2>1, <2>2 DEF TypeOK
<1>7. UnreadInv' /\ ReadInv' /\ BadgeInv'
  BY <1>1 DEF UnreadInv, ReadInv, BadgeInv
<1> QED BY <1>3, <1>4, <1>6, <1>7

LEMMA WindowInit ==
    ASSUME Init
    PROVE  WindowInv
<1>1. messageHistory \in [DOMAIN messageHistory -> Seq(Nat)] /\ DOMAIN messageHistory = {}
  BY DEF Init
<1>2. TypeOK
  <2>1. /\ window = "closed" /\ isOpen = FALSE /\ rows = <<>> /\ unreadCounts = [c \in Contact |-> 0]
        /\ currentContact = NoContact /\ currentMessages = <<>> /\ contactList = <<>>
        /\ opened = {} /\ cleared = FALSE /\ messageLog = <<>> /\ files = 0
    BY DEF Init
  <2>2. /\ currentMessages \in Seq(Nat) /\ contactList \in Seq([contact : Contact, badge : Nat])
        /\ rows \in Seq(Row) /\ messageLog \in Seq([chat : Contact, isOwn : BOOLEAN])
        /\ unreadCounts \in [Contact -> Nat]
    BY <2>1
  <2>3. DOMAIN messageHistory \subseteq Contact
    BY <1>1
  <2> QED BY <1>1, <2>1, <2>2, <2>3 DEF TypeOK
<1>3. RowsInv /\ ReadInv /\ BadgeInv /\ UnreadInv
  BY DEF Init, RowsInv, Table, ReadInv, BadgeInv, UnreadInv
<1>4. ChatInv
  BY <1>1 DEF Init, ChatInv
<1> QED BY <1>2, <1>3, <1>4 DEF WindowInv

LEMMA WindowNext ==
    ASSUME WindowInv, [Next]_vars
    PROVE  WindowInv'
<1>1. CASE \E c \in Contact : switchToContact(c) \/ Receive(c)
  BY <1>1, SwitchStep, ReceiveStep
<1>2. CASE \E u \in User, g \in Group : ReceiveStored(u, g)
  BY <1>2, ReceiveStoredStep
<1>3. CASE \E id \in 1..lastMessage : Decrypt(id)
  BY <1>3, DecryptStep
<1>4. CASE Send \/ Attach
  BY <1>4, SendStep, AttachStep
<1>5. CASE \E online \in SUBSET User : onUserListReceived(online)
  BY <1>5, UserListStep
<1>6. CASE \E g \in Group : onCreateGroupClicked(g) \/ onJoinGroupClicked(g)
  BY <1>6, GroupStep
<1>7. CASE onServerDisconnected
  BY <1>7, DisconnectStep
<1>8. CASE \E ok \in BOOLEAN : Start(ok)
  BY <1>8, StartStep
<1>9. CASE Close \/ Kill
  BY <1>9, EndStep
<1>10. CASE UNCHANGED vars
  <2>1. UNCHANGED <<window, isOpen, rows, unreadCounts, chatVars, opened, contactList, messageLog,
                    files, cleared>>
    BY <1>10 DEF vars
  <2>2. contactList' \in Seq(ListEntry)
    BY <2>1 DEF WindowInv, TypeOK, ListEntry
  <2>3. BadgeInv'
    BY <2>1 DEF WindowInv, BadgeInv
  <2> QED BY <2>1, <2>2, <2>3, SidebarStep
<1> QED BY <1>1, <1>2, <1>3, <1>4, <1>5, <1>6, <1>7, <1>8, <1>9, <1>10 DEF Next

\* The inductive invariant: the conjuncts need each other.
LEMMA WindowInvariant == Spec => []WindowInv
<1>1. Init => WindowInv
  BY WindowInit
<1>2. WindowInv /\ [Next]_vars => WindowInv'
  BY WindowNext
<1> QED BY <1>1, <1>2, PTL DEF Spec

-----------------------------------------------------------------------------
(* The properties. *)

LEMMA BubblesFacts ==
    ASSUME NEW q \in Seq(Nat)
    PROVE  /\ DOMAIN Bubbles(q) \subseteq Nat
           /\ \A k \in DOMAIN Bubbles(q) :
                 \E i \in DOMAIN q : Bubbles(q)[k] = q[i] /\ q[i] # 0
           /\ (\A i, j \in DOMAIN q : i < j /\ q[i] # 0 /\ q[j] # 0 => q[i] < q[j])
              => \A k, m \in DOMAIN Bubbles(q) : k < m => Bubbles(q)[k] < Bubbles(q)[m]
<1> DEFINE P == {i \in DOMAIN q : q[i] # 0}
<1>1. P \in SUBSET DOMAIN q /\ DOMAIN q = 1..Len(q) /\ Len(q) \in Nat
  OBVIOUS
<1>2. Bubbles(q) = Picked(q, P)
  BY DEF Bubbles
<1>3. \A i \in P : i \in DOMAIN q /\ q[i] # 0
  OBVIOUS
<1> HIDE DEF P
<1>4. /\ DOMAIN Bubbles(q) = 1..Cardinality(P) /\ Cardinality(P) \in Nat
      /\ \A k \in 1..Cardinality(P) : Bubbles(q)[k] = q[Nth(P, k)] /\ Nth(P, k) \in P
  BY <1>1, <1>2, PickedType
<1>5. \A k, m \in 1..Cardinality(P) : k < m => Nth(P, k) < Nth(P, m)
  BY <1>1, NthFacts
<1>6. \A k \in DOMAIN Bubbles(q) : \E i \in DOMAIN q : Bubbles(q)[k] = q[i] /\ q[i] # 0
  BY <1>3, <1>4
<1> QED BY <1>3, <1>4, <1>5, <1>6

\* Every row of c is among what loadMessages finds.
LEMMA StoredAll ==
    ASSUME NEW c, NEW t \in Seq(Row)
    PROVE  \A j \in DOMAIN t : t[j].contact = c =>
              \E k \in DOMAIN Stored(c, t) : Stored(c, t)[k] = t[j].id
<1> DEFINE P == {i \in DOMAIN t : t[i].contact = c}
           own == Picked(t, P)
<1>1. P \in SUBSET DOMAIN t /\ DOMAIN t = 1..Len(t) /\ Len(t) \in Nat
  OBVIOUS
<1>2. Stored(c, t) = [k \in DOMAIN own |-> own[k].id]
  BY DEF Stored
<1>3. \A j \in DOMAIN t : t[j].contact = c => j \in P
  OBVIOUS
<1> HIDE DEF P
<1>4. /\ DOMAIN own = 1..Cardinality(P)
      /\ \A k \in 1..Cardinality(P) : own[k] = t[Nth(P, k)]
  BY <1>1, PickedType
<1>5. \A j \in P : Rank(P, j) \in 1..Cardinality(P) /\ Nth(P, Rank(P, j)) = j
  BY <1>1, NthFacts
<1> HIDE DEF own
<1>6. ASSUME NEW j \in DOMAIN t, t[j].contact = c
      PROVE  Rank(P, j) \in DOMAIN Stored(c, t) /\ Stored(c, t)[Rank(P, j)] = t[j].id
  BY <1>2, <1>3, <1>4, <1>5, <1>6
<1> QED BY <1>6

LEMMA HeldMatches ==
    ASSUME NEW c, NEW q \in Seq(Nat), NEW t \in Seq(Row), NEW l \in Seq(LogEntry),
           Table(t, l), Held(c, q, t, l, TRUE)
    PROVE  IsSubsequenceOf(Bubbles(q), Stored(c, t))
<1> DEFINE p == Bubbles(q)
           s == Stored(c, t)
           at == [i \in DOMAIN p |-> CHOOSE k \in DOMAIN s : s[k] = p[i]]
<1>1. \A i \in DOMAIN p : \E k \in DOMAIN s : s[k] = p[i]
  <2>1. ASSUME NEW i \in DOMAIN p PROVE \E k \in DOMAIN s : s[k] = p[i]
    <3>1. PICK j \in DOMAIN q : p[i] = q[j] /\ q[j] # 0
      BY BubblesFacts
    <3>2. PICK m \in DOMAIN t : t[m].id = q[j] /\ t[m].contact = c
      BY <3>1 DEF Held
    <3> QED BY <3>1, <3>2, StoredAll, ZenonT(60)
  <2> QED BY <2>1
<1>2. \A i \in DOMAIN p : at[i] \in DOMAIN s /\ s[at[i]] = p[i]
  BY <1>1
<1>3. \A i, j \in DOMAIN p : i < j => p[i] < p[j]
  BY BubblesFacts DEF Held
<1>4. \A k, m \in DOMAIN s : k < m => s[k] < s[m]
  BY StoredOrder DEF Table
<1>5. s \in Seq(Nat) /\ DOMAIN s = 1..Len(s) /\ Len(s) \in Nat /\ \A k \in DOMAIN s : s[k] \in Nat
  BY StoredFacts
<1>6. at \in [DOMAIN p -> DOMAIN s]
  BY <1>2
<1> HIDE DEF at, p, s
<1>7. ASSUME NEW i \in DOMAIN p, NEW j \in DOMAIN p, i < j PROVE at[i] < at[j]
  <2>1. s[at[i]] < s[at[j]] /\ at[i] \in DOMAIN s /\ at[j] \in DOMAIN s
    BY <1>2, <1>3, <1>7
  <2>2. at[i] < at[j] \/ at[j] < at[i] \/ at[i] = at[j]
    BY <1>5, <2>1
  <2>3. ~(at[j] < at[i])
    <3>1. at[j] < at[i] => s[at[j]] < s[at[i]]
      BY <1>4, <2>1
    <3> QED BY <1>5, <2>1, <3>1
  <2>4. at[i] # at[j]
    BY <1>5, <2>1
  <2> QED BY <2>2, <2>3, <2>4
<1> QED BY <1>2, <1>6, <1>7 DEF IsSubsequenceOf, p, s

LEMMA PrefixFacts ==
    ASSUME NEW q \in Seq(Nat), NEW b \in Nat
    PROVE  IsPrefix(q, q) /\ IsPrefix(q, Append(q, b))
<1> DEFINE r == Append(q, b)
<1>1. /\ Len(q) \in Nat /\ r \in Seq(Nat) /\ Len(r) = Len(q) + 1
      /\ \A i \in 1..Len(q) : r[i] = q[i]
  OBVIOUS
<1> HIDE DEF r
<1>2. SubSeq(q, 1, Len(q)) = [i \in 1..Len(q) |-> q[i]]
  BY <1>1
<1>3. SubSeq(r, 1, Len(q)) = [i \in 1..Len(q) |-> r[i]]
  BY <1>1
<1>4. SubSeq(q, 1, Len(q)) = SubSeq(r, 1, Len(q))
  BY <1>1, <1>2, <1>3
<1> QED BY <1>1, <1>4 DEF IsPrefix, r

\* The counters shown are those that the table gives, whatever was received, opened,
\* lost or restarted in between.
THEOREM CountersMatchTheTable == Spec => []UnreadMatchesRows
<1>1. WindowInv => UnreadMatchesRows
  BY DEF WindowInv, UnreadInv, UnreadMatchesRows
<1> QED BY <1>1, WindowInvariant, PTL

\* Every variable of the chat window keeps its type.
THEOREM ChatTypeCorrect == Spec => []TypeOK
<1>1. WindowInv => TypeOK
  BY DEF WindowInv
<1> QED BY <1>1, WindowInvariant, PTL

\* The open chat and every cached one are messages of their contact in the order of the
\* table, none twice, whether loaded from it or added one by one.
THEOREM ChatsFollowTheTable == Spec => []HistoryMatchesRows
<1>1. ASSUME WindowInv PROVE HistoryMatchesRows
  <2>1. /\ rows \in Seq(Row) /\ messageLog \in Seq(LogEntry) /\ RowsInv /\ ChatInv
        /\ \A c \in DOMAIN messageHistory : messageHistory[c] \in Seq(Nat)
    BY <1>1 DEF WindowInv, TypeOK, LogEntry
  <2>2. ASSUME isOpen = TRUE, NEW c \in DOMAIN messageHistory
        PROVE  IsSubsequenceOf(Bubbles(messageHistory[c]), Stored(c, rows))
    <3>1. Held(c, messageHistory[c], rows, messageLog, TRUE)
      BY <2>1, <2>2 DEF ChatInv
    <3> QED BY <2>1, <3>1, HeldMatches DEF RowsInv
  <2>3. currentContact # NoContact =>
            currentContact \in DOMAIN messageHistory /\ messageHistory[currentContact] = currentMessages
    BY <2>1 DEF ChatInv
  <2>4. isOpen => isOpen = TRUE
    BY <1>1 DEF WindowInv, TypeOK
  <2> QED BY <2>2, <2>3, <2>4 DEF HistoryMatchesRows
<1> QED BY <1>1, WindowInvariant, PTL

\* As long as the server was not lost, a user's badge is the user's unread count, in
\* whatever order lists, messages and clicks came.
THEOREM BadgesFollowCounts == Spec => []BadgeIsCount
<1>1. WindowInv => BadgeIsCount
  BY DEF WindowInv, BadgeInv, BadgeIsCount
<1> QED BY <1>1, WindowInvariant, PTL

\* A message shown in the open chat is of that chat, so that its key is the one Decrypt
\* takes; or it is a group message from the offline store.
THEOREM ShownCanBeDecrypted == Spec => []ShownFitsTheKey
<1>1. ASSUME WindowInv PROVE ShownFitsTheKey
  <2>1. ASSUME NEW id \in ToSet(Bubbles(currentMessages))
        PROVE  KeyFits(id) \/ (messageLog[id].chat \in Group /\ currentContact \in User)
    <3>1. currentMessages \in Seq(Nat)
      BY <1>1 DEF WindowInv, TypeOK
    <3>2. PICK i \in DOMAIN currentMessages : currentMessages[i] = id /\ id # 0
      BY <2>1, <3>1, BubblesFacts DEF ToSet
    <3>3. currentContact # NoContact
      BY <1>1, <3>2 DEF WindowInv, ChatInv
    <3>4. Held(currentContact, currentMessages, rows, messageLog, isOpen)
      BY <1>1, <3>3 DEF WindowInv, ChatInv
    <3>5. Filed(currentContact, id, messageLog)
      BY <3>2, <3>4 DEF Held
    <3> QED BY <3>5 DEF Filed, KeyFits
  <2> QED BY <2>1 DEF ShownFitsTheKey
<1> QED BY <1>1, WindowInvariant, PTL

\* The table has no unread message of the open chat.
THEOREM OpenChatsAreRead == Spec => []OpenChatIsRead
<1>1. WindowInv => OpenChatIsRead
  BY DEF WindowInv, ReadInv, OpenChatIsRead
<1> QED BY <1>1, WindowInvariant, PTL

-----------------------------------------------------------------------------
(* What no slot takes back. *)

LEMMA BubbleStays ==
    ASSUME WindowInv, currentContact # NoContact, NEW b \in Nat, AddBubble(b),
           NEW c \in DOMAIN messageHistory
    PROVE  c \in DOMAIN messageHistory' /\ IsPrefix(messageHistory[c], messageHistory'[c])
<1>1. /\ messageHistory[c] \in Seq(Nat) /\ currentMessages \in Seq(Nat)
      /\ messageHistory[currentContact] = currentMessages
  BY DEF WindowInv, TypeOK, ChatInv
<1>2. /\ c \in DOMAIN messageHistory'
      /\ messageHistory'[c] = IF c = currentContact THEN Append(currentMessages, b) ELSE messageHistory[c]
  BY DEF AddBubble
<1>3. IsPrefix(messageHistory[c], messageHistory[c])
  BY <1>1, PrefixFacts
<1>4. IsPrefix(currentMessages, Append(currentMessages, b))
  BY <1>1, PrefixFacts
<1> QED BY <1>1, <1>2, <1>3, <1>4

LEMMA ChatStays ==
    ASSUME WindowInv, UNCHANGED messageHistory, NEW c \in DOMAIN messageHistory
    PROVE  c \in DOMAIN messageHistory' /\ IsPrefix(messageHistory[c], messageHistory'[c])
<1>1. messageHistory[c] \in Seq(Nat) /\ 0 \in Nat
  BY DEF WindowInv, TypeOK
<1>2. IsPrefix(messageHistory[c], messageHistory[c])
  BY <1>1, PrefixFacts
<1> QED BY <1>2

\* No step takes a bubble out of a chat or changes their order, unless it closes all chats.
THEOREM ShownStaysShown == Spec => NothingShownIsForgotten
<1> DEFINE Kept == \A c \in DOMAIN messageHistory :
                      currentContact' # NoContact =>
                          c \in DOMAIN messageHistory' /\ IsPrefix(messageHistory[c], messageHistory'[c])
<1>1. ASSUME WindowInv, Next PROVE Kept
  <2>1. SUFFICES ASSUME NEW c \in DOMAIN messageHistory, currentContact' # NoContact
                 PROVE  c \in DOMAIN messageHistory' /\ IsPrefix(messageHistory[c], messageHistory'[c])
    OBVIOUS
  <2>2. CASE \E d \in Contact : switchToContact(d)
    <3>1. PICK d \in Contact : switchToContact(d)
      BY <2>2
    <3>2. c \in DOMAIN messageHistory' /\ messageHistory'[c] = messageHistory[c]
      BY <1>1, <3>1, SwitchFacts DEF WindowInv
    <3>3. messageHistory[c] \in Seq(Nat)
      BY <1>1 DEF WindowInv, TypeOK
    <3>4. IsPrefix(messageHistory[c], messageHistory[c])
      BY <3>3, PrefixFacts
    <3> QED BY <3>2, <3>4
  <2>3. CASE \E d \in Contact : Receive(d)
    <3>1. PICK d \in Contact : Receive(d)
      BY <2>3
    <3>2. CASE d = currentContact
      <4>1. NewMessage(d, FALSE) /\ AddBubble(lastMessage')
        BY <3>1, <3>2 DEF Receive
      <4>2. lastMessage' \in Nat
        BY <1>1, <4>1, FreshMessage
      <4>3. currentContact # NoContact
        BY <3>2, WindowAssumption DEF Contact
      <4> QED BY <1>1, <4>1, <4>2, <4>3, BubbleStays
    <3>3. CASE d # currentContact
      <4>1. UNCHANGED messageHistory
        BY <3>1, <3>3 DEF Receive, CountUnread
      <4> QED BY <1>1, <4>1, ChatStays
    <3> QED BY <3>2, <3>3
  <2>4. CASE \E u \in User, g \in Group : ReceiveStored(u, g)
    <3>1. UNCHANGED messageHistory
      BY <2>4 DEF ReceiveStored, CountUnread
    <3> QED BY <1>1, <3>1, ChatStays
  <2>5. CASE Send
    <3>1. currentContact # NoContact /\ NewMessage(currentContact, TRUE) /\ AddBubble(lastMessage')
      BY <2>5 DEF Send
    <3>2. currentContact \in Contact
      BY <1>1, <3>1 DEF WindowInv, TypeOK
    <3>3. lastMessage' \in Nat
      BY <1>1, <3>1, <3>2, FreshMessage
    <3> QED BY <1>1, <3>1, <3>3, BubbleStays
  <2>6. CASE Attach
    <3>1. currentContact # NoContact /\ AddBubble(0)
      BY <2>6 DEF Attach
    <3> QED BY <1>1, <3>1, BubbleStays
  <2>7. CASE \/ \E id \in 1..lastMessage : Decrypt(id)
             \/ \E online \in SUBSET User : onUserListReceived(online)
             \/ \E g \in Group : onCreateGroupClicked(g) \/ onJoinGroupClicked(g)
    <3>1. UNCHANGED messageHistory
      BY <2>7 DEF Decrypt, onUserListReceived, onCreateGroupClicked, onJoinGroupClicked, AddGroup,
                  chatVars
    <3> QED BY <1>1, <3>1, ChatStays
  <2>8. CASE onServerDisconnected \/ (\E ok \in BOOLEAN : Start(ok)) \/ Close \/ Kill
    <3>1. currentContact' = NoContact
      BY <2>8 DEF onServerDisconnected, Start, Close, Kill, End, Blank
    <3> QED BY <2>1, <3>1
  <2> QED BY <1>1, <2>2, <2>3, <2>4, <2>5, <2>6, <2>7, <2>8 DEF Next
<1>2. WindowInv /\ [Next]_vars => [Kept]_vars
  BY <1>1
<1> QED BY <1>2, WindowInvariant, PTL DEF Spec, NothingShownIsForgotten

ClosedInv == window = "closed" => opened = {}

LEMMA ClosedInvariant == Spec => []ClosedInv
<1>1. Init => ClosedInv
  BY DEF Init, ClosedInv
<1>2. ASSUME ClosedInv, [Next]_vars PROVE ClosedInv'
  <2>1. CASE UNCHANGED vars
    BY <1>2, <2>1 DEF vars, ClosedInv
  <2>2. CASE (\E ok \in BOOLEAN : Start(ok)) \/ Close \/ Kill
    BY <2>2 DEF Start, Close, Kill, End, Blank, ClosedInv
  <2>3. ASSUME Next, ~((\E ok \in BOOLEAN : Start(ok)) \/ Close \/ Kill)
        PROVE  window = "open" /\ window' = window
    <3>1. CASE \E c \in Contact : switchToContact(c) \/ Receive(c)
      BY <3>1 DEF switchToContact, Receive, NewMessage
    <3>2. CASE \E u \in User, g \in Group : ReceiveStored(u, g)
      BY <3>2 DEF ReceiveStored, NewMessage
    <3>3. CASE (\E id \in 1..lastMessage : Decrypt(id)) \/ Send \/ Attach
      BY <3>3 DEF Decrypt, Send, Attach, NewMessage
    <3>4. CASE \/ \E online \in SUBSET User : onUserListReceived(online)
               \/ \E g \in Group : onCreateGroupClicked(g) \/ onJoinGroupClicked(g)
               \/ onServerDisconnected
      BY <3>4 DEF onUserListReceived, onCreateGroupClicked, onJoinGroupClicked, AddGroup,
                  onServerDisconnected
    <3> QED BY <2>3, <3>1, <3>2, <3>3, <3>4 DEF Next
  <2>4. window = "open" /\ window' = window => ClosedInv'
    BY DEF ClosedInv
  <2> QED BY <1>2, <2>1, <2>2, <2>3, <2>4
<1> QED BY <1>1, <1>2, PTL DEF Spec

\* Opening, leaving and coming back to chats never locks a message that was decrypted.
THEOREM DecryptedIsNeverLocked == Spec => DecryptedStaysReadable
<1>1. ASSUME WindowInv, ClosedInv, Next, window' = "open", ~cleared' PROVE opened \subseteq opened'
  <2>1. CASE \E c \in Contact : switchToContact(c)
    BY <1>1, <2>1, SwitchFacts DEF WindowInv
  <2>2. CASE \E c \in Contact : Receive(c)
    BY <2>2 DEF Receive
  <2>3. CASE \E u \in User, g \in Group : ReceiveStored(u, g)
    BY <2>3 DEF ReceiveStored
  <2>4. CASE (\E id \in 1..lastMessage : Decrypt(id)) \/ Send \/ Attach
    BY <2>4 DEF Decrypt, Send, Attach
  <2>5. CASE \/ \E online \in SUBSET User : onUserListReceived(online)
             \/ \E g \in Group : onCreateGroupClicked(g) \/ onJoinGroupClicked(g)
    BY <2>5 DEF onUserListReceived, onCreateGroupClicked, onJoinGroupClicked, AddGroup
  <2>6. CASE onServerDisconnected \/ Close \/ Kill
    BY <1>1, <2>6 DEF onServerDisconnected, Close, Kill, End
  <2>7. CASE \E ok \in BOOLEAN : Start(ok)
    <3>1. opened = {}
      BY <1>1, <2>7 DEF Start, ClosedInv
    <3> QED BY <3>1
  <2> QED BY <1>1, <2>1, <2>2, <2>3, <2>4, <2>5, <2>6, <2>7 DEF Next
<1>2. WindowInv /\ ClosedInv /\ [Next]_vars => [window' = "open" /\ ~cleared' => opened \subseteq opened']_vars
  BY <1>1
<1> QED BY <1>2, WindowInvariant, ClosedInvariant, PTL DEF Spec, DecryptedStaysReadable
=============================================================================
