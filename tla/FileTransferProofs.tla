------------------------- MODULE FileTransferProofs -------------------------
(***************************************************************************)
(* Proofs about FileTransfer, for every set of users, groups and file      *)
(* names and every bound.                                                  *)
(***************************************************************************)
EXTENDS FileTransfer, PositionsProofs, FiniteSetTheorems, SequenceTheorems, TLAPS

-----------------------------------------------------------------------------
(* The inductive invariant. *)

Running(t) == transfers[t].thread \in {"opening", "sending"}

\* What the types of TypeOK leave open: the shapes of the records the queues and the
\* receivers keep, and that nobody sends to oneself.
Shapes ==
    /\ Len(transfers) <= MaxTransfers
    /\ \A t \in Transfer : transfers[t].to # transfers[t].from
    /\ incomingFiles = [u \in User |-> [v \in User |->
                          [transfer |-> incomingFiles[u][v].transfer,
                           chunks |-> incomingFiles[u][v].chunks]]]
    /\ \A u, v \in User :
          LET f == incomingFiles[u][v]
          IN  /\ DOMAIN f.chunks \in SUBSET Nat /\ IsFiniteSet(DOMAIN f.chunks)
              /\ f.transfer = 0 => f = Absent
    /\ downloads = [u \in User |-> [name \in FileName |-> downloads[u][name]]]
    /\ \A u \in User, name \in FileName :
          downloads[u][name] # Absent => downloads[u][name].transfer \in Transfer
    /\ \A t \in (Len(transfers) + 1)..MaxTransfers, u \in User : widgets[t][u] = "none"

\* Every message is where its sender put it or where the server sent it, and every
\* chunk is one of its file.
Addressed ==
    /\ \A u \in User : \A m \in ToSet(outbox[u]) : transfers[m.transfer].from = u
    /\ \A v \in User : \A m \in ToSet(inbox[v]) : v \in Receivers(m.transfer)
    /\ \A u \in User : \A m \in ToSet(outbox[u]) \cup ToSet(inbox[u]) :
          m.kind = "chunk" => m.index < transfers[m.transfer].chunks

\* A program that is off receives nothing and has no thread.
Off ==
    /\ \A u \in User : program[u] = "off" =>
          /\ link[u] = "down" /\ inbox[u] = <<>>
          /\ \A v \in User : incomingFiles[u][v] = Absent
    /\ \A t \in Transfer : Running(t) => program[transfers[t].from] = "chat"

\* overlaps has what its name says: two files of one sender whose threads run, or two
\* files of two senders that are under way.
Together ==
    \A s, t \in Transfer :
        /\ s # t
        /\ \/ Running(s) /\ Running(t)
           \/ UnderWay(s) /\ UnderWay(t) /\ transfers[s].from # transfers[t].from
        => {s, t} \in overlaps

\* A registered widget is under its key, its sender's thread runs, or its receiver
\* still has that file open; what a sender finds in the place of its own widget is a
\* file that crossed it.
Registered ==
    /\ \A u \in User, c \in Contact :
          LET t == activeTransfers[u][c]
          IN  t # 0 =>
                /\ program[u] = "chat" /\ u \in Involved(t) /\ Key(t, u) = c
                /\ transfers[t].from = u => Running(t)
                /\ transfers[t].from # u => incomingFiles[u][transfers[t].from].transfer = t
    /\ \A s \in Transfer :
          LET u == transfers[s].from
              t == activeTransfers[u][transfers[s].to]
          IN  Running(s) /\ t # 0 /\ transfers[t].from # u => {s, t} \in overlaps

FlightInv == TypeOK /\ Shapes /\ Addressed /\ Off /\ Together /\ Registered /\ CompleteIsTrue

-----------------------------------------------------------------------------
(* Queues. *)

LEMMA QueueAppend ==
    ASSUME NEW S, NEW q \in Seq(S), NEW m \in S
    PROVE  /\ Append(q, m) \in Seq(S)
           /\ Len(q) \in Nat /\ Len(Append(q, m)) = Len(q) + 1
           /\ \A i \in 1..Len(q) : Append(q, m)[i] = q[i]
           /\ Append(q, m)[Len(q) + 1] = m
           /\ ToSet(Append(q, m)) = ToSet(q) \cup {m}
<1>1. /\ Append(q, m) \in Seq(S)
      /\ Len(q) \in Nat /\ Len(Append(q, m)) = Len(q) + 1
      /\ \A i \in 1..Len(q) : Append(q, m)[i] = q[i]
      /\ Append(q, m)[Len(q) + 1] = m
  BY AppendProperties
<1>2. DOMAIN q = 1..Len(q) /\ DOMAIN Append(q, m) = 1..(Len(q) + 1)
  BY <1>1
<1>3. ToSet(Append(q, m)) = ToSet(q) \cup {m}
  <2>1. ASSUME NEW x \in ToSet(Append(q, m)) PROVE x \in ToSet(q) \cup {m}
    <3>1. PICK i \in DOMAIN Append(q, m) : Append(q, m)[i] = x
      BY <2>1 DEF ToSet
    <3>2. i \in 1..Len(q) \/ i = Len(q) + 1
      BY <1>1, <1>2, <3>1
    <3> QED BY <1>1, <1>2, <3>1, <3>2 DEF ToSet
  <2>2. ASSUME NEW x \in ToSet(q) PROVE x \in ToSet(Append(q, m))
    <3>1. PICK i \in 1..Len(q) : q[i] = x
      BY <1>2, <2>2 DEF ToSet
    <3>2. i \in DOMAIN Append(q, m) /\ Append(q, m)[i] = x
      BY <1>1, <1>2, <3>1
    <3> QED BY <3>2 DEF ToSet
  <2>3. m \in ToSet(Append(q, m))
    <3>1. Len(q) + 1 \in DOMAIN Append(q, m)
      BY <1>1, <1>2
    <3> QED BY <1>1, <3>1 DEF ToSet
  <2> QED BY <2>1, <2>2, <2>3
<1> QED BY <1>1, <1>3

LEMMA QueueTail ==
    ASSUME NEW S, NEW q \in Seq(S), q # <<>>
    PROVE  /\ Tail(q) \in Seq(S) /\ Head(q) \in S /\ Head(q) = q[1]
           /\ Len(q) \in Nat /\ Len(q) >= 1 /\ Len(Tail(q)) = Len(q) - 1
           /\ \A i \in 1..Len(Tail(q)) : i + 1 \in 1..Len(q) /\ Tail(q)[i] = q[i + 1]
           /\ Head(q) \in ToSet(q) /\ ToSet(Tail(q)) \subseteq ToSet(q)
           /\ ToSet(q) = ToSet(Tail(q)) \cup {Head(q)}
<1>1. /\ Tail(q) \in Seq(S) /\ Head(q) \in S /\ Head(q) = q[1]
      /\ Len(q) \in Nat /\ Len(q) >= 1 /\ Len(Tail(q)) = Len(q) - 1
      /\ \A i \in 1..Len(Tail(q)) : Tail(q)[i] = q[i + 1]
  BY HeadTailProperties, EmptySeq
<1>2. DOMAIN q = 1..Len(q) /\ DOMAIN Tail(q) = 1..Len(Tail(q))
  BY <1>1
<1>3. \A i \in 1..Len(Tail(q)) : i + 1 \in 1..Len(q)
  BY <1>1
<1>4. Head(q) \in ToSet(q)
  BY <1>1, <1>2 DEF ToSet
<1>5. ToSet(Tail(q)) \subseteq ToSet(q)
  BY <1>1, <1>2, <1>3 DEF ToSet
<1>6. ASSUME NEW x \in ToSet(q), x # Head(q) PROVE x \in ToSet(Tail(q))
  <2>1. PICK i \in 1..Len(q) : q[i] = x
    BY <1>2 DEF ToSet
  <2>2. i # 1
    BY <1>1, <1>6, <2>1
  <2>3. i - 1 \in 1..Len(Tail(q)) /\ (i - 1) + 1 = i
    BY <1>1, <2>1, <2>2
  <2>4. Tail(q)[i - 1] = x
    BY <1>1, <2>1, <2>3
  <2> QED BY <1>2, <2>3, <2>4 DEF ToSet
<1> QED BY <1>1, <1>3, <1>4, <1>5, <1>6

LEMMA QueuePrefix ==
    ASSUME NEW S, NEW q \in Seq(S), NEW n \in 0..Len(q)
    PROVE  /\ SubSeq(q, 1, n) \in Seq(S) /\ Len(q) \in Nat /\ Len(SubSeq(q, 1, n)) = n
           /\ \A i \in 1..n : i \in 1..Len(q) /\ SubSeq(q, 1, n)[i] = q[i]
           /\ ToSet(SubSeq(q, 1, n)) \subseteq ToSet(q)
<1>1. Len(q) \in Nat /\ n \in Nat /\ n <= Len(q)
  OBVIOUS
<1>2. \A i \in 1..n : i \in 1..Len(q)
  BY <1>1
<1>3. SubSeq(q, 1, n) = [i \in 1..n |-> q[i]]
  BY <1>1
<1>4. SubSeq(q, 1, n) \in Seq(S) /\ Len(SubSeq(q, 1, n)) = n
  BY <1>1, <1>2, <1>3
<1>5. DOMAIN q = 1..Len(q) /\ DOMAIN SubSeq(q, 1, n) = 1..n
  BY <1>1, <1>3
<1>6. \A i \in 1..n : SubSeq(q, 1, n)[i] = q[i]
  BY <1>3
<1>7. ToSet(SubSeq(q, 1, n)) \subseteq ToSet(q)
  BY <1>2, <1>5, <1>6 DEF ToSet
<1> QED BY <1>1, <1>2, <1>4, <1>6, <1>7

LEMMA QueueEmpty == ASSUME NEW S PROVE <<>> \in Seq(S) /\ ToSet(<<>>) = {} /\ Len(<<>>) = 0
<1>1. <<>> \in Seq(S) /\ Len(<<>>) = 0
  OBVIOUS
<1>2. DOMAIN <<>> = {}
  OBVIOUS
<1> QED BY <1>1, <1>2 DEF ToSet

-----------------------------------------------------------------------------
(* The table of the transfers. *)

TransferType == [from : User, to : Contact, name : FileName, chunks : Nat, next : Nat,
                 thread : {"opening", "sending", "sent", "failed", "ended"}]

LEMMA TransferFacts ==
    ASSUME TypeOK
    PROVE  /\ transfers \in Seq(TransferType) /\ Len(transfers) \in Nat
           /\ DOMAIN transfers = Transfer /\ Transfer \subseteq Nat /\ 0 \notin Transfer
           /\ \A t \in Transfer :
                 /\ transfers[t] \in TransferType
                 /\ transfers[t].from \in User /\ transfers[t].to \in Contact
                 /\ transfers[t].name \in FileName
                 /\ transfers[t].chunks \in Nat /\ transfers[t].next \in Nat
                 /\ transfers[t].next <= transfers[t].chunks
                 /\ Receivers(t) \subseteq User /\ Involved(t) \subseteq User
                 /\ \A u \in User : Key(t, u) \in Contact
<1>1. transfers \in Seq(TransferType)
  BY DEF TypeOK, TransferType
<1>2. Len(transfers) \in Nat /\ DOMAIN transfers = Transfer
  BY <1>1 DEF Transfer
<1>3. ASSUME NEW t \in Transfer
      PROVE  /\ transfers[t] \in TransferType
             /\ transfers[t].from \in User /\ transfers[t].to \in Contact
             /\ transfers[t].name \in FileName
             /\ transfers[t].chunks \in Nat /\ transfers[t].next \in Nat
             /\ transfers[t].next <= transfers[t].chunks
             /\ Receivers(t) \subseteq User /\ Involved(t) \subseteq User
             /\ \A u \in User : Key(t, u) \in Contact
  <2>1. transfers[t] \in TransferType
    BY <1>1, <1>2
  <2>2. /\ transfers[t].from \in User /\ transfers[t].to \in Contact
        /\ transfers[t].name \in FileName
        /\ transfers[t].chunks \in Nat /\ transfers[t].next \in Nat
        /\ transfers[t].next <= transfers[t].chunks
    BY <2>1 DEF TransferType, TypeOK
  <2>3. Receivers(t) \subseteq User /\ Involved(t) \subseteq User
    BY <2>2, FileAssumption DEF Receivers, Involved, Contact
  <2>4. \A u \in User : Key(t, u) \in Contact
    BY <2>2 DEF Key, Contact
  <2> QED BY <2>1, <2>2, <2>3, <2>4
<1>4. Transfer \subseteq Nat /\ 0 \notin Transfer
  BY <1>2 DEF Transfer
<1> QED BY <1>1, <1>2, <1>3, <1>4

\* What every step leaves of a transfer, and how its thread may go on.
Onward ==
    /\ transfers' \in Seq(TransferType) /\ Len(transfers) <= Len(transfers')
    /\ \A t \in Transfer :
          /\ t \in Transfer'
          /\ transfers'[t].from = transfers[t].from /\ transfers'[t].to = transfers[t].to
          /\ transfers'[t].name = transfers[t].name
          /\ transfers'[t].chunks = transfers[t].chunks
          /\ transfers'[t].next <= transfers'[t].chunks
          /\ transfers'[t].thread \in {"opening", "sending"} => Running(t)
          /\ transfers[t].thread = "sent" => transfers'[t].thread = "sent"

LEMMA OnwardNames ==
    ASSUME TypeOK, Onward, NEW t \in Transfer
    PROVE  /\ Receivers(t)' = Receivers(t) /\ Involved(t)' = Involved(t)
           /\ Running(t)' => Running(t)
           /\ \A u \in User : Key(t, u)' = Key(t, u)
<1>1. transfers'[t].from = transfers[t].from /\ transfers'[t].to = transfers[t].to
  BY DEF Onward
<1>2. Receivers(t)' = Receivers(t)
  BY <1>1 DEF Receivers
<1> QED BY <1>1, <1>2 DEF Involved, Key, Running, Onward

LEMMA OnwardUnchanged == ASSUME TypeOK, UNCHANGED transfers PROVE Onward /\ Transfer' = Transfer
BY TransferFacts DEF Onward, Transfer, Running

LEMMA OnwardBecomes ==
    ASSUME TypeOK, NEW t \in Transfer, NEW thread, NEW next \in Nat, Becomes(t, thread, next),
           Running(t), next <= transfers[t].chunks, thread \in {"sending", "sent", "failed"}
    PROVE  /\ Onward /\ Transfer' = Transfer
           /\ transfers'[t].thread = thread /\ transfers'[t].next = next
           /\ \A s \in Transfer \ {t} : transfers'[s] = transfers[s]
<1>1. transfers[t] \in TransferType /\ DOMAIN transfers = Transfer
  BY TransferFacts
<1>2. transfers' = [transfers EXCEPT ![t] = [[@ EXCEPT !.thread = thread] EXCEPT !.next = next]]
  BY <1>1 DEF Becomes, TransferType
<1> DEFINE r == [[transfers[t] EXCEPT !.thread = thread] EXCEPT !.next = next]
<1>3. /\ r \in TransferType /\ r.from = transfers[t].from /\ r.to = transfers[t].to
      /\ r.name = transfers[t].name /\ r.chunks = transfers[t].chunks
      /\ r.thread = thread /\ r.next = next
  BY <1>1 DEF TransferType
<1>4. transfers' = [transfers EXCEPT ![t] = r]
  BY <1>2
<1> HIDE DEF r
<1>5. /\ transfers' \in Seq(TransferType) /\ Len(transfers') = Len(transfers)
      /\ transfers'[t] = r /\ \A s \in Transfer \ {t} : transfers'[s] = transfers[s]
  BY <1>1, <1>3, <1>4, TransferFacts
<1>6. Transfer' = Transfer
  BY <1>5 DEF Transfer
<1>7. Onward
  <2>1. transfers[t].thread # "sent"
    BY DEF Running
  <2>2. ASSUME NEW s \in Transfer
        PROVE  /\ transfers'[s].from = transfers[s].from /\ transfers'[s].to = transfers[s].to
               /\ transfers'[s].name = transfers[s].name
               /\ transfers'[s].chunks = transfers[s].chunks
               /\ transfers'[s].next <= transfers'[s].chunks
               /\ transfers'[s].thread \in {"opening", "sending"} => Running(s)
               /\ transfers[s].thread = "sent" => transfers'[s].thread = "sent"
    <3>1. CASE s = t
      BY <1>3, <1>5, <2>1, <3>1
    <3>2. CASE s # t
      BY <1>5, <3>2, TransferFacts DEF Running
    <3> QED BY <3>1, <3>2
  <2>3. Len(transfers) <= Len(transfers')
    BY <1>5, TransferFacts
  <2> QED BY <1>5, <1>6, <2>2, <2>3 DEF Onward
<1> QED BY <1>3, <1>5, <1>6, <1>7

LEMMA OnwardAppend ==
    ASSUME TypeOK, NEW r \in TransferType, r.next <= r.chunks, transfers' = Append(transfers, r)
    PROVE  /\ Onward /\ Len(transfers)' = Len(transfers) + 1
           /\ Transfer' = Transfer \cup {Len(transfers) + 1}
           /\ transfers'[Len(transfers) + 1] = r
           /\ \A s \in Transfer : transfers'[s] = transfers[s]
<1>1. /\ transfers' \in Seq(TransferType) /\ Len(transfers') = Len(transfers) + 1
      /\ transfers'[Len(transfers) + 1] = r
      /\ \A s \in 1..Len(transfers) : transfers'[s] = transfers[s]
  BY TransferFacts, AppendProperties
<1>2. Transfer' = Transfer \cup {Len(transfers) + 1}
  BY <1>1, TransferFacts DEF Transfer
<1>3. \A s \in Transfer : transfers'[s] = transfers[s]
  BY <1>1 DEF Transfer
<1>4. Onward
  BY <1>1, <1>2, <1>3, TransferFacts DEF Onward, Running
<1> QED BY <1>1, <1>2, <1>3, <1>4

LEMMA OnwardEnded ==
    ASSUME TypeOK, NEW u \in User,
           transfers' = [t \in Transfer |->
              IF transfers[t].from = u /\ transfers[t].thread \in {"opening", "sending"}
              THEN [transfers[t] EXCEPT !.thread = "ended"] ELSE transfers[t]]
    PROVE  /\ Onward /\ Transfer' = Transfer /\ Len(transfers') = Len(transfers)
           /\ \A t \in Transfer :
                 IF transfers[t].from = u /\ Running(t)
                 THEN transfers'[t] = [transfers[t] EXCEPT !.thread = "ended"]
                 ELSE transfers'[t] = transfers[t]
           /\ \A t \in Transfer : Running(t)' => transfers[t].from # u
<1>1. \A t \in Transfer : /\ transfers[t] \in TransferType
                          /\ [transfers[t] EXCEPT !.thread = "ended"] \in TransferType
  BY TransferFacts DEF TransferType
<1>2. \A t \in Transfer : transfers'[t] \in TransferType
  BY <1>1
<1>3. Transfer = 1..Len(transfers) /\ Len(transfers) \in Nat
  BY TransferFacts DEF Transfer
<1>4. transfers' \in Seq(TransferType) /\ Len(transfers') = Len(transfers)
  BY <1>2, <1>3
<1>5. Transfer' = Transfer
  BY <1>4 DEF Transfer
<1>6. ASSUME NEW t \in Transfer
      PROVE  /\ transfers'[t].from = transfers[t].from /\ transfers'[t].to = transfers[t].to
             /\ transfers'[t].name = transfers[t].name
             /\ transfers'[t].chunks = transfers[t].chunks
             /\ transfers'[t].next = transfers[t].next
             /\ IF transfers[t].from = u /\ Running(t)
                THEN transfers'[t] = [transfers[t] EXCEPT !.thread = "ended"]
                ELSE transfers'[t] = transfers[t]
             /\ transfers'[t].thread = IF transfers[t].from = u /\ Running(t)
                                       THEN "ended" ELSE transfers[t].thread
  BY <1>1 DEF Running, TransferType
<1>7. \A t \in Transfer : transfers'[t].thread \in {"opening", "sending"} =>
                              Running(t) /\ transfers[t].from # u
  BY <1>6 DEF Running
<1>8. \A t \in Transfer : transfers[t].thread = "sent" => transfers'[t].thread = "sent"
  BY <1>6 DEF Running
<1>9. \A t \in Transfer : transfers'[t].next <= transfers'[t].chunks
  BY <1>6, TransferFacts
<1>10. Onward
  BY <1>3, <1>4, <1>5, <1>6, <1>7, <1>8, <1>9 DEF Onward
<1>11. \A t \in Transfer : Running(t)' => transfers[t].from # u
  BY <1>7 DEF Running
<1> QED BY <1>4, <1>5, <1>6, <1>10, <1>11

-----------------------------------------------------------------------------
(* Messages under way. *)

\* All messages in all queues.
Flying == UNION {ToSet(outbox[u]) \cup ToSet(inbox[u]) : u \in User}

LEMMA UnderWayFlies ==
    /\ \A t : UnderWay(t) <=> Running(t) \/ \E m \in Flying : m.transfer = t
    /\ \A u \in User : ToSet(outbox[u]) \subseteq Flying /\ ToSet(inbox[u]) \subseteq Flying
    /\ \A m \in Flying : UnderWay(m.transfer)
    /\ \A m \in Flying : \E u \in User : m \in ToSet(outbox[u]) \cup ToSet(inbox[u])
BY DEF UnderWay, Running, Flying

LEMMA UnderWayFliesNext ==
    /\ \A t : UnderWay(t)' <=> Running(t)' \/ \E m \in Flying' : m.transfer = t
    /\ \A m \in Flying' : \E u \in User : m \in ToSet(outbox'[u]) \cup ToSet(inbox'[u])
    /\ \A u \in User : ToSet(outbox'[u]) \subseteq Flying' /\ ToSet(inbox'[u]) \subseteq Flying'
BY DEF UnderWay, Running, Flying

\* The queues hold messages of transfers there are.
LEMMA QueueFacts ==
    ASSUME TypeOK, NEW u \in User
    PROVE  /\ outbox[u] \in Seq(Message) /\ inbox[u] \in Seq(Message)
           /\ Len(outbox[u]) \in Nat /\ Len(inbox[u]) \in Nat
           /\ \A m \in ToSet(outbox[u]) \cup ToSet(inbox[u]) : m \in Message /\ m.transfer \in Transfer
           /\ \A i \in 1..Len(outbox[u]) : outbox[u][i] \in Message /\ outbox[u][i] \in ToSet(outbox[u])
           /\ \A i \in 1..Len(inbox[u]) : inbox[u][i] \in Message /\ inbox[u][i] \in ToSet(inbox[u])
           /\ outbox[u] # <<>> => Head(outbox[u]) \in ToSet(outbox[u])
           /\ inbox[u] # <<>> => Head(inbox[u]) \in ToSet(inbox[u])
<1>1. outbox[u] \in Seq(Message) /\ inbox[u] \in Seq(Message)
  BY DEF TypeOK
<1>2. /\ Len(outbox[u]) \in Nat /\ Len(inbox[u]) \in Nat
      /\ DOMAIN outbox[u] = 1..Len(outbox[u]) /\ DOMAIN inbox[u] = 1..Len(inbox[u])
  BY <1>1
<1>3. /\ \A i \in 1..Len(outbox[u]) : outbox[u][i] \in Message /\ outbox[u][i] \in ToSet(outbox[u])
      /\ \A i \in 1..Len(inbox[u]) : inbox[u][i] \in Message /\ inbox[u][i] \in ToSet(inbox[u])
  BY <1>1, <1>2 DEF ToSet
<1>4. \A m \in ToSet(outbox[u]) \cup ToSet(inbox[u]) : m \in Message /\ m.transfer \in Transfer
  <2>1. \A m \in ToSet(outbox[u]) : m \in Message
    BY <1>1, <1>2 DEF ToSet
  <2>2. \A m \in ToSet(inbox[u]) : m \in Message
    BY <1>1, <1>2 DEF ToSet
  <2>3. \A m \in ToSet(outbox[u]) \cup ToSet(inbox[u]) : m.transfer \in Transfer
    BY DEF TypeOK
  <2> QED BY <2>1, <2>2, <2>3
<1>5. /\ outbox[u] # <<>> => Head(outbox[u]) \in ToSet(outbox[u])
      /\ inbox[u] # <<>> => Head(inbox[u]) \in ToSet(inbox[u])
  BY <1>1, QueueTail
<1> QED BY <1>1, <1>2, <1>3, <1>4, <1>5

-----------------------------------------------------------------------------
(* What keeps each part of the invariant. *)

QueueTypes ==
    /\ outbox \in [User -> Seq(Message)] /\ inbox \in [User -> Seq(Message)]
    /\ \A u \in User : \A m \in ToSet(outbox[u]) \cup ToSet(inbox[u]) : m.transfer \in Transfer

\* Messages are added by the thread of their transfer, and routed to its receivers.
LEMMA QueuesKept ==
    ASSUME TypeOK, Addressed, Onward,
           outbox' \in [User -> Seq(Message)], inbox' \in [User -> Seq(Message)],
           \A u \in User : \A m \in ToSet(outbox'[u]) :
              \/ m \in ToSet(outbox[u])
              \/ /\ m.transfer \in Transfer /\ transfers[m.transfer].from = u
                 /\ m.kind = "chunk" => m.index < transfers[m.transfer].chunks,
           \A v \in User : \A m \in ToSet(inbox'[v]) :
              \/ m \in ToSet(inbox[v])
              \/ v \in Receivers(m.transfer) /\ \E u \in User : m \in ToSet(outbox[u])
    PROVE  QueueTypes' /\ Addressed'
<1>1. ASSUME NEW u \in User, NEW m \in ToSet(outbox'[u])
      PROVE  /\ m.transfer \in Transfer /\ transfers[m.transfer].from = u
             /\ m.kind = "chunk" => m.index < transfers[m.transfer].chunks
  BY QueueFacts DEF Addressed
<1>2. ASSUME NEW v \in User, NEW m \in ToSet(inbox'[v])
      PROVE  /\ m.transfer \in Transfer /\ v \in Receivers(m.transfer)
             /\ m.kind = "chunk" => m.index < transfers[m.transfer].chunks
  <2>1. CASE m \in ToSet(inbox[v])
    BY <2>1, QueueFacts DEF Addressed
  <2>2. CASE m \notin ToSet(inbox[v])
    <3>1. PICK u \in User : m \in ToSet(outbox[u])
      BY <2>2
    <3> QED BY <2>2, <3>1, QueueFacts DEF Addressed
  <2> QED BY <2>1, <2>2
<1>3. \A t \in Transfer : /\ t \in Transfer' /\ Receivers(t)' = Receivers(t)
                          /\ transfers'[t].from = transfers[t].from
                          /\ transfers'[t].chunks = transfers[t].chunks
  BY OnwardNames DEF Onward
<1>4. \A u \in User : \A m \in ToSet(outbox'[u]) \cup ToSet(inbox'[u]) : m.transfer \in Transfer'
  BY <1>1, <1>2, <1>3
<1>5. QueueTypes'
  BY <1>4 DEF QueueTypes
<1>6. \A u \in User : \A m \in ToSet(outbox'[u]) : transfers'[m.transfer].from = u
  BY <1>1, <1>3
<1>7. \A v \in User : \A m \in ToSet(inbox'[v]) : v \in Receivers(m.transfer)'
  BY <1>2, <1>3
<1>8. \A u \in User : \A m \in ToSet(outbox'[u]) \cup ToSet(inbox'[u]) :
          m.kind = "chunk" => m.index < transfers'[m.transfer].chunks
  BY <1>1, <1>2, <1>3
<1> QED BY <1>5, <1>6, <1>7, <1>8 DEF Addressed

LEMMA UnderWayKept ==
    ASSUME TypeOK, Onward,
           \A m \in Flying' : m \in Flying \/ Running(m.transfer)
    PROVE  \A t \in Transfer : UnderWay(t)' => UnderWay(t)
<1> SUFFICES ASSUME NEW t \in Transfer, UnderWay(t)' PROVE UnderWay(t)
  OBVIOUS
<1>1. CASE Running(t)'
  BY <1>1, OnwardNames, UnderWayFlies
<1>2. CASE \E m \in Flying' : m.transfer = t
  BY <1>2, UnderWayFlies
<1> QED BY <1>1, <1>2, UnderWayFliesNext

LEMMA TogetherKept ==
    ASSUME TypeOK, Together, Onward, Transfer' = Transfer, overlaps' = overlaps,
           \A m \in Flying' : m \in Flying \/ Running(m.transfer)
    PROVE  Together'
<1>1. \A t \in Transfer : /\ UnderWay(t)' => UnderWay(t)
                          /\ Running(t)' => Running(t)
                          /\ transfers'[t].from = transfers[t].from
  BY UnderWayKept, OnwardNames DEF Onward
<1> SUFFICES ASSUME NEW s \in Transfer, NEW t \in Transfer, s # t,
                    \/ Running(s)' /\ Running(t)'
                    \/ UnderWay(s)' /\ UnderWay(t)' /\ transfers'[s].from # transfers'[t].from
             PROVE  {s, t} \in overlaps
  BY DEF Together
<1> QED BY <1>1 DEF Together

LEMMA CrossedKept ==
    ASSUME TypeOK, Onward, overlaps \subseteq overlaps', NEW t \in Transfer, NEW u \in User
    PROVE  /\ Crossed(t, u) => Crossed(t, u)'
           /\ Mixed(t, u) => Mixed(t, u)'
<1>1. \A s \in Transfer : /\ s \in Transfer' /\ Receivers(s)' = Receivers(s)
                          /\ Involved(s)' = Involved(s) /\ Key(s, u)' = Key(s, u)
                          /\ transfers'[s].from = transfers[s].from
  BY OnwardNames DEF Onward
<1>2. ASSUME Crossed(t, u) PROVE Crossed(t, u)'
  <2>1. PICK s \in Transfer \ {t} : {s, t} \in overlaps /\ u \in Involved(s) /\ Key(s, u) = Key(t, u)
    BY <1>2 DEF Crossed
  <2>2. /\ s \in Transfer' \ {t} /\ {s, t} \in overlaps' /\ u \in Involved(s)'
        /\ Key(s, u)' = Key(t, u)'
    BY <1>1, <2>1
  <2> QED BY <2>2 DEF Crossed
<1>3. ASSUME Mixed(t, u) PROVE Mixed(t, u)'
  <2>1. PICK s \in Transfer \ {t} : /\ {s, t} \in overlaps
                                    /\ transfers[s].from = transfers[t].from
                                    /\ u \in Receivers(s)
    BY <1>3 DEF Mixed
  <2>2. /\ s \in Transfer' \ {t} /\ {s, t} \in overlaps' /\ u \in Receivers(s)'
        /\ transfers'[s].from = transfers'[t].from
    BY <1>1, <2>1
  <2> QED BY <2>2 DEF Mixed
<1> QED BY <1>2, <1>3

LEMMA CompleteKept ==
    ASSUME TypeOK, CompleteIsTrue, Onward, Transfer' = Transfer,
           overlaps \subseteq overlaps', delivered \subseteq delivered',
           \A t \in Transfer, u \in User : widgets'[t][u] = "complete" =>
              \/ widgets[t][u] = "complete"
              \/ u = transfers[t].from /\ transfers'[t].thread = "sent"
              \/ <<t, u>> \in delivered'
              \/ Crossed(t, u)
    PROVE  CompleteIsTrue'
<1> SUFFICES ASSUME NEW t \in Transfer, NEW u \in User, widgets'[t][u] = "complete"
             PROVE  \/ u = transfers'[t].from /\ transfers'[t].thread = "sent"
                    \/ <<t, u>> \in delivered'
                    \/ Crossed(t, u)'
  BY DEF CompleteIsTrue
<1>1. /\ transfers'[t].from = transfers[t].from
      /\ transfers[t].thread = "sent" => transfers'[t].thread = "sent"
      /\ Crossed(t, u) => Crossed(t, u)'
  BY CrossedKept DEF Onward
<1>2. \/ u = transfers[t].from /\ transfers'[t].thread = "sent"
      \/ <<t, u>> \in delivered'
      \/ Crossed(t, u)
  BY <1>1 DEF CompleteIsTrue
<1> QED BY <1>1, <1>2

LEMMA RegisteredKept ==
    ASSUME TypeOK, Registered, Onward, Transfer' = Transfer, overlaps' = overlaps,
           activeTransfers' \in [User -> [Contact -> Transfer \cup {0}]],
           \A u \in User, c \in Contact, t \in Transfer :
              activeTransfers'[u][c] = t =>
                    /\ t = activeTransfers[u][c] /\ program'[u] = "chat"
                    /\ transfers[t].from = u => Running(t)'
                    /\ transfers[t].from # u => incomingFiles'[u][transfers[t].from].transfer = t
    PROVE  Registered'
<1>1. \A t \in Transfer : /\ Involved(t)' = Involved(t) /\ \A u \in User : Key(t, u)' = Key(t, u)
                          /\ Running(t)' => Running(t)
                          /\ transfers'[t].from = transfers[t].from
                          /\ transfers'[t].to = transfers[t].to
  BY OnwardNames DEF Onward
<1>2. ASSUME NEW u \in User, NEW c \in Contact, activeTransfers'[u][c] # 0
      PROVE  /\ activeTransfers'[u][c] = activeTransfers[u][c]
             /\ activeTransfers[u][c] \in Transfer
  BY <1>2 DEF TypeOK
<1>3. ASSUME NEW u \in User, NEW c \in Contact, NEW t \in Transfer, t = activeTransfers'[u][c]
      PROVE  /\ program'[u] = "chat" /\ u \in Involved(t)' /\ Key(t, u)' = c
             /\ transfers'[t].from = u => Running(t)'
             /\ transfers'[t].from # u => incomingFiles'[u][transfers'[t].from].transfer = t
  <2>1. t # 0
    BY TransferFacts
  <2>2. t = activeTransfers[u][c]
    BY <1>2, <1>3, <2>1
  <2>3. u \in Involved(t) /\ Key(t, u) = c
    BY <2>1, <2>2 DEF Registered
  <2>4. u \in Involved(t)' /\ Key(t, u)' = c
    BY <1>1, <2>3
  <2>5. /\ program'[u] = "chat"
        /\ transfers[t].from = u => Running(t)'
        /\ transfers[t].from # u => incomingFiles'[u][transfers[t].from].transfer = t
    BY <1>3, <2>1
  <2>6. transfers'[t].from = transfers[t].from
    BY <1>1
  <2> QED BY <2>4, <2>5, <2>6
<1>4. ASSUME NEW s \in Transfer, NEW t \in Transfer,
             t = activeTransfers'[transfers'[s].from][transfers'[s].to],
             Running(s)', transfers'[t].from # transfers'[s].from
      PROVE  {s, t} \in overlaps'
  <2>1. transfers[s].from \in User /\ transfers[s].to \in Contact /\ t # 0
    BY TransferFacts
  <2>2. t = activeTransfers[transfers[s].from][transfers[s].to]
    BY <1>1, <1>2, <1>4, <2>1
  <2>3. Running(s) /\ transfers[t].from # transfers[s].from
    BY <1>1, <1>4
  <2> QED BY <2>1, <2>2, <2>3 DEF Registered
<1>5. \A s \in Transfer : transfers'[s].from \in User /\ transfers'[s].to \in Contact
  BY <1>1, TransferFacts
<1>6. \A u \in User, c \in Contact :
         activeTransfers'[u][c] # 0 => activeTransfers'[u][c] \in Transfer
  BY <1>2
<1> QED BY <1>3, <1>4, <1>5, <1>6 DEF Registered

-----------------------------------------------------------------------------
(* The parts of the types. *)

TransferTypes ==
    /\ transfers \in Seq(TransferType) /\ Len(transfers) <= MaxTransfers
    /\ \A t \in Transfer : transfers[t].next <= transfers[t].chunks
    /\ \A t \in Transfer : transfers[t].to # transfers[t].from

IncomingTypes ==
    /\ \A u, v \in User : LET f == incomingFiles[u][v]
                          IN  /\ f.transfer \in Transfer \cup {0}
                              /\ f.chunks \in [DOMAIN f.chunks -> Transfer]
    /\ incomingFiles = [u \in User |-> [v \in User |->
                          [transfer |-> incomingFiles[u][v].transfer,
                           chunks |-> incomingFiles[u][v].chunks]]]
    /\ \A u, v \in User :
          LET f == incomingFiles[u][v]
          IN  /\ DOMAIN f.chunks \in SUBSET Nat /\ IsFiniteSet(DOMAIN f.chunks)
              /\ f.transfer = 0 => f = Absent

DownloadTypes ==
    /\ \A u \in User, name \in FileName : downloads[u][name].chunks \in Seq(Transfer \X Nat)
    /\ downloads = [u \in User |-> [name \in FileName |-> downloads[u][name]]]
    /\ \A u \in User, name \in FileName :
          downloads[u][name] # Absent => downloads[u][name].transfer \in Transfer

WindowTypes ==
    /\ activeTransfers \in [User -> [Contact -> Transfer \cup {0}]]
    /\ widgets \in [1..MaxTransfers -> [User -> {"none", "active", "complete", "failed"}]]
    /\ \A t \in (Len(transfers) + 1)..MaxTransfers, u \in User : widgets[t][u] = "none"

PastTypes ==
    /\ failures \in Nat
    /\ delivered \subseteq Transfer \X User
    /\ overlaps \subseteq SUBSET Transfer
    /\ mishaps \subseteq Transfer \X {"cut", "garbled"}

ProgramTypes ==
    program \in [User -> {"off", "login", "chat"}] /\ link \in [User -> {"up", "unlisted", "down"}]

LEMMA TypeParts ==
    /\ TypeOK /\ Shapes =>
          /\ ProgramTypes /\ TransferTypes /\ QueueTypes /\ IncomingTypes
          /\ DownloadTypes /\ WindowTypes /\ PastTypes
    /\ /\ ProgramTypes' /\ TransferTypes' /\ QueueTypes' /\ IncomingTypes'
       /\ DownloadTypes' /\ WindowTypes' /\ PastTypes'
       => TypeOK' /\ Shapes'
<1> USE DEF ProgramTypes, TransferTypes, QueueTypes, IncomingTypes, DownloadTypes, WindowTypes,
            PastTypes
<1>1. TypeOK /\ Shapes => /\ ProgramTypes /\ TransferTypes /\ QueueTypes /\ IncomingTypes
                          /\ DownloadTypes /\ WindowTypes /\ PastTypes
  BY DEF TypeOK, Shapes, TransferType
<1>2. /\ ProgramTypes' /\ TransferTypes' /\ QueueTypes' /\ IncomingTypes'
      /\ DownloadTypes' /\ WindowTypes' /\ PastTypes'
      => TypeOK'
  BY DEF TypeOK, TransferType
<1>3. /\ ProgramTypes' /\ TransferTypes' /\ QueueTypes' /\ IncomingTypes'
      /\ DownloadTypes' /\ WindowTypes' /\ PastTypes'
      => Shapes'
  BY DEF Shapes
<1> QED BY <1>1, <1>2, <1>3

\* The data of a transfer that was there stays data of a transfer.
LEMMA TypesKept ==
    ASSUME TypeOK, Shapes, Onward
    PROVE  /\ UNCHANGED incomingFiles => IncomingTypes'
           /\ UNCHANGED downloads => DownloadTypes'
           /\ Transfer' = Transfer => TransferTypes'
           /\ UNCHANGED windowVars => WindowTypes'
           /\ UNCHANGED pastVars /\ failures' \in Nat => PastTypes'
           /\ UNCHANGED <<outbox, inbox>> => QueueTypes'
<1>1. Transfer \subseteq Transfer'
  BY DEF Onward
<1>2. /\ ProgramTypes /\ TransferTypes /\ QueueTypes /\ IncomingTypes
      /\ DownloadTypes /\ WindowTypes /\ PastTypes
  BY TypeParts
<1>3. ASSUME UNCHANGED incomingFiles PROVE IncomingTypes'
  BY <1>1, <1>2, <1>3, ZenonT(60) DEF IncomingTypes
<1>4. ASSUME UNCHANGED downloads PROVE DownloadTypes'
  <2>1. Seq(Transfer \X Nat) \subseteq Seq(Transfer' \X Nat)
    BY <1>1
  <2> QED BY <1>1, <1>2, <1>4, <2>1 DEF DownloadTypes
<1>5. ASSUME Transfer' = Transfer PROVE TransferTypes'
  <2>1. Len(transfers') = Len(transfers)
    <3>1. transfers' \in Seq(TransferType)
      BY DEF Onward
    <3>2. Len(transfers') \in Nat /\ Len(transfers) \in Nat
      BY <3>1, TransferFacts
    <3>3. Len(transfers) <= Len(transfers')
      BY DEF Onward
    <3>4. CASE Len(transfers') = 0
      BY <3>2, <3>3, <3>4
    <3>5. CASE Len(transfers') # 0
      <4>1. Len(transfers') \in 1..Len(transfers')
        BY <3>2, <3>5
      <4>2. Len(transfers') \in 1..Len(transfers)
        BY <1>5, <4>1 DEF Transfer
      <4> QED BY <3>2, <3>3, <4>2
    <3> QED BY <3>4, <3>5
  <2> QED BY <1>2, <1>5, <2>1 DEF TransferTypes, Onward
<1>6. ASSUME UNCHANGED windowVars PROVE WindowTypes'
  <2>1. /\ activeTransfers' \in [User -> [Contact -> Transfer' \cup {0}]]
        /\ widgets' = widgets
    <3>1. [Contact -> Transfer \cup {0}] \subseteq [Contact -> Transfer' \cup {0}]
      BY <1>1
    <3> QED BY <1>2, <1>6, <3>1 DEF WindowTypes, windowVars
  <2>2. (Len(transfers') + 1)..MaxTransfers \subseteq (Len(transfers) + 1)..MaxTransfers
    BY TransferFacts DEF Onward
  <2> QED BY <1>2, <2>1, <2>2 DEF WindowTypes
<1>7. ASSUME UNCHANGED pastVars, failures' \in Nat PROVE PastTypes'
  BY <1>1, <1>2, <1>7 DEF PastTypes, pastVars
<1>8. ASSUME UNCHANGED <<outbox, inbox>> PROVE QueueTypes'
  BY <1>1, <1>2, <1>8 DEF QueueTypes
<1> QED BY <1>3, <1>4, <1>5, <1>6, <1>7, <1>8

-----------------------------------------------------------------------------
(* The handlers' parts. *)

\* A finished widget is deregistered, all others stay as they are.
LEMMA FinishFacts ==
    ASSUME TypeOK, Shapes, NEW u \in User, NEW c \in Contact, NEW status \in {"complete", "failed"},
           FinishWidget(u, c, status)
    PROVE  /\ activeTransfers' \in [User -> [Contact -> Transfer \cup {0}]]
           /\ widgets' \in [1..MaxTransfers -> [User -> {"none", "active", "complete", "failed"}]]
           /\ activeTransfers'[u][c] = 0
           /\ \A x \in User, d \in Contact : (x # u \/ d # c) =>
                 activeTransfers'[x][d] = activeTransfers[x][d]
           /\ \A k \in 1..MaxTransfers, x \in User :
                 widgets'[k][x] = IF k = activeTransfers[u][c] /\ x = u THEN status ELSE widgets[k][x]
<1> DEFINE t == activeTransfers[u][c]
<1>1. /\ activeTransfers \in [User -> [Contact -> Transfer \cup {0}]]
      /\ widgets \in [1..MaxTransfers -> [User -> {"none", "active", "complete", "failed"}]]
      /\ t \in Transfer \cup {0} /\ 0 \notin 1..MaxTransfers
  BY DEF TypeOK
<1>2. t # 0 => t \in 1..MaxTransfers
  <2>1. Len(transfers) \in Nat /\ Len(transfers) <= MaxTransfers /\ MaxTransfers \in Nat
    BY TransferFacts, FileAssumption DEF Shapes
  <2> QED BY <1>1, <2>1 DEF Transfer
<1>3. CASE t = 0
  BY <1>1, <1>3 DEF FinishWidget, windowVars
<1>4. CASE t # 0
  <2>1. /\ widgets' = [widgets EXCEPT ![t][u] = status]
        /\ activeTransfers' = [activeTransfers EXCEPT ![u][c] = 0]
    BY <1>4 DEF FinishWidget
  <2>2. activeTransfers' \in [User -> [Contact -> Transfer \cup {0}]]
    BY <1>1, <2>1
  <2>3. widgets' \in [1..MaxTransfers -> [User -> {"none", "active", "complete", "failed"}]]
    BY <1>1, <1>2, <1>4, <2>1
  <2>4. /\ activeTransfers'[u][c] = 0
        /\ \A x \in User, d \in Contact : (x # u \/ d # c) =>
              activeTransfers'[x][d] = activeTransfers[x][d]
    BY <1>1, <2>1
  <2>5. \A k \in 1..MaxTransfers, x \in User :
           widgets'[k][x] = IF k = t /\ x = u THEN status ELSE widgets[k][x]
    BY <1>1, <1>2, <1>4, <2>1
  <2> QED BY <2>2, <2>3, <2>4, <2>5
<1> QED BY <1>3, <1>4

\* Beyond the last transfer there is no widget to finish.
LEMMA FinishTypes ==
    ASSUME TypeOK, Shapes, Onward, Transfer' = Transfer,
           NEW u \in User, NEW c \in Contact, NEW status \in {"complete", "failed"},
           FinishWidget(u, c, status)
    PROVE  WindowTypes'
<1>1. activeTransfers[u][c] \in Transfer \cup {0}
  BY DEF TypeOK
<1>2. Len(transfers') = Len(transfers) /\ Len(transfers) \in Nat
  <2>1. TransferTypes' /\ Len(transfers) \in Nat
    BY TypesKept, TransferFacts
  <2>2. Len(transfers') \in Nat /\ Len(transfers) <= Len(transfers')
    BY <2>1 DEF TransferTypes, Onward
  <2>3. Len(transfers') # 0 => Len(transfers') \in 1..Len(transfers)
    BY <2>2 DEF Transfer
  <2> QED BY <2>1, <2>2, <2>3
<1>3. \A k \in (Len(transfers) + 1)..MaxTransfers : k \in 1..MaxTransfers /\ k # activeTransfers[u][c]
  BY <1>1, <1>2, FileAssumption DEF Transfer
<1>4. /\ activeTransfers' \in [User -> [Contact -> Transfer \cup {0}]]
      /\ widgets' \in [1..MaxTransfers -> [User -> {"none", "active", "complete", "failed"}]]
      /\ \A k \in 1..MaxTransfers, x \in User :
            widgets'[k][x] = IF k = activeTransfers[u][c] /\ x = u THEN status ELSE widgets[k][x]
  BY FinishFacts
<1>5. \A k \in (Len(transfers) + 1)..MaxTransfers, x \in User : widgets[k][x] = "none"
  BY DEF Shapes
<1>6. \A k \in (Len(transfers) + 1)..MaxTransfers, x \in User : widgets'[k][x] = "none"
  <2> SUFFICES ASSUME NEW k \in (Len(transfers) + 1)..MaxTransfers, NEW x \in User
               PROVE  widgets'[k][x] = "none"
    OBVIOUS
  <2>1. k \in 1..MaxTransfers /\ k # activeTransfers[u][c]
    BY <1>3
  <2>2. widgets'[k][x] = widgets[k][x]
    BY <1>4, <2>1
  <2> QED BY <1>5, <2>2
<1> QED BY <1>2, <1>4, <1>6 DEF WindowTypes

LEMMA CutFacts ==
    ASSUME TypeOK, NEW S \in SUBSET Transfer, Cut(S)
    PROVE  /\ mishaps' \subseteq Transfer \X {"cut", "garbled"} /\ mishaps \subseteq mishaps'
           /\ \A t \in S : <<t, "cut">> \in mishaps'
           /\ \A t \in Transfer : <<t, "cut">> \in mishaps' => t \in S \/ <<t, "cut">> \in mishaps
BY DEF TypeOK, Cut

\* A thread queues the next piece, or its connection is down and the file is cut.
LEMMA SendFacts ==
    ASSUME TypeOK, NEW t \in Transfer, NEW kind \in {"meta", "chunk", "complete"},
           NEW index \in Nat, sendMessage(t, kind, index), UNCHANGED inbox
    PROVE  LET u == transfers[t].from
               m == [transfer |-> t, kind |-> kind, index |-> index]
           IN  /\ m \in Message /\ outbox' \in [User -> Seq(Message)]
               /\ \A x \in User \ {u} : outbox'[x] = outbox[x]
               /\ \/ /\ link[u] = "down" /\ outbox' = outbox
                     /\ mishaps' = mishaps \cup {<<t, "cut">>}
                  \/ /\ link[u] # "down" /\ outbox'[u] = Append(outbox[u], m)
                     /\ mishaps' = mishaps
               /\ \A x \in User : \A n \in ToSet(outbox'[x]) :
                     n \in ToSet(outbox[x]) \/ (x = u /\ n = m)
               /\ \A n \in Flying' : n \in Flying \/ n = m
               /\ mishaps' \subseteq Transfer \X {"cut", "garbled"} /\ mishaps \subseteq mishaps'
<1> DEFINE u == transfers[t].from
           m == [transfer |-> t, kind |-> kind, index |-> index]
<1>1. u \in User /\ t \in Nat
  BY TransferFacts
<1>2. m \in Message
  BY <1>1 DEF Message
<1>3. outbox \in [User -> Seq(Message)] /\ mishaps \subseteq Transfer \X {"cut", "garbled"}
  BY DEF TypeOK
<1>4. /\ \A x \in User \ {u} : outbox'[x] = outbox[x]
      /\ outbox' \in [User -> Seq(Message)]
      /\ \/ /\ link[u] = "down" /\ outbox' = outbox
            /\ mishaps' = mishaps \cup {<<t, "cut">>}
         \/ /\ link[u] # "down" /\ outbox'[u] = Append(outbox[u], m)
            /\ mishaps' = mishaps
  <2>1. CASE link[u] = "down"
    <3>1. outbox' = outbox /\ Cut({t})
      BY <2>1 DEF sendMessage
    <3>2. mishaps' = mishaps \cup {<<t, "cut">>}
      BY <3>1 DEF Cut
    <3> QED BY <1>3, <2>1, <3>1, <3>2
  <2>2. CASE link[u] # "down"
    <3>1. outbox' = [outbox EXCEPT ![u] = Append(outbox[u], m)] /\ mishaps' = mishaps
      BY <1>1, <1>3, <2>2 DEF sendMessage
    <3>2. Append(outbox[u], m) \in Seq(Message)
      BY <1>1, <1>2, <1>3
    <3> HIDE DEF m
    <3> QED BY <1>1, <1>3, <2>2, <3>1, <3>2
  <2> QED BY <2>1, <2>2
<1>5. \A x \in User : \A n \in ToSet(outbox'[x]) : n \in ToSet(outbox[x]) \/ (x = u /\ n = m)
  <2>1. ToSet(Append(outbox[u], m)) = ToSet(outbox[u]) \cup {m}
    BY <1>1, <1>2, <1>3, QueueAppend
  <2> HIDE DEF m
  <2> QED BY <1>1, <1>4, <2>1
<1>6. \A n \in Flying' : n \in Flying \/ n = m
  <2>1. ASSUME NEW n \in Flying' PROVE n \in Flying \/ n = m
    <3>1. PICK x \in User : n \in ToSet(outbox'[x]) \cup ToSet(inbox'[x])
      BY <2>1, UnderWayFliesNext
    <3> HIDE DEF m
    <3> QED BY <1>5, <3>1, UnderWayFlies
  <2> QED BY <2>1
<1>7. mishaps' \subseteq Transfer \X {"cut", "garbled"} /\ mishaps \subseteq mishaps'
  BY <1>3, <1>4
<1> HIDE DEF m, u
<1>8. /\ m \in Message /\ outbox' \in [User -> Seq(Message)]
      /\ \A x \in User \ {u} : outbox'[x] = outbox[x]
      /\ \/ /\ link[u] = "down" /\ outbox' = outbox
            /\ mishaps' = mishaps \cup {<<t, "cut">>}
         \/ /\ link[u] # "down" /\ outbox'[u] = Append(outbox[u], m)
            /\ mishaps' = mishaps
      /\ \A x \in User : \A n \in ToSet(outbox'[x]) : n \in ToSet(outbox[x]) \/ (x = u /\ n = m)
      /\ \A n \in Flying' : n \in Flying \/ n = m
      /\ mishaps' \subseteq Transfer \X {"cut", "garbled"} /\ mishaps \subseteq mishaps'
  BY <1>2, <1>4, <1>5, <1>6, <1>7
<1> QED BY <1>8 DEF m, u

-----------------------------------------------------------------------------
(* The steps. *)

LEMMA FlightInit == Init => FlightInv
<1> SUFFICES ASSUME Init PROVE FlightInv
  OBVIOUS
<1>1. Transfer = {} /\ Len(transfers) = 0 /\ transfers = <<>>
  BY DEF Init, Transfer
<1>2. \A u \in User : outbox[u] = <<>> /\ inbox[u] = <<>>
  BY DEF Init
<1>3. /\ \A u, v \in User : incomingFiles[u][v] = Absent
      /\ \A u \in User, name \in FileName : downloads[u][name] = Absent
  BY DEF Init
<1>4. Absent.transfer = 0 /\ Absent.chunks = <<>>
  BY DEF Absent
<1>5. <<>> \in Seq(Transfer \X Nat) /\ DOMAIN <<>> = {} /\ <<>> \in [{} -> Transfer]
  OBVIOUS
<1>6. MaxTransfers \in Nat
  BY FileAssumption
<1>7. TypeOK
  <2>1. program \in [User -> {"off", "login", "chat"}] /\ link \in [User -> {"up", "unlisted", "down"}]
    BY DEF Init
  <2>2. \A t \in Transfer : transfers[t].next <= transfers[t].chunks
    BY <1>1
  <2>3. outbox \in [User -> Seq(Message)] /\ inbox \in [User -> Seq(Message)]
    BY QueueEmpty DEF Init
  <2>4. \A u \in User : \A m \in ToSet(outbox[u]) \cup ToSet(inbox[u]) : m.transfer \in Transfer
    BY <1>2, QueueEmpty
  <2>5. \A u, v \in User : LET f == incomingFiles[u][v]
                           IN  /\ f.transfer \in Transfer \cup {0}
                               /\ f.chunks \in [DOMAIN f.chunks -> Transfer]
    BY <1>3, <1>4, <1>5
  <2>6. \A u \in User, name \in FileName : downloads[u][name].chunks \in Seq(Transfer \X Nat)
    BY <1>3, <1>4, <1>5
  <2>7. activeTransfers \in [User -> [Contact -> Transfer \cup {0}]]
    BY DEF Init
  <2>8. widgets \in [1..MaxTransfers -> [User -> {"none", "active", "complete", "failed"}]]
    BY DEF Init
  <2>9. /\ failures \in Nat /\ delivered \subseteq Transfer \X User
        /\ overlaps \subseteq SUBSET Transfer
        /\ mishaps \subseteq Transfer \X {"cut", "garbled"}
    BY DEF Init
  <2>10. transfers \in Seq([from : User, to : Contact, name : FileName, chunks : Nat, next : Nat,
                            thread : {"opening", "sending", "sent", "failed", "ended"}])
    BY <1>1
  <2> QED BY <2>1, <2>2, <2>3, <2>4, <2>5, <2>6, <2>7, <2>8, <2>9, <2>10 DEF TypeOK
<1>8. Shapes
  <2>1. incomingFiles = [u \in User |-> [v \in User |->
                          [transfer |-> incomingFiles[u][v].transfer,
                           chunks |-> incomingFiles[u][v].chunks]]]
    BY DEF Init, Absent
  <2>2. \A u, v \in User :
          LET f == incomingFiles[u][v]
          IN  /\ DOMAIN f.chunks \in SUBSET Nat /\ IsFiniteSet(DOMAIN f.chunks)
              /\ f.transfer = 0 => f = Absent
    BY <1>3, <1>4, <1>5, FS_EmptySet
  <2>3. downloads = [u \in User |-> [name \in FileName |-> downloads[u][name]]]
    BY DEF Init
  <2>4. \A t \in (Len(transfers) + 1)..MaxTransfers, u \in User : widgets[t][u] = "none"
    BY <1>1, <1>6 DEF Init
  <2> QED BY <1>1, <1>3, <1>6, <2>1, <2>2, <2>3, <2>4 DEF Shapes
<1>9. Addressed
  BY <1>2, QueueEmpty DEF Addressed
<1>10. Off
  BY <1>1, <1>2, <1>3 DEF Off, Init
<1>11. Together /\ CompleteIsTrue
  BY <1>1 DEF Together, CompleteIsTrue
<1>12. Registered
  BY <1>1 DEF Registered, Init
<1> QED BY <1>7, <1>8, <1>9, <1>10, <1>11, <1>12 DEF FlightInv

\* A step that leaves the messages, the files and the windows alone.
LEMMA ProgramFlight ==
    ASSUME FlightInv, ProgramTypes', Off', failures' \in Nat,
           UNCHANGED <<transfers, outbox, inbox, incomingFiles, downloads, windowVars, pastVars>>,
           \A u \in User : program[u] = "chat" => program'[u] = "chat"
    PROVE  FlightInv'
<1> USE DEF FlightInv
<1>1. Onward /\ Transfer' = Transfer
  BY OnwardUnchanged
<1>2. /\ IncomingTypes' /\ DownloadTypes' /\ TransferTypes' /\ WindowTypes'
      /\ PastTypes' /\ QueueTypes'
  BY <1>1, TypesKept
<1>3. TypeOK' /\ Shapes'
  BY <1>2, TypeParts
<1>4. Addressed'
  BY <1>1, QueuesKept DEF TypeOK
<1>5. Together'
  <2>1. Flying' = Flying
    BY DEF Flying
  <2> QED BY <1>1, <2>1, TogetherKept DEF pastVars
<1>6. Registered'
  <2>1. activeTransfers' = activeTransfers /\ overlaps' = overlaps
    BY DEF windowVars, pastVars
  <2>2. activeTransfers \in [User -> [Contact -> Transfer \cup {0}]]
    BY DEF TypeOK
  <2>3. ASSUME NEW u \in User, NEW c \in Contact, NEW t \in Transfer, activeTransfers'[u][c] = t
        PROVE  /\ t = activeTransfers[u][c] /\ program'[u] = "chat"
               /\ transfers[t].from = u => Running(t)'
               /\ transfers[t].from # u => incomingFiles'[u][transfers[t].from].transfer = t
    <3>1. t # 0 /\ t = activeTransfers[u][c]
      BY <2>1, <2>3, TransferFacts
    <3>2. /\ program[u] = "chat"
          /\ transfers[t].from = u => Running(t)
          /\ transfers[t].from # u => incomingFiles[u][transfers[t].from].transfer = t
      BY <3>1 DEF Registered
    <3> QED BY <3>1, <3>2 DEF Running
  <2> QED BY <1>1, <2>1, <2>2, <2>3, RegisteredKept
<1>7. CompleteIsTrue'
  BY <1>1, CompleteKept DEF windowVars, pastVars
<1> QED BY <1>3, <1>4, <1>5, <1>6, <1>7

LEMMA EnterFlight == ASSUME FlightInv, NEW u \in User, Enter(u) PROVE FlightInv'
<1>1. ProgramTypes' /\ failures' \in Nat
  BY DEF FlightInv, TypeOK, Enter, ProgramTypes
<1>2. \A x \in User : program[x] = "chat" => program'[x] = "chat"
  BY DEF FlightInv, TypeOK, Enter
<1>3. Off'
  <2>1. \A x \in User : program'[x] = "off" => x # u /\ program[x] = "off" /\ link'[x] = link[x]
    BY DEF FlightInv, TypeOK, Enter
  <2>2. \A t \in Transfer : transfers[t].from \in User
    BY TransferFacts DEF FlightInv
  <2>3. UNCHANGED <<transfers, inbox, incomingFiles>>
    BY DEF Enter
  <2> QED BY <1>2, <2>1, <2>2, <2>3 DEF FlightInv, Off, Running, Transfer
<1> QED BY <1>1, <1>2, <1>3, ProgramFlight DEF Enter

LEMMA OpenChatFlight == ASSUME FlightInv, NEW u \in User, OpenChat(u) PROVE FlightInv'
<1>1. ProgramTypes' /\ failures' \in Nat
  BY DEF FlightInv, TypeOK, OpenChat, ProgramTypes
<1>2. \A x \in User : program[x] = "chat" => program'[x] = "chat"
  BY DEF FlightInv, TypeOK, OpenChat
<1>3. Off'
  <2>1. \A x \in User : program'[x] = "off" => x # u /\ program[x] = "off" /\ link'[x] = link[x]
    BY DEF FlightInv, TypeOK, OpenChat
  <2>2. \A t \in Transfer : transfers[t].from \in User
    BY TransferFacts DEF FlightInv
  <2>3. UNCHANGED <<transfers, inbox, incomingFiles>>
    BY DEF OpenChat
  <2> QED BY <1>2, <2>1, <2>2, <2>3 DEF FlightInv, Off, Running, Transfer
<1> QED BY <1>1, <1>2, <1>3, ProgramFlight DEF OpenChat

LEMMA UnlistFlight == ASSUME FlightInv, NEW u \in User, Unlist(u) PROVE FlightInv'
<1>1. ProgramTypes' /\ failures' \in Nat
  BY DEF FlightInv, TypeOK, Unlist, ProgramTypes, Fails
<1>2. \A x \in User : program[x] = "chat" => program'[x] = "chat"
  BY DEF Unlist
<1>3. Off'
  <2>1. \A x \in User : program[x] = "off" => link'[x] = link[x]
    BY DEF FlightInv, TypeOK, Unlist, Off
  <2>2. UNCHANGED <<program, transfers, inbox, incomingFiles>>
    BY DEF Unlist
  <2> QED BY <2>1, <2>2 DEF FlightInv, Off, Running, Transfer
<1> QED BY <1>1, <1>2, <1>3, ProgramFlight DEF Unlist

\* Whatever finishes the widget a running thread's user has for its contact finds the
\* thread's own widget there or that of a file that crossed it.
LEMMA OwnWidget ==
    ASSUME FlightInv, NEW t \in Transfer, Running(t), NEW k \in Transfer, k # t,
           k = activeTransfers[transfers[t].from][transfers[t].to]
    PROVE  Crossed(k, transfers[t].from)
<1> USE DEF FlightInv
<1> DEFINE u == transfers[t].from
           c == transfers[t].to
<1>1. u \in User /\ c \in Contact /\ k # 0
  BY TransferFacts
<1>2. /\ u \in Involved(k) /\ Key(k, u) = c
      /\ transfers[k].from = u => Running(k)
  BY <1>1 DEF Registered
<1>3. {t, k} \in overlaps
  <2>1. CASE transfers[k].from = u
    BY <1>2, <2>1 DEF Together
  <2>2. CASE transfers[k].from # u
    BY <1>1, <2>2 DEF Registered
  <2> QED BY <2>1, <2>2
<1>4. u \in Involved(t) /\ Key(t, u) = c
  BY DEF Involved, Key
<1> QED BY <1>2, <1>3, <1>4 DEF Crossed

LEMMA ThreadFlight ==
    ASSUME FlightInv, NEW t \in Transfer, Running(t),
           NEW thread \in {"sending", "sent", "failed"}, NEW next \in Nat, next <= transfers[t].chunks,
           Becomes(t, thread, next),
           UNCHANGED <<program, link, inbox, incomingFiles, downloads, delivered, overlaps, failures>>,
           outbox' \in [User -> Seq(Message)],
           \A u \in User : \A m \in ToSet(outbox'[u]) :
              \/ m \in ToSet(outbox[u])
              \/ /\ m.transfer = t /\ transfers[t].from = u
                 /\ m.kind = "chunk" => m.index < transfers[t].chunks,
           mishaps' \subseteq Transfer \X {"cut", "garbled"},
           \/ thread = "sending" /\ UNCHANGED windowVars
           \/ thread = "sent" /\ FinishWidget(transfers[t].from, transfers[t].to, "complete")
           \/ thread = "failed" /\ FinishWidget(transfers[t].from, transfers[t].to, "failed")
    PROVE  FlightInv'
<1> USE DEF FlightInv
<1> DEFINE u == transfers[t].from
           c == transfers[t].to
<1>1. /\ Onward /\ Transfer' = Transfer
      /\ transfers'[t].thread = thread /\ transfers'[t].next = next
      /\ \A s \in Transfer \ {t} : transfers'[s] = transfers[s]
  BY OnwardBecomes
<1>2. u \in User /\ c \in Contact
  BY TransferFacts
<1>3. /\ IncomingTypes' /\ DownloadTypes' /\ TransferTypes'
  BY <1>1, TypesKept
<1>4. WindowTypes'
  <2>1. CASE UNCHANGED windowVars
    BY <1>1, <2>1, TypesKept
  <2>2. CASE FinishWidget(u, c, "complete")
    BY <1>1, <1>2, <2>2, FinishTypes
  <2>3. CASE FinishWidget(u, c, "failed")
    BY <1>1, <1>2, <2>3, FinishTypes
  <2> QED BY <2>1, <2>2, <2>3
<1>5. PastTypes'
  BY <1>1 DEF PastTypes, TypeOK
<1>6. QueueTypes' /\ Addressed'
  <2>1. inbox' = inbox /\ inbox \in [User -> Seq(Message)]
    BY DEF TypeOK
  <2> QED BY <1>1, <2>1, QueuesKept
<1>7. TypeOK' /\ Shapes'
  <2>1. ProgramTypes'
    BY DEF TypeOK, ProgramTypes
  <2> QED BY <1>3, <1>4, <1>5, <1>6, <2>1, TypeParts
<1>8. Off'
  <2>1. \A s \in Transfer : Running(s)' => Running(s) /\ transfers'[s].from = transfers[s].from
    BY <1>1, OnwardNames DEF Onward
  <2> QED BY <1>1, <2>1 DEF Off
<1>9. Together'
  <2>1. ASSUME NEW m \in Flying' PROVE m \in Flying \/ Running(m.transfer)
    <3>1. PICK x \in User : m \in ToSet(outbox'[x]) \cup ToSet(inbox'[x])
      BY <2>1, UnderWayFliesNext
    <3>2. m \in ToSet(outbox[x]) \/ m \in ToSet(inbox[x]) \/ m.transfer = t
      BY <3>1
    <3> QED BY <3>2, UnderWayFlies
  <2> QED BY <1>1, <2>1, TogetherKept
<1>10. Registered'
  <2>1. activeTransfers' \in [User -> [Contact -> Transfer \cup {0}]]
    BY <1>1, <1>4 DEF WindowTypes
  <2>2. ASSUME NEW x \in User, NEW d \in Contact, NEW k \in Transfer, activeTransfers'[x][d] = k
        PROVE  /\ k = activeTransfers[x][d] /\ program'[x] = "chat"
               /\ transfers[k].from = x => Running(k)'
               /\ transfers[k].from # x => incomingFiles'[x][transfers[k].from].transfer = k
    <3>1. k # 0
      BY TransferFacts
    <3>2. \/ /\ thread = "sending" /\ activeTransfers' = activeTransfers
          \/ /\ activeTransfers'[u][c] = 0
             /\ \A y \in User, e \in Contact : (y # u \/ e # c) =>
                   activeTransfers'[y][e] = activeTransfers[y][e]
      <4>1. CASE thread = "sending" /\ UNCHANGED windowVars
        BY <4>1 DEF windowVars
      <4>2. CASE FinishWidget(u, c, "complete")
        BY <1>2, <4>2, FinishFacts
      <4>3. CASE FinishWidget(u, c, "failed")
        BY <1>2, <4>3, FinishFacts
      <4> QED BY <4>1, <4>2, <4>3
    <3>3. k = activeTransfers[x][d] /\ (thread = "sending" \/ x # u \/ d # c)
      BY <2>2, <3>1, <3>2
    <3>4. /\ program[x] = "chat" /\ Key(k, x) = d
          /\ transfers[k].from = x => Running(k)
          /\ transfers[k].from # x => incomingFiles[x][transfers[k].from].transfer = k
      BY <3>1, <3>3 DEF Registered
    <3>5. ASSUME transfers[k].from = x PROVE Running(k)'
      <4>1. CASE k = t
        <5>1. d = c /\ x = u
          BY <3>4, <3>5, <4>1 DEF Key
        <5>2. thread = "sending"
          BY <3>3, <5>1
        <5> QED BY <1>1, <4>1, <5>2 DEF Running
      <4>2. CASE k # t
        BY <1>1, <3>4, <3>5, <4>2 DEF Running
      <4> QED BY <4>1, <4>2
    <3> QED BY <3>3, <3>4, <3>5
  <2> QED BY <1>1, <2>1, <2>2, RegisteredKept
<1>11. CompleteIsTrue'
  <2>1. ASSUME NEW k \in Transfer, NEW x \in User, widgets'[k][x] = "complete"
        PROVE  \/ widgets[k][x] = "complete"
               \/ x = transfers[k].from /\ transfers'[k].thread = "sent"
               \/ Crossed(k, x)
    <3>1. k \in 1..MaxTransfers
      BY TransferFacts, FileAssumption DEF Shapes, Transfer
    <3>2. CASE UNCHANGED windowVars
      BY <2>1, <3>2 DEF windowVars
    <3>3. CASE FinishWidget(u, c, "failed")
      <4>1. widgets'[k][x] = IF k = activeTransfers[u][c] /\ x = u THEN "failed" ELSE widgets[k][x]
        BY <1>2, <3>1, <3>3, FinishFacts
      <4> QED BY <2>1, <4>1
    <3>4. CASE thread = "sent" /\ FinishWidget(u, c, "complete")
      <4>1. widgets'[k][x] = IF k = activeTransfers[u][c] /\ x = u THEN "complete" ELSE widgets[k][x]
        BY <1>2, <3>1, <3>4, FinishFacts
      <4>2. CASE k = activeTransfers[u][c] /\ x = u /\ k = t
        BY <1>1, <3>4, <4>2
      <4>3. CASE k = activeTransfers[u][c] /\ x = u /\ k # t
        BY <4>3, OwnWidget
      <4>4. CASE ~(k = activeTransfers[u][c] /\ x = u)
        BY <2>1, <4>1, <4>4
      <4> QED BY <4>2, <4>3, <4>4
    <3> QED BY <3>2, <3>3, <3>4
  <2> QED BY <1>1, <2>1, CompleteKept
<1> QED BY <1>6, <1>7, <1>8, <1>9, <1>10, <1>11

LEMMA OpenFailsFlight == ASSUME FlightInv, NEW t \in Transfer, OpenFails(t) PROVE FlightInv'
<1>1. Running(t) /\ 0 \in Nat /\ 0 <= transfers[t].chunks
  BY TransferFacts DEF OpenFails, Running, FlightInv
<1>2. /\ Becomes(t, "failed", 0)
      /\ FinishWidget(transfers[t].from, transfers[t].to, "failed")
      /\ UNCHANGED <<program, link, inbox, incomingFiles, downloads, delivered, overlaps, failures>>
      /\ outbox' = outbox /\ mishaps' = mishaps
  BY DEF OpenFails, pastVars
<1>3. outbox' \in [User -> Seq(Message)] /\ mishaps' \subseteq Transfer \X {"cut", "garbled"}
  BY <1>2 DEF FlightInv, TypeOK
<1>4. \A u \in User : \A m \in ToSet(outbox'[u]) : m \in ToSet(outbox[u])
  BY <1>2
<1> QED BY <1>1, <1>2, <1>3, <1>4, ThreadFlight

\* The three steps by which a thread queues a piece.
LEMMA PieceFlight ==
    ASSUME FlightInv, NEW t \in Transfer, Running(t),
           NEW thread \in {"sending", "sent"}, NEW next \in Nat, next <= transfers[t].chunks,
           NEW kind \in {"meta", "chunk", "complete"}, NEW index \in Nat,
           kind = "chunk" => index < transfers[t].chunks,
           Becomes(t, thread, next), sendMessage(t, kind, index),
           UNCHANGED <<program, link, inbox, incomingFiles, downloads, delivered, overlaps, failures>>,
           \/ thread = "sending" /\ UNCHANGED windowVars
           \/ thread = "sent" /\ FinishWidget(transfers[t].from, transfers[t].to, "complete")
    PROVE  FlightInv'
<1> DEFINE m == [transfer |-> t, kind |-> kind, index |-> index]
           u == transfers[t].from
<1>1. /\ outbox' \in [User -> Seq(Message)]
      /\ mishaps' \subseteq Transfer \X {"cut", "garbled"}
      /\ \A x \in User : \A n \in ToSet(outbox'[x]) : n \in ToSet(outbox[x]) \/ (x = u /\ n = m)
  BY SendFacts, ZenonT(60) DEF FlightInv
<1>2. m.transfer = t /\ m.kind = kind /\ m.index = index
  OBVIOUS
<1> HIDE DEF m
<1>3. \A x \in User : \A n \in ToSet(outbox'[x]) :
              \/ n \in ToSet(outbox[x])
              \/ /\ n.transfer = t /\ transfers[t].from = x
                 /\ n.kind = "chunk" => n.index < transfers[t].chunks
  BY <1>1, <1>2
<1> QED BY <1>1, <1>3, ThreadFlight

LEMMA SendMetaFlight == ASSUME FlightInv, NEW t \in Transfer, SendMeta(t) PROVE FlightInv'
<1>1. Running(t) /\ 0 \in Nat /\ 0 <= transfers[t].chunks
  BY TransferFacts DEF SendMeta, Running, FlightInv
<1> QED BY <1>1, PieceFlight DEF SendMeta

LEMMA SendChunkFlight == ASSUME FlightInv, NEW t \in Transfer, SendChunk(t) PROVE FlightInv'
<1>1. /\ Running(t) /\ transfers[t].next \in Nat /\ transfers[t].next + 1 \in Nat
      /\ transfers[t].next < transfers[t].chunks /\ transfers[t].next + 1 <= transfers[t].chunks
  BY TransferFacts DEF SendChunk, Running, FlightInv
<1> QED BY <1>1, PieceFlight DEF SendChunk

LEMMA SendCompleteFlight == ASSUME FlightInv, NEW t \in Transfer, SendComplete(t) PROVE FlightInv'
<1>1. /\ Running(t) /\ transfers[t].chunks \in Nat /\ 0 \in Nat
      /\ transfers[t].chunks <= transfers[t].chunks
  BY TransferFacts DEF SendComplete, Running, FlightInv
<1> QED BY <1>1, PieceFlight DEF SendComplete

LEMMA RouteFlight == ASSUME FlightInv, NEW u \in User, RouteFile(u) PROVE FlightInv'
<1> USE DEF FlightInv
<1> DEFINE m == Head(outbox[u])
           R == Receivers(m.transfer)
<1>1. Onward /\ Transfer' = Transfer
  BY OnwardUnchanged DEF RouteFile
<1>2. /\ outbox[u] \in Seq(Message) /\ outbox[u] # <<>> /\ m \in ToSet(outbox[u])
      /\ Tail(outbox[u]) \in Seq(Message) /\ m \in Message
      /\ ToSet(Tail(outbox[u])) \subseteq ToSet(outbox[u])
      /\ m.transfer \in Transfer
  BY QueueFacts, QueueTail DEF RouteFile
<1>3. /\ outbox' \in [User -> Seq(Message)]
      /\ outbox'[u] = Tail(outbox[u]) /\ \A x \in User \ {u} : outbox'[x] = outbox[x]
  BY <1>2 DEF RouteFile, TypeOK
<1>4. \A x \in User : inbox'[x] = IF x \in R /\ link[x] = "up" THEN Append(inbox[x], m) ELSE inbox[x]
  BY DEF RouteFile
<1>5. \A x \in User : /\ Append(inbox[x], m) \in Seq(Message)
                      /\ ToSet(Append(inbox[x], m)) = ToSet(inbox[x]) \cup {m}
  BY <1>2, QueueAppend, QueueFacts
<1>6. inbox' \in [User -> Seq(Message)]
  BY <1>5 DEF RouteFile, TypeOK
<1> HIDE DEF m, R
<1>7. \A x \in User : \A n \in ToSet(outbox'[x]) : n \in ToSet(outbox[x])
  BY <1>2, <1>3
<1>8. \A x \in User : \A n \in ToSet(inbox'[x]) :
         n \in ToSet(inbox[x]) \/ (n = m /\ x \in R /\ link[x] = "up")
  BY <1>4, <1>5
<1>9. QueueTypes' /\ Addressed'
  <2>1. \A x \in User : \A n \in ToSet(inbox'[x]) :
         \/ n \in ToSet(inbox[x])
         \/ x \in Receivers(n.transfer) /\ \E y \in User : n \in ToSet(outbox[y])
    BY <1>2, <1>8 DEF R
  <2> QED BY <1>1, <1>3, <1>6, <1>7, <2>1, QueuesKept
<1>10. mishaps' \subseteq Transfer \X {"cut", "garbled"} /\ mishaps \subseteq mishaps'
  <2>1. mishaps' = mishaps \/ Cut({m.transfer})
    BY DEF RouteFile, m
  <2>2. {m.transfer} \in SUBSET Transfer
    BY <1>2
  <2>3. CASE mishaps' = mishaps
    BY <2>3 DEF TypeOK
  <2>4. CASE Cut({m.transfer})
    BY <2>2, <2>4, CutFacts
  <2> QED BY <2>1, <2>3, <2>4
<1>11. TypeOK' /\ Shapes'
  <2>1. ProgramTypes' /\ PastTypes'
    BY <1>1, <1>10 DEF TypeOK, ProgramTypes, PastTypes, RouteFile
  <2>2. IncomingTypes' /\ DownloadTypes' /\ TransferTypes' /\ WindowTypes'
    BY <1>1, TypesKept DEF RouteFile
  <2> QED BY <1>9, <2>1, <2>2, TypeParts
<1>12. Off'
  <2>1. \A x \in User : program[x] = "off" => inbox'[x] = inbox[x]
    BY <1>4 DEF Off
  <2> QED BY <1>1, <2>1 DEF Off, RouteFile, Running
<1>13. Together'
  <2>1. ASSUME NEW n \in Flying' PROVE n \in Flying
    <3>1. PICK x \in User : n \in ToSet(outbox'[x]) \cup ToSet(inbox'[x])
      BY <2>1, UnderWayFliesNext
    <3> QED BY <1>2, <1>7, <1>8, <3>1, UnderWayFlies
  <2> QED BY <1>1, <2>1, TogetherKept DEF RouteFile
<1>14. Registered'
  <2>1. activeTransfers' = activeTransfers
    BY DEF RouteFile, windowVars
  <2>2. activeTransfers' \in [User -> [Contact -> Transfer \cup {0}]]
    BY <2>1 DEF TypeOK
  <2>3. ASSUME NEW x \in User, NEW d \in Contact, NEW k \in Transfer, activeTransfers'[x][d] = k
        PROVE  /\ k = activeTransfers[x][d] /\ program'[x] = "chat"
               /\ transfers[k].from = x => Running(k)'
               /\ transfers[k].from # x => incomingFiles'[x][transfers[k].from].transfer = k
    <3>1. k # 0 /\ k = activeTransfers[x][d]
      BY <2>1, <2>3, TransferFacts
    <3>2. /\ program[x] = "chat"
          /\ transfers[k].from = x => Running(k)
          /\ transfers[k].from # x => incomingFiles[x][transfers[k].from].transfer = k
      BY <3>1 DEF Registered
    <3> QED BY <3>1, <3>2 DEF RouteFile, Running
  <2> QED BY <1>1, <2>2, <2>3, RegisteredKept DEF RouteFile
<1>15. CompleteIsTrue'
  BY <1>1, CompleteKept DEF RouteFile, windowVars
<1> QED BY <1>9, <1>11, <1>12, <1>13, <1>14, <1>15

-----------------------------------------------------------------------------
(* The receiver. *)

LEMMA ReadsFacts ==
    ASSUME FlightInv, NEW v \in User, NEW t \in Transfer,
           NEW kind \in {"meta", "chunk", "complete"}, Reads(v, kind, t)
    PROVE  /\ inbox[v] \in Seq(Message) /\ inbox[v] # <<>>
           /\ Head(inbox[v]) \in ToSet(inbox[v]) /\ Head(inbox[v]) \in Message
           /\ Head(inbox[v]).kind = kind /\ Head(inbox[v]).transfer = t
           /\ inbox' \in [User -> Seq(Message)]
           /\ inbox'[v] = Tail(inbox[v]) /\ \A x \in User \ {v} : inbox'[x] = inbox[x]
           /\ \A x \in User : ToSet(inbox'[x]) \subseteq ToSet(inbox[x])
           /\ v \in Receivers(t) /\ transfers[t].from # v /\ transfers[t].from \in User
           /\ UnderWay(t) /\ program[v] # "off"
<1> USE DEF FlightInv
<1>1. /\ inbox[v] \in Seq(Message) /\ inbox[v] # <<>>
      /\ Head(inbox[v]) \in ToSet(inbox[v]) /\ Head(inbox[v]) \in Message
      /\ Tail(inbox[v]) \in Seq(Message) /\ ToSet(Tail(inbox[v])) \subseteq ToSet(inbox[v])
      /\ Head(inbox[v]).kind = kind /\ Head(inbox[v]).transfer = t
  BY QueueFacts, QueueTail DEF Reads
<1>2. /\ inbox' \in [User -> Seq(Message)]
      /\ inbox'[v] = Tail(inbox[v]) /\ \A x \in User \ {v} : inbox'[x] = inbox[x]
  BY <1>1 DEF Reads, TypeOK
<1>3. \A x \in User : ToSet(inbox'[x]) \subseteq ToSet(inbox[x])
  BY <1>1, <1>2
<1>4. v \in Receivers(t) /\ transfers[t].from \in User
  BY <1>1, TransferFacts DEF Addressed
<1>5. transfers[t].from # v
  BY <1>4 DEF Receivers, Shapes
<1>6. UnderWay(t)
  BY <1>1, UnderWayFlies
<1>7. program[v] # "off"
  BY <1>1 DEF Off
<1> QED BY <1>1, <1>2, <1>3, <1>4, <1>5, <1>6, <1>7

LEMMA IncomingUpdate ==
    ASSUME TypeOK, Shapes, UNCHANGED transfers, NEW v \in User, NEW w \in User,
           NEW k \in Transfer \cup {0}, NEW g, DOMAIN g \in SUBSET Nat, IsFiniteSet(DOMAIN g),
           g \in [DOMAIN g -> Transfer], k = 0 => g = <<>>,
           incomingFiles' = [incomingFiles EXCEPT ![v][w] = [transfer |-> k, chunks |-> g]]
    PROVE  /\ IncomingTypes'
           /\ incomingFiles'[v][w] = [transfer |-> k, chunks |-> g]
           /\ \A x, y \in User : (x # v \/ y # w) => incomingFiles'[x][y] = incomingFiles[x][y]
<1> DEFINE f == [transfer |-> k, chunks |-> g]
<1>1. f.transfer = k /\ f.chunks = g /\ f = [transfer |-> f.transfer, chunks |-> f.chunks]
      /\ (k = 0 => f = Absent)
  BY DEF Absent
<1>2. IncomingTypes
  BY TypeParts
<1> HIDE DEF f
<1>3. incomingFiles' = [incomingFiles EXCEPT ![v][w] = f]
  BY DEF f
<1>2a. DOMAIN incomingFiles = User /\ \A x \in User : DOMAIN incomingFiles[x] = User
  BY <1>2 DEF IncomingTypes
<1>2b. /\ incomingFiles = [x \in User |-> incomingFiles[x]]
      /\ \A x \in User : incomingFiles[x] = [y \in User |-> incomingFiles[x][y]]
  BY <1>2 DEF IncomingTypes
<1>3a. incomingFiles' = [x \in User |-> IF x = v THEN [incomingFiles[v] EXCEPT ![w] = f]
                                                ELSE incomingFiles[x]]
  BY <1>3, <1>2a, <1>2b
<1>3b. [incomingFiles[v] EXCEPT ![w] = f]
         = [y \in User |-> IF y = w THEN f ELSE incomingFiles[v][y]]
  BY <1>2a, <1>2b
<1>4. /\ incomingFiles'[v][w] = f
      /\ \A x, y \in User : (x # v \/ y # w) => incomingFiles'[x][y] = incomingFiles[x][y]
  BY <1>3a, <1>3b
<1>5. incomingFiles' = [x \in User |-> [y \in User |-> incomingFiles'[x][y]]]
  <2>1. ASSUME NEW x \in User
        PROVE  incomingFiles'[x] = [y \in User |-> incomingFiles'[x][y]]
    <3>1. CASE x = v
      <4>1. incomingFiles'[x] = [y \in User |-> IF y = w THEN f ELSE incomingFiles[v][y]]
        BY <1>3a, <1>3b, <3>1
      <4> QED BY <4>1
    <3>2. CASE x # v
      <4>1. incomingFiles'[x] = incomingFiles[x]
        BY <1>3a, <3>2
      <4> QED BY <1>2b, <4>1
    <3> QED BY <3>1, <3>2
  <2>2. incomingFiles' = [x \in User |-> incomingFiles'[x]]
    BY <1>3a
  <2> QED BY <2>1, <2>2
<1>6. \A x, y \in User : incomingFiles[x][y] = [transfer |-> incomingFiles[x][y].transfer,
                                                chunks |-> incomingFiles[x][y].chunks]
  BY <1>2 DEF IncomingTypes
<1>7. \A x, y \in User : incomingFiles'[x][y] = [transfer |-> incomingFiles'[x][y].transfer,
                                                 chunks |-> incomingFiles'[x][y].chunks]
  BY <1>1, <1>4, <1>6
<1>8. Transfer' = Transfer
  BY DEF Transfer
<1>9. ASSUME NEW x \in User, NEW y \in User
      PROVE  /\ incomingFiles'[x][y].transfer \in Transfer \cup {0}
             /\ incomingFiles'[x][y].chunks \in [DOMAIN incomingFiles'[x][y].chunks -> Transfer]
             /\ DOMAIN incomingFiles'[x][y].chunks \in SUBSET Nat
             /\ IsFiniteSet(DOMAIN incomingFiles'[x][y].chunks)
             /\ incomingFiles'[x][y].transfer = 0 => incomingFiles'[x][y] = Absent
  <2>1. CASE x = v /\ y = w
    <3>1. incomingFiles'[x][y] = f
      BY <1>4, <2>1
    <3> QED BY <1>1, <3>1
  <2>2. CASE x # v \/ y # w
    <3>1. incomingFiles'[x][y] = incomingFiles[x][y]
      BY <1>4, <2>2
    <3> QED BY <1>2, <3>1, ZenonT(60) DEF IncomingTypes
  <2> QED BY <2>1, <2>2
<1>10. incomingFiles' = [x \in User |-> [y \in User |->
                          [transfer |-> incomingFiles'[x][y].transfer,
                           chunks |-> incomingFiles'[x][y].chunks]]]
  <2>1. \A x \in User : [y \in User |-> incomingFiles'[x][y]]
                         = [y \in User |-> [transfer |-> incomingFiles'[x][y].transfer,
                                             chunks |-> incomingFiles'[x][y].chunks]]
    BY <1>7
  <2> QED BY <1>5, <2>1
<1>11. IncomingTypes'
  BY <1>8, <1>9, <1>10 DEF IncomingTypes
<1> QED BY <1>4, <1>11 DEF f

LEMMA EmptyChunks ==
    DOMAIN <<>> \in SUBSET Nat /\ IsFiniteSet(DOMAIN <<>>) /\ <<>> \in [DOMAIN <<>> -> Transfer]
<1>1. DOMAIN <<>> = {} /\ <<>> \in [{} -> Transfer]
  OBVIOUS
<1> QED BY <1>1, FS_EmptySet

LEMMA ReceiveFlight ==
    ASSUME FlightInv, NEW v \in User, NEW t \in Transfer,
           NEW kind \in {"meta", "chunk", "complete"}, Reads(v, kind, t),
           UNCHANGED <<program, link, transfers, outbox, overlaps, failures>>,
           IncomingTypes', DownloadTypes', WindowTypes',
           \A x \in User \ {v}, y \in User : incomingFiles'[x][y] = incomingFiles[x][y],
           delivered' \subseteq Transfer \X User, mishaps' \subseteq Transfer \X {"cut", "garbled"},
           Registered', CompleteIsTrue'
    PROVE  FlightInv'
<1>2. /\ inbox' \in [User -> Seq(Message)]
      /\ \A x \in User \ {v} : inbox'[x] = inbox[x]
      /\ \A x \in User : ToSet(inbox'[x]) \subseteq ToSet(inbox[x])
      /\ program[v] # "off"
  <2>1. inbox' \in [User -> Seq(Message)]
    BY ReadsFacts
  <2>2. \A x \in User \ {v} : inbox'[x] = inbox[x]
    BY ReadsFacts
  <2>3. \A x \in User : ToSet(inbox'[x]) \subseteq ToSet(inbox[x])
    BY ReadsFacts
  <2>4. program[v] # "off"
    BY ReadsFacts
  <2> QED BY <2>1, <2>2, <2>3, <2>4
<1> USE DEF FlightInv
<1>1. Onward /\ Transfer' = Transfer
  BY OnwardUnchanged
<1>3. QueueTypes' /\ Addressed'
  <2>1. outbox' = outbox /\ outbox' \in [User -> Seq(Message)]
    BY DEF TypeOK
  <2>2. \A x \in User : \A n \in ToSet(outbox'[x]) : n \in ToSet(outbox[x])
    BY <2>1
  <2> QED BY <1>1, <1>2, <2>1, <2>2, QueuesKept
<1>4. TypeOK' /\ Shapes'
  <2>1. ProgramTypes' /\ PastTypes'
    BY <1>1 DEF TypeOK, ProgramTypes, PastTypes
  <2>2. TransferTypes'
    BY <1>1, TypesKept
  <2> QED BY <1>3, <2>1, <2>2, TypeParts
<1>5. Off'
  <2>1. \A x \in User : program[x] = "off" => x # v
    BY <1>2
  <2>2. \A k \in Transfer : Running(k)' => Running(k)
    BY DEF Running
  <2>3. \A x \in User : program'[x] = "off" =>
          /\ link'[x] = "down" /\ inbox'[x] = <<>>
          /\ \A y \in User : incomingFiles'[x][y] = Absent
    <3> SUFFICES ASSUME NEW x \in User, program[x] = "off"
                 PROVE  /\ link[x] = "down" /\ inbox'[x] = <<>>
                        /\ \A y \in User : incomingFiles'[x][y] = Absent
      OBVIOUS
    <3>1. x \in User \ {v}
      BY <2>1
    <3>2. /\ link[x] = "down" /\ inbox[x] = <<>>
          /\ \A y \in User : incomingFiles[x][y] = Absent
      BY DEF Off
    <3> QED BY <1>2, <3>1, <3>2
  <2>4. \A k \in Transfer' : Running(k)' => program'[transfers'[k].from] = "chat"
    BY <1>1, <2>2 DEF Off
  <2> QED BY <2>3, <2>4 DEF Off
<1>6. Together'
  <2>1. ASSUME NEW n \in Flying' PROVE n \in Flying
    <3>1. PICK x \in User : n \in ToSet(outbox'[x]) \cup ToSet(inbox'[x])
      BY <2>1, UnderWayFliesNext
    <3> QED BY <1>2, <3>1, UnderWayFlies
  <2> QED BY <1>1, <2>1, TogetherKept
<1> QED BY <1>3, <1>4, <1>5, <1>6

\* A file that arrives where v has a widget of its own to the sender crosses that one.
LEMMA ArrivalCrosses ==
    ASSUME FlightInv, NEW v \in User, NEW t \in Transfer, NEW k \in Transfer,
           v \in Receivers(t), transfers[t].from # v, UnderWay(t),
           transfers[k].from = v, Running(k), transfers[k].to = transfers[t].from
    PROVE  {k, t} \in overlaps /\ Crossed(k, v)
<1> USE DEF FlightInv
<1>1. k # t /\ UnderWay(k)
  BY UnderWayFlies
<1>2. {k, t} \in overlaps
  BY <1>1 DEF Together
<1>3. v \in Involved(t) /\ Key(t, v) = transfers[t].from /\ Key(k, v) = transfers[k].to
  BY DEF Involved, Key
<1>4. {t, k} \in overlaps
  <2>1. {t, k} = {k, t}
    OBVIOUS
  <2> QED BY <1>2, <2>1
<1> QED BY <1>1, <1>2, <1>3, <1>4 DEF Crossed

LEMMA MetadataFlight ==
    ASSUME FlightInv, NEW v \in User, NEW t \in Transfer, handleFileMetadata(v, t)
    PROVE  FlightInv'
<1> USE DEF FlightInv
<1> DEFINE from == transfers[t].from
           meta == "meta"
<1>1. meta \in {"meta", "chunk", "complete"} /\ Reads(v, meta, t)
  BY DEF handleFileMetadata
<1>2. /\ v \in Receivers(t) /\ from # v /\ from \in User /\ UnderWay(t) /\ program[v] # "off"
  BY <1>1, ReadsFacts
<1>3. /\ UNCHANGED <<program, link, transfers, outbox, downloads, failures>>
      /\ UNCHANGED <<delivered, overlaps, mishaps>>
      /\ incomingFiles' = [incomingFiles EXCEPT ![v][from] = [transfer |-> t, chunks |-> <<>>]]
  BY DEF handleFileMetadata, pastVars
<1>4. Onward /\ Transfer' = Transfer
  BY <1>3, OnwardUnchanged
<1>5. /\ IncomingTypes'
      /\ incomingFiles'[v][from] = [transfer |-> t, chunks |-> <<>>]
      /\ \A x, y \in User : (x # v \/ y # from) => incomingFiles'[x][y] = incomingFiles[x][y]
  <2>1. t # 0
    BY TransferFacts
  <2> QED BY <1>2, <1>3, <2>1, EmptyChunks, IncomingUpdate, ZenonT(60)
<1>6. DownloadTypes'
  BY <1>3, <1>4, TypesKept
<1>7. t \in 1..MaxTransfers /\ from \in Contact
  BY <1>2, TransferFacts, FileAssumption DEF Shapes, Transfer, Contact
<1>8. /\ \A x \in User \ {v}, y \in User : incomingFiles'[x][y] = incomingFiles[x][y]
      /\ delivered' \subseteq Transfer \X User /\ mishaps' \subseteq Transfer \X {"cut", "garbled"}
  BY <1>2, <1>3, <1>5 DEF TypeOK
<1>9. CASE program[v] # "chat"
  <2>1. UNCHANGED windowVars
    BY <1>9 DEF handleFileMetadata
  <2>2. activeTransfers' = activeTransfers /\ widgets' = widgets
    BY <2>1 DEF windowVars
  <2>3. WindowTypes'
    BY <1>4, <2>1, TypesKept
  <2>4. Registered'
    <3>1. activeTransfers' \in [User -> [Contact -> Transfer \cup {0}]]
      BY <2>2 DEF TypeOK
    <3>2. ASSUME NEW x \in User, NEW d \in Contact, NEW k \in Transfer, activeTransfers'[x][d] = k
          PROVE  /\ k = activeTransfers[x][d] /\ program'[x] = "chat"
                 /\ transfers[k].from = x => Running(k)'
                 /\ transfers[k].from # x => incomingFiles'[x][transfers[k].from].transfer = k
      <4>1. k # 0 /\ k = activeTransfers[x][d]
        BY <2>2, <3>2, TransferFacts
      <4>2. /\ program[x] = "chat"
            /\ transfers[k].from = x => Running(k)
            /\ transfers[k].from # x => incomingFiles[x][transfers[k].from].transfer = k
        BY <4>1 DEF Registered
      <4>3. x # v /\ transfers[k].from \in User
        BY <1>9, <4>2, TransferFacts
      <4> QED BY <1>3, <1>5, <4>1, <4>2, <4>3 DEF Running
    <3> QED BY <1>3, <1>4, <3>1, <3>2, RegisteredKept
  <2>5. CompleteIsTrue'
    BY <1>3, <1>4, <2>2, CompleteKept
  <2> QED BY <1>1, <1>3, <1>5, <1>6, <1>8, <2>3, <2>4, <2>5, ReceiveFlight
<1>10. CASE program[v] = "chat"
  <2>1. /\ widgets' = [widgets EXCEPT ![t][v] = "active"]
        /\ activeTransfers' = [activeTransfers EXCEPT ![v][from] = t]
    BY <1>10 DEF handleFileMetadata, onFileMetaReceived
  <2>2. /\ widgets \in [1..MaxTransfers -> [User -> {"none", "active", "complete", "failed"}]]
        /\ activeTransfers \in [User -> [Contact -> Transfer \cup {0}]]
    BY DEF TypeOK
  <2>3. /\ widgets' \in [1..MaxTransfers -> [User -> {"none", "active", "complete", "failed"}]]
        /\ \A k \in 1..MaxTransfers, x \in User :
              widgets'[k][x] = IF k = t /\ x = v THEN "active" ELSE widgets[k][x]
    BY <1>7, <2>1, <2>2
  <2>4. /\ activeTransfers' \in [User -> [Contact -> Transfer \cup {0}]]
        /\ activeTransfers'[v][from] = t
        /\ \A x \in User, d \in Contact : (x # v \/ d # from) =>
              activeTransfers'[x][d] = activeTransfers[x][d]
    BY <1>7, <2>1, <2>2
  <2>5. WindowTypes'
    <3>1. \A k \in (Len(transfers) + 1)..MaxTransfers : k # t /\ k \in 1..MaxTransfers
      BY TransferFacts, FileAssumption DEF Transfer
    <3>2. \A k \in (Len(transfers) + 1)..MaxTransfers, x \in User : widgets[k][x] = "none"
      BY DEF Shapes
    <3>3. \A k \in (Len(transfers) + 1)..MaxTransfers, x \in User : widgets'[k][x] = "none"
      BY <2>3, <3>1, <3>2
    <3> QED BY <1>3, <1>4, <2>3, <2>4, <3>3 DEF WindowTypes
  <2>6. Registered'
    <3>1. \A k \in Transfer : /\ Running(k)' <=> Running(k)
                              /\ Involved(k)' = Involved(k)
                              /\ \A x \in User : Key(k, x)' = Key(k, x)
      BY <1>3, <1>4, OnwardNames DEF Running
    <3>2. ASSUME NEW x \in User, NEW d \in Contact, NEW k \in Transfer, activeTransfers'[x][d] = k
          PROVE  /\ program'[x] = "chat" /\ x \in Involved(k)' /\ Key(k, x)' = d
                 /\ transfers[k].from = x => Running(k)'
                 /\ transfers[k].from # x => incomingFiles'[x][transfers[k].from].transfer = k
      <4>1. CASE x = v /\ d = from
        <5>1. k = t
          BY <2>4, <3>2, <4>1
        <5>2. x \in Involved(k) /\ Key(k, x) = d
          BY <1>2, <4>1, <5>1 DEF Involved, Key
        <5>3. incomingFiles'[x][transfers[k].from].transfer = k
          BY <1>5, <4>1, <5>1
        <5> QED BY <1>2, <1>3, <1>10, <3>1, <4>1, <5>1, <5>2, <5>3
      <4>2. CASE x # v \/ d # from
        <5>1. k # 0 /\ k = activeTransfers[x][d]
          BY <2>4, <3>2, <4>2, TransferFacts
        <5>2. /\ program[x] = "chat" /\ x \in Involved(k) /\ Key(k, x) = d
              /\ transfers[k].from = x => Running(k)
              /\ transfers[k].from # x => incomingFiles[x][transfers[k].from].transfer = k
          BY <5>1 DEF Registered
        <5>3. ASSUME transfers[k].from # x
              PROVE  incomingFiles'[x][transfers[k].from].transfer = k
          <6>1. Key(k, x) = transfers[k].from /\ transfers[k].from \in User
            BY <5>3, TransferFacts DEF Key
          <6>2. incomingFiles'[x][transfers[k].from] = incomingFiles[x][transfers[k].from]
            BY <1>5, <4>2, <5>2, <6>1
          <6> QED BY <5>2, <5>3, <6>2
        <5> QED BY <1>3, <3>1, <5>2, <5>3
      <4> QED BY <4>1, <4>2
    <3>3. ASSUME NEW s \in Transfer, NEW k \in Transfer,
                 k = activeTransfers'[transfers[s].from][transfers[s].to],
                 Running(s), transfers[k].from # transfers[s].from
          PROVE  {s, k} \in overlaps
      <4>1. transfers[s].from \in User /\ transfers[s].to \in Contact /\ k # 0
        BY TransferFacts
      <4>2. CASE transfers[s].from = v /\ transfers[s].to = from
        <5>1. k = t
          BY <2>4, <3>3, <4>2
        <5> QED BY <1>2, <3>3, <4>2, <5>1, ArrivalCrosses
      <4>3. CASE transfers[s].from # v \/ transfers[s].to # from
        <5>1. k = activeTransfers[transfers[s].from][transfers[s].to]
          BY <2>4, <3>3, <4>1, <4>3
        <5> QED BY <3>3, <4>1, <5>1 DEF Registered
      <4> QED BY <4>2, <4>3
    <3>4. \A x \in User, d \in Contact : activeTransfers'[x][d] \in Transfer \cup {0}
      BY <2>4
    <3>5. \A s \in Transfer : transfers[s].from \in User /\ transfers[s].to \in Contact
      BY TransferFacts
    <3> QED BY <1>3, <1>4, <3>1, <3>2, <3>3, <3>4, <3>5 DEF Registered
  <2>7. CompleteIsTrue'
    <3>1. \A k \in Transfer : k \in 1..MaxTransfers
      BY TransferFacts, FileAssumption DEF Shapes, Transfer
    <3>2. \A k \in Transfer, x \in User : widgets'[k][x] = "complete" => widgets[k][x] = "complete"
      BY <2>3, <3>1
    <3> QED BY <1>3, <1>4, <3>2, CompleteKept
  <2> QED BY <1>1, <1>3, <1>5, <1>6, <1>8, <2>5, <2>6, <2>7, ReceiveFlight
<1> QED BY <1>9, <1>10

\* The files that are open keep their transfers, the windows stay as they are.
LEMMA OpenKept ==
    ASSUME FlightInv, UNCHANGED <<program, transfers, windowVars, overlaps, delivered>>,
           \A x, y \in User : incomingFiles'[x][y].transfer = incomingFiles[x][y].transfer
    PROVE  Registered' /\ CompleteIsTrue'
<1> USE DEF FlightInv
<1>1. Onward /\ Transfer' = Transfer
  BY OnwardUnchanged
<1>2. activeTransfers' = activeTransfers /\ widgets' = widgets
  BY DEF windowVars
<1>3. activeTransfers' \in [User -> [Contact -> Transfer \cup {0}]]
  BY <1>2 DEF TypeOK
<1>4. ASSUME NEW x \in User, NEW d \in Contact, NEW k \in Transfer, activeTransfers'[x][d] = k
      PROVE  /\ k = activeTransfers[x][d] /\ program'[x] = "chat"
             /\ transfers[k].from = x => Running(k)'
             /\ transfers[k].from # x => incomingFiles'[x][transfers[k].from].transfer = k
  <2>1. k # 0 /\ k = activeTransfers[x][d] /\ transfers[k].from \in User
    BY <1>2, <1>4, TransferFacts
  <2>2. /\ program[x] = "chat"
        /\ transfers[k].from = x => Running(k)
        /\ transfers[k].from # x => incomingFiles[x][transfers[k].from].transfer = k
    BY <2>1 DEF Registered
  <2> QED BY <2>1, <2>2 DEF Running
<1>5. Registered'
  BY <1>1, <1>3, <1>4, RegisteredKept
<1>6. CompleteIsTrue'
  BY <1>1, <1>2, CompleteKept
<1> QED BY <1>5, <1>6

\* What a chunk that is stored adds to the open file.
LEMMA StoreFacts ==
    ASSUME FlightInv, NEW v \in User, NEW t \in Transfer, NEW index \in Nat,
           transfers[t].from \in User, UNCHANGED transfers, StoreChunk(v, t, index)
    PROVE  LET from == transfers[t].from
               f == incomingFiles[v][from]
           IN  /\ IncomingTypes'
               /\ \A x, y \in User : (x # v \/ y # from) => incomingFiles'[x][y] = incomingFiles[x][y]
               /\ incomingFiles'[v][from].transfer = f.transfer
               /\ \/ incomingFiles' = incomingFiles /\ (~KeysAgree(v, t) \/ f = Absent)
                  \/ /\ KeysAgree(v, t) /\ f.transfer # 0
                     /\ incomingFiles'[v][from].chunks =
                          [i \in DOMAIN f.chunks \cup {index} |-> IF i = index THEN t ELSE f.chunks[i]]
<1> USE DEF FlightInv
<1> DEFINE from == transfers[t].from
           f == incomingFiles[v][from]
           F == [i \in DOMAIN f.chunks \cup {index} |-> IF i = index THEN t ELSE f.chunks[i]]
<1>1. IncomingTypes
  BY TypeParts
<1>2. /\ f.transfer \in Transfer \cup {0} /\ f.chunks \in [DOMAIN f.chunks -> Transfer]
      /\ DOMAIN f.chunks \in SUBSET Nat /\ IsFiniteSet(DOMAIN f.chunks)
      /\ f.transfer = 0 => f = Absent
      /\ f = [transfer |-> f.transfer, chunks |-> f.chunks]
  BY <1>1 DEF IncomingTypes
<1>3. CASE KeysAgree(v, t) /\ f # Absent
  <2>1. incomingFiles' = [incomingFiles EXCEPT ![v][from] = [@ EXCEPT !.chunks = F]]
    BY <1>3 DEF StoreChunk
  <2>2. /\ DOMAIN F = DOMAIN f.chunks \cup {index} /\ F \in [DOMAIN f.chunks \cup {index} -> Transfer]
        /\ IsFiniteSet(DOMAIN f.chunks \cup {index})
    BY <1>2, FS_AddElement
  <2>3. f.transfer \in Transfer /\ f.transfer # 0
    BY <1>2, <1>3, TransferFacts
  <2> HIDE DEF F
  <2>4. [f EXCEPT !.chunks = F] = [transfer |-> f.transfer, chunks |-> F]
    BY <1>2
  <2>5. incomingFiles' = [incomingFiles EXCEPT ![v][from] = [transfer |-> f.transfer, chunks |-> F]]
    <3>1. DOMAIN incomingFiles = User /\ DOMAIN incomingFiles[v] = User
      BY <1>1 DEF IncomingTypes
    <3>2. incomingFiles' = [incomingFiles EXCEPT ![v] = [@ EXCEPT ![from] = [f EXCEPT !.chunks = F]]]
      BY <2>1, <3>1
    <3> QED BY <2>4, <3>2
  <2>6. /\ IncomingTypes'
        /\ incomingFiles'[v][from] = [transfer |-> f.transfer, chunks |-> F]
        /\ \A x, y \in User : (x # v \/ y # from) => incomingFiles'[x][y] = incomingFiles[x][y]
    <3>1. DOMAIN F \in SUBSET Nat /\ IsFiniteSet(DOMAIN F) /\ F \in [DOMAIN F -> Transfer]
      BY <1>2, <2>2
    <3> HIDE DEF f
    <3> QED BY <2>3, <2>5, <3>1, IncomingUpdate, ZenonT(60)
  <2>7. incomingFiles'[v][from].transfer = f.transfer /\ incomingFiles'[v][from].chunks = F
    BY <2>6
  <2> QED BY <1>3, <2>3, <2>6, <2>7 DEF F
<1>4. CASE ~(KeysAgree(v, t) /\ f # Absent)
  <2>1. incomingFiles' = incomingFiles
    BY <1>4 DEF StoreChunk
  <2>2. IncomingTypes'
    BY <2>1, OnwardUnchanged, TypesKept
  <2> QED BY <1>4, <2>1, <2>2
<1> QED BY <1>3, <1>4

LEMMA ChunkFlight ==
    ASSUME FlightInv, NEW v \in User, NEW t \in Transfer, handleFileChunk(v, t)
    PROVE  FlightInv'
<1> DEFINE from == transfers[t].from
           index == Head(inbox[v]).index
           chunk == "chunk"
<1>1. chunk \in {"meta", "chunk", "complete"} /\ Reads(v, chunk, t)
  BY DEF handleFileChunk
<1>2. /\ v \in Receivers(t) /\ from # v /\ from \in User /\ index \in Nat
  <2>1. /\ Head(inbox[v]) \in Message
    BY <1>1, ReadsFacts
  <2>2. index \in Nat
    BY <2>1 DEF Message
  <2> QED BY <1>1, <2>2, ReadsFacts
<1> USE DEF FlightInv
<1>3. /\ UNCHANGED <<program, link, transfers, outbox, downloads, failures>>
      /\ UNCHANGED <<windowVars, delivered, overlaps>>
      /\ \/ StoreChunk(v, t, index) /\ UNCHANGED mishaps
         \/ mishaps' = mishaps \cup {<<t, "garbled">>} /\ UNCHANGED incomingFiles
  BY DEF handleFileChunk
<1>4. Onward /\ Transfer' = Transfer
  BY <1>3, OnwardUnchanged
<1>5. /\ IncomingTypes'
      /\ \A x \in User \ {v}, y \in User : incomingFiles'[x][y] = incomingFiles[x][y]
      /\ \A x, y \in User : incomingFiles'[x][y].transfer = incomingFiles[x][y].transfer
  <2>1. CASE StoreChunk(v, t, index)
    <3> HIDE DEF index
    <3>1. /\ IncomingTypes'
          /\ \A x, y \in User : (x # v \/ y # from) => incomingFiles'[x][y] = incomingFiles[x][y]
          /\ incomingFiles'[v][from].transfer = incomingFiles[v][from].transfer
      BY <1>2, <1>3, <2>1, StoreFacts
    <3> QED BY <3>1
  <2>2. CASE UNCHANGED incomingFiles
    BY <1>4, <2>2, TypesKept
  <2> QED BY <1>3, <2>1, <2>2
<1>6. DownloadTypes' /\ WindowTypes'
  BY <1>3, <1>4, TypesKept
<1>7. mishaps' \subseteq Transfer \X {"cut", "garbled"} /\ delivered' \subseteq Transfer \X User
  BY <1>3 DEF TypeOK
<1>8. Registered' /\ CompleteIsTrue'
  BY <1>3, <1>5, OpenKept
<1> QED BY <1>1, <1>3, <1>5, <1>6, <1>7, <1>8, ReceiveFlight

-----------------------------------------------------------------------------
(* The saved file. *)

\* What is written are pieces there are, in the order of their indices.
LEMMA WrittenFacts ==
    ASSUME NEW S, NEW f, DOMAIN f.chunks \in SUBSET Nat, IsFiniteSet(DOMAIN f.chunks),
           f.chunks \in [DOMAIN f.chunks -> S]
    PROVE  /\ Written(f) \in Seq(S \X Nat)
           /\ \A i \in DOMAIN Written(f) : /\ Written(f)[i][2] \in DOMAIN f.chunks
                                           /\ Written(f)[i][1] = f.chunks[Written(f)[i][2]]
           /\ \A i, j \in DOMAIN Written(f) : i < j => Written(f)[i][2] < Written(f)[j][2]
<1> DEFINE D == DOMAIN f.chunks
           n == Cardinality(D)
           P == {k \in 1..n : k - 1 \in D}
           c == Cardinality(P)
<1>1. n \in Nat
  BY FS_CardinalityType
<1>2. P \in SUBSET (1..n)
  OBVIOUS
<1>3. Written(f) = [k \in 1..c |-> <<f.chunks[Nth(P, k) - 1], Nth(P, k) - 1>>]
  BY DEF Written
<1> HIDE DEF P, n
<1>4. /\ c \in Nat
      /\ \A k \in 1..c : Nth(P, k) \in P
      /\ \A k, l \in 1..c : k < l => Nth(P, k) < Nth(P, l)
  BY <1>1, <1>2, NthFacts
<1>5. \A k \in P : k \in Nat /\ k - 1 \in D /\ k - 1 \in Nat
  BY <1>1 DEF P
<1> HIDE DEF c
<1>6. \A k \in 1..c : /\ Nth(P, k) \in Nat /\ Nth(P, k) - 1 \in D /\ Nth(P, k) - 1 \in Nat
                      /\ f.chunks[Nth(P, k) - 1] \in S
  BY <1>4, <1>5
<1> DEFINE e(k) == <<f.chunks[Nth(P, k) - 1], Nth(P, k) - 1>>
<1>7. \A k \in 1..c : /\ e(k) \in S \X Nat /\ e(k)[1] = f.chunks[Nth(P, k) - 1]
                      /\ e(k)[2] = Nth(P, k) - 1
  BY <1>6
<1>8. Written(f) = [k \in 1..c |-> e(k)]
  BY <1>3
<1> HIDE DEF e
<1>9. Written(f) \in Seq(S \X Nat) /\ DOMAIN Written(f) = 1..c
  BY <1>4, <1>7, <1>8
<1>10. \A k \in 1..c : Written(f)[k] = e(k)
  BY <1>8
<1>11. \A i \in 1..c : /\ Written(f)[i][2] \in D
                       /\ Written(f)[i][1] = f.chunks[Written(f)[i][2]]
  BY <1>6, <1>7, <1>10
<1>12. \A i, j \in 1..c : i < j => Written(f)[i][2] < Written(f)[j][2]
  <2> SUFFICES ASSUME NEW i \in 1..c, NEW j \in 1..c, i < j
               PROVE  Written(f)[i][2] < Written(f)[j][2]
    OBVIOUS
  <2>1. Written(f)[i][2] = Nth(P, i) - 1 /\ Written(f)[j][2] = Nth(P, j) - 1
    BY <1>7, <1>10
  <2>2. Nth(P, i) < Nth(P, j) /\ Nth(P, i) \in Nat /\ Nth(P, j) \in Nat
    BY <1>4, <1>6
  <2> QED BY <2>1, <2>2
<1> QED BY <1>9, <1>11, <1>12

\* With all chunks of t there, they are written one after the other.
LEMMA WrittenWhole ==
    ASSUME NEW t, NEW n \in Nat, n = transfers[t].chunks, NEW f, DOMAIN f.chunks = 0..(n - 1),
           \A i \in DOMAIN f.chunks : f.chunks[i] = t
    PROVE  Written(f) = Whole(t)
<1> DEFINE P == {k \in 1..Cardinality(DOMAIN f.chunks) : k - 1 \in DOMAIN f.chunks}
<1>1. Cardinality(DOMAIN f.chunks) = n
  BY FS_Interval
<1>2. P = 1..n
  BY <1>1
<1>3. \A k \in 0..n : Cardinality(1..k) = k
  BY FS_Interval
<1>4. Written(f) = [k \in 1..Cardinality(P) |-> <<f.chunks[Nth(P, k) - 1], Nth(P, k) - 1>>]
  BY DEF Written
<1> HIDE DEF P
<1>4a. Cardinality(P) = n
  BY <1>2, <1>3
<1>5. ASSUME NEW k \in 1..n PROVE Nth(P, k) = k
  <2>1. P \in SUBSET (1..n) /\ k \in P
    BY <1>2
  <2>2. /\ \A i \in P : Rank(P, i) \in 1..Cardinality(P) /\ Nth(P, Rank(P, i)) = i
    BY <2>1, NthFacts
  <2>3. {j \in P : j <= k} = 1..k
    BY <1>2
  <2>4. Rank(P, k) = k
    <3>1. k \in 0..n
      OBVIOUS
    <3> QED BY <1>3, <2>3, <3>1 DEF Rank
  <2> QED BY <2>1, <2>2, <2>4
<1>6. \A k \in 1..n : <<f.chunks[Nth(P, k) - 1], Nth(P, k) - 1>> = <<t, k - 1>>
  <2>1. \A k \in 1..n : k - 1 \in 0..(n - 1)
    OBVIOUS
  <2> QED BY <1>5, <2>1
<1>7. Written(f) = [k \in 1..n |-> <<t, k - 1>>]
  BY <1>4, <1>4a, <1>6
<1> QED BY <1>7 DEF Whole

LEMMA WrittenNone ==
    ASSUME NEW f, DOMAIN f.chunks = {} PROVE Written(f) = <<>>
<1> DEFINE P == {k \in 1..Cardinality(DOMAIN f.chunks) : k - 1 \in DOMAIN f.chunks}
<1>1. Written(f) = [k \in 1..Cardinality(P) |-> <<f.chunks[Nth(P, k) - 1], Nth(P, k) - 1>>]
  BY DEF Written
<1>2. P = {} /\ Cardinality(P) = 0
  BY FS_EmptySet
<1> HIDE DEF P
<1>3. 1..Cardinality(P) = {}
  BY <1>2
<1>4. Written(f) \in Seq({}) /\ Len(Written(f)) = 0
  BY <1>1, <1>2
<1> QED BY <1>4, EmptySeq

LEMMA DownloadUpdate ==
    ASSUME TypeOK, Shapes, UNCHANGED transfers, NEW v \in User, NEW name \in FileName,
           NEW k \in Transfer, NEW q \in Seq(Transfer \X Nat),
           downloads' = [downloads EXCEPT ![v][name] = [transfer |-> k, chunks |-> q]]
    PROVE  /\ DownloadTypes'
           /\ downloads'[v][name] = [transfer |-> k, chunks |-> q]
           /\ \A x \in User, y \in FileName : (x # v \/ y # name) =>
                 downloads'[x][y] = downloads[x][y]
<1> DEFINE d == [transfer |-> k, chunks |-> q]
<1>1. d.transfer = k /\ d.chunks = q
  OBVIOUS
<1>2. DownloadTypes
  BY TypeParts
<1> HIDE DEF d
<1>3. downloads' = [downloads EXCEPT ![v][name] = d]
  BY DEF d
<1>4. DOMAIN downloads = User /\ \A x \in User : DOMAIN downloads[x] = FileName
  BY <1>2 DEF DownloadTypes
<1>5. /\ downloads = [x \in User |-> downloads[x]]
      /\ \A x \in User : downloads[x] = [y \in FileName |-> downloads[x][y]]
  BY <1>2 DEF DownloadTypes
<1>6. downloads' = [x \in User |-> IF x = v THEN [downloads[v] EXCEPT ![name] = d] ELSE downloads[x]]
  BY <1>3, <1>4, <1>5
<1>7. [downloads[v] EXCEPT ![name] = d]
         = [y \in FileName |-> IF y = name THEN d ELSE downloads[v][y]]
  BY <1>4, <1>5
<1>8. /\ downloads'[v][name] = d
      /\ \A x \in User, y \in FileName : (x # v \/ y # name) =>
            downloads'[x][y] = downloads[x][y]
  BY <1>6, <1>7
<1>9. downloads' = [x \in User |-> [y \in FileName |-> downloads'[x][y]]]
  <2>1. ASSUME NEW x \in User PROVE downloads'[x] = [y \in FileName |-> downloads'[x][y]]
    <3>1. CASE x = v
      <4>1. downloads'[x] = [y \in FileName |-> IF y = name THEN d ELSE downloads[v][y]]
        BY <1>6, <1>7, <3>1
      <4> QED BY <4>1
    <3>2. CASE x # v
      <4>1. downloads'[x] = downloads[x]
        BY <1>6, <3>2
      <4> QED BY <1>5, <4>1
    <3> QED BY <3>1, <3>2
  <2>2. downloads' = [x \in User |-> downloads'[x]]
    BY <1>6
  <2> QED BY <2>1, <2>2
<1>10. Transfer' = Transfer
  BY DEF Transfer
<1>11. ASSUME NEW x \in User, NEW y \in FileName
       PROVE  /\ downloads'[x][y].chunks \in Seq(Transfer \X Nat)
              /\ downloads'[x][y] # Absent => downloads'[x][y].transfer \in Transfer
  <2>1. CASE x = v /\ y = name
    <3>1. downloads'[x][y] = d
      BY <1>8, <2>1
    <3> QED BY <1>1, <3>1
  <2>2. CASE x # v \/ y # name
    <3>1. downloads'[x][y] = downloads[x][y]
      BY <1>8, <2>2
    <3> QED BY <1>2, <3>1 DEF DownloadTypes
  <2> QED BY <2>1, <2>2
<1>12. DownloadTypes'
  BY <1>9, <1>10, <1>11 DEF DownloadTypes
<1> QED BY <1>8, <1>12 DEF d

LEMMA CompleteFlight ==
    ASSUME FlightInv, NEW v \in User, NEW t \in Transfer, handleFileComplete(v, t)
    PROVE  FlightInv'
<1> DEFINE from == transfers[t].from
           f == incomingFiles[v][from]
           complete == "complete"
<1>1. complete \in {"meta", "chunk", "complete"} /\ Reads(v, complete, t)
  BY DEF handleFileComplete
<1>2. /\ v \in Receivers(t) /\ from # v /\ from \in User /\ UnderWay(t)
  BY <1>1, ReadsFacts
<1> USE DEF FlightInv
<1>3. UNCHANGED <<program, link, transfers, outbox, overlaps, mishaps, failures>>
  BY DEF handleFileComplete
<1>4. Onward /\ Transfer' = Transfer
  BY <1>3, OnwardUnchanged
<1>5. mishaps' \subseteq Transfer \X {"cut", "garbled"}
  BY <1>3 DEF TypeOK
<1>6. CASE f = Absent
  <2>1. UNCHANGED <<incomingFiles, downloads, windowVars, delivered>>
    BY <1>6 DEF handleFileComplete
  <2>2. IncomingTypes' /\ DownloadTypes' /\ WindowTypes' /\ delivered' \subseteq Transfer \X User
    BY <1>4, <2>1, TypesKept DEF TypeOK
  <2>3. Registered' /\ CompleteIsTrue'
    BY <1>3, <2>1, OpenKept
  <2> QED BY <1>1, <1>3, <1>5, <2>1, <2>2, <2>3, ReceiveFlight
<1>7. CASE f # Absent
  <2>1. /\ f.transfer \in Transfer /\ f.transfer # 0
        /\ DOMAIN f.chunks \in SUBSET Nat /\ IsFiniteSet(DOMAIN f.chunks)
        /\ f.chunks \in [DOMAIN f.chunks -> Transfer]
    <3>1. IncomingTypes
      BY TypeParts
    <3> QED BY <1>2, <1>7, <3>1 DEF IncomingTypes
  <2>2. /\ incomingFiles' = [incomingFiles EXCEPT ![v][from] = Absent]
        /\ \/ downloads' = [downloads EXCEPT ![v][transfers[f.transfer].name] =
                              [transfer |-> f.transfer, chunks |-> Written(f)]]
           \/ UNCHANGED downloads
        /\ delivered' = delivered \cup {<<f.transfer, v>>}
        /\ IF program[v] = "chat" THEN FinishWidget(v, from, "complete") ELSE UNCHANGED windowVars
    BY <1>7 DEF handleFileComplete
  <2>3. /\ IncomingTypes'
        /\ \A x, y \in User : (x # v \/ y # from) => incomingFiles'[x][y] = incomingFiles[x][y]
    <3>1. incomingFiles' = [incomingFiles EXCEPT ![v][from] = [transfer |-> 0, chunks |-> <<>>]]
      BY <2>2 DEF Absent
    <3> HIDE DEF f
    <3> QED BY <1>2, <1>3, <3>1, EmptyChunks, IncomingUpdate, ZenonT(60)
  <2>4. DownloadTypes'
    <3>1. transfers[f.transfer].name \in FileName
      BY <2>1, TransferFacts
    <3>2. Written(f) \in Seq(Transfer \X Nat)
      BY <2>1, WrittenFacts
    <3> HIDE DEF f
    <3>3. CASE downloads' = [downloads EXCEPT ![v][transfers[f.transfer].name] =
                              [transfer |-> f.transfer, chunks |-> Written(f)]]
      BY <1>3, <2>1, <3>1, <3>2, <3>3, DownloadUpdate
    <3>4. CASE UNCHANGED downloads
      BY <1>4, <3>4, TypesKept
    <3> QED BY <2>2, <3>3, <3>4
  <2>5. delivered' \subseteq Transfer \X User /\ delivered \subseteq delivered'
    <3>1. delivered \subseteq Transfer \X User
      BY DEF TypeOK
    <3> HIDE DEF f
    <3> QED BY <2>1, <2>2, <3>1
  <2>6. from \in Contact
    BY <1>2 DEF Contact
  <2>7. WindowTypes'
    <3>1. CASE program[v] = "chat"
      BY <1>4, <2>2, <2>6, <3>1, FinishTypes
    <3>2. CASE program[v] # "chat"
      BY <1>4, <2>2, <3>2, TypesKept
    <3> QED BY <3>1, <3>2
  <2>8. /\ activeTransfers' \in [User -> [Contact -> Transfer \cup {0}]]
        /\ \A x \in User, d \in Contact, k \in Transfer : activeTransfers'[x][d] = k =>
              k = activeTransfers[x][d] /\ (x # v \/ d # from)
    <3>1. CASE program[v] = "chat"
      <4>1. /\ activeTransfers' \in [User -> [Contact -> Transfer \cup {0}]]
            /\ activeTransfers'[v][from] = 0
            /\ \A x \in User, d \in Contact : (x # v \/ d # from) =>
                  activeTransfers'[x][d] = activeTransfers[x][d]
        <5>1. FinishWidget(v, from, "complete") /\ "complete" \in {"complete", "failed"}
          BY <2>2, <3>1
        <5> QED BY <1>2, <2>6, <5>1, FinishFacts
      <4> QED BY <4>1, TransferFacts
    <3>2. CASE program[v] # "chat"
      <4>1. activeTransfers' = activeTransfers
        BY <2>2, <3>2 DEF windowVars
      <4>2. \A d \in Contact : activeTransfers[v][d] = 0
        BY <3>2 DEF Registered
      <4> QED BY <4>1, <4>2, TransferFacts, ZenonT(60) DEF TypeOK
    <3> QED BY <3>1, <3>2
  <2>9. Registered'
    <3>1. ASSUME NEW x \in User, NEW d \in Contact, NEW k \in Transfer, activeTransfers'[x][d] = k
          PROVE  /\ k = activeTransfers[x][d] /\ program'[x] = "chat"
                 /\ transfers[k].from = x => Running(k)'
                 /\ transfers[k].from # x => incomingFiles'[x][transfers[k].from].transfer = k
      <4>1. k # 0 /\ k = activeTransfers[x][d] /\ (x # v \/ d # from) /\ transfers[k].from \in User
        BY <2>8, <3>1, TransferFacts
      <4>2. /\ program[x] = "chat" /\ Key(k, x) = d
            /\ transfers[k].from = x => Running(k)
            /\ transfers[k].from # x => incomingFiles[x][transfers[k].from].transfer = k
        BY <4>1 DEF Registered
      <4>3. ASSUME transfers[k].from # x
            PROVE  incomingFiles'[x][transfers[k].from].transfer = k
        <5>1. d = transfers[k].from
          BY <4>2, <4>3 DEF Key
        <5>2. incomingFiles'[x][d] = incomingFiles[x][d]
          BY <2>3, <4>1, <5>1
        <5> QED BY <4>2, <4>3, <5>1, <5>2
      <4>4. Running(k)' <=> Running(k)
        BY <1>3 DEF Running
      <4> QED BY <1>3, <4>1, <4>2, <4>3, <4>4
    <3> QED BY <1>3, <1>4, <2>8, <3>1, RegisteredKept
  <2>10. CompleteIsTrue'
    <3>1. ASSUME NEW k \in Transfer, NEW x \in User, widgets'[k][x] = "complete"
          PROVE  widgets[k][x] = "complete" \/ <<k, x>> \in delivered' \/ Crossed(k, x)
      <4>1. k \in 1..MaxTransfers
        BY TransferFacts, FileAssumption DEF Shapes, Transfer
      <4>2. CASE program[v] # "chat"
        BY <2>2, <3>1, <4>2 DEF windowVars
      <4>3. CASE program[v] = "chat"
        <5>1. widgets'[k][x] = IF k = activeTransfers[v][from] /\ x = v THEN "complete"
                                                                         ELSE widgets[k][x]
          <6>1. FinishWidget(v, from, "complete") /\ "complete" \in {"complete", "failed"}
            BY <2>2, <4>3
          <6>2. \A l \in 1..MaxTransfers, y \in User :
                  widgets'[l][y] = IF l = activeTransfers[v][from] /\ y = v THEN "complete"
                                                                           ELSE widgets[l][y]
            BY <1>2, <2>6, <6>1, FinishFacts
          <6> QED BY <4>1, <6>2
        <5>2. CASE k = activeTransfers[v][from] /\ x = v
          <6>1. k # 0
            BY TransferFacts
          <6>2. /\ Key(k, v) = from /\ v \in Involved(k)
                /\ transfers[k].from = v => Running(k)
                /\ transfers[k].from # v => incomingFiles[v][transfers[k].from].transfer = k
            BY <2>6, <5>2, <6>1 DEF Registered
          <6>3. CASE transfers[k].from = v
            <7>1. transfers[k].to = from
              BY <6>2, <6>3 DEF Key
            <7> QED BY <1>2, <5>2, <6>2, <6>3, <7>1, ArrivalCrosses
          <6>4. CASE transfers[k].from # v
            <7>1. transfers[k].from = from
              BY <6>2, <6>4 DEF Key
            <7> QED BY <2>2, <5>2, <6>2, <6>4, <7>1
          <6> QED BY <6>3, <6>4
        <5> QED BY <3>1, <5>1, <5>2
      <4> QED BY <4>2, <4>3
    <3> QED BY <1>3, <1>4, <2>5, <3>1, CompleteKept
  <2> QED BY <1>1, <1>3, <1>5, <2>3, <2>4, <2>5, <2>7, <2>9, <2>10, ReceiveFlight
<1> QED BY <1>6, <1>7

-----------------------------------------------------------------------------
(* A new transfer. *)

\* The new transfer and what it overlaps; what was there stays.
LEMMA AttachFacts ==
    ASSUME FlightInv, NEW u \in User, NEW to \in Contact, NEW name \in FileName,
           NEW chunks \in 0..MaxChunks, Attach(u, to, name, chunks)
    PROVE  LET n == Len(transfers) + 1
           IN  /\ Onward /\ n \in 1..MaxTransfers /\ n \notin Transfer
               /\ Transfer' = Transfer \cup {n} /\ Len(transfers') = n
               /\ transfers'[n].from = u /\ transfers'[n].to = to /\ transfers'[n].chunks = chunks
               /\ transfers'[n].next = 0
               /\ transfers'[n].thread = "opening" /\ to # u /\ program[u] = "chat"
               /\ \A s \in Transfer : transfers'[s] = transfers[s]
               /\ \A s \in Transfer : (Running(s)' <=> Running(s)) /\ (UnderWay(s)' <=> UnderWay(s))
               /\ \A k \in 1..MaxTransfers, x \in User :
                     widgets'[k][x] = IF k = n /\ x = u THEN "active" ELSE widgets[k][x]
               /\ activeTransfers'[u][to] = n
               /\ \A x \in User, d \in Contact : (x # u \/ d # to) =>
                     activeTransfers'[x][d] = activeTransfers[x][d]
               /\ WindowTypes'
               /\ overlaps \subseteq overlaps' /\ overlaps' \subseteq SUBSET Transfer'
               /\ \A s \in Transfer :
                     (IF transfers[s].from = u THEN Running(s) ELSE UnderWay(s)) => {s, n} \in overlaps'
               /\ \A s, k \in Transfer : {s, k} \in overlaps' => {s, k} \in overlaps
               /\ UNCHANGED <<program, link, outbox, inbox, incomingFiles, downloads>>
               /\ UNCHANGED <<delivered, mishaps, failures>>
<1> USE DEF FlightInv
<1> DEFINE n == Len(transfers) + 1
           r == [from |-> u, to |-> to, name |-> name, chunks |-> chunks,
                 thread |-> "opening", next |-> 0]
           S == {s \in Transfer : IF transfers[s].from = u
                                  THEN transfers[s].thread \in {"opening", "sending"}
                                  ELSE UnderWay(s)}
<1>1. /\ program[u] = "chat" /\ to # u /\ Len(transfers) < MaxTransfers
      /\ transfers' = Append(transfers, r)
      /\ widgets' = [widgets EXCEPT ![n][u] = "active"]
      /\ activeTransfers' = [activeTransfers EXCEPT ![u][to] = n]
      /\ overlaps' = overlaps \cup {{s, n} : s \in S}
      /\ UNCHANGED <<program, link, outbox, inbox, incomingFiles, downloads>>
      /\ UNCHANGED <<delivered, mishaps, failures>>
  BY DEF Attach
<1>2. n \in 1..MaxTransfers /\ n \notin Transfer /\ n \in Nat
  BY <1>1, TransferFacts, FileAssumption DEF Transfer
<1>3. /\ r \in TransferType /\ r.next <= r.chunks /\ r.from = u /\ r.to = to
      /\ r.chunks = chunks /\ r.thread = "opening" /\ r.next = 0
  BY FileAssumption DEF TransferType
<1> HIDE DEF r
<1>4. /\ Onward /\ Len(transfers') = n /\ Transfer' = Transfer \cup {n}
      /\ transfers'[n] = r /\ \A s \in Transfer : transfers'[s] = transfers[s]
  BY <1>1, <1>3, OnwardAppend
<1>5. /\ widgets \in [1..MaxTransfers -> [User -> {"none", "active", "complete", "failed"}]]
      /\ activeTransfers \in [User -> [Contact -> Transfer \cup {0}]]
  BY DEF TypeOK
<1>6. /\ widgets' \in [1..MaxTransfers -> [User -> {"none", "active", "complete", "failed"}]]
      /\ \A k \in 1..MaxTransfers, x \in User :
            widgets'[k][x] = IF k = n /\ x = u THEN "active" ELSE widgets[k][x]
  BY <1>1, <1>2, <1>5
<1>7. /\ activeTransfers'[u][to] = n
      /\ \A x \in User, d \in Contact : (x # u \/ d # to) =>
            activeTransfers'[x][d] = activeTransfers[x][d]
  BY <1>1, <1>5
<1>8. activeTransfers' \in [User -> [Contact -> Transfer' \cup {0}]]
  <2>1. activeTransfers \in [User -> [Contact -> Transfer' \cup {0}]] /\ n \in Transfer'
    BY <1>4, <1>5
  <2> QED BY <1>1, <2>1
<1>9. WindowTypes'
  <2>1. \A k \in (n + 1)..MaxTransfers : k # n /\ k \in (Len(transfers) + 1)..MaxTransfers
                                         /\ k \in 1..MaxTransfers
    BY <1>2, TransferFacts, FileAssumption
  <2>2. \A k \in (Len(transfers) + 1)..MaxTransfers, x \in User : widgets[k][x] = "none"
    BY DEF Shapes
  <2>3. \A k \in (n + 1)..MaxTransfers, x \in User : widgets'[k][x] = "none"
    BY <1>6, <2>1, <2>2
  <2> QED BY <1>4, <1>6, <1>8, <2>3 DEF WindowTypes
<1>10. \A s \in Transfer : (Running(s)' <=> Running(s)) /\ (UnderWay(s)' <=> UnderWay(s))
  <2>1. \A s \in Transfer : Running(s)' <=> Running(s)
    BY <1>4 DEF Running
  <2>2. Flying' = Flying
    BY <1>1 DEF Flying
  <2> QED BY <2>1, <2>2, UnderWayFlies, UnderWayFliesNext
<1>11. S \subseteq Transfer
  OBVIOUS
<1>12. \A s \in Transfer : (IF transfers[s].from = u THEN Running(s) ELSE UnderWay(s)) => s \in S
  BY DEF Running
<1> HIDE DEF S, n
<1>13. /\ overlaps \subseteq overlaps' /\ overlaps' \subseteq SUBSET Transfer'
       /\ \A s \in S : {s, n} \in overlaps'
  <2>1. overlaps \subseteq SUBSET Transfer'
    BY <1>4 DEF TypeOK
  <2>2. \A s \in S : {s, n} \in SUBSET Transfer'
    BY <1>4, <1>11
  <2> QED BY <1>1, <2>1, <2>2
<1>14. \A s, k \in Transfer : {s, k} \in overlaps' => {s, k} \in overlaps
  <2> SUFFICES ASSUME NEW s \in Transfer, NEW k \in Transfer, {s, k} \in overlaps'
               PROVE  {s, k} \in overlaps
    OBVIOUS
  <2>1. \A x \in S : {s, k} # {x, n}
    BY <1>2
  <2> QED BY <1>1, <2>1
<1>15. \A s \in Transfer :
          (IF transfers[s].from = u THEN Running(s) ELSE UnderWay(s)) => {s, n} \in overlaps'
  BY <1>12, <1>13
<1>16. /\ transfers'[n].from = u /\ transfers'[n].to = to /\ transfers'[n].chunks = chunks
       /\ transfers'[n].next = 0 /\ transfers'[n].thread = "opening"
  BY <1>3, <1>4
<1> QED BY <1>1, <1>2, <1>4, <1>6, <1>7, <1>9, <1>10, <1>13, <1>14, <1>15, <1>16 DEF n

LEMMA AttachFlight ==
    ASSUME FlightInv, NEW u \in User, NEW to \in Contact, NEW name \in FileName,
           NEW chunks \in 0..MaxChunks, Attach(u, to, name, chunks)
    PROVE  FlightInv'
<1> SUFFICES ASSUME NEW n \in Nat, n = Len(transfers) + 1 PROVE FlightInv'
  BY TransferFacts DEF FlightInv
<1>1. /\ Onward /\ n \in 1..MaxTransfers /\ n \notin Transfer
      /\ Transfer' = Transfer \cup {n} /\ Len(transfers') = n
      /\ transfers'[n].from = u /\ transfers'[n].to = to /\ transfers'[n].chunks = chunks
      /\ transfers'[n].next = 0
      /\ transfers'[n].thread = "opening" /\ to # u /\ program[u] = "chat"
      /\ \A s \in Transfer : transfers'[s] = transfers[s]
  BY AttachFacts
<1>2. /\ \A s \in Transfer : (Running(s)' <=> Running(s)) /\ (UnderWay(s)' <=> UnderWay(s))
      /\ \A k \in 1..MaxTransfers, x \in User :
            widgets'[k][x] = IF k = n /\ x = u THEN "active" ELSE widgets[k][x]
      /\ activeTransfers'[u][to] = n
      /\ \A x \in User, d \in Contact : (x # u \/ d # to) =>
            activeTransfers'[x][d] = activeTransfers[x][d]
      /\ WindowTypes'
  BY AttachFacts
<1>3. /\ overlaps \subseteq overlaps' /\ overlaps' \subseteq SUBSET Transfer'
      /\ \A s \in Transfer :
            (IF transfers[s].from = u THEN Running(s) ELSE UnderWay(s)) => {s, n} \in overlaps'
  BY AttachFacts
<1>4. /\ UNCHANGED <<program, link, outbox, inbox, incomingFiles, downloads>>
      /\ UNCHANGED <<delivered, mishaps, failures>>
  BY AttachFacts
<1> USE DEF FlightInv
<1>5. n # 0
  BY <1>1
<1>6. \A s \in Transfer : /\ Involved(s)' = Involved(s) /\ \A x \in User : Key(s, x)' = Key(s, x)
                          /\ transfers[s].from \in User /\ transfers[s].to \in Contact
  BY <1>1, OnwardNames, TransferFacts
<1>7. TypeOK' /\ Shapes'
  <2>1. TransferTypes'
    <3>1. \A t \in Transfer : transfers[t].to # transfers[t].from /\ transfers[t].next <= transfers[t].chunks
      BY TransferFacts DEF Shapes
    <3>2. Len(transfers') <= MaxTransfers /\ 0 <= chunks
      BY <1>1
    <3> QED BY <1>1, <3>1, <3>2 DEF TransferTypes, Onward
  <2>2. IncomingTypes' /\ DownloadTypes' /\ QueueTypes'
    BY <1>1, <1>4, TypesKept
  <2>3. PastTypes' /\ ProgramTypes'
    BY <1>1, <1>3, <1>4 DEF PastTypes, ProgramTypes, TypeOK
  <2> QED BY <1>2, <2>1, <2>2, <2>3, TypeParts
<1>8. Addressed'
  <2>1. outbox' \in [User -> Seq(Message)] /\ inbox' \in [User -> Seq(Message)]
    BY <1>4 DEF TypeOK
  <2> QED BY <1>1, <1>4, <2>1, QueuesKept
<1>9. Off'
  <2>1. \A t \in Transfer' : Running(t)' => program'[transfers'[t].from] = "chat"
    BY <1>1, <1>2, <1>4 DEF Off
  <2> QED BY <1>4, <2>1 DEF Off
<1>10. Together'
  <2>1. ASSUME NEW s \in Transfer,
               \/ Running(s)
               \/ UnderWay(s) /\ transfers[s].from # u
        PROVE  {s, n} \in overlaps' /\ {n, s} \in overlaps'
    <3>1. IF transfers[s].from = u THEN Running(s) ELSE UnderWay(s)
      BY <2>1, UnderWayFlies
    <3>2. {s, n} = {n, s}
      OBVIOUS
    <3> QED BY <1>3, <3>1, <3>2
  <2> SUFFICES ASSUME NEW s \in Transfer', NEW t \in Transfer', s # t,
                      \/ Running(s)' /\ Running(t)'
                      \/ UnderWay(s)' /\ UnderWay(t)' /\ transfers'[s].from # transfers'[t].from
               PROVE  {s, t} \in overlaps'
    BY DEF Together
  <2>2. CASE s \in Transfer /\ t \in Transfer
    <3>1. \/ Running(s) /\ Running(t)
          \/ UnderWay(s) /\ UnderWay(t) /\ transfers[s].from # transfers[t].from
      BY <1>1, <1>2, <2>2
    <3> QED BY <1>3, <2>2, <3>1 DEF Together
  <2>3. CASE s \in Transfer /\ t = n
    <3>1. Running(s) \/ (UnderWay(s) /\ transfers[s].from # u)
      BY <1>1, <1>2, <2>3
    <3> QED BY <2>1, <2>3, <3>1
  <2>4. CASE s = n /\ t \in Transfer
    <3>1. Running(t) \/ (UnderWay(t) /\ transfers[t].from # u)
      BY <1>1, <1>2, <2>4
    <3> QED BY <2>1, <2>4, <3>1
  <2> QED BY <1>1, <2>2, <2>3, <2>4
<1>11. Registered'
  <2>1. /\ u \in Involved(n)' /\ Key(n, u)' = to /\ Running(n)'
    BY <1>1 DEF Involved, Key, Running
  <2>2. ASSUME NEW x \in User, NEW d \in Contact, NEW k \in Transfer', activeTransfers'[x][d] = k
        PROVE  /\ program'[x] = "chat" /\ x \in Involved(k)' /\ Key(k, x)' = d
               /\ transfers'[k].from = x => Running(k)'
               /\ transfers'[k].from # x => incomingFiles'[x][transfers'[k].from].transfer = k
    <3>1. CASE x = u /\ d = to
      <4>1. k = n
        BY <1>2, <2>2, <3>1
      <4> QED BY <1>1, <1>4, <2>1, <3>1, <4>1
    <3>2. CASE x # u \/ d # to
      <4>1. k = activeTransfers[x][d]
        BY <1>2, <2>2, <3>2
      <4>2. k \in Transfer /\ k # 0
        <5>1. 0 \notin Transfer'
          BY <1>1, <1>5, TransferFacts
        <5> QED BY <2>2, <4>1, <5>1 DEF TypeOK
      <4>3. /\ program[x] = "chat" /\ x \in Involved(k) /\ Key(k, x) = d
            /\ transfers[k].from = x => Running(k)
            /\ transfers[k].from # x => incomingFiles[x][transfers[k].from].transfer = k
        BY <4>1, <4>2 DEF Registered
      <4> QED BY <1>1, <1>2, <1>4, <1>6, <4>2, <4>3
    <3> QED BY <3>1, <3>2
  <2>3. ASSUME NEW s \in Transfer', NEW k \in Transfer',
               k = activeTransfers'[transfers'[s].from][transfers'[s].to],
               Running(s)', transfers'[k].from # transfers'[s].from
        PROVE  {s, k} \in overlaps'
    <3>1. CASE transfers'[s].from = u /\ transfers'[s].to = to
      BY <1>1, <1>2, <2>3, <3>1
    <3>2. CASE transfers'[s].from # u \/ transfers'[s].to # to
      <4>1. s \in Transfer
        BY <1>1, <3>2
      <4>2. k = activeTransfers[transfers[s].from][transfers[s].to]
        BY <1>1, <1>2, <1>6, <2>3, <3>2, <4>1
      <4>3. k \in Transfer /\ k # 0
        <5>1. 0 \notin Transfer'
          BY <1>1, <1>5, TransferFacts
        <5>2. activeTransfers[transfers[s].from][transfers[s].to] \in Transfer \cup {0}
          <6>1. activeTransfers \in [User -> [Contact -> Transfer \cup {0}]]
            BY DEF TypeOK
          <6> QED BY <1>6, <4>1, <6>1
        <5> QED BY <2>3, <4>2, <5>1, <5>2
      <4>4. Running(s) /\ transfers[k].from # transfers[s].from
        BY <1>1, <1>2, <2>3, <4>1, <4>3
      <4> QED BY <1>3, <4>1, <4>2, <4>3, <4>4 DEF Registered
    <3> QED BY <3>1, <3>2
  <2>4. \A x \in User, d \in Contact : activeTransfers'[x][d] \in Transfer' \cup {0}
    BY <1>2 DEF WindowTypes
  <2>5. \A s \in Transfer' : transfers'[s].from \in User /\ transfers'[s].to \in Contact
    BY <1>1, <1>6
  <2> QED BY <2>2, <2>3, <2>4, <2>5 DEF Registered
<1>12. CompleteIsTrue'
  <2> SUFFICES ASSUME NEW k \in Transfer', NEW x \in User, widgets'[k][x] = "complete"
               PROVE  \/ x = transfers'[k].from /\ transfers'[k].thread = "sent"
                      \/ <<k, x>> \in delivered'
                      \/ Crossed(k, x)'
    BY DEF CompleteIsTrue
  <2>1. k \in Transfer
    <3>1. CASE k = n
      <4>1. n \in (Len(transfers) + 1)..MaxTransfers
        BY <1>1, TransferFacts, FileAssumption
      <4>2. widgets[n][x] = "none"
        BY <4>1 DEF Shapes
      <4> QED BY <1>1, <1>2, <3>1, <4>2
    <3> QED BY <1>1, <3>1
  <2>2. k \in 1..MaxTransfers /\ k # n
    BY <1>1, <2>1, TransferFacts, FileAssumption DEF Shapes, Transfer
  <2>3. widgets[k][x] = "complete"
    BY <1>2, <2>2
  <2>4. \/ x = transfers[k].from /\ transfers[k].thread = "sent"
        \/ <<k, x>> \in delivered
        \/ Crossed(k, x)
    BY <2>1, <2>3 DEF CompleteIsTrue
  <2>5. Crossed(k, x) => Crossed(k, x)'
    BY <1>1, <1>3, <2>1, CrossedKept
  <2> QED BY <1>1, <1>4, <2>1, <2>4, <2>5
<1> QED BY <1>7, <1>8, <1>9, <1>10, <1>11, <1>12

-----------------------------------------------------------------------------
(* Failures. *)

LEMMA CutForFacts ==
    ASSUME TypeOK, NEW u \in User, CutFor(u)
    PROVE  /\ mishaps' \subseteq Transfer \X {"cut", "garbled"} /\ mishaps \subseteq mishaps'
           /\ \A t \in Transfer : u \in Involved(t) /\ UnderWay(t) => <<t, "cut">> \in mishaps'
           /\ \A t \in Transfer : <<t, "cut">> \in mishaps' =>
                 (u \in Involved(t) /\ UnderWay(t)) \/ <<t, "cut">> \in mishaps
<1> DEFINE S == {t \in Transfer : u \in Involved(t) /\ UnderWay(t)}
<1>1. S \in SUBSET Transfer /\ Cut(S)
  BY DEF CutFor
<1>2. \A t \in Transfer : t \in S <=> u \in Involved(t) /\ UnderWay(t)
  OBVIOUS
<1> HIDE DEF S
<1>3. /\ mishaps' \subseteq Transfer \X {"cut", "garbled"} /\ mishaps \subseteq mishaps'
      /\ \A t \in S : <<t, "cut">> \in mishaps'
      /\ \A t \in Transfer : <<t, "cut">> \in mishaps' => t \in S \/ <<t, "cut">> \in mishaps
  BY <1>1, CutFacts
<1> QED BY <1>2, <1>3

LEMMA BreakFacts ==
    ASSUME FlightInv, NEW u \in User, Break(u)
    PROVE  /\ \E i \in 0..Len(outbox[u]) : outbox'[u] = SubSeq(outbox[u], 1, i)
           /\ \E i \in 0..Len(inbox[u]) : inbox'[u] = SubSeq(inbox[u], 1, i)
           /\ \A x \in User \ {u} : outbox'[x] = outbox[x] /\ inbox'[x] = inbox[x]
           /\ outbox' \in [User -> Seq(Message)] /\ inbox' \in [User -> Seq(Message)]
           /\ \A x \in User : /\ ToSet(outbox'[x]) \subseteq ToSet(outbox[x])
                              /\ ToSet(inbox'[x]) \subseteq ToSet(inbox[x])
           /\ Flying' \subseteq Flying
           /\ link \in [User -> {"up", "unlisted", "down"}] /\ link' = [link EXCEPT ![u] = "down"]
<1>1. TypeOK
  BY DEF FlightInv
<1>2. PICK i \in 0..Len(outbox[u]) : outbox' = [outbox EXCEPT ![u] = SubSeq(@, 1, i)]
  BY DEF Break
<1>3. PICK j \in 0..Len(inbox[u]) : inbox' = [inbox EXCEPT ![u] = SubSeq(@, 1, j)]
  BY DEF Break
<1>4. outbox \in [User -> Seq(Message)] /\ inbox \in [User -> Seq(Message)]
  BY <1>1 DEF TypeOK
<1>5. /\ outbox'[u] = SubSeq(outbox[u], 1, i) /\ inbox'[u] = SubSeq(inbox[u], 1, j)
      /\ \A x \in User \ {u} : outbox'[x] = outbox[x] /\ inbox'[x] = inbox[x]
  BY <1>2, <1>3, <1>4
<1>6. /\ SubSeq(outbox[u], 1, i) \in Seq(Message)
      /\ ToSet(SubSeq(outbox[u], 1, i)) \subseteq ToSet(outbox[u])
      /\ SubSeq(inbox[u], 1, j) \in Seq(Message)
      /\ ToSet(SubSeq(inbox[u], 1, j)) \subseteq ToSet(inbox[u])
  BY <1>4, QueuePrefix
<1>7. outbox' \in [User -> Seq(Message)] /\ inbox' \in [User -> Seq(Message)]
  BY <1>2, <1>3, <1>4, <1>6
<1>8. \A x \in User : /\ ToSet(outbox'[x]) \subseteq ToSet(outbox[x])
                      /\ ToSet(inbox'[x]) \subseteq ToSet(inbox[x])
  BY <1>5, <1>6
<1>9. Flying' \subseteq Flying
  <2> SUFFICES ASSUME NEW m \in Flying' PROVE m \in Flying
    OBVIOUS
  <2>1. PICK x \in User : m \in ToSet(outbox'[x]) \cup ToSet(inbox'[x])
    BY UnderWayFliesNext
  <2> QED BY <1>8, <2>1, UnderWayFlies
<1>10. link \in [User -> {"up", "unlisted", "down"}] /\ link' = [link EXCEPT ![u] = "down"]
  BY <1>1 DEF Break, TypeOK
<1> QED BY <1>5, <1>7, <1>8, <1>9, <1>10

LEMMA BreakFlight == ASSUME FlightInv, NEW u \in User, Break(u) PROVE FlightInv'
<1>1. /\ outbox' \in [User -> Seq(Message)] /\ inbox' \in [User -> Seq(Message)]
      /\ \A x \in User : /\ ToSet(outbox'[x]) \subseteq ToSet(outbox[x])
                         /\ ToSet(inbox'[x]) \subseteq ToSet(inbox[x])
      /\ Flying' \subseteq Flying
      /\ \A x \in User \ {u} : inbox'[x] = inbox[x]
      /\ \E i \in 0..Len(inbox[u]) : inbox'[u] = SubSeq(inbox[u], 1, i)
      /\ link \in [User -> {"up", "unlisted", "down"}] /\ link' = [link EXCEPT ![u] = "down"]
  BY BreakFacts
<1>2. /\ UNCHANGED <<program, transfers, incomingFiles, downloads, windowVars, delivered, overlaps>>
      /\ CutFor(u) /\ failures' = failures + 1 /\ link[u] # "down"
  BY DEF Break, Fails
<1> USE DEF FlightInv
<1>3. Onward /\ Transfer' = Transfer
  BY <1>2, OnwardUnchanged
<1>4. QueueTypes' /\ Addressed'
  BY <1>1, <1>3, QueuesKept
<1>5. TypeOK' /\ Shapes'
  <2>1. IncomingTypes' /\ DownloadTypes' /\ TransferTypes' /\ WindowTypes'
    BY <1>2, <1>3, TypesKept
  <2>2. PastTypes'
    <3>1. mishaps' \subseteq Transfer \X {"cut", "garbled"}
      BY <1>2, CutForFacts
    <3> QED BY <1>2, <1>3, <3>1 DEF PastTypes, TypeOK
  <2>3. ProgramTypes'
    BY <1>1, <1>2 DEF ProgramTypes, TypeOK
  <2> QED BY <1>4, <2>1, <2>2, <2>3, TypeParts
<1>6. Off'
  <2>1. \A x \in User : program[x] = "off" => x # u
    BY <1>2 DEF Off
  <2>2. \A x \in User : x # u => link'[x] = link[x]
    BY <1>1
  <2> QED BY <1>1, <1>2, <1>3, <2>1, <2>2 DEF Off, Running
<1>7. Together'
  BY <1>1, <1>2, <1>3, TogetherKept
<1>8. Registered' /\ CompleteIsTrue'
  BY <1>2, OpenKept
<1> QED BY <1>4, <1>5, <1>6, <1>7, <1>8

LEMMA LeaveFacts ==
    ASSUME FlightInv, NEW u \in User, Leave(u)
    PROVE  /\ \E i \in 0..Len(outbox[u]) : outbox'[u] = SubSeq(outbox[u], 1, i)
           /\ inbox'[u] = <<>>
           /\ \A x \in User \ {u} : outbox'[x] = outbox[x] /\ inbox'[x] = inbox[x]
           /\ outbox' \in [User -> Seq(Message)] /\ inbox' \in [User -> Seq(Message)]
           /\ \A x \in User : /\ ToSet(outbox'[x]) \subseteq ToSet(outbox[x])
                              /\ ToSet(inbox'[x]) \subseteq ToSet(inbox[x])
           /\ Flying' \subseteq Flying
           /\ \A y \in User : incomingFiles'[u][y] = Absent
           /\ \A x \in User \ {u}, y \in User : incomingFiles'[x][y] = incomingFiles[x][y]
           /\ \A x \in User \ {u} : /\ program'[x] = program[x] /\ link'[x] = link[x]
                                    /\ \A c \in Contact : activeTransfers'[x][c] = activeTransfers[x][c]
           /\ \A c \in Contact : activeTransfers'[u][c] = 0
           /\ \A k \in 1..MaxTransfers, x \in User :
                 widgets'[k][x] = IF x = u THEN "none" ELSE widgets[k][x]
           /\ program'[u] = "off" /\ link'[u] = "down"
           /\ IncomingTypes' /\ WindowTypes' /\ ProgramTypes'
           /\ Onward /\ Transfer' = Transfer
           /\ \A t \in Transfer : Running(t)' => transfers[t].from # u
<1> USE DEF FlightInv
<1>1. PICK i \in 0..Len(outbox[u]) : outbox' = [outbox EXCEPT ![u] = SubSeq(@, 1, i)]
  BY DEF Leave
<1>2. /\ inbox' = [inbox EXCEPT ![u] = <<>>]
      /\ program' = [program EXCEPT ![u] = "off"] /\ link' = [link EXCEPT ![u] = "down"]
      /\ incomingFiles' = [incomingFiles EXCEPT ![u] = [v \in User |-> Absent]]
      /\ activeTransfers' = [activeTransfers EXCEPT ![u] = [c \in Contact |-> 0]]
      /\ widgets' = [t \in 1..MaxTransfers |-> [widgets[t] EXCEPT ![u] = "none"]]
      /\ transfers' = [t \in Transfer |->
          IF transfers[t].from = u /\ transfers[t].thread \in {"opening", "sending"}
          THEN [transfers[t] EXCEPT !.thread = "ended"] ELSE transfers[t]]
  BY DEF Leave
<1>3. outbox \in [User -> Seq(Message)] /\ inbox \in [User -> Seq(Message)]
  BY DEF TypeOK
<1>4. /\ outbox'[u] = SubSeq(outbox[u], 1, i) /\ inbox'[u] = <<>>
      /\ \A x \in User \ {u} : outbox'[x] = outbox[x] /\ inbox'[x] = inbox[x]
  BY <1>1, <1>2, <1>3
<1>5. /\ SubSeq(outbox[u], 1, i) \in Seq(Message)
      /\ ToSet(SubSeq(outbox[u], 1, i)) \subseteq ToSet(outbox[u])
      /\ <<>> \in Seq(Message) /\ ToSet(<<>>) = {}
  BY <1>3, QueuePrefix, QueueEmpty
<1>6. outbox' \in [User -> Seq(Message)] /\ inbox' \in [User -> Seq(Message)]
  BY <1>1, <1>2, <1>3, <1>5
<1>7. \A x \in User : /\ ToSet(outbox'[x]) \subseteq ToSet(outbox[x])
                      /\ ToSet(inbox'[x]) \subseteq ToSet(inbox[x])
  BY <1>4, <1>5
<1>8. Flying' \subseteq Flying
  <2> SUFFICES ASSUME NEW m \in Flying' PROVE m \in Flying
    OBVIOUS
  <2>1. PICK x \in User : m \in ToSet(outbox'[x]) \cup ToSet(inbox'[x])
    BY UnderWayFliesNext
  <2> QED BY <1>7, <2>1, UnderWayFlies
<1>9. /\ Onward /\ Transfer' = Transfer /\ Len(transfers') = Len(transfers)
      /\ \A t \in Transfer : Running(t)' => transfers[t].from # u
  BY <1>2, OnwardEnded
<1>10. IncomingTypes
  BY TypeParts
<1>11. /\ \A x, y \in User : incomingFiles'[x][y] = IF x = u THEN Absent ELSE incomingFiles[x][y]
       /\ incomingFiles' = [x \in User |-> incomingFiles'[x]]
       /\ \A x \in User : incomingFiles'[x] = [y \in User |-> incomingFiles'[x][y]]
  <2>1. /\ DOMAIN incomingFiles = User
        /\ \A x \in User : incomingFiles[x] = [y \in User |-> incomingFiles[x][y]]
    BY <1>10 DEF IncomingTypes
  <2>2. incomingFiles' = [x \in User |-> IF x = u THEN [y \in User |-> Absent] ELSE incomingFiles[x]]
    BY <1>2, <2>1
  <2>3. ASSUME NEW x \in User
        PROVE  /\ \A y \in User : incomingFiles'[x][y] = IF x = u THEN Absent ELSE incomingFiles[x][y]
               /\ incomingFiles'[x] = [y \in User |-> incomingFiles'[x][y]]
    <3>1. CASE x = u
      <4>1. incomingFiles'[x] = [y \in User |-> Absent]
        BY <2>2, <3>1
      <4> QED BY <3>1, <4>1
    <3>2. CASE x # u
      <4>1. incomingFiles'[x] = incomingFiles[x]
        BY <2>2, <3>2
      <4> QED BY <2>1, <3>2, <4>1
    <3> QED BY <3>1, <3>2
  <2> QED BY <2>2, <2>3
<1>12. IncomingTypes'
  <2>1. Absent.transfer = 0 /\ Absent.chunks = <<>>
        /\ Absent = [transfer |-> Absent.transfer, chunks |-> Absent.chunks]
    BY DEF Absent
  <2>2. ASSUME NEW x \in User, NEW y \in User
        PROVE  /\ incomingFiles'[x][y].transfer \in Transfer \cup {0}
               /\ incomingFiles'[x][y].chunks \in [DOMAIN incomingFiles'[x][y].chunks -> Transfer]
               /\ DOMAIN incomingFiles'[x][y].chunks \in SUBSET Nat
               /\ IsFiniteSet(DOMAIN incomingFiles'[x][y].chunks)
               /\ incomingFiles'[x][y].transfer = 0 => incomingFiles'[x][y] = Absent
               /\ incomingFiles'[x][y] = [transfer |-> incomingFiles'[x][y].transfer,
                                          chunks |-> incomingFiles'[x][y].chunks]
    <3>1. CASE x = u
      <4>1. incomingFiles'[x][y] = Absent
        BY <1>11, <3>1
      <4> QED BY <2>1, <4>1, EmptyChunks
    <3>2. CASE x # u
      <4>1. incomingFiles'[x][y] = incomingFiles[x][y]
        BY <1>11, <3>2
      <4>2. incomingFiles[x][y] = [transfer |-> incomingFiles[x][y].transfer,
                                   chunks |-> incomingFiles[x][y].chunks]
        BY <1>10 DEF IncomingTypes
      <4> QED BY <1>10, <4>1, <4>2 DEF IncomingTypes
    <3> QED BY <3>1, <3>2
  <2>3. incomingFiles' = [x \in User |-> [y \in User |->
                          [transfer |-> incomingFiles'[x][y].transfer,
                           chunks |-> incomingFiles'[x][y].chunks]]]
    <3>1. \A x \in User : [y \in User |-> incomingFiles'[x][y]]
                         = [y \in User |-> [transfer |-> incomingFiles'[x][y].transfer,
                                             chunks |-> incomingFiles'[x][y].chunks]]
      BY <2>2
    <3>2. \A x \in User : incomingFiles'[x]
                         = [y \in User |-> [transfer |-> incomingFiles'[x][y].transfer,
                                             chunks |-> incomingFiles'[x][y].chunks]]
      <4>1. ASSUME NEW x \in User
            PROVE  incomingFiles'[x]
                   = [y \in User |-> [transfer |-> incomingFiles'[x][y].transfer,
                                       chunks |-> incomingFiles'[x][y].chunks]]
        <5>1. incomingFiles'[x] = [y \in User |-> incomingFiles'[x][y]]
          BY <1>11, <4>1
        <5> QED BY <3>1, <4>1, <5>1
      <4> QED BY <4>1
    <3>3. incomingFiles' = [x \in User |-> incomingFiles'[x]]
      BY <1>11
    <3> QED BY <3>2, <3>3
  <2> QED BY <1>9, <2>2, <2>3 DEF IncomingTypes
<1>13. /\ \A x \in User, c \in Contact :
             activeTransfers'[x][c] = IF x = u THEN 0 ELSE activeTransfers[x][c]
       /\ activeTransfers' \in [User -> [Contact -> Transfer \cup {0}]]
  BY <1>2 DEF TypeOK
<1>14. /\ \A k \in 1..MaxTransfers, x \in User :
             widgets'[k][x] = IF x = u THEN "none" ELSE widgets[k][x]
       /\ widgets' \in [1..MaxTransfers -> [User -> {"none", "active", "complete", "failed"}]]
  BY <1>2 DEF TypeOK
<1>15. WindowTypes'
  <2>1. \A k \in (Len(transfers) + 1)..MaxTransfers : k \in 1..MaxTransfers
    BY TransferFacts, FileAssumption
  <2>2. \A k \in (Len(transfers) + 1)..MaxTransfers, x \in User : widgets[k][x] = "none"
    BY DEF Shapes
  <2>3. \A k \in (Len(transfers) + 1)..MaxTransfers, x \in User : widgets'[k][x] = "none"
    BY <1>14, <2>1, <2>2
  <2> QED BY <1>9, <1>13, <1>14, <2>3 DEF WindowTypes
<1>16. ProgramTypes' /\ program'[u] = "off" /\ link'[u] = "down"
       /\ \A x \in User \ {u} : program'[x] = program[x] /\ link'[x] = link[x]
  BY <1>2 DEF ProgramTypes, TypeOK
<1>17. /\ \A y \in User : incomingFiles'[u][y] = Absent
       /\ \A x \in User \ {u}, y \in User : incomingFiles'[x][y] = incomingFiles[x][y]
  BY <1>11
<1> QED BY <1>4, <1>6, <1>7, <1>8, <1>9, <1>12, <1>13, <1>14, <1>15, <1>16, <1>17

LEMMA LeaveFlight == ASSUME FlightInv, NEW u \in User, Leave(u) PROVE FlightInv'
<1>1. /\ outbox' \in [User -> Seq(Message)] /\ inbox' \in [User -> Seq(Message)]
      /\ \A x \in User : /\ ToSet(outbox'[x]) \subseteq ToSet(outbox[x])
                         /\ ToSet(inbox'[x]) \subseteq ToSet(inbox[x])
      /\ Flying' \subseteq Flying
      /\ inbox'[u] = <<>> /\ \A x \in User \ {u} : inbox'[x] = inbox[x]
  <2>1. outbox' \in [User -> Seq(Message)] /\ inbox' \in [User -> Seq(Message)]
    BY LeaveFacts
  <2>2. \A x \in User : /\ ToSet(outbox'[x]) \subseteq ToSet(outbox[x])
                        /\ ToSet(inbox'[x]) \subseteq ToSet(inbox[x])
    BY LeaveFacts
  <2>3. Flying' \subseteq Flying /\ inbox'[u] = <<>>
    BY LeaveFacts
  <2>4. \A x \in User \ {u} : inbox'[x] = inbox[x]
    BY LeaveFacts
  <2> QED BY <2>1, <2>2, <2>3, <2>4
<1>2. /\ \A y \in User : incomingFiles'[u][y] = Absent
      /\ \A x \in User \ {u}, y \in User : incomingFiles'[x][y] = incomingFiles[x][y]
      /\ \A x \in User \ {u} : /\ program'[x] = program[x] /\ link'[x] = link[x]
                               /\ \A c \in Contact : activeTransfers'[x][c] = activeTransfers[x][c]
      /\ \A c \in Contact : activeTransfers'[u][c] = 0
      /\ \A k \in 1..MaxTransfers, x \in User :
            widgets'[k][x] = IF x = u THEN "none" ELSE widgets[k][x]
      /\ program'[u] = "off" /\ link'[u] = "down"
  BY LeaveFacts
<1>3. /\ IncomingTypes' /\ WindowTypes' /\ ProgramTypes'
      /\ Onward /\ Transfer' = Transfer
      /\ \A t \in Transfer : Running(t)' => transfers[t].from # u
  BY LeaveFacts
<1>4. UNCHANGED <<downloads, delivered, overlaps>> /\ CutFor(u) /\ failures' = failures + 1
  BY DEF Leave, Fails
<1> USE DEF FlightInv
<1>5. QueueTypes' /\ Addressed'
  BY <1>1, <1>3, QueuesKept
<1>6. TypeOK' /\ Shapes'
  <2>1. DownloadTypes' /\ TransferTypes'
    BY <1>3, <1>4, TypesKept
  <2>2. PastTypes'
    <3>1. mishaps' \subseteq Transfer \X {"cut", "garbled"}
      BY <1>4, CutForFacts
    <3> QED BY <1>3, <1>4, <3>1 DEF PastTypes, TypeOK
  <2> QED BY <1>3, <1>5, <2>1, <2>2, TypeParts
<1>7. \A t \in Transfer : /\ Running(t)' => Running(t)
                          /\ transfers'[t].from = transfers[t].from
                          /\ transfers[t].from \in User
  BY <1>3, OnwardNames, TransferFacts DEF Onward
<1>8. Off'
  <2>1. \A x \in User : program'[x] = "off" =>
          /\ link'[x] = "down" /\ inbox'[x] = <<>>
          /\ \A y \in User : incomingFiles'[x][y] = Absent
    <3> SUFFICES ASSUME NEW x \in User, program'[x] = "off"
                 PROVE  /\ link'[x] = "down" /\ inbox'[x] = <<>>
                        /\ \A y \in User : incomingFiles'[x][y] = Absent
      OBVIOUS
    <3>1. CASE x = u
      BY <1>1, <1>2, <3>1
    <3>2. CASE x # u
      <4>1. x \in User \ {u} /\ program[x] = "off"
        BY <1>2, <3>2
      <4>2. /\ link[x] = "down" /\ inbox[x] = <<>>
            /\ \A y \in User : incomingFiles[x][y] = Absent
        BY <4>1 DEF Off
      <4> QED BY <1>1, <1>2, <4>1, <4>2
    <3> QED BY <3>1, <3>2
  <2>2. \A t \in Transfer' : Running(t)' => program'[transfers'[t].from] = "chat"
    BY <1>2, <1>3, <1>7 DEF Off
  <2> QED BY <2>1, <2>2 DEF Off
<1>9. Together'
  BY <1>1, <1>3, <1>4, TogetherKept
<1>10. Registered'
  <2>1. activeTransfers' \in [User -> [Contact -> Transfer \cup {0}]]
    BY <1>3 DEF WindowTypes
  <2>2. ASSUME NEW x \in User, NEW d \in Contact, NEW k \in Transfer, activeTransfers'[x][d] = k
        PROVE  /\ k = activeTransfers[x][d] /\ program'[x] = "chat"
               /\ transfers[k].from = x => Running(k)'
               /\ transfers[k].from # x => incomingFiles'[x][transfers[k].from].transfer = k
    <3>1. k # 0
      BY TransferFacts
    <3>2. x # u /\ k = activeTransfers[x][d]
      BY <1>2, <2>2, <3>1
    <3>3. /\ program[x] = "chat"
          /\ transfers[k].from = x => Running(k)
          /\ transfers[k].from # x => incomingFiles[x][transfers[k].from].transfer = k
      BY <3>1, <3>2 DEF Registered
    <3>4. transfers[k].from # u => (Running(k) => Running(k)')
      <4>1. transfers[k].from # u => transfers'[k] = transfers[k]
        BY OnwardEnded DEF Leave
      <4> QED BY <4>1 DEF Running
    <3> QED BY <1>2, <1>7, <3>2, <3>3, <3>4
  <2> QED BY <1>3, <1>4, <2>1, <2>2, RegisteredKept
<1>11. CompleteIsTrue'
  <2>1. \A k \in Transfer : k \in 1..MaxTransfers
    BY TransferFacts, FileAssumption DEF Shapes, Transfer
  <2>2. \A k \in Transfer, x \in User : widgets'[k][x] = "complete" => widgets[k][x] = "complete"
    BY <1>2, <2>1
  <2> QED BY <1>3, <1>4, <2>2, CompleteKept
<1> QED BY <1>5, <1>6, <1>8, <1>9, <1>10, <1>11

-----------------------------------------------------------------------------
LEMMA FlightNext == FlightInv /\ [Next]_vars => FlightInv'
<1> SUFFICES ASSUME FlightInv, [Next]_vars PROVE FlightInv'
  OBVIOUS
<1>1. ASSUME NEW u \in User, Enter(u) PROVE FlightInv'
  BY <1>1, EnterFlight
<1>2. ASSUME NEW u \in User, OpenChat(u) PROVE FlightInv'
  BY <1>2, OpenChatFlight
<1>3. ASSUME NEW u \in User, Unlist(u) PROVE FlightInv'
  BY <1>3, UnlistFlight
<1>4. ASSUME NEW u \in User, Break(u) PROVE FlightInv'
  BY <1>4, BreakFlight
<1>5. ASSUME NEW u \in User, Leave(u) PROVE FlightInv'
  BY <1>5, LeaveFlight
<1>6. ASSUME NEW u \in User, NEW to \in Contact, NEW name \in FileName, NEW n \in 0..MaxChunks,
             Attach(u, to, name, n)
      PROVE  FlightInv'
  BY <1>6, AttachFlight
<1>7. ASSUME NEW u \in User, RouteFile(u) PROVE FlightInv'
  BY <1>7, RouteFlight
<1>8. ASSUME NEW u \in User, Receive(u) PROVE FlightInv'
  BY <1>8, MetadataFlight, ChunkFlight, CompleteFlight DEF Receive
<1>9. ASSUME NEW t \in Transfer, RunThread(t) PROVE FlightInv'
  BY <1>9, OpenFailsFlight, SendMetaFlight, SendChunkFlight, SendCompleteFlight DEF RunThread
<1>10. ASSUME UNCHANGED vars PROVE FlightInv'
  <2>1. /\ UNCHANGED <<program, link, transfers, outbox, inbox, incomingFiles, downloads>>
        /\ UNCHANGED <<windowVars, pastVars>> /\ failures' = failures
    BY <1>10 DEF vars, windowVars, pastVars
  <2>2. ProgramTypes' /\ failures' \in Nat
    BY <2>1 DEF FlightInv, TypeOK, ProgramTypes
  <2>3. Off'
    BY <2>1 DEF FlightInv, Off, Running, Transfer
  <2> QED BY <2>1, <2>2, <2>3, ProgramFlight
<1> QED BY <1>1, <1>2, <1>3, <1>4, <1>5, <1>6, <1>7, <1>8, <1>9, <1>10 DEF Next

LEMMA FlightInvariant == Spec => []FlightInv
<1> QED BY FlightInit, FlightNext, PTL DEF Spec

(* The tables, queues and files keep their types: every message and every piece of a
   file, stored or saved, is of a transfer there is, every widget of one too, and no
   thread reads past the end of its file.                                            *)
THEOREM FilesTypeCorrect == Spec => []TypeOK
<1>1. FlightInv => TypeOK
  BY DEF FlightInv
<1> QED BY <1>1, FlightInvariant, PTL

(* A widget says `complete' only of a file whose last piece was handed over, at the
   sender, or that was put together, at a receiver, unless two files crossed under one
   contact (FinishWidget, called by onFileSent and onFileComplete).                  *)
THEOREM CompleteWidgetsAreTrue == Spec => []CompleteIsTrue
<1>1. FlightInv => CompleteIsTrue
  BY DEF FlightInv
<1> QED BY <1>1, FlightInvariant, PTL
=============================================================================
