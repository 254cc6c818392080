-------------------------- MODULE FileArrivalProofs --------------------------
(***************************************************************************)
(* What arrives of the files of FileTransfer, for every set of users,      *)
(* groups and file names and every bound.  The argument follows the pieces *)
(* of each file through the two queues it passes.                          *)
(***************************************************************************)
EXTENDS FileTransferProofs

-----------------------------------------------------------------------------
\* The place of a message among the pieces of its file of n chunks: the metadata, the
\* chunks, the end.
Piece(m, n) == IF m.kind = "meta" THEN 0 ELSE IF m.kind = "chunk" THEN m.index + 1 ELSE n + 1

\* The messages of t in the queue q are the pieces from a up to b, b excluded, in order.
Carries(q, t, n, a, b) ==
    /\ a <= b
    /\ \A k \in a..(b - 1) : \E i \in DOMAIN q : q[i].transfer = t /\ Piece(q[i], n) = k
    /\ \A i \in DOMAIN q : q[i].transfer = t => a <= Piece(q[i], n) /\ Piece(q[i], n) < b
    /\ \A i, j \in DOMAIN q :
          i < j /\ q[i].transfer = t /\ q[j].transfer = t => Piece(q[i], n) < Piece(q[j], n)

\* All of s is before all of t in the queue q.
Before(q, s, t) ==
    \A i, j \in DOMAIN q : q[i].transfer = t /\ q[j].transfer = s => j < i

Lacks(q, t) == \A i \in DOMAIN q : q[i].transfer # t

IsCut(t) == <<t, "cut">> \in mishaps
Garbled(t) == <<t, "garbled">> \in mishaps

\* The next piece the thread of t will send.
NextPiece(t) ==
    IF transfers[t].thread \in {"opening", "failed"} THEN 0
    ELSE IF transfers[t].thread = "sending" THEN transfers[t].next + 1
    ELSE transfers[t].chunks + 2

\* The pieces of every file flow in order: R[t][v] have been read by v, E[t][v] have
\* entered its queue, P[t] have passed the server, Q[t] have been queued for it.
SentOf(t, p, q) ==
    /\ p <= q /\ q <= NextPiece(t)
    /\ Carries(outbox[transfers[t].from], t, transfers[t].chunks, p, q)
    /\ \/ ~IsCut(t)
       \/ Running(t) /\ link[transfers[t].from] # "down"
       => q = NextPiece(t)
    /\ transfers[t].thread = "ended" => IsCut(t)

TakenOf(t, v, r, e, p) ==
    /\ r <= e /\ e <= p
    /\ Carries(inbox[v], t, transfers[t].chunks, r, e)
    /\ v \in Receivers(t) /\ (link[v] = "up" \/ ~IsCut(t)) => e = p

Flow(R, E, P, Q) ==
    \A t \in Transfer : /\ SentOf(t, P[t], Q[t])
                        /\ \A v \in User : TakenOf(t, v, R[t][v], E[t][v], P[t])

\* Files that one user sends one after the other arrive one after the other.
ApartAt(R, P, s, t) ==
    LET u == transfers[s].from
    IN  /\ s < t /\ u = transfers[t].from /\ {s, t} \notin overlaps
        => /\ ~Running(s)
           /\ Before(outbox[u], s, t)
           /\ P[t] > 0 => Lacks(outbox[u], s)
           /\ \A v \in User :
                 /\ Before(inbox[v], s, t)
                 /\ R[t][v] > 0 => Lacks(inbox[v], s) /\ incomingFiles[v][u].transfer # s

\* The file that v has open for u is one that u sent to v, of which v has read the
\* metadata and not the end; v has what it has read of it.
OpenAt(R, v, u) ==
    LET f == incomingFiles[v][u]
        t == f.transfer
    IN  /\ \A i \in DOMAIN f.chunks : transfers[f.chunks[i]].from = u
        /\ t # 0 =>
             /\ transfers[t].from = u /\ v \in Receivers(t)
             /\ 0 < R[t][v] /\ R[t][v] <= transfers[t].chunks + 1
             /\ ~Mixed(t, v) =>
                  IF transfers[t].to \in Group THEN DOMAIN f.chunks = {}
                  ELSE ~Garbled(t) => /\ DOMAIN f.chunks = 0..(R[t][v] - 2)
                                      /\ \A i \in DOMAIN f.chunks : f.chunks[i] = t

\* A file that v has begun to read is open, one that it has read was delivered.
KeptAt(R, t, v) ==
    ~IsCut(t) /\ v \in Receivers(t) /\ R[t][v] > 0 /\ ~Mixed(t, v) =>
        IF R[t][v] <= transfers[t].chunks + 1
        THEN incomingFiles[v][transfers[t].from].transfer = t
        ELSE <<t, v>> \in delivered

\* An active widget is registered, or another file took its place, or its file was cut.
Shown ==
    \A t \in Transfer, u \in User :
        widgets[t][u] = "active" =>
            \/ activeTransfers[u][Key(t, u)] = t
            \/ Crossed(t, u)
            \/ u # transfers[t].from /\ IsCut(t)

\* SavedIsSent, for one file of one user.
SavedAt(v, name) ==
    LET d == downloads[v][name]
    IN  d # Absent =>
          /\ \A i \in DOMAIN d.chunks :
                transfers[d.chunks[i][1]].from = transfers[d.transfer].from
          /\ \A i, j \in DOMAIN d.chunks : i < j => d.chunks[i][2] < d.chunks[j][2]
          /\ \/ d.chunks = Whole(d.transfer)
             \/ Mixed(d.transfer, v)
             \/ Garbled(d.transfer)
             \/ transfers[d.transfer].to \in Group /\ d.chunks = <<>>

PerReader == [1..MaxTransfers -> [User -> Nat]]
PerFile == [1..MaxTransfers -> Nat]

History(R, E, P, Q) ==
    /\ R \in PerReader /\ E \in PerReader /\ P \in PerFile /\ Q \in PerFile
    /\ \A t \in (Len(transfers) + 1)..MaxTransfers :
          P[t] = 0 /\ Q[t] = 0 /\ \A v \in User : R[t][v] = 0 /\ E[t][v] = 0
    /\ Flow(R, E, P, Q)
    /\ \A s, t \in Transfer : ApartAt(R, P, s, t)
    /\ \A v, u \in User : OpenAt(R, v, u)
    /\ \A t \in Transfer, v \in User : KeptAt(R, t, v)

-----------------------------------------------------------------------------
(* Pieces in a queue. *)

LEMMA PieceType ==
    ASSUME NEW m \in Message, NEW n \in Nat PROVE Piece(m, n) \in Nat
BY DEF Piece, Message

LEMMA CarriesLacks ==
    ASSUME NEW q, NEW t, NEW n \in Nat, NEW a \in Nat, NEW b \in Nat, Lacks(q, t)
    PROVE  Carries(q, t, n, a, b) <=> a = b
<1>1. ASSUME Carries(q, t, n, a, b) PROVE a = b
  <2>1. a <= b
    BY <1>1 DEF Carries
  <2>2. CASE a < b
    <3>1. a \in a..(b - 1)
      BY <2>2
    <3>2. PICK i \in DOMAIN q : q[i].transfer = t
      BY <1>1, <3>1 DEF Carries
    <3> QED BY <3>2 DEF Lacks
  <2> QED BY <2>1, <2>2
<1>2. ASSUME a = b PROVE Carries(q, t, n, a, b)
  <2>1. a <= b /\ a..(b - 1) = {}
    BY <1>2
  <2> QED BY <2>1 DEF Carries, Lacks
<1> QED BY <1>1, <1>2

LEMMA LacksWhenLevel ==
    ASSUME NEW q \in Seq(Message), NEW t, NEW n \in Nat, NEW a \in Nat, Carries(q, t, n, a, a)
    PROVE  Lacks(q, t)
<1> SUFFICES ASSUME NEW i \in DOMAIN q, q[i].transfer = t PROVE FALSE
  BY DEF Lacks
<1>1. q[i] \in Message
  OBVIOUS
<1>2. Piece(q[i], n) \in Nat
  BY <1>1, PieceType
<1>3. a <= Piece(q[i], n) /\ Piece(q[i], n) < a
  BY DEF Carries
<1> QED BY <1>2, <1>3

LEMMA CarriesAppend ==
    ASSUME NEW q \in Seq(Message), NEW m \in Message, NEW t, NEW n \in Nat,
           NEW a \in Nat, NEW b \in Nat, Carries(q, t, n, a, b)
    PROVE  /\ m.transfer # t => Carries(Append(q, m), t, n, a, b)
           /\ m.transfer = t /\ Piece(m, n) = b => Carries(Append(q, m), t, n, a, b + 1)
<1> DEFINE r == Append(q, m)
           l == Len(q)
<1>1. /\ l \in Nat /\ DOMAIN q = 1..l /\ DOMAIN r = 1..(l + 1)
      /\ \A i \in 1..l : r[i] = q[i]
      /\ r[l + 1] = m
  BY QueueAppend
<1>2. \A i \in 1..l : Piece(q[i], n) \in Nat
  BY <1>1, PieceType
<1>3. /\ a <= b
      /\ \A k \in a..(b - 1) : \E i \in 1..l : q[i].transfer = t /\ Piece(q[i], n) = k
      /\ \A i \in 1..l : q[i].transfer = t => a <= Piece(q[i], n) /\ Piece(q[i], n) < b
      /\ \A i, j \in 1..l :
            i < j /\ q[i].transfer = t /\ q[j].transfer = t => Piece(q[i], n) < Piece(q[j], n)
  BY <1>1 DEF Carries
<1>4. 1..(l + 1) = 1..l \cup {l + 1} /\ (\A i \in 1..l : ~(l + 1 < i) /\ i # l + 1) /\ ~(l + 1 < l + 1)
  BY <1>1
<1> HIDE DEF r, l
<1>5. ASSUME m.transfer # t PROVE Carries(r, t, n, a, b)
  <2>1. \A k \in a..(b - 1) : \E i \in DOMAIN r : r[i].transfer = t /\ Piece(r[i], n) = k
    BY <1>1, <1>3, <1>4
  <2>2. \A i \in DOMAIN r : r[i].transfer = t => i \in 1..l
    BY <1>1, <1>4, <1>5
  <2>3. \A i \in DOMAIN r : r[i].transfer = t => a <= Piece(r[i], n) /\ Piece(r[i], n) < b
    BY <1>1, <1>3, <2>2
  <2>4. \A i, j \in DOMAIN r :
          i < j /\ r[i].transfer = t /\ r[j].transfer = t => Piece(r[i], n) < Piece(r[j], n)
    BY <1>1, <1>3, <2>2
  <2> QED BY <1>3, <2>1, <2>3, <2>4 DEF Carries
<1>6. ASSUME m.transfer = t, Piece(m, n) = b PROVE Carries(r, t, n, a, b + 1)
  <2>1. a <= b + 1
    BY <1>3
  <2>2. \A k \in a..((b + 1) - 1) : \E i \in DOMAIN r : r[i].transfer = t /\ Piece(r[i], n) = k
    <3>1. \A k \in a..((b + 1) - 1) : k \in a..(b - 1) \/ k = b
      OBVIOUS
    <3>2. \A k \in a..(b - 1) : \E i \in DOMAIN r : r[i].transfer = t /\ Piece(r[i], n) = k
      BY <1>1, <1>3, <1>4
    <3>3. l + 1 \in DOMAIN r /\ r[l + 1].transfer = t /\ Piece(r[l + 1], n) = b
      BY <1>1, <1>4, <1>6
    <3> QED BY <3>1, <3>2, <3>3
  <2>3. \A i \in 1..l : r[i].transfer = t =>
          a <= Piece(r[i], n) /\ Piece(r[i], n) < b /\ Piece(r[i], n) \in Nat
    BY <1>1, <1>2, <1>3
  <2>4. \A i \in DOMAIN r : r[i].transfer = t => a <= Piece(r[i], n) /\ Piece(r[i], n) < b + 1
    <3>1. \A i \in 1..l : r[i].transfer = t => a <= Piece(r[i], n) /\ Piece(r[i], n) < b + 1
      BY <2>3
    <3>2. a <= Piece(r[l + 1], n) /\ Piece(r[l + 1], n) < b + 1
      BY <1>1, <1>3, <1>6
    <3> QED BY <1>1, <1>4, <3>1, <3>2
  <2>5. \A i, j \in DOMAIN r :
          i < j /\ r[i].transfer = t /\ r[j].transfer = t => Piece(r[i], n) < Piece(r[j], n)
    <3> SUFFICES ASSUME NEW i \in DOMAIN r, NEW j \in DOMAIN r, i < j,
                        r[i].transfer = t, r[j].transfer = t
                 PROVE  Piece(r[i], n) < Piece(r[j], n)
      OBVIOUS
    <3>1. i \in 1..l
      BY <1>1, <1>4
    <3>2. CASE j \in 1..l
      BY <1>1, <1>3, <3>1, <3>2
    <3>3. CASE j = l + 1
      BY <1>1, <1>6, <2>3, <3>1, <3>3
    <3> QED BY <1>1, <1>4, <3>2, <3>3
  <2> QED BY <2>1, <2>2, <2>4, <2>5 DEF Carries
<1> QED BY <1>5, <1>6 DEF r

LEMMA CarriesTail ==
    ASSUME NEW q \in Seq(Message), q # <<>>, NEW t, NEW n \in Nat,
           NEW a \in Nat, NEW b \in Nat, Carries(q, t, n, a, b)
    PROVE  /\ Head(q).transfer # t => Carries(Tail(q), t, n, a, b)
           /\ Head(q).transfer = t => /\ Piece(Head(q), n) = a /\ a < b
                                      /\ Carries(Tail(q), t, n, a + 1, b)
<1> DEFINE r == Tail(q)
           l == Len(q)
<1>1. /\ l \in Nat /\ l >= 1 /\ DOMAIN q = 1..l /\ Len(r) = l - 1 /\ DOMAIN r = 1..(l - 1)
      /\ \A i \in 1..(l - 1) : i + 1 \in 1..l /\ r[i] = q[i + 1]
      /\ Head(q) = q[1]
  BY QueueTail
<1>2. \A i \in 1..l : Piece(q[i], n) \in Nat
  BY <1>1, PieceType
<1>3. /\ a <= b
      /\ \A k \in a..(b - 1) : \E i \in 1..l : q[i].transfer = t /\ Piece(q[i], n) = k
      /\ \A i \in 1..l : q[i].transfer = t => a <= Piece(q[i], n) /\ Piece(q[i], n) < b
      /\ \A i, j \in 1..l :
            i < j /\ q[i].transfer = t /\ q[j].transfer = t => Piece(q[i], n) < Piece(q[j], n)
  BY <1>1 DEF Carries
<1>4. \A i \in 1..l : i = 1 \/ (i - 1 \in 1..(l - 1) /\ (i - 1) + 1 = i /\ 1 < i)
  BY <1>1
<1>5. 1 \in 1..l
  BY <1>1
<1> HIDE DEF r, l
<1>6. \A i, j \in 1..(l - 1) :
         i < j /\ r[i].transfer = t /\ r[j].transfer = t => Piece(r[i], n) < Piece(r[j], n)
  <2> SUFFICES ASSUME NEW i \in 1..(l - 1), NEW j \in 1..(l - 1), i < j,
                      r[i].transfer = t, r[j].transfer = t
               PROVE  Piece(r[i], n) < Piece(r[j], n)
    OBVIOUS
  <2>1. i + 1 < j + 1 /\ i + 1 \in 1..l /\ j + 1 \in 1..l
    BY <1>1
  <2> QED BY <1>1, <1>3, <2>1
<1>7. ASSUME Head(q).transfer # t PROVE Carries(r, t, n, a, b)
  <2>1. \A k \in a..(b - 1) : \E i \in 1..(l - 1) : r[i].transfer = t /\ Piece(r[i], n) = k
    <3> SUFFICES ASSUME NEW k \in a..(b - 1)
                 PROVE  \E i \in 1..(l - 1) : r[i].transfer = t /\ Piece(r[i], n) = k
      OBVIOUS
    <3>1. PICK i \in 1..l : q[i].transfer = t /\ Piece(q[i], n) = k
      BY <1>3
    <3>2. i # 1
      BY <1>1, <1>7, <3>1
    <3>3. i - 1 \in 1..(l - 1) /\ r[i - 1] = q[i]
      BY <1>1, <1>4, <3>2
    <3> QED BY <3>1, <3>3
  <2>2. \A i \in 1..(l - 1) : r[i].transfer = t => a <= Piece(r[i], n) /\ Piece(r[i], n) < b
    BY <1>1, <1>3
  <2> QED BY <1>1, <1>3, <1>6, <2>1, <2>2 DEF Carries
<1>8. ASSUME Head(q).transfer = t
      PROVE  Piece(Head(q), n) = a /\ a < b /\ Carries(r, t, n, a + 1, b)
  <2>1. /\ q[1].transfer = t /\ a <= Piece(q[1], n) /\ Piece(q[1], n) < b
        /\ Piece(q[1], n) \in Nat
    BY <1>1, <1>2, <1>3, <1>5, <1>8
  <2>2. a < b /\ a \in a..(b - 1)
    BY <2>1
  <2>3. Piece(q[1], n) = a
    <3>1. PICK i \in 1..l : q[i].transfer = t /\ Piece(q[i], n) = a
      BY <1>3, <2>2
    <3>2. CASE i = 1
      BY <3>1, <3>2
    <3>3. CASE i # 1
      <4>1. Piece(q[1], n) < Piece(q[i], n)
        BY <1>3, <1>4, <1>5, <2>1, <3>1, <3>3
      <4> QED BY <2>1, <3>1, <4>1
    <3> QED BY <3>2, <3>3
  <2>4. \A k \in (a + 1)..(b - 1) : \E i \in 1..(l - 1) : r[i].transfer = t /\ Piece(r[i], n) = k
    <3> SUFFICES ASSUME NEW k \in (a + 1)..(b - 1)
                 PROVE  \E i \in 1..(l - 1) : r[i].transfer = t /\ Piece(r[i], n) = k
      OBVIOUS
    <3>1. k \in a..(b - 1) /\ k # a
      OBVIOUS
    <3>2. PICK i \in 1..l : q[i].transfer = t /\ Piece(q[i], n) = k
      BY <1>3, <3>1
    <3>3. i # 1
      BY <2>3, <3>1, <3>2
    <3>4. i - 1 \in 1..(l - 1) /\ r[i - 1] = q[i]
      BY <1>1, <1>4, <3>3
    <3> QED BY <3>2, <3>4
  <2>5. \A i \in 1..(l - 1) : r[i].transfer = t => a + 1 <= Piece(r[i], n) /\ Piece(r[i], n) < b
    <3> SUFFICES ASSUME NEW i \in 1..(l - 1), r[i].transfer = t
                 PROVE  a + 1 <= Piece(r[i], n) /\ Piece(r[i], n) < b
      OBVIOUS
    <3>1. i + 1 \in 1..l /\ r[i] = q[i + 1] /\ 1 < i + 1
      BY <1>1
    <3>2. Piece(q[1], n) < Piece(q[i + 1], n) /\ Piece(q[i + 1], n) < b
      BY <1>3, <1>5, <2>1, <3>1
    <3>3. Piece(q[i + 1], n) \in Nat
      BY <1>2, <3>1
    <3> QED BY <2>3, <3>1, <3>2, <3>3
  <2>6. a + 1 <= b
    BY <2>2
  <2> QED BY <1>1, <1>6, <2>2, <2>3, <1>8, <2>4, <2>5, <2>6 DEF Carries
<1> QED BY <1>7, <1>8 DEF r

LEMMA CarriesPrefix ==
    ASSUME NEW q \in Seq(Message), NEW i \in 0..Len(q), NEW t, NEW n \in Nat,
           NEW a \in Nat, NEW b \in Nat, Carries(q, t, n, a, b)
    PROVE  \E c \in a..b : Carries(SubSeq(q, 1, i), t, n, a, c)
<1> DEFINE r == SubSeq(q, 1, i)
           Has(k) == \E j \in 1..i : q[j].transfer = t /\ Piece(q[j], n) = k
           K == {k \in a..b : k = b \/ ~Has(k)}
<1>1. /\ Len(q) \in Nat /\ DOMAIN q = 1..Len(q) /\ Len(r) = i /\ DOMAIN r = 1..i
      /\ \A j \in 1..i : j \in 1..Len(q) /\ r[j] = q[j]
  BY QueuePrefix
<1>2. \A j \in 1..Len(q) : Piece(q[j], n) \in Nat
  BY <1>1, PieceType
<1>3. /\ a <= b
      /\ \A k \in a..(b - 1) : \E j \in 1..Len(q) : q[j].transfer = t /\ Piece(q[j], n) = k
      /\ \A j \in 1..Len(q) : q[j].transfer = t => a <= Piece(q[j], n) /\ Piece(q[j], n) < b
      /\ \A j, k \in 1..Len(q) :
            j < k /\ q[j].transfer = t /\ q[k].transfer = t => Piece(q[j], n) < Piece(q[k], n)
  BY <1>1 DEF Carries
<1>4. K \in SUBSET Nat /\ b \in K
  BY <1>3
<1>5. PICK c \in K : \A k \in K : c <= k
  <2> HIDE DEF K
  <2>1. K # {}
    BY <1>4
  <2> QED BY <1>4, <2>1, LeastNatural
<1>6. c \in a..b /\ c \in Nat /\ (c = b \/ ~Has(c))
  BY <1>5
<1> HIDE DEF r
<1>7. \A k \in a..(c - 1) : Has(k)
  <2> SUFFICES ASSUME NEW k \in a..(c - 1), ~Has(k) PROVE FALSE
    OBVIOUS
  <2>1. k \in a..b
    BY <1>6
  <2>2. k \in K
    BY <2>1
  <2> QED BY <1>5, <1>6, <2>2
<1>8. \A j \in 1..i : q[j].transfer = t => a <= Piece(q[j], n) /\ Piece(q[j], n) < c
  <2> SUFFICES ASSUME NEW j \in 1..i, q[j].transfer = t
               PROVE  a <= Piece(q[j], n) /\ Piece(q[j], n) < c
    OBVIOUS
  <2>1. j \in 1..Len(q) /\ a <= Piece(q[j], n) /\ Piece(q[j], n) < b /\ Piece(q[j], n) \in Nat
    BY <1>1, <1>2, <1>3
  <2>2. CASE c = b
    BY <2>1, <2>2
  <2>3. CASE c # b
    <3>1. c \in a..(b - 1) /\ ~Has(c)
      BY <1>6, <2>3
    <3>2. PICK l \in 1..Len(q) : q[l].transfer = t /\ Piece(q[l], n) = c
      BY <1>3, <3>1
    <3>3. l \notin 1..i
      BY <3>1, <3>2
    <3>4. j < l
      BY <1>1, <3>2, <3>3
    <3>5. Piece(q[j], n) < Piece(q[l], n)
      BY <1>3, <2>1, <3>2, <3>4
    <3> QED BY <2>1, <3>2, <3>5
  <2> QED BY <2>2, <2>3
<1>9. Carries(r, t, n, a, c)
  <2>1. a <= c
    BY <1>6
  <2>2. \A k \in a..(c - 1) : \E j \in DOMAIN r : r[j].transfer = t /\ Piece(r[j], n) = k
    BY <1>1, <1>7
  <2>3. \A j \in DOMAIN r : r[j].transfer = t => a <= Piece(r[j], n) /\ Piece(r[j], n) < c
    BY <1>1, <1>8
  <2>4. \A j, k \in DOMAIN r :
            j < k /\ r[j].transfer = t /\ r[k].transfer = t => Piece(r[j], n) < Piece(r[k], n)
    BY <1>1, <1>3
  <2> QED BY <2>1, <2>2, <2>3, <2>4 DEF Carries
<1> QED BY <1>6, <1>9 DEF r

-----------------------------------------------------------------------------
(* The order of two files in a queue. *)

LEMMA OrderEmpty ==
    ASSUME NEW s, NEW t PROVE Before(<<>>, s, t) /\ Lacks(<<>>, t)
BY DEF Before, Lacks

LEMMA OrderAppend ==
    ASSUME NEW q \in Seq(Message), NEW m \in Message, NEW s, NEW t
    PROVE  /\ Lacks(q, s) /\ m.transfer # s => Lacks(Append(q, m), s)
           /\ Before(q, s, t) /\ m.transfer # s => Before(Append(q, m), s, t)
           /\ Lacks(q, t) /\ m.transfer # t => Before(Append(q, m), s, t)
<1> DEFINE r == Append(q, m)
           l == Len(q)
<1>1. /\ l \in Nat /\ DOMAIN q = 1..l /\ DOMAIN r = 1..(l + 1)
      /\ \A i \in 1..l : r[i] = q[i]
      /\ r[l + 1] = m
  BY QueueAppend
<1>2. \A i \in 1..(l + 1) : i \in 1..l \/ i = l + 1
  BY <1>1
<1>3. \A i \in 1..l : i < l + 1
  BY <1>1
<1> HIDE DEF r, l
<1>4. ASSUME Lacks(q, s), m.transfer # s PROVE Lacks(r, s)
  BY <1>1, <1>2, <1>4 DEF Lacks
<1>5. ASSUME Before(q, s, t), m.transfer # s PROVE Before(r, s, t)
  <2> SUFFICES ASSUME NEW i \in DOMAIN r, NEW j \in DOMAIN r, r[i].transfer = t, r[j].transfer = s
               PROVE  j < i
    BY DEF Before
  <2>1. j \in 1..l
    BY <1>1, <1>2, <1>5
  <2>2. CASE i \in 1..l
    BY <1>1, <1>5, <2>1, <2>2 DEF Before
  <2>3. CASE i = l + 1
    BY <1>3, <2>1, <2>3
  <2> QED BY <1>1, <1>2, <2>2, <2>3
<1>6. ASSUME Lacks(q, t), m.transfer # t PROVE Before(r, s, t)
  BY <1>1, <1>2, <1>6 DEF Before, Lacks
<1> QED BY <1>4, <1>5, <1>6 DEF r

LEMMA OrderTail ==
    ASSUME NEW q \in Seq(Message), q # <<>>, NEW s, NEW t
    PROVE  /\ Lacks(q, s) => Lacks(Tail(q), s)
           /\ Before(q, s, t) => Before(Tail(q), s, t)
           /\ Before(q, s, t) /\ Head(q).transfer = t => Lacks(q, s)
           /\ Lacks(q, s) => Head(q).transfer # s
<1> DEFINE r == Tail(q)
           l == Len(q)
<1>1. /\ l \in Nat /\ l >= 1 /\ DOMAIN q = 1..l /\ DOMAIN r = 1..(l - 1)
      /\ \A i \in 1..(l - 1) : i + 1 \in 1..l /\ r[i] = q[i + 1]
      /\ Head(q) = q[1]
  BY QueueTail
<1>2. 1 \in 1..l /\ \A i \in 1..l : ~(i < 1)
  BY <1>1
<1> HIDE DEF r, l
<1>3. ASSUME Lacks(q, s) PROVE Lacks(r, s) /\ Head(q).transfer # s
  BY <1>1, <1>2, <1>3 DEF Lacks
<1>4. ASSUME Before(q, s, t) PROVE Before(r, s, t)
  <2> SUFFICES ASSUME NEW i \in 1..(l - 1), NEW j \in 1..(l - 1),
                      r[i].transfer = t, r[j].transfer = s
               PROVE  j < i
    BY <1>1 DEF Before
  <2>1. j + 1 < i + 1
    BY <1>1, <1>4 DEF Before
  <2> QED BY <2>1
<1>5. ASSUME Before(q, s, t), Head(q).transfer = t PROVE Lacks(q, s)
  BY <1>1, <1>2, <1>5 DEF Before, Lacks
<1> QED BY <1>3, <1>4, <1>5 DEF r

LEMMA OrderPrefix ==
    ASSUME NEW q \in Seq(Message), NEW n \in 0..Len(q), NEW s, NEW t
    PROVE  /\ Lacks(q, s) => Lacks(SubSeq(q, 1, n), s)
           /\ Before(q, s, t) => Before(SubSeq(q, 1, n), s, t)
<1>1. /\ DOMAIN q = 1..Len(q) /\ DOMAIN SubSeq(q, 1, n) = 1..n
      /\ \A j \in 1..n : j \in 1..Len(q) /\ SubSeq(q, 1, n)[j] = q[j]
  BY QueuePrefix
<1> QED BY <1>1 DEF Lacks, Before

LEMMA LacksMessages ==
    ASSUME NEW q \in Seq(Message), NEW t
    PROVE  Lacks(q, t) <=> \A m \in ToSet(q) : m.transfer # t
BY DEF Lacks, ToSet
-----------------------------------------------------------------------------
(* What the pieces of a file say of it. *)

LEMMA PieceFacts ==
    ASSUME FlightInv
    PROVE  /\ Transfer \subseteq 1..MaxTransfers
           /\ \A t \in Transfer : NextPiece(t) \in Nat /\ NextPiece(t) <= transfers[t].chunks + 2
<1>1. Len(transfers) \in Nat /\ Len(transfers) <= MaxTransfers /\ MaxTransfers \in Nat /\ TypeOK
  BY TransferFacts, FileAssumption DEF FlightInv, Shapes
<1>2. Transfer \subseteq 1..MaxTransfers
  BY <1>1 DEF Transfer
<1>3. ASSUME NEW t \in Transfer
      PROVE  NextPiece(t) \in Nat /\ NextPiece(t) <= transfers[t].chunks + 2
  <2>1. /\ transfers[t].chunks \in Nat /\ transfers[t].next \in Nat
        /\ transfers[t].next <= transfers[t].chunks
    BY <1>1, TransferFacts
  <2> QED BY <2>1 DEF NextPiece
<1> QED BY <1>2, <1>3

LEMMA HistoryFacts ==
    ASSUME FlightInv, NEW R, NEW E, NEW P, NEW Q, History(R, E, P, Q)
    PROVE  /\ R \in PerReader /\ E \in PerReader /\ P \in PerFile /\ Q \in PerFile
           /\ \A t \in Transfer :
                 /\ P[t] \in Nat /\ Q[t] \in Nat /\ SentOf(t, P[t], Q[t])
                 /\ \A v \in User : /\ R[t][v] \in Nat /\ E[t][v] \in Nat
                                    /\ TakenOf(t, v, R[t][v], E[t][v], P[t])
           /\ \A s, t \in Transfer : ApartAt(R, P, s, t)
           /\ \A v, u \in User : OpenAt(R, v, u)
           /\ \A t \in Transfer, v \in User : KeptAt(R, t, v)
<1>1. Transfer \subseteq 1..MaxTransfers
  BY PieceFacts
<1> QED BY <1>1 DEF History, PerReader, PerFile, Flow

\* A file that is nowhere under way was read as far as it was sent.
LEMMA NowhereLevel ==
    ASSUME FlightInv, NEW R, NEW E, NEW P, NEW Q, History(R, E, P, Q),
           NEW t \in Transfer, NEW v \in Receivers(t), ~IsCut(t), ~UnderWay(t)
    PROVE  /\ R[t][v] = E[t][v] /\ E[t][v] = P[t] /\ P[t] = Q[t] /\ Q[t] = NextPiece(t)
           /\ R[t][v] \in {0, transfers[t].chunks + 2}
           /\ transfers[t].thread = "sent" => R[t][v] = transfers[t].chunks + 2
<1>1. TypeOK /\ v \in User /\ transfers[t].from \in User /\ transfers[t].chunks \in Nat
  BY TransferFacts DEF FlightInv
<1>2. /\ P[t] \in Nat /\ Q[t] \in Nat /\ SentOf(t, P[t], Q[t])
      /\ R[t][v] \in Nat /\ E[t][v] \in Nat /\ TakenOf(t, v, R[t][v], E[t][v], P[t])
  BY <1>1, HistoryFacts
<1>3. Lacks(outbox[transfers[t].from], t) /\ Lacks(inbox[v], t)
  BY <1>1, UnderWayFlies, QueueFacts, LacksMessages
<1>4. P[t] = Q[t]
  BY <1>1, <1>2, <1>3, CarriesLacks DEF SentOf
<1>5. R[t][v] = E[t][v]
  BY <1>1, <1>2, <1>3, CarriesLacks DEF TakenOf
<1>6. E[t][v] = P[t] /\ Q[t] = NextPiece(t)
  BY <1>2 DEF SentOf, TakenOf
<1>7. transfers[t].thread \in {"sent", "failed"}
  <2>1. transfers[t].thread \in {"opening", "sending", "sent", "failed", "ended"}
    BY <1>1, TransferFacts DEF TransferType
  <2> QED BY <1>2, <2>1 DEF SentOf, UnderWay
<1>8. NextPiece(t) = IF transfers[t].thread = "sent" THEN transfers[t].chunks + 2 ELSE 0
  BY <1>7 DEF NextPiece
<1> QED BY <1>4, <1>5, <1>6, <1>8

\* A file that a receiver is reading is still under way.
LEMMA ReadUnderWay ==
    ASSUME FlightInv, NEW R, NEW E, NEW P, NEW Q, History(R, E, P, Q),
           NEW t \in Transfer, NEW v \in Receivers(t), ~IsCut(t),
           0 < R[t][v], R[t][v] <= transfers[t].chunks + 1
    PROVE  UnderWay(t)
<1> SUFFICES ASSUME ~UnderWay(t) PROVE FALSE
  OBVIOUS
<1>1. transfers[t].chunks \in Nat
  BY TransferFacts DEF FlightInv
<1>2. R[t][v] \in {0, transfers[t].chunks + 2}
  BY NowhereLevel
<1> QED BY <1>1, <1>2

\* Two files from the same user of which one is read while the other is not at its end
\* were under way together.
LEMMA ReadTogether ==
    ASSUME FlightInv, NEW R, NEW E, NEW P, NEW Q, History(R, E, P, Q),
           NEW t \in Transfer, NEW s \in Transfer \ {t}, transfers[s].from = transfers[t].from,
           NEW v \in Receivers(t), inbox[v] # <<>>, Head(inbox[v]).transfer = t,
           v \in Receivers(s), 0 < R[s][v], R[s][v] <= transfers[s].chunks + 1,
           ~IsCut(s) \/ (R[t][v] > 0 /\ incomingFiles[v][transfers[t].from].transfer = s)
    PROVE  Mixed(s, v)
<1> SUFFICES ASSUME {s, t} \notin overlaps PROVE FALSE
  <2>1. {t, s} = {s, t}
    OBVIOUS
  <2> QED BY <2>1 DEF Mixed
<1>1. /\ TypeOK /\ v \in User /\ transfers[t].from \in User
      /\ s \in Nat /\ t \in Nat /\ s # t /\ {t, s} = {s, t}
  BY TransferFacts DEF FlightInv
<1>2. inbox[v] \in Seq(Message) /\ outbox[transfers[t].from] \in Seq(Message)
  BY <1>1, QueueFacts
<1>3. /\ P[t] \in Nat /\ Q[t] \in Nat /\ R[t][v] \in Nat /\ E[t][v] \in Nat
      /\ P[s] \in Nat /\ Q[s] \in Nat /\ R[s][v] \in Nat /\ E[s][v] \in Nat
      /\ SentOf(s, P[s], Q[s]) /\ TakenOf(s, v, R[s][v], E[s][v], P[s])
      /\ SentOf(t, P[t], Q[t]) /\ TakenOf(t, v, R[t][v], E[t][v], P[t])
      /\ ApartAt(R, P, s, t) /\ ApartAt(R, P, t, s)
  BY <1>1, HistoryFacts
<1>4. ~Lacks(inbox[v], t)
  BY <1>2, OrderTail
<1>5. CASE t < s
  <2>1. R[s][v] > 0 => Lacks(inbox[v], t)
    BY <1>1, <1>3, <1>5 DEF ApartAt
  <2> QED BY <1>3, <1>4, <2>1
<1>6. CASE s < t
  <2>1. /\ ~Running(s) /\ Before(inbox[v], s, t)
        /\ P[t] > 0 => Lacks(outbox[transfers[t].from], s)
        /\ R[t][v] > 0 => incomingFiles[v][transfers[t].from].transfer # s
    BY <1>1, <1>3, <1>6 DEF ApartAt
  <2>2. ~IsCut(s)
    BY <2>1
  <2>3. Lacks(inbox[v], s)
    BY <1>2, <2>1, OrderTail
  <2>4. R[s][v] = E[s][v] /\ E[s][v] = P[s]
    BY <1>1, <1>3, <2>2, <2>3, CarriesLacks, TransferFacts, SMTT(30) DEF TakenOf
  <2>5. P[t] > 0
    <3>1. Carries(inbox[v], t, transfers[t].chunks, R[t][v], E[t][v]) /\ E[t][v] <= P[t]
      BY <1>3 DEF TakenOf
    <3>2. transfers[t].chunks \in Nat
      BY <1>1, TransferFacts
    <3>3. R[t][v] < E[t][v]
      BY <1>2, <1>3, <3>1, <3>2, CarriesTail
    <3> QED BY <1>3, <3>1, <3>3
  <2>6. P[s] = Q[s]
    BY <1>1, <1>3, <2>1, <2>5, CarriesLacks, TransferFacts DEF SentOf
  <2>7. Q[s] = NextPiece(s) /\ transfers[s].thread # "ended"
    BY <1>3, <2>2 DEF SentOf
  <2>8. transfers[s].chunks \in Nat /\ NextPiece(s) \in {0, transfers[s].chunks + 2}
    BY <1>1, <2>1, <2>7, TransferFacts DEF NextPiece, Running
  <2> QED BY <2>4, <2>6, <2>7, <2>8
<1> QED BY <1>1, <1>5, <1>6

\* For a receiver, files that mix cross.
LEMMA MixedCrosses ==
    ASSUME FlightInv, NEW t \in Transfer, NEW v \in Receivers(t), Mixed(t, v)
    PROVE  Crossed(t, v)
<1>1. PICK s \in Transfer \ {t} : /\ {s, t} \in overlaps
                                  /\ transfers[s].from = transfers[t].from
                                  /\ v \in Receivers(s)
  BY DEF Mixed
<1>2. \A k \in Transfer : transfers[k].to # transfers[k].from
  BY DEF FlightInv, Shapes
<1>3. transfers[t].from # v
  BY <1>2 DEF Receivers
<1>4. v \in Involved(s) /\ Key(s, v) = Key(t, v)
  BY <1>1, <1>3 DEF Involved, Key
<1> QED BY <1>1, <1>4 DEF Crossed
-----------------------------------------------------------------------------
(* What keeps each part for one file, one receiver. *)

\* What every step leaves of the past.
Forward ==
    /\ Onward /\ overlaps \subseteq overlaps' /\ mishaps \subseteq mishaps'
    /\ delivered \subseteq delivered'

LEMMA SentKept ==
    ASSUME FlightInv, Forward, NEW t \in Transfer, NEW p \in Nat, NEW q \in Nat, SentOf(t, p, q),
           outbox'[transfers[t].from] = outbox[transfers[t].from],
           \/ transfers'[t] = transfers[t]
           \/ NextPiece(t)' >= NextPiece(t) /\ IsCut(t)' /\ ~Running(t)'
           \/ NextPiece(t)' = NextPiece(t) /\ transfers'[t].thread # "ended",
           link'[transfers[t].from] # "down" => link[transfers[t].from] # "down" \/ ~Running(t)
    PROVE  SentOf(t, p, q)'
<1>1. /\ TypeOK /\ transfers'[t].from = transfers[t].from
      /\ transfers'[t].chunks = transfers[t].chunks
      /\ IsCut(t) => IsCut(t)'
  BY DEF FlightInv, Forward, Onward, IsCut
<1>2. Running(t)' => Running(t)
  BY <1>1, OnwardNames DEF Forward
<1>3. NextPiece(t) \in Nat /\ p <= q /\ q <= NextPiece(t)
  BY PieceFacts DEF SentOf
<1>4. Carries(outbox'[transfers'[t].from], t, transfers'[t].chunks, p, q)
  BY <1>1 DEF SentOf
<1>5. CASE transfers'[t] = transfers[t]
  <2>1. NextPiece(t)' = NextPiece(t) /\ transfers'[t].thread = transfers[t].thread
    BY <1>5 DEF NextPiece
  <2> QED BY <1>1, <1>2, <1>3, <1>4, <2>1 DEF SentOf
<1>6. CASE NextPiece(t)' >= NextPiece(t) /\ IsCut(t)' /\ ~Running(t)'
  <2>1. NextPiece(t)' \in Nat
    <3>1. transfers'[t].chunks \in Nat /\ transfers'[t].next \in Nat
      <4>1. transfers' \in Seq(TransferType) /\ t \in Transfer'
        BY DEF Forward, Onward
      <4>2. transfers'[t] \in TransferType
        BY <4>1 DEF Transfer
      <4> QED BY <4>2 DEF TransferType
    <3> QED BY <3>1 DEF NextPiece
  <2>2. q <= NextPiece(t)'
    BY <1>3, <1>6, <2>1
  <2> QED BY <1>3, <1>4, <1>6, <2>2 DEF SentOf
<1>7. CASE NextPiece(t)' = NextPiece(t) /\ transfers'[t].thread # "ended"
  BY <1>1, <1>2, <1>3, <1>4, <1>7 DEF SentOf
<1> QED BY <1>5, <1>6, <1>7

LEMMA TakenKept ==
    ASSUME FlightInv, Forward, NEW t \in Transfer, NEW v \in User,
           NEW r \in Nat, NEW e \in Nat, NEW p \in Nat, TakenOf(t, v, r, e, p),
           inbox'[v] = inbox[v], link'[v] = "up" => link[v] = "up"
    PROVE  TakenOf(t, v, r, e, p)'
<1>1. /\ transfers'[t].chunks = transfers[t].chunks /\ Receivers(t)' = Receivers(t)
      /\ IsCut(t) => IsCut(t)'
  BY OnwardNames DEF FlightInv, Forward, Onward, IsCut
<1> QED BY <1>1 DEF TakenOf

LEMMA ApartKept ==
    ASSUME FlightInv, Forward, NEW R, NEW P, NEW s \in Transfer, NEW t \in Transfer,
           ApartAt(R, P, s, t), UNCHANGED <<outbox, inbox>>,
           \A v, u \in User : \/ incomingFiles'[v][u].transfer = incomingFiles[v][u].transfer
                              \/ incomingFiles'[v][u].transfer = 0
    PROVE  ApartAt(R, P, s, t)'
<1>1. /\ transfers'[s].from = transfers[s].from /\ transfers'[t].from = transfers[t].from
      /\ transfers[s].from \in User /\ s # 0
      /\ Running(s)' => Running(s)
      /\ overlaps \subseteq overlaps'
  BY OnwardNames, TransferFacts DEF FlightInv, Forward, Onward
<1> QED BY <1>1 DEF ApartAt

LEMMA OpenAtKept ==
    ASSUME FlightInv, Forward, NEW R, NEW R1, NEW v \in User, NEW u \in User, OpenAt(R, v, u),
           \/ incomingFiles'[v][u] = Absent
           \/ /\ incomingFiles'[v][u] = incomingFiles[v][u]
              /\ incomingFiles[v][u].transfer # 0 =>
                    R1[incomingFiles[v][u].transfer][v] = R[incomingFiles[v][u].transfer][v]
    PROVE  OpenAt(R1, v, u)'
<1>0. SUFFICES ASSUME NEW f, f = incomingFiles[v][u], NEW t, t = f.transfer
               PROVE  OpenAt(R1, v, u)'
  OBVIOUS
<1>1. CASE incomingFiles'[v][u] = Absent
  BY <1>1 DEF OpenAt, Absent
<1>2. CASE /\ incomingFiles'[v][u] = f
           /\ t # 0 => R1[t][v] = R[t][v]
  <2>1. /\ \A i \in DOMAIN f.chunks : f.chunks[i] \in Transfer
        /\ t \in Transfer \cup {0}
    <3>1. IncomingTypes
      BY TypeParts DEF FlightInv
    <3> QED BY <1>0, <3>1 DEF IncomingTypes
  <2>2. \A i \in DOMAIN f.chunks : transfers'[f.chunks[i]].from = u
    BY <1>0, <2>1 DEF OpenAt, Forward, Onward
  <2>3. ASSUME t # 0
        PROVE  /\ transfers'[t].from = u /\ v \in Receivers(t)'
               /\ 0 < R1[t][v] /\ R1[t][v] <= transfers'[t].chunks + 1
               /\ ~Mixed(t, v)' =>
                    IF transfers'[t].to \in Group THEN DOMAIN f.chunks = {}
                    ELSE ~Garbled(t)' => /\ DOMAIN f.chunks = 0..(R1[t][v] - 2)
                                         /\ \A i \in DOMAIN f.chunks : f.chunks[i] = t
    <3>1. t \in Transfer
      BY <2>1, <2>3
    <3>2. /\ transfers'[t].from = transfers[t].from /\ transfers'[t].to = transfers[t].to
          /\ transfers'[t].chunks = transfers[t].chunks /\ Receivers(t)' = Receivers(t)
      BY <3>1, OnwardNames DEF FlightInv, Forward, Onward
    <3>3. Mixed(t, v) => Mixed(t, v)'
      BY <3>1, CrossedKept DEF FlightInv, Forward
    <3>4. Garbled(t) => Garbled(t)'
      BY DEF Forward, Garbled
    <3>5. R1[t][v] = R[t][v]
      BY <1>2, <2>3
    <3>6. /\ transfers[t].from = u /\ v \in Receivers(t)
          /\ 0 < R[t][v] /\ R[t][v] <= transfers[t].chunks + 1
          /\ ~Mixed(t, v) =>
               IF transfers[t].to \in Group THEN DOMAIN f.chunks = {}
               ELSE ~Garbled(t) => /\ DOMAIN f.chunks = 0..(R[t][v] - 2)
                                   /\ \A i \in DOMAIN f.chunks : f.chunks[i] = t
      BY <1>0, <2>3 DEF OpenAt
    <3> QED BY <3>2, <3>3, <3>4, <3>5, <3>6
  <2> QED BY <1>0, <1>2, <2>2, <2>3 DEF OpenAt
<1> QED BY <1>0, <1>1, <1>2

LEMMA KeptAtKept ==
    ASSUME FlightInv, Forward, NEW R, NEW R1, NEW t \in Transfer, NEW v \in User, KeptAt(R, t, v),
           R1[t][v] = R[t][v],
           incomingFiles'[v][transfers[t].from].transfer
               = incomingFiles[v][transfers[t].from].transfer
    PROVE  KeptAt(R1, t, v)'
<1>1. /\ transfers'[t].from = transfers[t].from
      /\ transfers'[t].chunks = transfers[t].chunks /\ Receivers(t)' = Receivers(t)
  BY OnwardNames DEF FlightInv, Forward, Onward
<1>2. Mixed(t, v) => Mixed(t, v)'
  BY CrossedKept DEF FlightInv, Forward
<1>3. (IsCut(t) => IsCut(t)') /\ delivered \subseteq delivered'
  BY DEF Forward, IsCut
<1> QED BY <1>1, <1>2, <1>3 DEF KeptAt

LEMMA ShownKept ==
    ASSUME FlightInv, Forward, Shown, Transfer' = Transfer,
           \A t \in Transfer, u \in User : widgets'[t][u] = "active" =>
              /\ widgets[t][u] = "active"
              /\ activeTransfers'[u][Key(t, u)] = activeTransfers[u][Key(t, u)]
    PROVE  Shown'
<1> SUFFICES ASSUME NEW t \in Transfer, NEW u \in User, widgets'[t][u] = "active"
             PROVE  \/ activeTransfers'[u][Key(t, u)'] = t
                    \/ Crossed(t, u)'
                    \/ u # transfers'[t].from /\ IsCut(t)'
  BY DEF Shown
<1>1. /\ transfers'[t].from = transfers[t].from /\ Key(t, u)' = Key(t, u)
      /\ Crossed(t, u) => Crossed(t, u)'
      /\ IsCut(t) => IsCut(t)'
  BY OnwardNames, CrossedKept DEF FlightInv, Forward, Onward, IsCut
<1> QED BY <1>1 DEF Shown

LEMMA SavedParts == SavedIsSent <=> \A v \in User, name \in FileName : SavedAt(v, name)
BY DEF SavedIsSent, SavedAt, Garbled

LEMMA SavedPartsNext == SavedIsSent' <=> \A v \in User, name \in FileName : SavedAt(v, name)'
BY DEF SavedIsSent, SavedAt, Garbled

LEMMA SavedAtKept ==
    ASSUME FlightInv, Forward, NEW v \in User, NEW name \in FileName, SavedAt(v, name),
           downloads'[v][name] = downloads[v][name]
    PROVE  SavedAt(v, name)'
<1>1. SUFFICES ASSUME NEW d, d = downloads[v][name], NEW t, t = d.transfer, d # Absent
               PROVE  SavedAt(v, name)'
  BY DEF SavedAt
<1>2. t \in Transfer /\ \A i \in DOMAIN d.chunks : d.chunks[i][1] \in Transfer
  <2>1. DownloadTypes
    BY TypeParts DEF FlightInv
  <2>2. t \in Transfer /\ d.chunks \in Seq(Transfer \X Nat)
    BY <1>1, <2>1 DEF DownloadTypes
  <2>3. \A i \in DOMAIN d.chunks : d.chunks[i] \in Transfer \X Nat
    BY <2>2
  <2> QED BY <2>2, <2>3
<1>3. /\ transfers'[t].from = transfers[t].from /\ transfers'[t].to = transfers[t].to
      /\ transfers'[t].chunks = transfers[t].chunks
      /\ Mixed(t, v) => Mixed(t, v)'
      /\ Garbled(t) => Garbled(t)'
  BY <1>2, CrossedKept DEF FlightInv, Forward, Onward, Garbled
<1>4. Whole(t)' = Whole(t)
  BY <1>3 DEF Whole
<1>5. \A i \in DOMAIN d.chunks : transfers'[d.chunks[i][1]].from = transfers[d.chunks[i][1]].from
  BY <1>2 DEF Forward, Onward
<1>6. /\ \A i \in DOMAIN d.chunks : transfers[d.chunks[i][1]].from = transfers[t].from
      /\ \A i, j \in DOMAIN d.chunks : i < j => d.chunks[i][2] < d.chunks[j][2]
      /\ \/ d.chunks = Whole(t)
         \/ Mixed(t, v)
         \/ Garbled(t)
         \/ transfers[t].to \in Group /\ d.chunks = <<>>
  BY <1>1 DEF SavedAt
<1>7. downloads'[v][name] = d
  BY <1>1
<1> QED BY <1>1, <1>3, <1>4, <1>5, <1>6, <1>7 DEF SavedAt
-----------------------------------------------------------------------------
(* The steps. *)

Arrival == Shown /\ SavedIsSent /\ \E R, E, P, Q : History(R, E, P, Q)

LEMMA HistoryNext ==
    ASSUME FlightInv, Len(transfers') = Len(transfers),
           NEW R \in PerReader, NEW E \in PerReader, NEW P \in PerFile, NEW Q \in PerFile,
           NEW R1 \in PerReader, NEW E1 \in PerReader, NEW P1 \in PerFile, NEW Q1 \in PerFile,
           History(R, E, P, Q),
           \A t \in 1..MaxTransfers \ Transfer :
              R1[t] = R[t] /\ E1[t] = E[t] /\ P1[t] = P[t] /\ Q1[t] = Q[t],
           \A t \in Transfer : /\ SentOf(t, P1[t], Q1[t])'
                               /\ \A v \in User : TakenOf(t, v, R1[t][v], E1[t][v], P1[t])',
           \A s, t \in Transfer : ApartAt(R1, P1, s, t)',
           \A v, u \in User : OpenAt(R1, v, u)',
           \A t \in Transfer, v \in User : KeptAt(R1, t, v)'
    PROVE  \E A, B, C, D : History(A, B, C, D)'
<1>1. Transfer' = Transfer
  BY DEF Transfer
<1>2. \A t \in (Len(transfers) + 1)..MaxTransfers : t \in 1..MaxTransfers \ Transfer
  BY TransferFacts DEF Transfer, FlightInv
<1>3. \A t \in (Len(transfers') + 1)..MaxTransfers :
          P1[t] = 0 /\ Q1[t] = 0 /\ \A v \in User : R1[t][v] = 0 /\ E1[t][v] = 0
  BY <1>2 DEF History
<1>4. Flow(R1, E1, P1, Q1)'
  BY <1>1 DEF Flow
<1>5. History(R1, E1, P1, Q1)'
  BY <1>1, <1>3, <1>4 DEF History
<1> QED BY <1>5

\* Steps that touch neither the queues nor what has been received.
LEMMA HistoryKept ==
    ASSUME FlightInv, Forward, Len(transfers') = Len(transfers), Arrival,
           UNCHANGED <<outbox, inbox, incomingFiles, downloads>>,
           \A u \in User : /\ link'[u] = "up" => link[u] = "up"
                           /\ link'[u] # "down" => link[u] # "down",
           \A t \in Transfer : \/ transfers'[t] = transfers[t]
                               \/ NextPiece(t)' = NextPiece(t) /\ transfers'[t].thread # "ended"
    PROVE  SavedIsSent' /\ \E R, E, P, Q : History(R, E, P, Q)'
<1>1. SavedIsSent'
  BY SavedParts, SavedPartsNext, SavedAtKept DEF Arrival
<1>2. PICK R, E, P, Q : History(R, E, P, Q)
  BY DEF Arrival
<1>3. /\ R \in PerReader /\ E \in PerReader /\ P \in PerFile /\ Q \in PerFile
      /\ \A t \in Transfer :
            /\ P[t] \in Nat /\ Q[t] \in Nat /\ SentOf(t, P[t], Q[t])
            /\ \A v \in User : /\ R[t][v] \in Nat /\ E[t][v] \in Nat
                               /\ TakenOf(t, v, R[t][v], E[t][v], P[t])
      /\ \A s, t \in Transfer : ApartAt(R, P, s, t)
      /\ \A v, u \in User : OpenAt(R, v, u)
      /\ \A t \in Transfer, v \in User : KeptAt(R, t, v)
  BY <1>2, HistoryFacts
<1>4. \A t \in Transfer : transfers[t].from \in User
  BY TransferFacts DEF FlightInv
<1>5. ASSUME NEW t \in Transfer PROVE SentOf(t, P[t], Q[t])'
  BY <1>3, <1>4, SentKept
<1>6. ASSUME NEW t \in Transfer, NEW v \in User PROVE TakenOf(t, v, R[t][v], E[t][v], P[t])'
  BY <1>3, TakenKept
<1>7. ASSUME NEW s \in Transfer, NEW t \in Transfer PROVE ApartAt(R, P, s, t)'
  BY <1>3, ApartKept
<1>8. ASSUME NEW v \in User, NEW u \in User PROVE OpenAt(R, v, u)'
  BY <1>3, OpenAtKept
<1>9. ASSUME NEW t \in Transfer, NEW v \in User PROVE KeptAt(R, t, v)'
  BY <1>3, <1>4, KeptAtKept
<1>10. \E A, B, C, D : History(A, B, C, D)'
  BY <1>2, <1>3, <1>5, <1>6, <1>7, <1>8, <1>9, HistoryNext
<1> QED BY <1>1, <1>10

LEMMA ForwardSame ==
    ASSUME FlightInv, UNCHANGED transfers, UNCHANGED overlaps, mishaps \subseteq mishaps',
           delivered \subseteq delivered'
    PROVE  Forward /\ Transfer' = Transfer /\ Len(transfers') = Len(transfers)
BY OnwardUnchanged DEF FlightInv, Forward

LEMMA ArrivalInit == Init => Arrival
<1> SUFFICES ASSUME Init PROVE Arrival
  OBVIOUS
<1>1. Len(transfers) = 0 /\ Transfer = {}
  BY DEF Init, Transfer
<1>2. Shown
  BY <1>1 DEF Shown
<1>3. SavedIsSent
  BY DEF SavedIsSent, Init
<1>4. \A v, u \in User : incomingFiles[v][u] = Absent
  BY DEF Init
<1>5. PICK R \in PerReader : \A t \in 1..MaxTransfers : \A v \in User : R[t][v] = 0
  <2>1. [t \in 1..MaxTransfers |-> [v \in User |-> 0]] \in PerReader
    BY DEF PerReader
  <2> QED BY <2>1
<1>6. PICK P \in PerFile : \A t \in 1..MaxTransfers : P[t] = 0
  <2>1. [t \in 1..MaxTransfers |-> 0] \in PerFile
    BY DEF PerFile
  <2> QED BY <2>1
<1>7. \A v, u \in User : OpenAt(R, v, u)
  BY <1>4 DEF OpenAt, Absent
<1>8. (Len(transfers) + 1)..MaxTransfers = 1..MaxTransfers
  BY <1>1
<1>9. History(R, R, P, P)
  BY <1>1, <1>5, <1>6, <1>7, <1>8 DEF History, Flow
<1> QED BY <1>2, <1>3, <1>9 DEF Arrival

LEMMA OpenChatArrival == ASSUME FlightInv, Arrival, NEW u \in User, OpenChat(u) PROVE Arrival'
<1>1. UNCHANGED <<link, transfers, outbox, inbox, incomingFiles, downloads, windowVars, pastVars>>
  BY DEF OpenChat
<1>2. Forward /\ Transfer' = Transfer /\ Len(transfers') = Len(transfers)
  BY <1>1, ForwardSame DEF pastVars
<1>3. SavedIsSent' /\ \E R, E, P, Q : History(R, E, P, Q)'
  BY <1>1, <1>2, HistoryKept DEF Transfer
<1>4. Shown'
  BY <1>1, <1>2, ShownKept DEF windowVars, Arrival
<1> QED BY <1>3, <1>4 DEF Arrival

LEMMA UnlistArrival == ASSUME FlightInv, Arrival, NEW u \in User, Unlist(u) PROVE Arrival'
<1>1. UNCHANGED <<transfers, outbox, inbox, incomingFiles, downloads, windowVars, pastVars>>
  BY DEF Unlist
<1>2. Forward /\ Transfer' = Transfer /\ Len(transfers') = Len(transfers)
  BY <1>1, ForwardSame DEF pastVars
<1>3. \A x \in User : /\ link'[x] = "up" => link[x] = "up"
                      /\ link'[x] # "down" => link[x] # "down"
  BY DEF Unlist, FlightInv, TypeOK
<1>4. SavedIsSent' /\ \E R, E, P, Q : History(R, E, P, Q)'
  BY <1>1, <1>2, <1>3, HistoryKept DEF Transfer
<1>5. Shown'
  BY <1>1, <1>2, ShownKept DEF windowVars, Arrival
<1> QED BY <1>4, <1>5 DEF Arrival

LEMMA EnterArrival == ASSUME FlightInv, Arrival, NEW u \in User, Enter(u) PROVE Arrival'
<1>1. /\ program[u] = "off" /\ outbox[u] = <<>> /\ link' = [link EXCEPT ![u] = "up"]
      /\ UNCHANGED <<transfers, outbox, inbox, incomingFiles, downloads, windowVars, pastVars>>
  BY DEF Enter
<1>2. /\ inbox[u] = <<>> /\ \A v \in User : incomingFiles[u][v] = Absent
      /\ \A t \in Transfer : Running(t) => transfers[t].from # u
  BY <1>1 DEF FlightInv, Off
<1>3. Forward /\ Transfer' = Transfer /\ Len(transfers') = Len(transfers)
  BY <1>1, ForwardSame DEF pastVars
<1>4. Shown'
  BY <1>1, <1>3, ShownKept DEF windowVars, Arrival
<1>5. SavedIsSent'
  BY <1>1, <1>3, SavedParts, SavedPartsNext, SavedAtKept DEF Arrival
<1>6. \A x \in User \ {u} : link'[x] = link[x]
  BY <1>1 DEF FlightInv, TypeOK
<1>7. PICK R, E, P, Q : History(R, E, P, Q)
  BY DEF Arrival
<1>8. /\ R \in PerReader /\ E \in PerReader /\ P \in PerFile /\ Q \in PerFile
      /\ \A t \in Transfer :
            /\ P[t] \in Nat /\ Q[t] \in Nat /\ SentOf(t, P[t], Q[t])
            /\ \A v \in User : /\ R[t][v] \in Nat /\ E[t][v] \in Nat
                               /\ TakenOf(t, v, R[t][v], E[t][v], P[t])
      /\ \A s, t \in Transfer : ApartAt(R, P, s, t)
      /\ \A v, x \in User : OpenAt(R, v, x)
      /\ \A t \in Transfer, v \in User : KeptAt(R, t, v)
  BY <1>7, HistoryFacts
\* What is sent to u from now on is what the server has not read yet.
<1>9. PICK R1 \in PerReader :
         \A t \in 1..MaxTransfers, v \in User : R1[t][v] = IF v = u THEN P[t] ELSE R[t][v]
  <2>1. [t \in 1..MaxTransfers |-> [v \in User |-> IF v = u THEN P[t] ELSE R[t][v]]] \in PerReader
    BY <1>8 DEF PerReader, PerFile
  <2> QED BY <2>1
<1>10. PICK E1 \in PerReader :
         \A t \in 1..MaxTransfers, v \in User : E1[t][v] = IF v = u THEN P[t] ELSE E[t][v]
  <2>1. [t \in 1..MaxTransfers |-> [v \in User |-> IF v = u THEN P[t] ELSE E[t][v]]] \in PerReader
    BY <1>8 DEF PerReader, PerFile
  <2> QED BY <2>1
<1>11. Transfer \subseteq 1..MaxTransfers /\ \A t \in Transfer : transfers[t].from \in User
  BY PieceFacts, TransferFacts DEF FlightInv
<1>12. ASSUME NEW t \in Transfer PROVE SentOf(t, P[t], Q[t])'
  BY <1>1, <1>2, <1>3, <1>6, <1>8, <1>11, SentKept
<1>13. ASSUME NEW t \in Transfer, NEW v \in User PROVE TakenOf(t, v, R1[t][v], E1[t][v], P[t])'
  <2>1. CASE v = u
    <3>1. R1[t][v] = P[t] /\ E1[t][v] = P[t] /\ P[t] \in Nat
      BY <1>8, <1>9, <1>10, <1>11, <2>1
    <3>2. Carries(inbox'[v], t, transfers'[t].chunks, P[t], P[t])
      <4>1. inbox'[v] = <<>> /\ transfers'[t].chunks \in Nat /\ Lacks(<<>>, t)
        BY <1>1, <1>2, <2>1, OrderEmpty, TransferFacts DEF FlightInv
      <4>2. Carries(<<>>, t, transfers'[t].chunks, P[t], P[t])
        BY <3>1, <4>1, CarriesLacks
      <4> QED BY <4>1, <4>2
    <3> QED BY <3>1, <3>2 DEF TakenOf
  <2>2. CASE v # u
    <3>1. R1[t][v] = R[t][v] /\ E1[t][v] = E[t][v]
      BY <1>9, <1>10, <1>11, <2>2
    <3>2. TakenOf(t, v, R[t][v], E[t][v], P[t])'
      BY <1>1, <1>3, <1>6, <1>8, <2>2, TakenKept
    <3> QED BY <3>1, <3>2
  <2> QED BY <2>1, <2>2
<1>14. ASSUME NEW s \in Transfer, NEW t \in Transfer PROVE ApartAt(R1, P, s, t)'
  <2>1. ApartAt(R, P, s, t)'
    BY <1>1, <1>3, <1>8, ApartKept
  <2>2. \A v \in User \ {u} : R1[t][v] = R[t][v]
    BY <1>9, <1>11
  <2>3. Lacks(inbox'[u], s) /\ \A v \in User : incomingFiles'[u][v].transfer = 0
    BY <1>1, <1>2, OrderEmpty DEF Absent
  <2>4. 0 # s /\ transfers'[s].from \in User
    BY <1>1, <1>11, TransferFacts DEF FlightInv
  <2> QED BY <2>1, <2>2, <2>3, <2>4 DEF ApartAt
<1>15. ASSUME NEW v \in User, NEW x \in User PROVE OpenAt(R1, v, x)'
  <2>1. CASE v = u
    BY <1>1, <1>2, <1>3, <1>8, <2>1, OpenAtKept
  <2>2. CASE v # u
    <3>1. incomingFiles[v][x].transfer \in Transfer \cup {0}
      BY DEF FlightInv, TypeOK
    <3>2. incomingFiles[v][x].transfer # 0 =>
             R1[incomingFiles[v][x].transfer][v] = R[incomingFiles[v][x].transfer][v]
      BY <1>9, <1>11, <2>2, <3>1
    <3> QED BY <1>1, <1>3, <1>8, <3>2, OpenAtKept
  <2> QED BY <2>1, <2>2
<1>16. ASSUME NEW t \in Transfer, NEW v \in User PROVE KeptAt(R1, t, v)'
  <2>1. CASE v # u
    <3>1. R1[t][v] = R[t][v]
      BY <1>9, <1>11, <2>1
    <3> QED BY <1>1, <1>3, <1>8, <3>1, <1>11, KeptAtKept
  <2>2. CASE v = u
    <3>1. SUFFICES ASSUME ~IsCut(t)', v \in Receivers(t)' PROVE KeptAt(R1, t, v)'
      BY DEF KeptAt
    <3>2. ~IsCut(t) /\ v \in Receivers(t)
      BY <1>1, <3>1 DEF IsCut, pastVars, Receivers
    <3>3. E[t][v] = P[t]
      BY <1>8, <3>2 DEF TakenOf
    <3>4. R[t][v] = E[t][v]
      <4>1. transfers[t].chunks \in Nat /\ Lacks(<<>>, t)
        BY OrderEmpty, TransferFacts DEF FlightInv
      <4>2. Carries(<<>>, t, transfers[t].chunks, R[t][v], E[t][v])
        BY <1>2, <1>8, <2>2 DEF TakenOf
      <4> QED BY <1>8, <4>1, <4>2, CarriesLacks
    <3>5. R1[t][v] = R[t][v]
      BY <1>9, <1>11, <2>2, <3>3, <3>4
    <3> QED BY <1>1, <1>3, <1>8, <3>5, <1>11, KeptAtKept
  <2> QED BY <2>1, <2>2
<1>17. \A t \in 1..MaxTransfers \ Transfer : R1[t] = R[t] /\ E1[t] = E[t]
  <2> SUFFICES ASSUME NEW t \in 1..MaxTransfers \ Transfer PROVE R1[t] = R[t] /\ E1[t] = E[t]
    OBVIOUS
  <2>1. t \in (Len(transfers) + 1)..MaxTransfers
    BY TransferFacts DEF Transfer, FlightInv
  <2>2. P[t] = 0 /\ \A v \in User : R[t][v] = 0 /\ E[t][v] = 0
    BY <1>7, <2>1 DEF History
  <2>3. \A v \in User : R1[t][v] = R[t][v] /\ E1[t][v] = E[t][v]
    BY <1>9, <1>10, <2>2
  <2> QED BY <1>8, <1>9, <1>10, <2>3 DEF PerReader
<1>18. \A t \in 1..MaxTransfers \ Transfer :
           R1[t] = R[t] /\ E1[t] = E[t] /\ P[t] = P[t] /\ Q[t] = Q[t]
  BY <1>17
<1>19. \A t \in Transfer : /\ SentOf(t, P[t], Q[t])'
                           /\ \A v \in User : TakenOf(t, v, R1[t][v], E1[t][v], P[t])'
  BY <1>12, <1>13
<1>20. \E A, B, C, D : History(A, B, C, D)'
  BY <1>3, <1>7, <1>8, <1>14, <1>15, <1>16, <1>18, <1>19, HistoryNext
<1> QED BY <1>4, <1>5, <1>20 DEF Arrival

\* A finished widget is not active; the others keep their entries.
LEMMA ShownFinish ==
    ASSUME FlightInv, Forward, Shown, Transfer' = Transfer, NEW u \in User, NEW c \in Contact,
           NEW status \in {"complete", "failed"}, FinishWidget(u, c, status)
    PROVE  Shown'
<1>0. TypeOK /\ Shapes /\ Registered
  BY DEF FlightInv
<1>1. /\ activeTransfers'[u][c] = 0
      /\ \A x \in User, d \in Contact : (x # u \/ d # c) =>
            activeTransfers'[x][d] = activeTransfers[x][d]
      /\ \A k \in 1..MaxTransfers, x \in User :
            widgets'[k][x] = IF k = activeTransfers[u][c] /\ x = u THEN status ELSE widgets[k][x]
  BY <1>0, FinishFacts
<1> SUFFICES ASSUME NEW t \in Transfer, NEW x \in User, widgets'[t][x] = "active"
             PROVE  \/ activeTransfers'[x][Key(t, x)'] = t
                    \/ Crossed(t, x)'
                    \/ x # transfers'[t].from /\ IsCut(t)'
  BY DEF Shown
<1>2. /\ transfers'[t].from = transfers[t].from /\ Key(t, x)' = Key(t, x)
      /\ Crossed(t, x) => Crossed(t, x)'
      /\ IsCut(t) => IsCut(t)'
  BY <1>0, OnwardNames, CrossedKept DEF Forward, Onward, IsCut
<1>3. t \in 1..MaxTransfers /\ Key(t, x) \in Contact
  BY <1>0, PieceFacts, TransferFacts
<1>4. widgets[t][x] = "active" /\ ~(t = activeTransfers[u][c] /\ x = u)
  BY <1>1, <1>3
<1>5. activeTransfers[x][Key(t, x)] = t => activeTransfers'[x][Key(t, x)] = t
  BY <1>1, <1>3, <1>4
<1> QED BY <1>2, <1>4, <1>5 DEF Shown

LEMMA OpenFailsArrival == ASSUME FlightInv, Arrival, NEW t \in Transfer, OpenFails(t) PROVE Arrival'
<1>1. /\ transfers[t].thread = "opening" /\ Becomes(t, "failed", 0)
      /\ FinishWidget(transfers[t].from, transfers[t].to, "failed")
      /\ UNCHANGED <<link, outbox, inbox, incomingFiles, downloads, pastVars>>
  BY DEF OpenFails
<1>2. /\ TypeOK /\ transfers[t].from \in User /\ transfers[t].to \in Contact
      /\ transfers[t].chunks \in Nat /\ 0 <= transfers[t].chunks
  BY TransferFacts DEF FlightInv
<1>3. Running(t)
  BY <1>1 DEF Running
<1>4. /\ Onward /\ Transfer' = Transfer
      /\ transfers'[t].thread = "failed" /\ transfers'[t].next = 0
      /\ \A s \in Transfer \ {t} : transfers'[s] = transfers[s]
  BY <1>1, <1>2, <1>3, OnwardBecomes
<1>5. Forward
  BY <1>1, <1>4 DEF Forward, pastVars
<1>6. Len(transfers') = Len(transfers)
  BY <1>1 DEF Becomes
<1>7. NextPiece(t)' = NextPiece(t)
  BY <1>1, <1>4 DEF NextPiece
<1>8. \A s \in Transfer : \/ transfers'[s] = transfers[s]
                          \/ NextPiece(s)' = NextPiece(s) /\ transfers'[s].thread # "ended"
  BY <1>4, <1>7
<1>9. SavedIsSent' /\ \E R, E, P, Q : History(R, E, P, Q)'
  BY <1>1, <1>5, <1>6, <1>8, HistoryKept
<1>10. Shown'
  BY <1>1, <1>2, <1>4, <1>5, ShownFinish DEF Arrival
<1> QED BY <1>9, <1>10 DEF Arrival

\* A thread that sends its next piece.
LEMMA PieceArrival ==
    ASSUME FlightInv, Arrival, NEW t \in Transfer, Running(t),
           NEW thread \in {"sending", "sent"}, NEW next \in Nat, next <= transfers[t].chunks,
           NEW kind \in {"meta", "chunk", "complete"}, NEW index \in Nat,
           NextPiece(t) = Piece([transfer |-> t, kind |-> kind, index |-> index], transfers[t].chunks),
           NextPiece(t) + 1 = IF thread = "sending" THEN next + 1 ELSE transfers[t].chunks + 2,
           Becomes(t, thread, next), sendMessage(t, kind, index),
           UNCHANGED <<link, inbox, incomingFiles, downloads, delivered, overlaps>>
    PROVE  SavedIsSent' /\ \E R, E, P, Q : History(R, E, P, Q)'
<1>1. /\ TypeOK /\ transfers[t].from \in User /\ transfers[t].to \in Contact
      /\ transfers[t].chunks \in Nat /\ Transfer \subseteq 1..MaxTransfers
      /\ \A s \in Transfer : transfers[s].from \in User /\ transfers[s].chunks \in Nat
  BY TransferFacts, PieceFacts DEF FlightInv
<1>2. /\ Onward /\ Transfer' = Transfer
      /\ transfers'[t].thread = thread /\ transfers'[t].next = next
      /\ \A s \in Transfer \ {t} : transfers'[s] = transfers[s]
  BY <1>1, OnwardBecomes
<1>3. Len(transfers') = Len(transfers)
  BY DEF Becomes
<1>4. SUFFICES ASSUME NEW m, m = [transfer |-> t, kind |-> kind, index |-> index],
                      NEW u, u = transfers[t].from
               PROVE  SavedIsSent' /\ \E R, E, P, Q : History(R, E, P, Q)'
  OBVIOUS
<1>5. /\ m \in Message /\ m.transfer = t
      /\ \A x \in User \ {u} : outbox'[x] = outbox[x]
      /\ \/ /\ link[u] = "down" /\ outbox' = outbox
            /\ mishaps' = mishaps \cup {<<t, "cut">>}
         \/ /\ link[u] # "down" /\ outbox'[u] = Append(outbox[u], m)
            /\ mishaps' = mishaps
      /\ mishaps \subseteq mishaps'
  BY <1>1, <1>4, SendFacts
<1>6. Forward
  BY <1>2, <1>5 DEF Forward
<1>7. SavedIsSent'
  BY <1>6, SavedParts, SavedPartsNext, SavedAtKept DEF Arrival
<1>8. PICK R, E, P, Q : History(R, E, P, Q)
  BY DEF Arrival
<1>9. /\ R \in PerReader /\ E \in PerReader /\ P \in PerFile /\ Q \in PerFile
      /\ \A s \in Transfer :
            /\ P[s] \in Nat /\ Q[s] \in Nat /\ SentOf(s, P[s], Q[s])
            /\ \A v \in User : /\ R[s][v] \in Nat /\ E[s][v] \in Nat
                               /\ TakenOf(s, v, R[s][v], E[s][v], P[s])
      /\ \A s, k \in Transfer : ApartAt(R, P, s, k)
      /\ \A v, x \in User : OpenAt(R, v, x)
      /\ \A s \in Transfer, v \in User : KeptAt(R, s, v)
  BY <1>8, HistoryFacts
<1>10. PICK Q1 \in PerFile : /\ Q1[t] = IF link[u] = "down" THEN Q[t] ELSE Q[t] + 1
                             /\ \A s \in 1..MaxTransfers \ {t} : Q1[s] = Q[s]
  <2>1. [s \in 1..MaxTransfers |-> IF s = t /\ link[u] # "down" THEN Q[s] + 1 ELSE Q[s]] \in PerFile
    BY <1>9 DEF PerFile
  <2> QED BY <1>1, <2>1
<1>11. NextPiece(t) \in Nat /\ NextPiece(t)' = NextPiece(t) + 1
  <2>1. transfers'[t].chunks = transfers[t].chunks
    BY <1>2 DEF Onward
  <2> QED BY <1>2, <2>1, PieceFacts DEF NextPiece
<1>12. outbox[u] \in Seq(Message) /\ u \in User
  BY <1>1, <1>4, QueueFacts
<1>13. ASSUME NEW s \in Transfer PROVE SentOf(s, P[s], Q1[s])'
  <2>1. CASE s = t
    <3>1. /\ P[t] <= Q[t] /\ Q[t] <= NextPiece(t)
          /\ Carries(outbox[u], t, transfers[t].chunks, P[t], Q[t])
          /\ P[t] \in Nat /\ Q[t] \in Nat
      BY <1>4, <1>9 DEF SentOf
    <3>2. /\ transfers'[t].from = u /\ transfers'[t].chunks = transfers[t].chunks
          /\ transfers'[t].thread # "ended"
      BY <1>2, <1>4 DEF Onward
    <3>3. CASE link[u] = "down"
      <4>1. IsCut(t)' /\ outbox' = outbox
        BY <1>5, <3>3 DEF IsCut
      <4>2. Q1[t] = Q[t] /\ Q[t] <= NextPiece(t)'
        BY <1>10, <1>11, <3>1, <3>3
      <4> QED BY <2>1, <3>1, <3>2, <3>3, <4>1, <4>2 DEF SentOf
    <3>4. CASE link[u] # "down"
      <4>1. Q[t] = NextPiece(t)
        BY <1>4, <1>9, <3>4 DEF SentOf
      <4>2. Carries(Append(outbox[u], m), t, transfers[t].chunks, P[t], Q[t] + 1)
        BY <1>1, <1>4, <1>5, <1>12, <3>1, <4>1, CarriesAppend
      <4>3. outbox'[u] = Append(outbox[u], m)
        BY <1>5, <3>4
      <4>4. Q1[t] = Q[t] + 1 /\ Q1[t] = NextPiece(t)' /\ P[t] <= Q1[t] /\ Q1[t] <= NextPiece(t)'
        BY <1>10, <1>11, <3>1, <3>4, <4>1
      <4> QED BY <2>1, <3>2, <4>2, <4>3, <4>4 DEF SentOf
    <3> QED BY <3>3, <3>4
  <2>2. CASE s # t
    <3>1. Q1[s] = Q[s] /\ transfers'[s] = transfers[s]
      BY <1>1, <1>2, <1>10, <2>2
    <3>2. CASE outbox'[transfers[s].from] = outbox[transfers[s].from]
      BY <1>6, <1>9, <3>1, <3>2, SentKept
    <3>3. CASE outbox'[transfers[s].from] # outbox[transfers[s].from]
      <4>1. transfers[s].from = u /\ outbox'[u] = Append(outbox[u], m) /\ mishaps' = mishaps
        BY <1>1, <1>5, <3>3
      <4>2. Carries(outbox[u], s, transfers[s].chunks, P[s], Q[s])
        BY <1>9, <4>1 DEF SentOf
      <4>3. Carries(Append(outbox[u], m), s, transfers[s].chunks, P[s], Q[s])
        BY <1>1, <1>5, <1>9, <1>12, <2>2, <4>2, CarriesAppend
      <4>4. NextPiece(s)' = NextPiece(s) /\ (Running(s)' <=> Running(s)) /\ (IsCut(s)' <=> IsCut(s))
        BY <3>1, <4>1 DEF NextPiece, Running, IsCut
      <4>5. /\ P[s] <= Q[s] /\ Q[s] <= NextPiece(s)
            /\ ~IsCut(s) \/ (Running(s) /\ link[transfers[s].from] # "down") => Q[s] = NextPiece(s)
            /\ transfers[s].thread = "ended" => IsCut(s)
        BY <1>9 DEF SentOf
      <4> QED BY <3>1, <4>1, <4>3, <4>4, <4>5 DEF SentOf
    <3> QED BY <3>2, <3>3
  <2> QED BY <2>1, <2>2
<1>14. ASSUME NEW s \in Transfer, NEW v \in User PROVE TakenOf(s, v, R[s][v], E[s][v], P[s])'
  BY <1>6, <1>9, TakenKept
<1>15. ASSUME NEW s \in Transfer, NEW k \in Transfer PROVE ApartAt(R, P, s, k)'
  <2>1. CASE outbox' = outbox
    BY <1>6, <1>9, <2>1, ApartKept
  <2>2. CASE outbox' # outbox
    <3>1. outbox'[u] = Append(outbox[u], m)
      BY <1>5, <2>2
    <3>2. SUFFICES ASSUME s < k, transfers'[s].from = transfers'[k].from, {s, k} \notin overlaps'
                   PROVE  LET w == transfers'[s].from
                          IN  /\ ~Running(s)'
                              /\ Before(outbox'[w], s, k)
                              /\ P[k] > 0 => Lacks(outbox'[w], s)
                              /\ \A v \in User :
                                    /\ Before(inbox'[v], s, k)
                                    /\ R[k][v] > 0 => /\ Lacks(inbox'[v], s)
                                                      /\ incomingFiles'[v][w].transfer # s
      BY DEF ApartAt
    <3>3. /\ transfers'[s].from = transfers[s].from /\ transfers'[k].from = transfers[k].from
          /\ Running(s)' => Running(s)
      BY <1>1, <1>2, OnwardNames DEF Onward
    <3>4. LET w == transfers[s].from
          IN  /\ ~Running(s)
              /\ Before(outbox[w], s, k)
              /\ P[k] > 0 => Lacks(outbox[w], s)
              /\ \A v \in User :
                    /\ Before(inbox[v], s, k)
                    /\ R[k][v] > 0 => Lacks(inbox[v], s) /\ incomingFiles[v][w].transfer # s
      BY <1>9, <3>2, <3>3 DEF ApartAt
    <3>5. s # t
      BY <3>4
    <3>6. /\ Before(outbox'[transfers[s].from], s, k)
          /\ P[k] > 0 => Lacks(outbox'[transfers[s].from], s)
      <4>1. CASE transfers[s].from = u
        BY <1>5, <1>12, <3>1, <3>4, <3>5, <4>1, OrderAppend, ZenonT(60)
      <4>2. CASE transfers[s].from # u
        BY <1>1, <1>5, <3>4, <4>2
      <4> QED BY <4>1, <4>2
    <3> QED BY <3>3, <3>4, <3>6
  <2> QED BY <2>1, <2>2
<1>16. ASSUME NEW v \in User, NEW x \in User PROVE OpenAt(R, v, x)'
  BY <1>6, <1>9, OpenAtKept
<1>17. ASSUME NEW s \in Transfer, NEW v \in User PROVE KeptAt(R, s, v)'
  BY <1>1, <1>6, <1>9, KeptAtKept
<1>18. \A s \in 1..MaxTransfers \ Transfer :
          R[s] = R[s] /\ E[s] = E[s] /\ P[s] = P[s] /\ Q1[s] = Q[s]
  BY <1>10
<1>19. \A s \in Transfer : /\ SentOf(s, P[s], Q1[s])'
                           /\ \A v \in User : TakenOf(s, v, R[s][v], E[s][v], P[s])'
  BY <1>13, <1>14
<1>20. \E A, B, C, D : History(A, B, C, D)'
  BY <1>3, <1>8, <1>9, <1>10, <1>15, <1>16, <1>17, <1>18, <1>19, HistoryNext
<1> QED BY <1>7, <1>20

LEMMA SendMetaArrival == ASSUME FlightInv, Arrival, NEW t \in Transfer, SendMeta(t) PROVE Arrival'
<1> DEFINE m == [transfer |-> t, kind |-> "meta", index |-> 0]
<1>1. /\ transfers[t].thread = "opening" /\ Becomes(t, "sending", 0) /\ sendMessage(t, "meta", 0)
      /\ UNCHANGED <<link, inbox, incomingFiles, downloads, windowVars, delivered, overlaps>>
  BY DEF SendMeta
<1>2. transfers[t].chunks \in Nat /\ 0 <= transfers[t].chunks /\ Running(t) /\ TypeOK
  BY <1>1, TransferFacts DEF FlightInv, Running
<1>3. NextPiece(t) = Piece(m, transfers[t].chunks) /\ NextPiece(t) + 1 = 0 + 1
  BY <1>1 DEF NextPiece, Piece
<1>4. SavedIsSent' /\ \E R, E, P, Q : History(R, E, P, Q)'
  BY <1>1, <1>2, <1>3, PieceArrival
<1>5. Onward /\ Transfer' = Transfer
  BY <1>1, <1>2, OnwardBecomes
<1>6. mishaps \subseteq mishaps'
  BY <1>1 DEF sendMessage, Cut
<1>7. Shown'
  BY <1>1, <1>5, <1>6, ShownKept DEF windowVars, Arrival, Forward
<1> QED BY <1>4, <1>7 DEF Arrival

LEMMA SendChunkArrival == ASSUME FlightInv, Arrival, NEW t \in Transfer, SendChunk(t) PROVE Arrival'
<1> DEFINE n == transfers[t].next
           m == [transfer |-> t, kind |-> "chunk", index |-> n]
<1>1. /\ transfers[t].thread = "sending" /\ n < transfers[t].chunks
      /\ Becomes(t, "sending", n + 1) /\ sendMessage(t, "chunk", n)
      /\ UNCHANGED <<link, inbox, incomingFiles, downloads, windowVars, delivered, overlaps>>
  BY DEF SendChunk
<1>2. /\ transfers[t].chunks \in Nat /\ n \in Nat /\ n + 1 \in Nat /\ n + 1 <= transfers[t].chunks
      /\ Running(t) /\ TypeOK
  BY <1>1, TransferFacts DEF FlightInv, Running
<1>3. NextPiece(t) = Piece(m, transfers[t].chunks) /\ NextPiece(t) + 1 = (n + 1) + 1
  BY <1>1 DEF NextPiece, Piece
<1>4. SavedIsSent' /\ \E R, E, P, Q : History(R, E, P, Q)'
  BY <1>1, <1>2, <1>3, PieceArrival
<1>5. Onward /\ Transfer' = Transfer
  BY <1>1, <1>2, OnwardBecomes
<1>6. mishaps \subseteq mishaps'
  BY <1>1 DEF sendMessage, Cut
<1>7. Shown'
  BY <1>1, <1>5, <1>6, ShownKept DEF windowVars, Arrival, Forward
<1> QED BY <1>4, <1>7 DEF Arrival

LEMMA SendCompleteArrival ==
    ASSUME FlightInv, Arrival, NEW t \in Transfer, SendComplete(t) PROVE Arrival'
<1> DEFINE n == transfers[t].chunks
           m == [transfer |-> t, kind |-> "complete", index |-> 0]
<1>1. /\ transfers[t].thread = "sending" /\ transfers[t].next = n
      /\ Becomes(t, "sent", n) /\ sendMessage(t, "complete", 0)
      /\ FinishWidget(transfers[t].from, transfers[t].to, "complete")
      /\ UNCHANGED <<link, inbox, incomingFiles, downloads, delivered, overlaps>>
  BY DEF SendComplete
<1>2. n \in Nat /\ n <= n /\ Running(t) /\ TypeOK
  BY <1>1, TransferFacts DEF FlightInv, Running
<1>3. NextPiece(t) = Piece(m, n) /\ NextPiece(t) + 1 = n + 2
  BY <1>1, <1>2 DEF NextPiece, Piece
<1>4. SavedIsSent' /\ \E R, E, P, Q : History(R, E, P, Q)'
  BY <1>1, <1>2, <1>3, PieceArrival
<1>5. Onward /\ Transfer' = Transfer
  BY <1>1, <1>2, OnwardBecomes
<1>6. mishaps \subseteq mishaps'
  BY <1>1 DEF sendMessage, Cut
<1>7. transfers[t].from \in User /\ transfers[t].to \in Contact
  BY <1>2, TransferFacts
<1>8. Shown'
  BY <1>1, <1>5, <1>6, <1>7, ShownFinish DEF Arrival, Forward
<1> QED BY <1>4, <1>8 DEF Arrival

LEMMA RouteArrival == ASSUME FlightInv, Arrival, NEW u \in User, RouteFile(u) PROVE Arrival'
<1>1. SUFFICES ASSUME NEW m, m = Head(outbox[u]), NEW t, t = m.transfer PROVE Arrival'
  OBVIOUS
<1>2. /\ outbox[u] # <<>> /\ outbox' = [outbox EXCEPT ![u] = Tail(@)]
      /\ inbox' = [v \in User |-> IF v \in Receivers(t) /\ link[v] = "up" THEN Append(inbox[v], m)
                                                                          ELSE inbox[v]]
      /\ IF \A v \in Receivers(t) : link[v] = "up" THEN UNCHANGED mishaps ELSE Cut({t})
      /\ UNCHANGED <<link, transfers, incomingFiles, downloads, windowVars, delivered, overlaps>>
  BY <1>1 DEF RouteFile
<1>3. /\ TypeOK /\ Addressed /\ outbox \in [User -> Seq(Message)]
      /\ Transfer \subseteq 1..MaxTransfers
      /\ \A s \in Transfer : transfers[s].from \in User /\ transfers[s].chunks \in Nat
      /\ \A x \in User : outbox[x] \in Seq(Message) /\ inbox[x] \in Seq(Message)
  BY TransferFacts, PieceFacts, QueueFacts DEF FlightInv, TypeOK
<1>4. m \in ToSet(outbox[u]) /\ m \in Message /\ t \in Transfer /\ transfers[t].from = u
  BY <1>1, <1>2, <1>3, QueueFacts DEF Addressed
<1>5. /\ outbox'[u] = Tail(outbox[u]) /\ \A x \in User \ {u} : outbox'[x] = outbox[x]
      /\ \A v \in User : inbox'[v] = IF v \in Receivers(t) /\ link[v] = "up"
                                     THEN Append(inbox[v], m) ELSE inbox[v]
  BY <1>2, <1>3
<1>6. /\ mishaps \subseteq mishaps'
      /\ \A s \in Transfer \ {t} : IsCut(s)' <=> IsCut(s)
      /\ ~IsCut(t)' => \A v \in Receivers(t) : link[v] = "up"
  BY <1>2 DEF Cut, IsCut
<1>7. Forward /\ Transfer' = Transfer /\ Len(transfers') = Len(transfers)
  BY <1>2, <1>6, ForwardSame
<1>8. SavedIsSent'
  BY <1>2, <1>7, SavedParts, SavedPartsNext, SavedAtKept DEF Arrival
<1>9. Shown'
  BY <1>2, <1>7, ShownKept DEF windowVars, Arrival
<1>10. PICK R, E, P, Q : History(R, E, P, Q)
  BY DEF Arrival
<1>11. /\ R \in PerReader /\ E \in PerReader /\ P \in PerFile /\ Q \in PerFile
       /\ \A s \in Transfer :
             /\ P[s] \in Nat /\ Q[s] \in Nat /\ SentOf(s, P[s], Q[s])
             /\ \A v \in User : /\ R[s][v] \in Nat /\ E[s][v] \in Nat
                                /\ TakenOf(s, v, R[s][v], E[s][v], P[s])
       /\ \A s, k \in Transfer : ApartAt(R, P, s, k)
       /\ \A v, x \in User : OpenAt(R, v, x)
       /\ \A s \in Transfer, v \in User : KeptAt(R, s, v)
  BY <1>10, HistoryFacts
<1>12. PICK P1 \in PerFile : P1[t] = P[t] + 1 /\ \A s \in 1..MaxTransfers \ {t} : P1[s] = P[s]
  <2>1. [s \in 1..MaxTransfers |-> IF s = t THEN P[s] + 1 ELSE P[s]] \in PerFile
    BY <1>11 DEF PerFile
  <2> QED BY <1>3, <1>4, <2>1
<1>13. PICK E1 \in PerReader :
          /\ \A v \in User : E1[t][v] = IF v \in Receivers(t) /\ link[v] = "up"
                                        THEN E[t][v] + 1 ELSE E[t][v]
          /\ \A s \in 1..MaxTransfers \ {t} : E1[s] = E[s]
  <2>1. [v \in User |-> IF v \in Receivers(t) /\ link[v] = "up"
                        THEN E[t][v] + 1 ELSE E[t][v]] \in [User -> Nat]
    BY <1>3, <1>4, <1>11
  <2>2. [E EXCEPT ![t] = [v \in User |-> IF v \in Receivers(t) /\ link[v] = "up"
                                         THEN E[t][v] + 1 ELSE E[t][v]]] \in PerReader
    BY <1>11, <2>1 DEF PerReader
  <2> QED BY <1>3, <1>4, <1>11, <2>2 DEF PerReader
\* The next piece of t to pass the server is the one at the head of the queue.
<1>14. /\ Piece(m, transfers[t].chunks) = P[t] /\ P[t] < Q[t] /\ Q[t] <= NextPiece(t)
       /\ Carries(outbox'[u], t, transfers[t].chunks, P[t] + 1, Q[t])
  <2>1. Carries(outbox[u], t, transfers[t].chunks, P[t], Q[t]) /\ Q[t] <= NextPiece(t)
    BY <1>4, <1>11 DEF SentOf
  <2>2. P[t] \in Nat /\ Q[t] \in Nat /\ transfers[t].chunks \in Nat /\ outbox[u] \in Seq(Message)
    BY <1>3, <1>4, <1>11
  <2>3. /\ Piece(m, transfers[t].chunks) = P[t] /\ P[t] < Q[t]
        /\ Carries(Tail(outbox[u]), t, transfers[t].chunks, P[t] + 1, Q[t])
    BY <1>1, <1>2, <2>1, <2>2, CarriesTail
  <2> QED BY <1>5, <2>1, <2>3
<1>15. ASSUME NEW s \in Transfer PROVE SentOf(s, P1[s], Q[s])'
  <2>1. CASE s = t
    <3>1. P1[t] = P[t] + 1 /\ P[t] \in Nat /\ Q[t] \in Nat /\ P1[t] <= Q[t]
      BY <1>4, <1>11, <1>12, <1>14
    <3>2. /\ ~IsCut(t) \/ (Running(t) /\ link[transfers[t].from] # "down") => Q[t] = NextPiece(t)
          /\ transfers[t].thread = "ended" => IsCut(t)
      BY <1>4, <1>11 DEF SentOf
    <3>3. IsCut(t) => IsCut(t)'
      BY <1>6 DEF IsCut
    <3>4. NextPiece(t)' = NextPiece(t) /\ (Running(t)' <=> Running(t))
      BY <1>2 DEF NextPiece, Running
    <3> QED BY <1>2, <1>4, <1>14, <2>1, <3>1, <3>2, <3>3, <3>4 DEF SentOf
  <2>2. CASE s # t
    <3>1. P1[s] = P[s]
      BY <1>3, <1>12, <2>2
    <3>2. CASE transfers[s].from # u
      BY <1>2, <1>3, <1>5, <1>7, <1>11, <3>1, <3>2, SentKept
    <3>3. CASE transfers[s].from = u
      <4>1. Carries(outbox[u], s, transfers[s].chunks, P[s], Q[s])
        BY <1>11, <3>3 DEF SentOf
      <4>2. Carries(Tail(outbox[u]), s, transfers[s].chunks, P[s], Q[s])
        BY <1>1, <1>2, <1>3, <1>11, <2>2, <4>1, CarriesTail
      <4>3. NextPiece(s)' = NextPiece(s) /\ (Running(s)' <=> Running(s)) /\ (IsCut(s)' <=> IsCut(s))
        BY <1>2, <1>6, <2>2 DEF NextPiece, Running
      <4>4. /\ P[s] <= Q[s] /\ Q[s] <= NextPiece(s)
            /\ ~IsCut(s) \/ (Running(s) /\ link[transfers[s].from] # "down") => Q[s] = NextPiece(s)
            /\ transfers[s].thread = "ended" => IsCut(s)
        BY <1>11 DEF SentOf
      <4> QED BY <1>2, <1>5, <3>1, <3>3, <4>2, <4>3, <4>4 DEF SentOf
    <3> QED BY <3>2, <3>3
  <2> QED BY <2>1, <2>2
<1>16. ASSUME NEW s \in Transfer, NEW v \in User PROVE TakenOf(s, v, R[s][v], E1[s][v], P1[s])'
  <2>0. /\ R[s][v] \in Nat /\ E[s][v] \in Nat /\ P[s] \in Nat /\ transfers[s].chunks \in Nat
        /\ R[s][v] <= E[s][v] /\ E[s][v] <= P[s]
        /\ Carries(inbox[v], s, transfers[s].chunks, R[s][v], E[s][v])
        /\ v \in Receivers(s) /\ (link[v] = "up" \/ ~IsCut(s)) => E[s][v] = P[s]
    BY <1>3, <1>11 DEF TakenOf
  <2>1. Receivers(s)' = Receivers(s) /\ transfers'[s].chunks = transfers[s].chunks
    BY <1>2 DEF Receivers
  <2>2. IsCut(s) => IsCut(s)'
    BY <1>6 DEF IsCut
  <2>3. CASE s = t /\ v \in Receivers(t) /\ link[v] = "up"
    <3>1. E[t][v] = P[t] /\ E1[t][v] = E[t][v] + 1 /\ P1[t] = P[t] + 1
      BY <1>12, <1>13, <2>0, <2>3
    <3>2. Carries(Append(inbox[v], m), t, transfers[t].chunks, R[t][v], E[t][v] + 1)
      BY <1>1, <1>3, <1>4, <1>14, <2>0, <2>3, <3>1, CarriesAppend
    <3>3. inbox'[v] = Append(inbox[v], m)
      BY <1>5, <2>3
    <3>4. R[t][v] <= E1[t][v] /\ E1[t][v] = P1[t] /\ E1[t][v] <= P1[t]
      BY <2>0, <2>3, <3>1
    <3> QED BY <2>1, <2>3, <3>1, <3>2, <3>3, <3>4 DEF TakenOf
  <2>4. CASE s = t /\ ~(v \in Receivers(t) /\ link[v] = "up")
    <3>1. E1[t][v] = E[t][v] /\ P1[t] = P[t] + 1 /\ inbox'[v] = inbox[v]
      BY <1>5, <1>12, <1>13, <2>4
    <3>2. E[t][v] <= P1[t]
      BY <2>0, <2>4, <3>1
    <3>3. ~(v \in Receivers(t) /\ (link[v] = "up" \/ ~IsCut(t)'))
      BY <1>6, <2>4
    <3> QED BY <1>2, <2>0, <2>1, <2>4, <3>1, <3>2, <3>3 DEF TakenOf
  <2>5. CASE s # t
    <3>1. E1[s][v] = E[s][v] /\ P1[s] = P[s]
      BY <1>3, <1>12, <1>13, <2>5
    <3>2. Carries(inbox'[v], s, transfers[s].chunks, R[s][v], E[s][v])
      BY <1>1, <1>3, <1>4, <1>5, <2>0, <2>5, CarriesAppend, SMTT(30)
    <3> QED BY <1>2, <2>0, <2>1, <2>2, <3>1, <3>2 DEF TakenOf
  <2> QED BY <2>3, <2>4, <2>5
<1>17. ASSUME NEW s \in Transfer, NEW k \in Transfer PROVE ApartAt(R, P1, s, k)'
  <2>1. SUFFICES ASSUME s < k, transfers[s].from = transfers[k].from, {s, k} \notin overlaps
                 PROVE  LET w == transfers[s].from
                        IN  /\ ~Running(s)
                            /\ Before(outbox'[w], s, k)
                            /\ P1[k] > 0 => Lacks(outbox'[w], s)
                            /\ \A v \in User :
                                  /\ Before(inbox'[v], s, k)
                                  /\ R[k][v] > 0 => /\ Lacks(inbox'[v], s)
                                                    /\ incomingFiles[v][w].transfer # s
    BY <1>2 DEF ApartAt, Running
  <2>2. LET w == transfers[s].from
        IN  /\ ~Running(s)
            /\ Before(outbox[w], s, k)
            /\ P[k] > 0 => Lacks(outbox[w], s)
            /\ \A v \in User :
                  /\ Before(inbox[v], s, k)
                  /\ R[k][v] > 0 => Lacks(inbox[v], s) /\ incomingFiles[v][w].transfer # s
    BY <1>11, <2>1 DEF ApartAt
  <2>3. s \in Nat /\ k \in Nat /\ s # k
    BY <1>3, <2>1, TransferFacts
  <2>4. k = t => Lacks(outbox[u], s) /\ transfers[s].from = u
    BY <1>1, <1>2, <1>3, <1>4, <2>1, <2>2, OrderTail
  <2>5. /\ Before(outbox'[transfers[s].from], s, k)
        /\ P1[k] > 0 => Lacks(outbox'[transfers[s].from], s)
    <3>1. CASE transfers[s].from # u
      <4>1. k # t
        BY <1>4, <2>1, <3>1
      <4>2. P1[k] = P[k] /\ outbox'[transfers[s].from] = outbox[transfers[s].from]
        BY <1>3, <1>5, <1>12, <3>1, <4>1
      <4> QED BY <2>2, <4>2
    <3>2. CASE transfers[s].from = u
      <4>1. Before(Tail(outbox[u]), s, k)
        BY <1>2, <1>3, <2>2, <3>2, OrderTail
      <4>2. P1[k] > 0 => Lacks(outbox[u], s)
        BY <1>3, <1>12, <2>2, <2>4, <3>2
      <4>3. P1[k] > 0 => Lacks(Tail(outbox[u]), s)
        BY <1>2, <1>3, <4>2, OrderTail
      <4> QED BY <1>5, <3>2, <4>1, <4>3
    <3> QED BY <3>1, <3>2
  \* A piece of the earlier file is at the head only if the later one has not passed.
  <2>6. s = t => P[k] = 0
    <3>1. SUFFICES ASSUME s = t PROVE ~Lacks(outbox[u], s) /\ P[k] \in Nat
      BY <1>4, <2>2
    <3> QED BY <1>1, <1>2, <1>3, <1>11, <3>1, OrderTail
  <2>7. ASSUME NEW v \in User
        PROVE  /\ Before(inbox'[v], s, k)
               /\ R[k][v] > 0 => Lacks(inbox'[v], s)
    <3>0. CASE inbox'[v] = inbox[v]
      BY <2>2, <3>0
    <3>1. CASE inbox'[v] = Append(inbox[v], m) /\ s # t
      BY <1>1, <1>3, <1>4, <2>2, <3>1, OrderAppend
    <3>2. CASE inbox'[v] = Append(inbox[v], m) /\ s = t
      <4>1. P[k] = 0 /\ R[k][v] \in Nat /\ E[k][v] \in Nat /\ TakenOf(k, v, R[k][v], E[k][v], P[k])
        BY <1>11, <2>6, <3>2
      <4>2. R[k][v] = 0 /\ E[k][v] = 0
        BY <4>1 DEF TakenOf
      <4>3. Carries(inbox[v], k, transfers[k].chunks, 0, 0)
        BY <4>1, <4>2 DEF TakenOf
      <4>4. Lacks(inbox[v], k)
        BY <1>3, <4>3, LacksWhenLevel
      <4>5. Before(Append(inbox[v], m), s, k)
        BY <1>1, <1>3, <1>4, <2>3, <3>2, <4>4, OrderAppend
      <4> QED BY <3>2, <4>2, <4>5
    <3> QED BY <1>5, <3>0, <3>1, <3>2
  <2> QED BY <2>2, <2>5, <2>7
<1>18. ASSUME NEW v \in User, NEW x \in User PROVE OpenAt(R, v, x)'
  BY <1>2, <1>7, <1>11, OpenAtKept
<1>19. ASSUME NEW s \in Transfer, NEW v \in User PROVE KeptAt(R, s, v)'
  BY <1>2, <1>3, <1>7, <1>11, KeptAtKept
<1>20. \A s \in 1..MaxTransfers \ Transfer :
          R[s] = R[s] /\ E1[s] = E[s] /\ P1[s] = P[s] /\ Q[s] = Q[s]
  BY <1>4, <1>12, <1>13
<1>21. \A s \in Transfer : /\ SentOf(s, P1[s], Q[s])'
                           /\ \A v \in User : TakenOf(s, v, R[s][v], E1[s][v], P1[s])'
  BY <1>15, <1>16
<1>22. \E A, B, C, D : History(A, B, C, D)'
  BY <1>7, <1>10, <1>11, <1>12, <1>13, <1>17, <1>18, <1>19, <1>20, <1>21, HistoryNext
<1> QED BY <1>8, <1>9, <1>22 DEF Arrival

\* What a broken connection leaves of a queue are again pieces in order.
LEMMA PrefixPieces ==
    ASSUME FlightInv, NEW A \in PerFile, NEW B \in PerFile, NEW q \in Seq(Message), NEW i \in 0..Len(q),
           NEW S \in SUBSET Transfer,
           \A t \in S : Carries(q, t, transfers[t].chunks, A[t], B[t])
    PROVE  \E C \in PerFile :
              /\ \A t \in 1..MaxTransfers \ S : C[t] = B[t]
              /\ \A t \in S : /\ A[t] <= C[t] /\ C[t] <= B[t]
                              /\ Carries(SubSeq(q, 1, i), t, transfers[t].chunks, A[t], C[t])
<1> DEFINE G(t, c) == /\ A[t] <= c /\ c <= B[t]
                      /\ Carries(SubSeq(q, 1, i), t, transfers[t].chunks, A[t], c)
           C == [t \in 1..MaxTransfers |-> IF t \in S THEN CHOOSE c \in Nat : G(t, c) ELSE B[t]]
<1>1. Transfer \subseteq 1..MaxTransfers /\ \A t \in Transfer : transfers[t].chunks \in Nat
  BY PieceFacts, TransferFacts DEF FlightInv
<1>2. ASSUME NEW t \in S PROVE \E c \in Nat : G(t, c)
  <2>1. A[t] \in Nat /\ B[t] \in Nat /\ transfers[t].chunks \in Nat
    BY <1>1 DEF PerFile
  <2>2. PICK c \in A[t]..B[t] : Carries(SubSeq(q, 1, i), t, transfers[t].chunks, A[t], c)
    BY <2>1, CarriesPrefix
  <2>3. c \in Nat /\ A[t] <= c /\ c <= B[t]
    BY <2>1
  <2> QED BY <2>2, <2>3
<1> HIDE DEF G
<1>3. \A t \in S : (CHOOSE c \in Nat : G(t, c)) \in Nat /\ G(t, CHOOSE c \in Nat : G(t, c))
  BY <1>2
<1>4. C \in PerFile
  BY <1>3 DEF PerFile
<1>5. \A t \in 1..MaxTransfers \ S : C[t] = B[t]
  OBVIOUS
<1>6. \A t \in S : G(t, C[t])
  BY <1>1, <1>3
<1> HIDE DEF C
<1>7. \A t \in S : /\ A[t] <= C[t] /\ C[t] <= B[t]
                   /\ Carries(SubSeq(q, 1, i), t, transfers[t].chunks, A[t], C[t])
  BY <1>6 DEF G
<1> QED BY <1>4, <1>5, <1>7

\* The connection of u is lost: what is cut was under way, everything else is level.
LEMMA LostFlow ==
    ASSUME FlightInv, Forward, Len(transfers') = Len(transfers),
           NEW R, NEW E, NEW P, NEW Q, History(R, E, P, Q), NEW u \in User, CutFor(u),
           NEW q \in Seq(Message), NEW E1 \in PerReader, outbox'[u] = q,
           \E i \in 0..Len(outbox[u]) : q = SubSeq(outbox[u], 1, i),
           \A x \in User \ {u} : outbox'[x] = outbox[x] /\ inbox'[x] = inbox[x] /\ link'[x] = link[x],
           link'[u] = "down",
           \A t \in Transfer : \/ transfers'[t] = transfers[t]
                               \/ Running(t) /\ transfers[t].from = u /\ transfers'[t].thread = "ended",
           \A t \in 1..MaxTransfers, v \in User \ {u} : E1[t][v] = E[t][v],
           \A t \in Transfer : /\ R[t][u] <= E1[t][u] /\ E1[t][u] <= E[t][u]
                               /\ Carries(inbox'[u], t, transfers[t].chunks, R[t][u], E1[t][u])
    PROVE  \E Q1 \in PerFile :
              /\ \A t \in 1..MaxTransfers \ Transfer : Q1[t] = Q[t]
              /\ \A t \in Transfer : /\ SentOf(t, P[t], Q1[t])'
                                     /\ \A v \in User : TakenOf(t, v, R[t][v], E1[t][v], P[t])'
<1>1. /\ TypeOK /\ Transfer \subseteq 1..MaxTransfers
      /\ \A t \in Transfer : /\ transfers[t].from \in User /\ transfers[t].chunks \in Nat
                             /\ NextPiece(t) \in Nat /\ NextPiece(t) <= transfers[t].chunks + 2
      /\ \A x \in User : outbox[x] \in Seq(Message) /\ inbox[x] \in Seq(Message)
  BY TransferFacts, PieceFacts, QueueFacts DEF FlightInv
<1>2. /\ R \in PerReader /\ E \in PerReader /\ P \in PerFile /\ Q \in PerFile
      /\ \A t \in Transfer :
            /\ P[t] \in Nat /\ Q[t] \in Nat /\ SentOf(t, P[t], Q[t])
            /\ \A v \in User : /\ R[t][v] \in Nat /\ E[t][v] \in Nat
                               /\ TakenOf(t, v, R[t][v], E[t][v], P[t])
  BY HistoryFacts
<1>3. /\ \A t \in Transfer : u \in Involved(t) /\ UnderWay(t) => IsCut(t)'
      /\ \A t \in Transfer : IsCut(t) => IsCut(t)'
  BY <1>1, CutForFacts DEF IsCut
<1>4. \A t \in Transfer : /\ transfers'[t].from = transfers[t].from
                          /\ transfers'[t].chunks = transfers[t].chunks
                          /\ Receivers(t)' = Receivers(t)
  BY <1>1, OnwardNames DEF Forward, Onward
<1>5. PICK Q1 \in PerFile :
         /\ \A t \in 1..MaxTransfers : t \notin Transfer \/ transfers[t].from # u => Q1[t] = Q[t]
         /\ \A t \in Transfer : transfers[t].from = u =>
               /\ P[t] <= Q1[t] /\ Q1[t] <= Q[t]
               /\ Carries(q, t, transfers[t].chunks, P[t], Q1[t])
  <2>1. PICK i \in 0..Len(outbox[u]) : q = SubSeq(outbox[u], 1, i)
    OBVIOUS
  <2>2. PICK S \in SUBSET Transfer : \A t \in Transfer : t \in S <=> transfers[t].from = u
    <3>1. {t \in Transfer : transfers[t].from = u} \in SUBSET Transfer
      OBVIOUS
    <3> QED BY <3>1
  <2>3. \A t \in S : Carries(outbox[u], t, transfers[t].chunks, P[t], Q[t])
    BY <1>2, <2>2 DEF SentOf
  <2>4. PICK o \in Seq(Message) : o = outbox[u]
    BY <1>1
  <2>5. i \in 0..Len(o) /\ \A t \in S : Carries(o, t, transfers[t].chunks, P[t], Q[t])
    BY <2>3, <2>4
  <2>6. P \in PerFile /\ Q \in PerFile
    BY <1>2
  <2>7. \E C \in PerFile :
           /\ \A t \in 1..MaxTransfers \ S : C[t] = Q[t]
           /\ \A t \in S : /\ P[t] <= C[t] /\ C[t] <= Q[t]
                           /\ Carries(SubSeq(o, 1, i), t, transfers[t].chunks, P[t], C[t])
    BY <2>5, <2>6, PrefixPieces, ZenonT(180)
  <2>8. q = SubSeq(o, 1, i)
    BY <2>1, <2>4
  <2> QED BY <2>2, <2>7, <2>8
<1>6. ASSUME NEW t \in Transfer, transfers[t].from # u PROVE SentOf(t, P[t], Q1[t])'
  <2>1. Q1[t] = Q[t] /\ transfers'[t] = transfers[t]
    BY <1>1, <1>5, <1>6
  <2> QED BY <1>1, <1>2, <1>6, <2>1, SentKept
<1>7. ASSUME NEW t \in Transfer, transfers[t].from = u PROVE SentOf(t, P[t], Q1[t])'
  <2>1. /\ P[t] \in Nat /\ Q[t] \in Nat /\ Q1[t] \in Nat
        /\ P[t] <= Q1[t] /\ Q1[t] <= Q[t] /\ Q[t] <= NextPiece(t)
        /\ Carries(q, t, transfers[t].chunks, P[t], Q1[t])
        /\ Carries(outbox[u], t, transfers[t].chunks, P[t], Q[t])
    BY <1>1, <1>2, <1>5, <1>7 DEF SentOf, PerFile
  <2>2. u \in Involved(t)
    BY <1>7 DEF Involved
  <2>3. CASE ~IsCut(t)'
    <3>1. ~UnderWay(t) /\ ~IsCut(t)
      BY <1>3, <2>2, <2>3
    <3>2. ~Running(t) /\ Lacks(outbox[u], t)
      BY <1>1, <3>1, UnderWayFlies, LacksMessages
    <3>3. transfers'[t] = transfers[t]
      BY <3>2
    <3>4. P[t] = Q[t]
      BY <1>1, <2>1, <3>2, CarriesLacks
    <3>5. Q1[t] = Q[t]
      BY <2>1, <3>4
    <3>6. Q[t] = NextPiece(t) /\ transfers[t].thread # "ended"
      BY <1>2, <3>1 DEF SentOf
    <3>7. NextPiece(t)' = NextPiece(t)
      BY <3>3 DEF NextPiece
    <3> QED BY <1>4, <1>7, <2>1, <3>3, <3>5, <3>6, <3>7 DEF SentOf
  <2>4. CASE IsCut(t)'
    <3>1. NextPiece(t)' >= NextPiece(t) /\ NextPiece(t)' \in Nat
      <4>1. CASE transfers'[t] = transfers[t]
        <5>1. NextPiece(t)' = NextPiece(t)
          BY <4>1 DEF NextPiece
        <5> QED BY <1>1, <5>1
      <4>2. CASE transfers'[t].thread = "ended"
        <5>1. NextPiece(t)' = transfers[t].chunks + 2
          BY <1>4, <4>2 DEF NextPiece
        <5> QED BY <1>1, <5>1
      <4> QED BY <4>1, <4>2
    <3>2. Q1[t] <= NextPiece(t)'
      BY <1>1, <2>1, <3>1
    <3> QED BY <1>4, <1>7, <2>1, <2>4, <3>2 DEF SentOf
  <2> QED BY <2>3, <2>4
<1>8. ASSUME NEW t \in Transfer, NEW v \in User PROVE TakenOf(t, v, R[t][v], E1[t][v], P[t])'
  <2>1. CASE v # u
    <3>1. E1[t][v] = E[t][v]
      BY <1>1, <2>1
    <3> QED BY <1>2, <2>1, <3>1, TakenKept
  <2>2. CASE v = u
    <3>1. /\ R[t][u] \in Nat /\ E[t][u] \in Nat /\ P[t] \in Nat /\ E1[t][u] \in Nat
          /\ R[t][u] <= E1[t][u] /\ E1[t][u] <= E[t][u] /\ E[t][u] <= P[t]
          /\ Carries(inbox[u], t, transfers[t].chunks, R[t][u], E[t][u])
          /\ u \in Receivers(t) /\ ~IsCut(t) => E[t][u] = P[t]
      BY <1>1, <1>2 DEF TakenOf, PerReader
    <3>2. ASSUME u \in Receivers(t), ~IsCut(t)' PROVE E1[t][u] = P[t]
      <4>1. ~UnderWay(t) /\ ~IsCut(t)
        BY <1>3, <3>2 DEF Involved
      <4>2. Lacks(inbox[u], t)
        BY <1>1, <4>1, UnderWayFlies, LacksMessages
      <4>3. transfers[t].chunks \in Nat
        BY <1>1
      <4>4. R[t][u] = E[t][u]
        BY <3>1, <4>2, <4>3, CarriesLacks
      <4> QED BY <3>1, <3>2, <4>1, <4>4
    <3>3. E1[t][u] <= P[t]
      BY <3>1
    <3> QED BY <1>4, <2>2, <3>1, <3>2, <3>3 DEF TakenOf
  <2> QED BY <2>1, <2>2
<1>9. \A t \in 1..MaxTransfers \ Transfer : Q1[t] = Q[t]
  BY <1>5
<1> QED BY <1>6, <1>7, <1>8, <1>9

\* The connection of u is lost, or its program ends and with it what u was reading.
LEMMA LostArrival ==
    ASSUME FlightInv, Forward, Len(transfers') = Len(transfers), Arrival, NEW u \in User, CutFor(u),
           \E i \in 0..Len(outbox[u]) : outbox'[u] = SubSeq(outbox[u], 1, i),
           \E i \in 0..Len(inbox[u]) : inbox'[u] = SubSeq(inbox[u], 1, i),
           \A x \in User \ {u} : outbox'[x] = outbox[x] /\ inbox'[x] = inbox[x] /\ link'[x] = link[x],
           link'[u] = "down",
           \A t \in Transfer : \/ transfers'[t] = transfers[t]
                               \/ Running(t) /\ transfers[t].from = u /\ transfers'[t].thread = "ended",
           \A x, y \in User : \/ incomingFiles'[x][y] = incomingFiles[x][y]
                              \/ x = u /\ incomingFiles'[x][y] = Absent,
           UNCHANGED <<downloads, overlaps>>
    PROVE  SavedIsSent' /\ \E R, E, P, Q : History(R, E, P, Q)'
<1>1. /\ TypeOK /\ Transfer \subseteq 1..MaxTransfers
      /\ \A t \in Transfer : transfers[t].from \in User /\ transfers[t].chunks \in Nat /\ t # 0
      /\ \A x \in User : outbox[x] \in Seq(Message) /\ inbox[x] \in Seq(Message)
  BY TransferFacts, PieceFacts, QueueFacts DEF FlightInv
<1>2. SavedIsSent'
  BY SavedParts, SavedPartsNext, SavedAtKept DEF Arrival
<1>3. PICK R, E, P, Q : History(R, E, P, Q)
  BY DEF Arrival
<1>4. /\ R \in PerReader /\ E \in PerReader /\ P \in PerFile /\ Q \in PerFile
      /\ \A s \in Transfer :
            /\ P[s] \in Nat /\ Q[s] \in Nat /\ SentOf(s, P[s], Q[s])
            /\ \A v \in User : /\ R[s][v] \in Nat /\ E[s][v] \in Nat
                               /\ TakenOf(s, v, R[s][v], E[s][v], P[s])
      /\ \A s, k \in Transfer : ApartAt(R, P, s, k)
      /\ \A v, x \in User : OpenAt(R, v, x)
      /\ \A s \in Transfer, v \in User : KeptAt(R, s, v)
  BY <1>3, HistoryFacts
<1>5. PICK q \in Seq(Message) : /\ outbox'[u] = q
                                /\ \E i \in 0..Len(outbox[u]) : q = SubSeq(outbox[u], 1, i)
  BY <1>1, QueuePrefix
<1>6. PICK F \in PerFile :
         \A t \in Transfer : /\ R[t][u] <= F[t] /\ F[t] <= E[t][u]
                             /\ Carries(inbox'[u], t, transfers[t].chunks, R[t][u], F[t])
  <2>1. PICK o \in Seq(Message) : o = inbox[u]
    BY <1>1
  <2>2. PICK i \in 0..Len(o) : inbox'[u] = SubSeq(o, 1, i)
    BY <2>1
  <2>3. PICK A \in PerFile : \A t \in 1..MaxTransfers : A[t] = R[t][u]
    <3>1. [t \in 1..MaxTransfers |-> R[t][u]] \in PerFile
      BY <1>4 DEF PerFile, PerReader
    <3> QED BY <3>1
  <2>4. PICK B \in PerFile : \A t \in 1..MaxTransfers : B[t] = E[t][u]
    <3>1. [t \in 1..MaxTransfers |-> E[t][u]] \in PerFile
      BY <1>4 DEF PerFile, PerReader
    <3> QED BY <3>1
  <2>5. PICK S \in SUBSET Transfer : S = Transfer
    OBVIOUS
  <2>6. \A t \in S : Carries(o, t, transfers[t].chunks, A[t], B[t])
    BY <1>1, <1>4, <2>1, <2>3, <2>4 DEF TakenOf
  <2>7. \E C \in PerFile :
           /\ \A t \in 1..MaxTransfers \ S : C[t] = B[t]
           /\ \A t \in S : /\ A[t] <= C[t] /\ C[t] <= B[t]
                           /\ Carries(SubSeq(o, 1, i), t, transfers[t].chunks, A[t], C[t])
    BY <2>6, PrefixPieces, ZenonT(180)
  <2>8. PICK C \in PerFile :
           \A t \in S : /\ A[t] <= C[t] /\ C[t] <= B[t]
                        /\ Carries(SubSeq(o, 1, i), t, transfers[t].chunks, A[t], C[t])
    BY <2>7
  <2>9. \A t \in Transfer : /\ R[t][u] <= C[t] /\ C[t] <= E[t][u]
                            /\ Carries(inbox'[u], t, transfers[t].chunks, R[t][u], C[t])
    <3> SUFFICES ASSUME NEW t \in Transfer
                 PROVE  /\ R[t][u] <= C[t] /\ C[t] <= E[t][u]
                        /\ Carries(inbox'[u], t, transfers[t].chunks, R[t][u], C[t])
      OBVIOUS
    <3>1. t \in S /\ A[t] = R[t][u] /\ B[t] = E[t][u]
      BY <1>1, <2>3, <2>4, <2>5
    <3> QED BY <2>2, <2>8, <3>1
  <2> QED BY <2>9
<1>7. PICK E1 \in PerReader :
         /\ \A t \in 1..MaxTransfers, v \in User \ {u} : E1[t][v] = E[t][v]
         /\ \A t \in Transfer : E1[t][u] = F[t]
         /\ \A t \in 1..MaxTransfers \ Transfer : E1[t] = E[t]
  <2>1. PICK S \in SUBSET Transfer : S = Transfer
    OBVIOUS
  <2>2. PICK G \in PerReader : G = [t \in 1..MaxTransfers |-> [v \in User |->
                                      IF v = u /\ t \in S THEN F[t] ELSE E[t][v]]]
    BY <1>4 DEF PerFile, PerReader
  <2>3. \A t \in 1..MaxTransfers, v \in User :
           G[t][v] = IF v = u /\ t \in S THEN F[t] ELSE E[t][v]
    BY <2>2
  <2>4. ASSUME NEW t \in 1..MaxTransfers \ S PROVE G[t] = E[t]
    <3>1. G[t] \in [User -> Nat] /\ E[t] \in [User -> Nat]
      BY <1>4 DEF PerReader
    <3> QED BY <2>3, <2>4, <3>1
  <2> QED BY <1>1, <2>1, <2>3, <2>4, ZenonT(60)
<1>8. PICK Q1 \in PerFile :
         /\ \A t \in 1..MaxTransfers \ Transfer : Q1[t] = Q[t]
         /\ \A t \in Transfer : /\ SentOf(t, P[t], Q1[t])'
                                /\ \A v \in User : TakenOf(t, v, R[t][v], E1[t][v], P[t])'
  <2>1. \A t \in Transfer : /\ R[t][u] <= E1[t][u] /\ E1[t][u] <= E[t][u]
                            /\ Carries(inbox'[u], t, transfers[t].chunks, R[t][u], E1[t][u])
    BY <1>6, <1>7
  <2>2. \A t \in 1..MaxTransfers, v \in User \ {u} : E1[t][v] = E[t][v]
    BY <1>7
  <2>3. outbox'[u] = q /\ \E i \in 0..Len(outbox[u]) : q = SubSeq(outbox[u], 1, i)
    BY <1>5
  <2> QED BY <1>3, <2>1, <2>2, <2>3, LostFlow, ZenonT(180)
<1>9. ASSUME NEW s \in Transfer, NEW t \in Transfer PROVE ApartAt(R, P, s, t)'
  <2>1. SUFFICES ASSUME s < t, transfers'[s].from = transfers'[t].from, {s, t} \notin overlaps'
                 PROVE  LET w == transfers'[s].from
                        IN  /\ ~Running(s)'
                            /\ Before(outbox'[w], s, t)
                            /\ P[t] > 0 => Lacks(outbox'[w], s)
                            /\ \A v \in User :
                                  /\ Before(inbox'[v], s, t)
                                  /\ R[t][v] > 0 => /\ Lacks(inbox'[v], s)
                                                    /\ incomingFiles'[v][w].transfer # s
    BY DEF ApartAt
  <2>2. /\ transfers'[s].from = transfers[s].from /\ transfers'[t].from = transfers[t].from
        /\ Running(s)' => Running(s)
    BY <1>1, OnwardNames DEF Forward, Onward
  <2>3. LET w == transfers[s].from
        IN  /\ ~Running(s)
            /\ Before(outbox[w], s, t)
            /\ P[t] > 0 => Lacks(outbox[w], s)
            /\ \A v \in User :
                  /\ Before(inbox[v], s, t)
                  /\ R[t][v] > 0 => Lacks(inbox[v], s) /\ incomingFiles[v][w].transfer # s
    BY <1>4, <2>1, <2>2 DEF ApartAt
  <2>4. ASSUME NEW x \in User
        PROVE  /\ Lacks(outbox[x], s) => Lacks(outbox'[x], s)
               /\ Before(outbox[x], s, t) => Before(outbox'[x], s, t)
    <3>1. PICK o \in Seq(Message) : o = outbox[x]
      BY <1>1
    <3>2. CASE x = u
      <4>1. PICK i \in 0..Len(o) : outbox'[x] = SubSeq(o, 1, i)
        BY <3>1, <3>2
      <4> QED BY <3>1, <4>1, OrderPrefix
    <3> QED BY <3>2
  <2>5. ASSUME NEW x \in User
        PROVE  /\ Lacks(inbox[x], s) => Lacks(inbox'[x], s)
               /\ Before(inbox[x], s, t) => Before(inbox'[x], s, t)
    <3>1. PICK o \in Seq(Message) : o = inbox[x]
      BY <1>1
    <3>2. CASE x = u
      <4>1. PICK i \in 0..Len(o) : inbox'[x] = SubSeq(o, 1, i)
        BY <3>1, <3>2
      <4> QED BY <3>1, <4>1, OrderPrefix
    <3> QED BY <3>2
  <2>6. \A x, y \in User : incomingFiles'[x][y].transfer \in {incomingFiles[x][y].transfer, 0}
    BY DEF Absent
  <2>7. ASSUME NEW v \in User
        PROVE  /\ Before(inbox'[v], s, t)
               /\ R[t][v] > 0 => /\ Lacks(inbox'[v], s)
                                 /\ incomingFiles'[v][transfers[s].from].transfer # s
    <3>1. transfers[s].from \in User /\ s # 0
      BY <1>1
    <3>2. Before(inbox'[v], s, t)
      BY <2>3, <2>5
    <3>3. ASSUME R[t][v] > 0
          PROVE  Lacks(inbox'[v], s) /\ incomingFiles'[v][transfers[s].from].transfer # s
      <4>1. Lacks(inbox[v], s) /\ incomingFiles[v][transfers[s].from].transfer # s
        BY <2>3, <3>3
      <4> QED BY <2>5, <2>6, <3>1, <4>1
    <3> QED BY <3>2, <3>3
  <2>8. /\ Before(outbox'[transfers[s].from], s, t)
        /\ P[t] > 0 => Lacks(outbox'[transfers[s].from], s)
    BY <1>1, <2>3, <2>4
  <2> QED BY <2>2, <2>3, <2>7, <2>8
<1>10. ASSUME NEW v \in User, NEW x \in User PROVE OpenAt(R, v, x)'
  BY <1>4, OpenAtKept
<1>11. ASSUME NEW t \in Transfer, NEW v \in User PROVE KeptAt(R, t, v)'
  <2>1. CASE incomingFiles'[v][transfers[t].from] = incomingFiles[v][transfers[t].from]
    BY <1>4, <2>1, KeptAtKept
  <2>2. CASE incomingFiles'[v][transfers[t].from] # incomingFiles[v][transfers[t].from]
    <3>1. v = u
      BY <1>1, <2>2
    <3>2. SUFFICES ASSUME ~IsCut(t)', v \in Receivers(t)', R[t][v] > 0, ~Mixed(t, v)'
                   PROVE  ~(R[t][v] <= transfers'[t].chunks + 1) /\ <<t, v>> \in delivered'
      BY DEF KeptAt
    <3>3. /\ v \in Receivers(t) /\ transfers'[t].chunks = transfers[t].chunks
          /\ ~IsCut(t) /\ ~Mixed(t, v) /\ delivered \subseteq delivered'
      <4>1. v \in Receivers(t) /\ transfers'[t].chunks = transfers[t].chunks
        BY <1>1, <3>2, OnwardNames DEF Forward, Onward
      <4>2. ~IsCut(t) /\ delivered \subseteq delivered'
        BY <3>2 DEF Forward, IsCut
      <4>3. ~Mixed(t, v)
        BY <1>1, <3>2, CrossedKept DEF Forward
      <4> QED BY <4>1, <4>2, <4>3
    <3>4. ~UnderWay(t)
      BY <1>1, <3>1, <3>2, <3>3, CutForFacts DEF Involved, IsCut
    <3>5. R[t][v] = transfers[t].chunks + 2
      BY <1>3, <3>2, <3>3, <3>4, NowhereLevel
    <3>6. ~(R[t][v] <= transfers[t].chunks + 1)
      BY <1>1, <3>5
    <3>7. <<t, v>> \in delivered
      BY <1>4, <3>2, <3>3, <3>6 DEF KeptAt
    <3> QED BY <3>3, <3>6, <3>7
  <2> QED BY <2>1, <2>2
<1>12. \A t \in 1..MaxTransfers \ Transfer :
          R[t] = R[t] /\ E1[t] = E[t] /\ P[t] = P[t] /\ Q1[t] = Q[t]
  BY <1>7, <1>8
<1>13. \A t \in Transfer : /\ SentOf(t, P[t], Q1[t])'
                           /\ \A v \in User : TakenOf(t, v, R[t][v], E1[t][v], P[t])'
  BY <1>8
<1>14. \E A, B, C, D : History(A, B, C, D)'
  BY <1>3, <1>4, <1>7, <1>8, <1>9, <1>10, <1>11, <1>12, <1>13, HistoryNext
<1> QED BY <1>2, <1>14

LEMMA BreakArrival == ASSUME FlightInv, Arrival, NEW u \in User, Break(u) PROVE Arrival'
<1>1. /\ \E i \in 0..Len(outbox[u]) : outbox'[u] = SubSeq(outbox[u], 1, i)
      /\ \E i \in 0..Len(inbox[u]) : inbox'[u] = SubSeq(inbox[u], 1, i)
      /\ \A x \in User \ {u} : outbox'[x] = outbox[x] /\ inbox'[x] = inbox[x]
      /\ link \in [User -> {"up", "unlisted", "down"}] /\ link' = [link EXCEPT ![u] = "down"]
  BY BreakFacts
<1>2. CutFor(u) /\ UNCHANGED <<program, transfers, incomingFiles, downloads, windowVars, delivered, overlaps>>
  BY DEF Break
<1>3. mishaps \subseteq mishaps'
  BY <1>2 DEF CutFor, Cut
<1>4. Forward /\ Transfer' = Transfer /\ Len(transfers') = Len(transfers)
  BY <1>2, <1>3, ForwardSame
<1>5. link'[u] = "down" /\ \A x \in User \ {u} : link'[x] = link[x]
  BY <1>1
<1>6. SavedIsSent' /\ \E R, E, P, Q : History(R, E, P, Q)'
  BY <1>1, <1>2, <1>4, <1>5, LostArrival
<1>7. Shown'
  BY <1>2, <1>4, ShownKept DEF windowVars, Arrival
<1> QED BY <1>6, <1>7 DEF Arrival

LEMMA LeaveArrival == ASSUME FlightInv, Arrival, NEW u \in User, Leave(u) PROVE Arrival'
<1>1. /\ \E i \in 0..Len(outbox[u]) : outbox'[u] = SubSeq(outbox[u], 1, i)
      /\ inbox'[u] = <<>>
      /\ \A x \in User \ {u} : outbox'[x] = outbox[x] /\ inbox'[x] = inbox[x]
      /\ \A y \in User : incomingFiles'[u][y] = Absent
      /\ \A x \in User \ {u}, y \in User : incomingFiles'[x][y] = incomingFiles[x][y]
      /\ \A x \in User \ {u} : link'[x] = link[x]
      /\ \A x \in User \ {u} : \A c \in Contact : activeTransfers'[x][c] = activeTransfers[x][c]
      /\ \A k \in 1..MaxTransfers, x \in User :
            widgets'[k][x] = IF x = u THEN "none" ELSE widgets[k][x]
      /\ link'[u] = "down" /\ Onward /\ Transfer' = Transfer
  BY LeaveFacts
<1>2. CutFor(u) /\ UNCHANGED <<downloads, delivered, overlaps>>
  BY DEF Leave
<1>3. /\ TypeOK /\ Transfer \subseteq 1..MaxTransfers /\ Len(transfers) \in Nat
      /\ inbox[u] \in Seq(Message)
      /\ \A t \in Transfer, x \in User : Key(t, x) \in Contact
  BY TransferFacts, PieceFacts, QueueFacts DEF FlightInv
<1>4. /\ Len(transfers') = Len(transfers)
      /\ \A t \in Transfer : \/ transfers'[t] = transfers[t]
                             \/ Running(t) /\ transfers[t].from = u /\ transfers'[t].thread = "ended"
  <2>1. transfers' = [t \in Transfer |->
           IF transfers[t].from = u /\ transfers[t].thread \in {"opening", "sending"}
           THEN [transfers[t] EXCEPT !.thread = "ended"] ELSE transfers[t]]
    BY DEF Leave
  <2>2. /\ Len(transfers') = Len(transfers)
        /\ \A t \in Transfer :
              IF transfers[t].from = u /\ Running(t)
              THEN transfers'[t] = [transfers[t] EXCEPT !.thread = "ended"]
              ELSE transfers'[t] = transfers[t]
    BY <1>3, <2>1, OnwardEnded
  <2>3. \A t \in Transfer : [transfers[t] EXCEPT !.thread = "ended"].thread = "ended"
    BY <1>3, TransferFacts DEF TransferType
  <2> QED BY <2>2, <2>3
<1>5. Forward
  <2>1. mishaps \subseteq mishaps'
    BY <1>2 DEF CutFor, Cut
  <2> QED BY <1>1, <1>2, <2>1 DEF Forward
<1>6. \E i \in 0..Len(inbox[u]) : inbox'[u] = SubSeq(inbox[u], 1, i)
  <2>1. 0 \in 0..Len(inbox[u]) /\ SubSeq(inbox[u], 1, 0) = <<>>
    BY <1>3
  <2> QED BY <1>1, <2>1
<1>7. SavedIsSent' /\ \E R, E, P, Q : History(R, E, P, Q)'
  BY <1>1, <1>2, <1>4, <1>5, <1>6, LostArrival
<1>8. Shown'
  BY <1>1, <1>3, <1>5, ShownKept DEF Arrival
<1> QED BY <1>7, <1>8 DEF Arrival

LEMMA AttachArrival ==
    ASSUME FlightInv, Arrival, NEW u \in User, NEW to \in Contact, NEW name \in FileName,
           NEW chunks \in 0..MaxChunks, Attach(u, to, name, chunks)
    PROVE  Arrival'
<1>1. SUFFICES ASSUME NEW n, n = Len(transfers) + 1 PROVE Arrival'
  OBVIOUS
<1>2. /\ Onward /\ n \in 1..MaxTransfers /\ n \notin Transfer
      /\ Transfer' = Transfer \cup {n} /\ Len(transfers') = n
      /\ transfers'[n].from = u /\ transfers'[n].to = to /\ transfers'[n].chunks = chunks
      /\ transfers'[n].next = 0 /\ transfers'[n].thread = "opening" /\ to # u
      /\ \A s \in Transfer : transfers'[s] = transfers[s]
      /\ \A k \in 1..MaxTransfers, x \in User :
            widgets'[k][x] = IF k = n /\ x = u THEN "active" ELSE widgets[k][x]
      /\ activeTransfers'[u][to] = n
      /\ \A x \in User, d \in Contact : (x # u \/ d # to) =>
            activeTransfers'[x][d] = activeTransfers[x][d]
      /\ overlaps \subseteq overlaps'
      /\ \A s \in Transfer :
            (IF transfers[s].from = u THEN Running(s) ELSE UnderWay(s)) => {s, n} \in overlaps'
      /\ UNCHANGED <<program, link, outbox, inbox, incomingFiles, downloads>>
      /\ UNCHANGED <<delivered, mishaps, failures>>
  BY <1>1, AttachFacts
<1>3. /\ TypeOK /\ Transfer \subseteq 1..MaxTransfers /\ Transfer \subseteq Nat /\ 0 \notin Transfer
      /\ Len(transfers) \in Nat /\ Registered
      /\ \A t \in Transfer : transfers[t].from \in User /\ transfers[t].chunks \in Nat
      /\ \A t \in Transfer, x \in User : Key(t, x) \in Contact
      /\ \A x \in User : outbox[x] \in Seq(Message) /\ inbox[x] \in Seq(Message)
  BY TransferFacts, PieceFacts, QueueFacts DEF FlightInv
<1>4. Forward
  BY <1>2 DEF Forward
<1>5. SavedIsSent'
  BY <1>2, <1>4, SavedParts, SavedPartsNext, SavedAtKept DEF Arrival
<1>6. PICK R, E, P, Q : History(R, E, P, Q)
  BY DEF Arrival
<1>7. /\ R \in PerReader /\ E \in PerReader /\ P \in PerFile /\ Q \in PerFile
      /\ \A s \in Transfer :
            /\ P[s] \in Nat /\ Q[s] \in Nat /\ SentOf(s, P[s], Q[s])
            /\ \A v \in User : /\ R[s][v] \in Nat /\ E[s][v] \in Nat
                               /\ TakenOf(s, v, R[s][v], E[s][v], P[s])
      /\ \A s, k \in Transfer : ApartAt(R, P, s, k)
      /\ \A v, x \in User : OpenAt(R, v, x)
      /\ \A s \in Transfer, v \in User : KeptAt(R, s, v)
  BY <1>6, HistoryFacts
<1>8. P[n] = 0 /\ Q[n] = 0 /\ \A v \in User : R[n][v] = 0 /\ E[n][v] = 0
  <2>1. n \in (Len(transfers) + 1)..MaxTransfers
    BY <1>1, <1>2, <1>3
  <2> QED BY <1>6, <2>1 DEF History
<1>9. \A x \in User : Lacks(outbox[x], n) /\ Lacks(inbox[x], n)
  <2>1. ASSUME NEW x \in User PROVE Lacks(outbox[x], n) /\ Lacks(inbox[x], n)
    <3>1. \A m \in ToSet(outbox[x]) \cup ToSet(inbox[x]) : m.transfer \in Transfer
      BY <1>3, <2>1, QueueFacts
    <3>2. \A m \in ToSet(outbox[x]) \cup ToSet(inbox[x]) : m.transfer # n
      BY <1>2, <3>1
    <3>3. outbox[x] \in Seq(Message) /\ inbox[x] \in Seq(Message)
      BY <1>3, <2>1
    <3> QED BY <3>2, <3>3, LacksMessages
  <2> QED BY <2>1
<1>10. chunks \in Nat /\ ~IsCut(n)'
  BY <1>2, <1>3, FileAssumption DEF IsCut, TypeOK
<1>11. SentOf(n, P[n], Q[n])'
  <2>1. NextPiece(n)' = 0
    BY <1>2 DEF NextPiece
  <2>2. Carries(outbox[u], n, chunks, 0, 0)
    BY <1>3, <1>9, <1>10, CarriesLacks
  <2> QED BY <1>2, <1>8, <2>1, <2>2 DEF SentOf
<1>12. ASSUME NEW v \in User PROVE TakenOf(n, v, R[n][v], E[n][v], P[n])'
  <2>1. Carries(inbox[v], n, chunks, 0, 0)
    BY <1>3, <1>9, <1>10, CarriesLacks
  <2> QED BY <1>2, <1>8, <2>1 DEF TakenOf
<1>13. ASSUME NEW s \in Transfer
       PROVE  SentOf(s, P[s], Q[s])' /\ \A v \in User : TakenOf(s, v, R[s][v], E[s][v], P[s])'
  <2>1. SentOf(s, P[s], Q[s])'
    BY <1>2, <1>3, <1>4, <1>7, SentKept
  <2>2. \A v \in User : TakenOf(s, v, R[s][v], E[s][v], P[s])'
    BY <1>2, <1>4, <1>7, TakenKept
  <2> QED BY <2>1, <2>2
<1>14. Flow(R, E, P, Q)'
  <2>1. \A t \in Transfer' : /\ SentOf(t, P[t], Q[t])'
                             /\ \A v \in User : TakenOf(t, v, R[t][v], E[t][v], P[t])'
    BY <1>2, <1>11, <1>12, <1>13
  <2> QED BY <2>1 DEF Flow
<1>15. ASSUME NEW s \in Transfer', NEW t \in Transfer' PROVE ApartAt(R, P, s, t)'
  <2>1. CASE s \in Transfer /\ t \in Transfer
    BY <1>2, <1>4, <1>7, <2>1, ApartKept
  <2>2. CASE s \in Transfer /\ t = n
    <3>1. SUFFICES ASSUME transfers[s].from = u, {s, n} \notin overlaps'
                   PROVE  ApartAt(R, P, s, t)'
      BY <1>2, <2>2 DEF ApartAt
    <3>2. ~Running(s) /\ ~Running(s)'
      BY <1>2, <2>2, <3>1 DEF Running
    <3>3. /\ Before(outbox[u], s, n) /\ \A v \in User : Before(inbox[v], s, n)
          /\ ~(P[n] > 0) /\ \A v \in User : ~(R[n][v] > 0)
      BY <1>8, <1>9 DEF Before, Lacks
    <3> QED BY <1>2, <2>2, <3>1, <3>2, <3>3 DEF ApartAt
  <2>3. CASE s = n
    <3>1. ~(s < t)
      BY <1>1, <1>2, <1>3, <2>3 DEF Transfer
    <3> QED BY <3>1 DEF ApartAt
  <2> QED BY <1>2, <2>1, <2>2, <2>3
<1>16. ASSUME NEW v \in User, NEW x \in User PROVE OpenAt(R, v, x)'
  BY <1>2, <1>4, <1>7, OpenAtKept
<1>17. ASSUME NEW t \in Transfer', NEW v \in User PROVE KeptAt(R, t, v)'
  <2>1. CASE t \in Transfer
    BY <1>2, <1>3, <1>4, <1>7, <2>1, KeptAtKept
  <2>2. CASE t = n
    <3>1. ~(R[t][v] > 0)
      BY <1>8, <2>2
    <3> QED BY <3>1 DEF KeptAt
  <2> QED BY <1>2, <2>1, <2>2
<1>18. \A t \in (Len(transfers') + 1)..MaxTransfers :
          P[t] = 0 /\ Q[t] = 0 /\ \A v \in User : R[t][v] = 0 /\ E[t][v] = 0
  <2>1. (Len(transfers') + 1)..MaxTransfers \subseteq (Len(transfers) + 1)..MaxTransfers
    BY <1>1, <1>2, <1>3
  <2> QED BY <1>6, <2>1 DEF History
<1>19. History(R, E, P, Q)'
  BY <1>7, <1>14, <1>15, <1>16, <1>17, <1>18 DEF History
\* The entry that the new widget takes was of a file that is still under way, or cut.
<1>20. ASSUME NEW t \in Transfer, NEW x \in User, widgets[t][x] = "active"
       PROVE  \/ activeTransfers'[x][Key(t, x)] = t
              \/ Crossed(t, x)'
              \/ x # transfers[t].from /\ IsCut(t)
  <2>1. Crossed(t, x) => Crossed(t, x)'
    BY <1>2, <1>3, CrossedKept
  <2>2. CASE x # u \/ Key(t, x) # to
    BY <1>2, <1>3, <1>20, <2>1, <2>2 DEF Arrival, Shown
  <2>3. CASE x = u /\ Key(t, x) = to /\ activeTransfers[u][to] # t
    BY <1>20, <2>1, <2>3 DEF Arrival, Shown
  <2>4. CASE x = u /\ Key(t, x) = to /\ activeTransfers[u][to] = t
    <3>1. /\ u \in Involved(t)
          /\ transfers[t].from = u => Running(t)
          /\ transfers[t].from # u => incomingFiles[u][transfers[t].from].transfer = t
      <4>1. t # 0
        BY <1>3
      <4> QED BY <2>4, <4>1 DEF FlightInv, Registered
    <3>2. SUFFICES ASSUME ~(x # transfers[t].from /\ IsCut(t)) PROVE Crossed(t, x)'
      OBVIOUS
    <3>3. {t, n} \in overlaps'
      <4>1. CASE transfers[t].from = u
        BY <1>2, <3>1, <4>1
      <4>2. CASE transfers[t].from # u
        <5>1. /\ u \in Receivers(t) /\ 0 < R[t][u] /\ R[t][u] <= transfers[t].chunks + 1
              /\ ~IsCut(t)
          <6>1. OpenAt(R, u, transfers[t].from) /\ t # 0
            BY <1>3, <1>7
          <6> QED BY <2>4, <3>1, <3>2, <4>2, <6>1 DEF OpenAt
        <5>2. UnderWay(t)
          BY <1>6, <5>1, ReadUnderWay
        <5> QED BY <1>2, <4>2, <5>2
      <4> QED BY <4>1, <4>2
    <3>4. /\ n \in Transfer' \ {t} /\ {n, t} = {t, n}
          /\ u \in Involved(n)' /\ Key(n, u)' = to
      <4>1. n \in Transfer' \ {t} /\ {n, t} = {t, n}
        BY <1>2
      <4> QED BY <1>2, <4>1 DEF Involved, Key
    <3>5. Key(t, x)' = Key(t, x)
      BY <1>2, <1>3, OnwardNames
    <3> QED BY <2>4, <3>3, <3>4, <3>5 DEF Crossed
  <2> QED BY <2>2, <2>3, <2>4
<1>21. Shown'
  <2> SUFFICES ASSUME NEW t \in Transfer', NEW x \in User, widgets'[t][x] = "active"
               PROVE  \/ activeTransfers'[x][Key(t, x)'] = t
                      \/ Crossed(t, x)'
                      \/ x # transfers'[t].from /\ IsCut(t)'
    BY DEF Shown
  <2>1. CASE t \in Transfer
    <3>1. widgets[t][x] = "active"
      BY <1>2, <1>3, <2>1
    <3>2. Key(t, x)' = Key(t, x) /\ transfers'[t].from = transfers[t].from
      BY <1>2, <1>3, <2>1, OnwardNames
    <3>3. IsCut(t) => IsCut(t)'
      BY <1>2 DEF IsCut
    <3> QED BY <1>20, <2>1, <3>1, <3>2, <3>3
  <2>2. CASE t = n /\ x = u
    <3>1. Key(t, x)' = to
      BY <1>2, <2>2 DEF Key
    <3> QED BY <1>2, <2>2, <3>1
  <2>3. CASE t = n /\ x # u
    <3>1. widgets[n][x] = "active"
      BY <1>2, <2>3
    <3>2. n \in (Len(transfers) + 1)..MaxTransfers
      BY <1>1, <1>2, <1>3
    <3> QED BY <3>1, <3>2 DEF FlightInv, Shapes
  <2> QED BY <1>2, <2>1, <2>2, <2>3
<1> QED BY <1>5, <1>19, <1>21 DEF Arrival

\* The piece at the head of a receiver's queue is the next one of its file.
LEMMA ReadPiece ==
    ASSUME FlightInv, NEW R, NEW E, NEW P, NEW Q, History(R, E, P, Q), NEW v \in User,
           NEW t \in Transfer, NEW kind \in {"meta", "chunk", "complete"}, Reads(v, kind, t)
    PROVE  /\ R[t][v] = IF kind = "meta" THEN 0
                        ELSE IF kind = "chunk" THEN Head(inbox[v]).index + 1
                        ELSE transfers[t].chunks + 1
           /\ kind = "chunk" => /\ Head(inbox[v]).index \in Nat
                                /\ Head(inbox[v]).index < transfers[t].chunks
           /\ R[t][v] < E[t][v]
           /\ Carries(Tail(inbox[v]), t, transfers[t].chunks, R[t][v] + 1, E[t][v])
<1>1. /\ inbox[v] \in Seq(Message) /\ inbox[v] # <<>> /\ Head(inbox[v]) \in Message
      /\ Head(inbox[v]) \in ToSet(inbox[v])
      /\ Head(inbox[v]).kind = kind /\ Head(inbox[v]).transfer = t
  BY ReadsFacts
<1>2. transfers[t].chunks \in Nat /\ R[t][v] \in Nat /\ E[t][v] \in Nat
  BY HistoryFacts, TransferFacts DEF FlightInv
<1>3. Carries(inbox[v], t, transfers[t].chunks, R[t][v], E[t][v])
  BY HistoryFacts DEF TakenOf
<1>4. /\ Piece(Head(inbox[v]), transfers[t].chunks) = R[t][v] /\ R[t][v] < E[t][v]
      /\ Carries(Tail(inbox[v]), t, transfers[t].chunks, R[t][v] + 1, E[t][v])
  BY <1>1, <1>2, <1>3, CarriesTail
<1>5. kind = "chunk" => /\ Head(inbox[v]).index \in Nat
                        /\ Head(inbox[v]).index < transfers[t].chunks
  BY <1>1 DEF FlightInv, Addressed, Message
<1>6. R[t][v] = IF kind = "meta" THEN 0
                ELSE IF kind = "chunk" THEN Head(inbox[v]).index + 1
                ELSE transfers[t].chunks + 1
  BY <1>1, <1>4 DEF Piece
<1> QED BY <1>4, <1>5, <1>6

\* One more piece of t has been read by v.
LEMMA ReceiveArrival ==
    ASSUME FlightInv, Forward, NEW R, NEW E, NEW P, NEW Q, History(R, E, P, Q), NEW v \in User,
           NEW t \in Transfer, NEW kind \in {"meta", "chunk", "complete"}, Reads(v, kind, t),
           NEW u \in User, u = transfers[t].from,
           UNCHANGED <<link, transfers, outbox>>, overlaps' = overlaps,
           \A x, y \in User : (x # v \/ y # u) => incomingFiles'[x][y] = incomingFiles[x][y],
           IF kind = "meta" THEN incomingFiles'[v][u].transfer = t
           ELSE incomingFiles'[v][u].transfer \in {incomingFiles[v][u].transfer, 0},
           NEW R1 \in PerReader, R1[t][v] = R[t][v] + 1,
           \A s \in 1..MaxTransfers, x \in User : (s # t \/ x # v) => R1[s][x] = R[s][x],
           \A s \in 1..MaxTransfers \ {t} : R1[s] = R[s],
           OpenAt(R1, v, u)',
           \A s \in Transfer : transfers[s].from = u => KeptAt(R1, s, v)'
    PROVE  \E A, B, C, D : History(A, B, C, D)'
<1>1. /\ inbox[v] \in Seq(Message) /\ inbox[v] # <<>> /\ Head(inbox[v]) \in Message
      /\ Head(inbox[v]).kind = kind /\ Head(inbox[v]).transfer = t
      /\ inbox'[v] = Tail(inbox[v]) /\ \A x \in User \ {v} : inbox'[x] = inbox[x]
  BY ReadsFacts
<1>2. /\ TypeOK /\ Transfer \subseteq 1..MaxTransfers
      /\ \A s \in Transfer : transfers[s].from \in User /\ transfers[s].chunks \in Nat /\ s # 0
  BY TransferFacts, PieceFacts DEF FlightInv
<1>3. /\ R \in PerReader /\ E \in PerReader /\ P \in PerFile /\ Q \in PerFile
      /\ \A s \in Transfer :
            /\ P[s] \in Nat /\ Q[s] \in Nat /\ SentOf(s, P[s], Q[s])
            /\ \A x \in User : /\ R[s][x] \in Nat /\ E[s][x] \in Nat
                               /\ TakenOf(s, x, R[s][x], E[s][x], P[s])
      /\ \A s, k \in Transfer : ApartAt(R, P, s, k)
      /\ \A x, y \in User : OpenAt(R, x, y)
      /\ \A s \in Transfer, x \in User : KeptAt(R, s, x)
  BY HistoryFacts
<1>4. Transfer' = Transfer /\ Len(transfers') = Len(transfers)
  BY DEF Transfer
<1>5. ASSUME NEW s \in Transfer PROVE SentOf(s, P[s], Q[s])'
  BY <1>2, <1>3, SentKept
<1>6. ASSUME NEW s \in Transfer, NEW x \in User PROVE TakenOf(s, x, R1[s][x], E[s][x], P[s])'
  <2>1. CASE x # v
    <3>1. R1[s][x] = R[s][x]
      BY <1>2, <2>1
    <3> QED BY <1>1, <1>3, <2>1, <3>1, TakenKept
  <2>2. CASE x = v /\ s = t
    <3>1. R[t][v] < E[t][v] /\ Carries(Tail(inbox[v]), t, transfers[t].chunks, R[t][v] + 1, E[t][v])
      BY ReadPiece
    <3>2. /\ R[t][v] \in Nat /\ E[t][v] \in Nat /\ E[t][v] <= P[t]
          /\ v \in Receivers(t) /\ (link[v] = "up" \/ ~IsCut(t)) => E[t][v] = P[t]
      BY <1>3 DEF TakenOf
    <3>3. R1[t][v] <= E[t][v]
      BY <3>1, <3>2
    <3>4. (IsCut(t) => IsCut(t)') /\ Receivers(t)' = Receivers(t)
      BY DEF Forward, IsCut, Receivers
    <3> QED BY <1>1, <2>2, <3>1, <3>2, <3>3, <3>4 DEF TakenOf
  <2>3. CASE x = v /\ s # t
    <3>1. /\ R1[s][v] = R[s][v] /\ R[s][v] \in Nat /\ E[s][v] \in Nat /\ transfers[s].chunks \in Nat
          /\ R[s][v] <= E[s][v] /\ E[s][v] <= P[s]
          /\ Carries(inbox[v], s, transfers[s].chunks, R[s][v], E[s][v])
          /\ v \in Receivers(s) /\ (link[v] = "up" \/ ~IsCut(s)) => E[s][v] = P[s]
      BY <1>2, <1>3, <2>3 DEF TakenOf
    <3>2. Carries(Tail(inbox[v]), s, transfers[s].chunks, R[s][v], E[s][v])
      BY <1>1, <2>3, <3>1, CarriesTail
    <3>3. (IsCut(s) => IsCut(s)') /\ Receivers(s)' = Receivers(s)
      BY DEF Forward, IsCut, Receivers
    <3> QED BY <1>1, <2>3, <3>1, <3>2, <3>3 DEF TakenOf
  <2> QED BY <2>1, <2>2, <2>3
<1>7. ASSUME NEW s \in Transfer, NEW k \in Transfer PROVE ApartAt(R1, P, s, k)'
  <2>1. SUFFICES ASSUME s < k, transfers[s].from = transfers[k].from, {s, k} \notin overlaps
                 PROVE  LET w == transfers[s].from
                        IN  /\ ~Running(s)
                            /\ Before(outbox[w], s, k)
                            /\ P[k] > 0 => Lacks(outbox[w], s)
                            /\ \A x \in User :
                                  /\ Before(inbox'[x], s, k)
                                  /\ R1[k][x] > 0 => /\ Lacks(inbox'[x], s)
                                                     /\ incomingFiles'[x][w].transfer # s
    BY DEF ApartAt, Running
  <2>2. LET w == transfers[s].from
        IN  /\ ~Running(s)
            /\ Before(outbox[w], s, k)
            /\ P[k] > 0 => Lacks(outbox[w], s)
            /\ \A x \in User :
                  /\ Before(inbox[x], s, k)
                  /\ R[k][x] > 0 => Lacks(inbox[x], s) /\ incomingFiles[x][w].transfer # s
    BY <1>3, <2>1 DEF ApartAt
  <2>3. s # k
    BY <1>2, <2>1
  <2>4. /\ Lacks(inbox[v], s) => Lacks(inbox'[v], s) /\ t # s
        /\ Before(inbox[v], s, k) => Before(inbox'[v], s, k)
        /\ Before(inbox[v], s, t) => Lacks(inbox[v], s)
    <3>1. PICK o \in Seq(Message) : o = inbox[v] /\ o # <<>> /\ Head(o).transfer = t /\ inbox'[v] = Tail(o)
      BY <1>1
    <3>2. /\ Lacks(o, s) => Lacks(Tail(o), s)
          /\ Before(o, s, k) => Before(Tail(o), s, k)
          /\ Before(o, s, t) /\ Head(o).transfer = t => Lacks(o, s)
          /\ Lacks(o, s) => Head(o).transfer # s
      BY <3>1, OrderTail
    <3> QED BY <3>1, <3>2
  <2>5. ASSUME NEW x \in User
        PROVE  /\ Before(inbox'[x], s, k)
               /\ R1[k][x] > 0 => /\ Lacks(inbox'[x], s)
                                  /\ incomingFiles'[x][transfers[s].from].transfer # s
    <3>1. CASE x # v
      <4>1. R1[k][x] = R[k][x] /\ inbox'[x] = inbox[x]
        BY <1>1, <1>2, <3>1
      <4>2. incomingFiles'[x][transfers[s].from] = incomingFiles[x][transfers[s].from]
        BY <1>2, <3>1
      <4> QED BY <2>2, <4>1, <4>2
    <3>2. CASE x = v
      <4>1. Before(inbox'[v], s, k)
        BY <2>2, <2>4
      <4>2. ASSUME R1[k][v] > 0, k = t
            PROVE  Lacks(inbox'[v], s) /\ incomingFiles'[v][transfers[s].from].transfer # s
        <5>1. Lacks(inbox[v], s)
          BY <2>2, <2>4, <4>2
        <5>2. Lacks(inbox'[v], s) /\ u = transfers[s].from
          BY <2>1, <2>4, <4>2, <5>1
        <5>3. CASE kind = "meta"
          BY <2>3, <4>2, <5>2, <5>3
        <5>4. CASE kind # "meta"
          <6>1. R[t][v] > 0
            BY <1>2, <5>4, ReadPiece
          <6>2. incomingFiles[v][u].transfer # s /\ s # 0
            BY <1>2, <2>2, <4>2, <5>2, <6>1
          <6> QED BY <5>2, <5>4, <6>2
        <5> QED BY <5>3, <5>4
      <4>3. ASSUME R1[k][v] > 0, k # t
            PROVE  Lacks(inbox'[v], s) /\ incomingFiles'[v][transfers[s].from].transfer # s
        <5>1. R1[k][v] = R[k][v]
          BY <1>2, <4>3
        <5>2. Lacks(inbox[v], s) /\ incomingFiles[v][transfers[s].from].transfer # s
          BY <2>2, <4>3, <5>1
        <5>3. Lacks(inbox'[v], s) /\ t # s
          BY <2>4, <5>2
        <5>4. transfers[s].from \in User /\ s # 0
          BY <1>2
        <5>5. incomingFiles'[v][transfers[s].from].transfer
                \in {incomingFiles[v][transfers[s].from].transfer, t, 0}
          BY <5>4
        <5> QED BY <5>2, <5>3, <5>4, <5>5
      <4> QED BY <3>2, <4>1, <4>2, <4>3
    <3> QED BY <3>1, <3>2
  <2> QED BY <2>2, <2>5
<1>8. ASSUME NEW x \in User, NEW y \in User PROVE OpenAt(R1, x, y)'
  <2>1. CASE x = v /\ y = u
    BY <2>1
  <2>2. CASE ~(x = v /\ y = u)
    <3>1. SUFFICES ASSUME NEW k, k = incomingFiles[x][y].transfer, k # 0 => k \in Transfer
                   PROVE  OpenAt(R1, x, y)'
      BY <1>2 DEF TypeOK
    <3>2. k # 0 => R1[k][x] = R[k][x]
      <4>0. OpenAt(R, x, y)
        BY <1>3
      <4>1. k # 0 => transfers[k].from = y /\ k \in 1..MaxTransfers
        BY <1>2, <3>1, <4>0 DEF OpenAt
      <4> QED BY <2>2, <4>1
    <3> QED BY <1>3, <2>2, <3>1, <3>2, OpenAtKept
  <2> QED BY <2>1, <2>2
<1>9. ASSUME NEW s \in Transfer, NEW x \in User PROVE KeptAt(R1, s, x)'
  <2>1. CASE x = v /\ transfers[s].from = u
    BY <2>1
  <2>2. CASE ~(x = v /\ transfers[s].from = u)
    <3>1. R1[s][x] = R[s][x]
      BY <1>2, <2>2
    <3>2. incomingFiles'[x][transfers[s].from] = incomingFiles[x][transfers[s].from]
      BY <1>2, <2>2
    <3> QED BY <1>3, <3>1, <3>2, KeptAtKept
  <2> QED BY <2>1, <2>2
<1>10. \A s \in 1..MaxTransfers \ Transfer :
          R1[s] = R[s] /\ E[s] = E[s] /\ P[s] = P[s] /\ Q[s] = Q[s]
  OBVIOUS
<1>11. \A s \in Transfer : /\ SentOf(s, P[s], Q[s])'
                           /\ \A x \in User : TakenOf(s, x, R1[s][x], E[s][x], P[s])'
  BY <1>5, <1>6
<1> QED BY <1>3, <1>4, <1>7, <1>8, <1>9, <1>10, <1>11, HistoryNext, ZenonT(60)

LEMMA ReadOn ==
    ASSUME NEW R \in PerReader, NEW t \in 1..MaxTransfers, NEW v \in User
    PROVE  \E R1 \in PerReader :
              /\ R1[t][v] = R[t][v] + 1
              /\ \A s \in 1..MaxTransfers, x \in User : (s # t \/ x # v) => R1[s][x] = R[s][x]
              /\ \A s \in 1..MaxTransfers \ {t} : R1[s] = R[s]
<1> DEFINE r == [R[t] EXCEPT ![v] = R[t][v] + 1]
<1>1. R[t] \in [User -> Nat] /\ R[t][v] \in Nat
  BY DEF PerReader
<1>2. r \in [User -> Nat] /\ r[v] = R[t][v] + 1 /\ \A x \in User \ {v} : r[x] = R[t][x]
  BY <1>1
<1> HIDE DEF r
<1>3. PICK R1 : R1 = [R EXCEPT ![t] = r]
  OBVIOUS
<1>4. R1 \in PerReader /\ R1[t] = r /\ \A s \in 1..MaxTransfers \ {t} : R1[s] = R[s]
  BY <1>2, <1>3 DEF PerReader
<1>5. \A s \in 1..MaxTransfers, x \in User : (s # t \/ x # v) => R1[s][x] = R[s][x]
  BY <1>2, <1>4
<1> QED BY <1>2, <1>4, <1>5

\* The metadata of t takes the place of a file of the same user that v was reading; the
\* two were under way together, or the other one was cut.
LEMMA MetadataArrival ==
    ASSUME FlightInv, Arrival, NEW v \in User, NEW t \in Transfer, handleFileMetadata(v, t)
    PROVE  Arrival'
<1>1. SUFFICES ASSUME NEW u, u = transfers[t].from PROVE Arrival'
  OBVIOUS
<1>2. /\ Reads(v, "meta", t)
      /\ incomingFiles' = [incomingFiles EXCEPT ![v][u] = [transfer |-> t, chunks |-> <<>>]]
      /\ IF program[v] = "chat" THEN onFileMetaReceived(v, u, t) ELSE UNCHANGED windowVars
      /\ UNCHANGED <<program, link, transfers, outbox, downloads, pastVars, failures>>
  BY <1>1 DEF handleFileMetadata
<1>3. /\ inbox[v] # <<>> /\ Head(inbox[v]).transfer = t
      /\ v \in Receivers(t) /\ u # v /\ u \in User /\ UnderWay(t)
  BY <1>1, <1>2, ReadsFacts
<1>4. /\ TypeOK /\ Shapes /\ Registered /\ Transfer \subseteq 1..MaxTransfers
      /\ \A s \in Transfer : transfers[s].chunks \in Nat /\ s # 0
      /\ \A s \in Transfer, x \in User : Key(s, x) \in Contact
      /\ \A s \in Transfer : transfers[s].to # transfers[s].from
  BY TransferFacts, PieceFacts DEF FlightInv, Shapes
<1>5. /\ incomingFiles'[v][u] = [transfer |-> t, chunks |-> <<>>]
      /\ \A x, y \in User : (x # v \/ y # u) => incomingFiles'[x][y] = incomingFiles[x][y]
  <2>1. TypeOK /\ Shapes /\ t # 0 /\ t \in Transfer \cup {0} /\ u \in User /\ UNCHANGED transfers
    BY <1>2, <1>3, <1>4
  <2>2. incomingFiles' = [incomingFiles EXCEPT ![v][u] = [transfer |-> t, chunks |-> <<>>]]
    BY <1>2
  <2>3. /\ IncomingTypes'
        /\ incomingFiles'[v][u] = [transfer |-> t, chunks |-> <<>>]
        /\ \A x, y \in User : (x # v \/ y # u) => incomingFiles'[x][y] = incomingFiles[x][y]
    BY <2>1, <2>2, EmptyChunks, IncomingUpdate, ZenonT(60)
  <2> QED BY <2>3
<1>6. Forward /\ Transfer' = Transfer /\ Len(transfers') = Len(transfers)
  BY <1>2, ForwardSame DEF pastVars
<1>7. SavedIsSent'
  BY <1>2, <1>6, SavedParts, SavedPartsNext, SavedAtKept DEF Arrival
<1>8. PICK R, E, P, Q : History(R, E, P, Q)
  BY DEF Arrival
<1>9. /\ R \in PerReader
      /\ \A s \in Transfer : \A x \in User : R[s][x] \in Nat
      /\ \A x, y \in User : OpenAt(R, x, y)
      /\ \A s \in Transfer, x \in User : KeptAt(R, s, x)
  BY <1>8, HistoryFacts
<1>10. R[t][v] = 0
  BY <1>2, <1>8, ReadPiece
<1>11. PICK R1 \in PerReader :
          /\ R1[t][v] = R[t][v] + 1
          /\ \A s \in 1..MaxTransfers, x \in User : (s # t \/ x # v) => R1[s][x] = R[s][x]
          /\ \A s \in 1..MaxTransfers \ {t} : R1[s] = R[s]
  BY <1>4, <1>9, ReadOn
<1>12. OpenAt(R1, v, u)'
  <2>1. R1[t][v] = 1 /\ R1[t][v] <= transfers[t].chunks + 1 /\ 0 < R1[t][v]
    BY <1>4, <1>10, <1>11
  <2>2. 0..(R1[t][v] - 2) = {} /\ DOMAIN <<>> = {}
    BY <2>1
  <2>3. v \in Receivers(t)' /\ transfers'[t].from = u
    BY <1>1, <1>2, <1>3 DEF Receivers
  <2> QED BY <1>2, <1>5, <2>1, <2>2, <2>3 DEF OpenAt
\* What v was reading of the same user when the metadata came.
<1>13. ASSUME NEW s \in Transfer, s # t, transfers[s].from = u, v \in Receivers(s), ~IsCut(s),
              0 < R[s][v], R[s][v] <= transfers[s].chunks + 1
       PROVE  Mixed(s, v)
  BY <1>1, <1>3, <1>8, <1>13, ReadTogether
<1>14. ASSUME NEW s \in Transfer, transfers[s].from = u PROVE KeptAt(R1, s, v)'
  <2>1. SUFFICES ASSUME ~IsCut(s), v \in Receivers(s), R1[s][v] > 0, ~Mixed(s, v)
                 PROVE  IF R1[s][v] <= transfers[s].chunks + 1
                        THEN incomingFiles'[v][u].transfer = s
                        ELSE <<s, v>> \in delivered
    BY <1>2, <1>14 DEF KeptAt, IsCut, Receivers, Mixed, pastVars, Transfer
  <2>2. CASE s = t
    BY <1>4, <1>5, <1>10, <1>11, <2>2
  <2>3. CASE s # t
    <3>1. R1[s][v] = R[s][v]
      BY <1>4, <1>11, <2>3
    <3>2. ~(R[s][v] <= transfers[s].chunks + 1)
      BY <1>13, <1>14, <2>1, <2>3, <3>1
    <3>3. KeptAt(R, s, v)
      BY <1>9
    <3> QED BY <2>1, <3>1, <3>2, <3>3 DEF KeptAt
  <2> QED BY <2>2, <2>3
<1>15. \E A, B, C, D : History(A, B, C, D)'
  <2>1. incomingFiles'[v][u].transfer = t
    BY <1>5
  <2>2. UNCHANGED <<link, transfers, outbox>> /\ overlaps' = overlaps
    BY <1>2 DEF pastVars
  <2> QED BY <1>1, <1>2, <1>3, <1>5, <1>6, <1>8, <1>11, <1>12, <1>14, <2>1, <2>2, ReceiveArrival
<1>16. Shown'
  <2>1. CASE program[v] # "chat"
    BY <1>2, <1>6, <2>1, ShownKept DEF windowVars, Arrival
  <2>2. CASE program[v] = "chat"
    <3>1. /\ widgets' = [widgets EXCEPT ![t][v] = "active"]
          /\ activeTransfers' = [activeTransfers EXCEPT ![v][u] = t]
      BY <1>2, <2>2 DEF onFileMetaReceived
    <3>2. /\ \A s \in Transfer, x \in User : (s # t \/ x # v) => widgets'[s][x] = widgets[s][x]
          /\ activeTransfers'[v][u] = t
          /\ \A x \in User, c \in Contact : (x # v \/ c # u) =>
                activeTransfers'[x][c] = activeTransfers[x][c]
      BY <1>3, <1>4, <3>1 DEF TypeOK, Contact
    <3>3. SUFFICES ASSUME NEW s \in Transfer, NEW x \in User, widgets'[s][x] = "active"
                   PROVE  \/ activeTransfers'[x][Key(s, x)] = s
                          \/ Crossed(s, x)
                          \/ x # transfers[s].from /\ IsCut(s)
      BY <1>2, ZenonT(60) DEF Shown, Key, Crossed, IsCut, pastVars, Transfer, Involved, Receivers
    <3>4. CASE s = t /\ x = v
      BY <1>1, <1>3, <3>2, <3>4 DEF Key
    <3>5. CASE ~(s = t /\ x = v)
      <4>1. widgets[s][x] = "active"
        BY <3>2, <3>3, <3>5
      <4>2. \/ activeTransfers[x][Key(s, x)] = s
            \/ Crossed(s, x)
            \/ x # transfers[s].from /\ IsCut(s)
        BY <4>1 DEF Arrival, Shown
      <4>3. SUFFICES ASSUME x = v, Key(s, x) = u, activeTransfers[v][u] = s,
                            ~(x # transfers[s].from /\ IsCut(s))
                     PROVE  Crossed(s, v)
        BY <1>4, <3>2, <4>2
      <4>4. s # t
        BY <3>5, <4>3
      <4>5. /\ v \in Involved(s)
            /\ transfers[s].from = v => Running(s)
            /\ transfers[s].from # v => incomingFiles[v][transfers[s].from].transfer = s
        <5>1. s # 0 /\ u \in Contact
          BY <1>3, <1>4 DEF Contact
        <5> QED BY <1>4, <4>3, <5>1 DEF Registered
      <4>6. CASE transfers[s].from = v
        <5>1. transfers[s].to = u
          BY <4>3, <4>6 DEF Key
        <5> QED BY <1>1, <1>3, <4>5, <4>6, <5>1, ArrivalCrosses
      <4>7. CASE transfers[s].from # v
        <5>1. transfers[s].from = u /\ v \in Receivers(s) /\ ~IsCut(s)
          BY <4>3, <4>5, <4>7 DEF Key, Involved
        <5>2. 0 < R[s][v] /\ R[s][v] <= transfers[s].chunks + 1
          <6>1. OpenAt(R, v, u) /\ s # 0
            BY <1>3, <1>4, <1>9
          <6> QED BY <4>5, <4>7, <5>1, <6>1 DEF OpenAt
        <5>3. Mixed(s, v)
          BY <1>13, <4>4, <5>1, <5>2
        <5> QED BY <5>1, <5>3, MixedCrosses
      <4> QED BY <4>6, <4>7
    <3> QED BY <3>4, <3>5
  <2> QED BY <2>1, <2>2
<1> QED BY <1>7, <1>15, <1>16 DEF Arrival

\* A chunk adds the next piece to its file, or is not put into another file unless the two
\* were sent together.
LEMMA ChunkArrival ==
    ASSUME FlightInv, Arrival, NEW v \in User, NEW t \in Transfer, handleFileChunk(v, t)
    PROVE  Arrival'
<1>1. SUFFICES ASSUME NEW u, u = transfers[t].from, NEW index, index = Head(inbox[v]).index,
                      NEW f, f = incomingFiles[v][u], NEW k, k = f.transfer,
                      NEW g, g = incomingFiles'[v][u],
                      NEW chunk, chunk = "chunk"
               PROVE  Arrival'
  OBVIOUS
<1>2. /\ Reads(v, chunk, t) /\ chunk \in {"meta", "chunk", "complete"}
      /\ UNCHANGED <<program, link, transfers, outbox, downloads, windowVars, delivered, overlaps>>
      /\ \/ StoreChunk(v, t, index) /\ UNCHANGED mishaps
         \/ mishaps' = mishaps \cup {<<t, "garbled">>} /\ UNCHANGED incomingFiles
  BY <1>1 DEF handleFileChunk
<1>3. /\ inbox[v] # <<>> /\ Head(inbox[v]).transfer = t
      /\ v \in Receivers(t) /\ u # v /\ u \in User
  BY <1>1, <1>2, ReadsFacts
<1>4. /\ TypeOK /\ Shapes /\ Transfer \subseteq 1..MaxTransfers
      /\ \A s \in Transfer : transfers[s].chunks \in Nat /\ s # 0
  BY TransferFacts, PieceFacts DEF FlightInv
<1>5. /\ k \in Transfer \cup {0} /\ \A i \in DOMAIN f.chunks : f.chunks[i] \in Transfer
      /\ k = 0 => f = Absent
  <2>1. IncomingTypes
    BY <1>4, TypeParts
  <2> QED BY <1>1, <1>3, <2>1 DEF IncomingTypes
<1>6. Forward /\ Transfer' = Transfer /\ Len(transfers') = Len(transfers)
  BY <1>2, ForwardSame
<1>7. SavedIsSent'
  BY <1>2, <1>6, SavedParts, SavedPartsNext, SavedAtKept DEF Arrival
<1>8. Shown'
  BY <1>2, <1>6, ShownKept DEF windowVars, Arrival
<1>9. PICK R, E, P, Q : History(R, E, P, Q)
  BY DEF Arrival
<1>10. /\ R \in PerReader
       /\ \A s \in Transfer : \A x \in User : R[s][x] \in Nat
       /\ \A x, y \in User : OpenAt(R, x, y)
       /\ \A s \in Transfer, x \in User : KeptAt(R, s, x)
  BY <1>9, HistoryFacts
<1>11. R[t][v] = index + 1 /\ index \in Nat /\ index < transfers[t].chunks
  BY <1>1, <1>2, <1>9, ReadPiece
<1>12. PICK R1 \in PerReader :
          /\ R1[t][v] = R[t][v] + 1
          /\ \A s \in 1..MaxTransfers, x \in User : (s # t \/ x # v) => R1[s][x] = R[s][x]
          /\ \A s \in 1..MaxTransfers \ {t} : R1[s] = R[s]
  BY <1>4, <1>10, ReadOn
<1>13. /\ \A x, y \in User : (x # v \/ y # u) => incomingFiles'[x][y] = incomingFiles[x][y]
       /\ g.transfer = k
       /\ \/ g = f /\ (~KeysAgree(v, t) \/ k = 0 \/ Garbled(t)')
          \/ /\ KeysAgree(v, t)
             /\ g.chunks = [i \in DOMAIN f.chunks \cup {index} |-> IF i = index THEN t ELSE f.chunks[i]]
  <2>1. CASE StoreChunk(v, t, index)
    <3>1. index \in Nat /\ transfers[t].from \in User /\ UNCHANGED transfers
      BY <1>1, <1>2, <1>3, <1>11
    <3>2. LET from == transfers[t].from
              h == incomingFiles[v][from]
          IN  /\ IncomingTypes'
              /\ \A x, y \in User : (x # v \/ y # from) => incomingFiles'[x][y] = incomingFiles[x][y]
              /\ incomingFiles'[v][from].transfer = h.transfer
              /\ \/ incomingFiles' = incomingFiles /\ (~KeysAgree(v, t) \/ h = Absent)
                 \/ /\ KeysAgree(v, t) /\ h.transfer # 0
                    /\ incomingFiles'[v][from].chunks =
                         [i \in DOMAIN h.chunks \cup {index} |-> IF i = index THEN t ELSE h.chunks[i]]
      BY <2>1, <3>1, StoreFacts, ZenonT(60)
    <3>3. /\ \A x, y \in User : (x # v \/ y # u) => incomingFiles'[x][y] = incomingFiles[x][y]
          /\ g.transfer = f.transfer
          /\ \/ incomingFiles' = incomingFiles /\ (~KeysAgree(v, t) \/ f = Absent)
             \/ /\ KeysAgree(v, t) /\ f.transfer # 0
                /\ g.chunks = [i \in DOMAIN f.chunks \cup {index} |-> IF i = index THEN t ELSE f.chunks[i]]
      BY <1>1, <3>2
    <3> QED BY <1>1, <3>3 DEF Absent
  <2>2. CASE mishaps' = mishaps \cup {<<t, "garbled">>} /\ UNCHANGED incomingFiles
    BY <1>1, <2>2 DEF Garbled
  <2> QED BY <1>2, <2>1, <2>2
\* What is open for u and is not t was sent together with t.
<1>14. ASSUME NEW s \in Transfer, s # t, transfers[s].from = u, v \in Receivers(s),
              0 < R[s][v], R[s][v] <= transfers[s].chunks + 1, ~IsCut(s) \/ k = s
       PROVE  Mixed(s, v)
  <2>1. R[t][v] > 0
    BY <1>11
  <2> QED BY <1>1, <1>3, <1>9, <1>14, <2>1, ReadTogether
<1>15. OpenAt(R, v, u)
  BY <1>3, <1>10
<1>16. OpenAt(R1, v, u)'
  <2>1. \A i \in DOMAIN g.chunks : transfers[g.chunks[i]].from = u
    <3>1. transfers[t].from = u /\ \A i \in DOMAIN f.chunks : transfers[f.chunks[i]].from = u
      BY <1>1, <1>15 DEF OpenAt
    <3>2. CASE g = f
      BY <3>1, <3>2
    <3>3. CASE g.chunks = [i \in DOMAIN f.chunks \cup {index} |-> IF i = index THEN t ELSE f.chunks[i]]
      <4>1. /\ DOMAIN g.chunks = DOMAIN f.chunks \cup {index}
            /\ \A i \in DOMAIN g.chunks : g.chunks[i] = IF i = index THEN t ELSE f.chunks[i]
        BY <3>3
      <4> QED BY <3>1, <4>1
    <3> QED BY <1>13, <3>2, <3>3
  <2>2. ASSUME k # 0
        PROVE  /\ k \in Transfer /\ transfers[k].from = u /\ v \in Receivers(k)
               /\ 0 < R[k][v] /\ R[k][v] <= transfers[k].chunks + 1
               /\ ~Mixed(k, v) =>
                    IF transfers[k].to \in Group THEN DOMAIN f.chunks = {}
                    ELSE ~Garbled(k) => /\ DOMAIN f.chunks = 0..(R[k][v] - 2)
                                        /\ \A i \in DOMAIN f.chunks : f.chunks[i] = k
    BY <1>1, <1>5, <1>15, <2>2 DEF OpenAt
  <2>3. ASSUME k # 0
        PROVE  /\ 0 < R1[k][v] /\ R1[k][v] <= transfers[k].chunks + 1
               /\ ~Mixed(k, v) =>
                    IF transfers[k].to \in Group THEN DOMAIN g.chunks = {}
                    ELSE ~Garbled(k)' => /\ DOMAIN g.chunks = 0..(R1[k][v] - 2)
                                         /\ \A i \in DOMAIN g.chunks : g.chunks[i] = k
    <3>1. CASE k # t
      <4>1. Mixed(k, v)
        BY <1>14, <2>2, <2>3, <3>1
      <4>2. R1[k][v] = R[k][v]
        BY <1>4, <1>12, <2>2, <2>3, <3>1
      <4> QED BY <2>2, <2>3, <4>1, <4>2
    <3>2. CASE k = t
      <4>1. 0 < R1[k][v] /\ R1[k][v] <= transfers[k].chunks + 1
        <5>1. index \in Nat /\ transfers[t].chunks \in Nat /\ R1[t][v] = index + 2
          BY <1>1, <1>3, <1>4, <1>11, <1>12
        <5> QED BY <1>11, <3>2, <5>1
      <4>2. ASSUME ~Mixed(k, v), transfers[k].to \in Group PROVE DOMAIN g.chunks = {}
        <5>1. ~KeysAgree(v, t)
          BY <1>1, <1>3, <3>2, <4>2, FileAssumption DEF KeysAgree
        <5> QED BY <1>13, <2>2, <2>3, <4>2, <5>1
      <4>3. ASSUME ~Mixed(k, v), transfers[k].to \notin Group, ~Garbled(k)'
            PROVE  /\ DOMAIN g.chunks = 0..(R1[k][v] - 2)
                   /\ \A i \in DOMAIN g.chunks : g.chunks[i] = k
        <5>1. ~Garbled(k)
          BY <1>6, <4>3 DEF Forward, Garbled
        <5>2. DOMAIN f.chunks = 0..(R[k][v] - 2) /\ \A i \in DOMAIN f.chunks : f.chunks[i] = k
          BY <2>2, <2>3, <4>3, <5>1
        <5>3. KeysAgree(v, t)
          BY <1>1, <1>3, <3>2, <4>3 DEF KeysAgree, Receivers
        <5>4. g.chunks = [i \in DOMAIN f.chunks \cup {index} |-> IF i = index THEN t ELSE f.chunks[i]]
          BY <1>13, <2>3, <3>2, <4>3, <5>3
        <5>5. DOMAIN g.chunks = DOMAIN f.chunks \cup {index} /\ \A i \in DOMAIN g.chunks : g.chunks[i] = k
          BY <3>2, <5>2, <5>4
        <5>6. R[k][v] - 2 = index - 1 /\ R1[k][v] - 2 = index
          BY <1>11, <1>12, <3>2
        <5>7. 0..(index - 1) \cup {index} = 0..index
          BY <1>11
        <5> QED BY <5>2, <5>5, <5>6, <5>7
      <4> QED BY <4>1, <4>2, <4>3
    <3> QED BY <3>1, <3>2
  <2>4. ASSUME k # 0
        PROVE  /\ transfers'[k].from = u /\ v \in Receivers(k)' /\ transfers'[k].to = transfers[k].to
               /\ transfers'[k].chunks = transfers[k].chunks
               /\ Mixed(k, v)' <=> Mixed(k, v)
    BY <1>2, <2>2, <2>4 DEF Receivers, Mixed, Transfer
  <2>5. \A i \in DOMAIN g.chunks : transfers'[g.chunks[i]].from = u
    BY <1>2, <2>1
  <2> QED BY <1>1, <1>13, <2>3, <2>4, <2>5 DEF OpenAt
<1>17. ASSUME NEW s \in Transfer, transfers[s].from = u PROVE KeptAt(R1, s, v)'
  <2>1. CASE s = t
    <3>1. KeptAt(R, t, v)
      BY <1>10
    <3>2. /\ R[t][v] > 0 /\ R1[t][v] <= transfers[t].chunks + 1
          /\ R[t][v] <= transfers[t].chunks + 1
      BY <1>4, <1>11, <1>12
    <3>3. /\ Mixed(t, v)' <=> Mixed(t, v)
          /\ IsCut(t) => IsCut(t)'
          /\ Receivers(t)' = Receivers(t) /\ transfers' = transfers
      BY <1>2 DEF Mixed, IsCut, Receivers, Transfer
    <3> QED BY <1>1, <1>13, <2>1, <3>1, <3>2, <3>3 DEF KeptAt
  <2>2. CASE s # t
    <3>1. R1[s][v] = R[s][v]
      BY <1>4, <1>12, <2>2
    <3>2. incomingFiles'[v][transfers[s].from].transfer = incomingFiles[v][transfers[s].from].transfer
      BY <1>1, <1>13, <1>17
    <3> QED BY <1>6, <1>10, <3>1, <3>2, KeptAtKept
  <2> QED BY <2>1, <2>2
<1>18. \E A, B, C, D : History(A, B, C, D)'
  <2>1. IF chunk = "meta" THEN incomingFiles'[v][u].transfer = t
        ELSE incomingFiles'[v][u].transfer \in {incomingFiles[v][u].transfer, 0}
    BY <1>1, <1>13
  <2>2. UNCHANGED <<link, transfers, outbox>> /\ overlaps' = overlaps
    BY <1>2
  <2>3. /\ \A x, y \in User : (x # v \/ y # u) => incomingFiles'[x][y] = incomingFiles[x][y]
        /\ Reads(v, chunk, t) /\ chunk \in {"meta", "chunk", "complete"}
        /\ u \in User /\ u = transfers[t].from
        /\ \A s \in Transfer : transfers[s].from = u => KeptAt(R1, s, v)'
    BY <1>1, <1>2, <1>3, <1>13, <1>17
  <2>4. /\ R1 \in PerReader /\ R1[t][v] = R[t][v] + 1
        /\ \A s \in 1..MaxTransfers, x \in User : (s # t \/ x # v) => R1[s][x] = R[s][x]
        /\ \A s \in 1..MaxTransfers \ {t} : R1[s] = R[s]
    BY <1>12
  <2> QED BY <1>6, <1>9, <1>16, <2>1, <2>2, <2>3, <2>4, ReceiveArrival, SMTT(60)
<1> QED BY <1>7, <1>8, <1>18 DEF Arrival

\* The end of t closes the file that is open for its sender: t itself, unless it was mixed
\* with another one.
LEMMA CompleteArrival ==
    ASSUME FlightInv, Arrival, NEW v \in User, NEW t \in Transfer, handleFileComplete(v, t)
    PROVE  Arrival'
<1>1. SUFFICES ASSUME NEW u, u = transfers[t].from, NEW f, f = incomingFiles[v][u],
                      NEW k, k = f.transfer, NEW W, W = Written(f),
                      NEW complete, complete = "complete"
               PROVE  Arrival'
  OBVIOUS
<1>2. /\ Reads(v, complete, t) /\ complete \in {"meta", "chunk", "complete"}
      /\ UNCHANGED <<program, link, transfers, outbox, overlaps, mishaps, failures>>
  BY <1>1 DEF handleFileComplete
<1>3. /\ inbox[v] # <<>> /\ Head(inbox[v]).transfer = t
      /\ v \in Receivers(t) /\ u # v /\ u \in User
  BY <1>1, <1>2, ReadsFacts
<1>4. /\ TypeOK /\ Shapes /\ Transfer \subseteq 1..MaxTransfers
      /\ \A s \in Transfer : transfers[s].chunks \in Nat /\ s # 0
  BY TransferFacts, PieceFacts DEF FlightInv
<1>5. /\ k \in Transfer \cup {0} /\ (k = 0 => f = Absent) /\ (f = Absent => k = 0)
      /\ f.chunks \in [DOMAIN f.chunks -> Transfer]
      /\ DOMAIN f.chunks \in SUBSET Nat /\ IsFiniteSet(DOMAIN f.chunks)
  <2>1. IncomingTypes
    BY <1>4, TypeParts
  <2>2. /\ k \in Transfer \cup {0} /\ (k = 0 => f = Absent)
        /\ f.chunks \in [DOMAIN f.chunks -> Transfer]
    BY <1>1, <1>3, <2>1 DEF IncomingTypes
  <2>3. DOMAIN f.chunks \in SUBSET Nat /\ IsFiniteSet(DOMAIN f.chunks)
    BY <1>1, <1>3, <2>1 DEF IncomingTypes
  <2>4. f = Absent => k = 0
    BY <1>1 DEF Absent
  <2> QED BY <2>2, <2>3, <2>4
<1>6. PICK R, E, P, Q : History(R, E, P, Q)
  BY DEF Arrival
<1>7. /\ R \in PerReader
      /\ \A s \in Transfer : \A x \in User : R[s][x] \in Nat
      /\ \A x, y \in User : OpenAt(R, x, y)
      /\ \A s \in Transfer, x \in User : KeptAt(R, s, x)
  BY <1>6, HistoryFacts
<1>8. R[t][v] = transfers[t].chunks + 1
  BY <1>1, <1>2, <1>6, ReadPiece
<1>9. PICK R1 \in PerReader :
          /\ R1[t][v] = R[t][v] + 1
          /\ \A s \in 1..MaxTransfers, x \in User : (s # t \/ x # v) => R1[s][x] = R[s][x]
          /\ \A s \in 1..MaxTransfers \ {t} : R1[s] = R[s]
  BY <1>4, <1>7, ReadOn
<1>10. IF f = Absent
       THEN UNCHANGED <<incomingFiles, downloads, windowVars, delivered>>
       ELSE /\ incomingFiles' = [incomingFiles EXCEPT ![v][u] = Absent]
            /\ \/ downloads' = [downloads EXCEPT ![v][transfers[k].name] =
                                  [transfer |-> k, chunks |-> W]]
               \/ UNCHANGED downloads
            /\ delivered' = delivered \cup {<<k, v>>}
            /\ IF program[v] = "chat" THEN FinishWidget(v, u, "complete") ELSE UNCHANGED windowVars
  BY <1>1 DEF handleFileComplete
<1>11. /\ incomingFiles'[v][u] = Absent
       /\ \A x, y \in User : (x # v \/ y # u) => incomingFiles'[x][y] = incomingFiles[x][y]
       /\ k # 0 => <<k, v>> \in delivered'
       /\ delivered \subseteq delivered'
  <2>1. CASE f = Absent
    BY <1>1, <1>10, <2>1, <1>5
  <2>2. CASE f # Absent
    <3>1. IncomingTypes
      BY <1>4, TypeParts
    <3>2. DOMAIN incomingFiles = User /\ \A x \in User : DOMAIN incomingFiles[x] = User
      BY <3>1 DEF IncomingTypes
    <3>3. PICK w : w = Absent
      OBVIOUS
    <3>4. /\ incomingFiles'[v][u] = w
          /\ \A x, y \in User : (x # v \/ y # u) => incomingFiles'[x][y] = incomingFiles[x][y]
      BY <1>3, <1>10, <2>2, <3>2, <3>3
    <3> QED BY <1>10, <2>2, <3>3, <3>4
  <2> QED BY <2>1, <2>2
<1>12. Forward /\ Transfer' = Transfer /\ Len(transfers') = Len(transfers)
  BY <1>2, <1>11, ForwardSame
\* What is open for u and is not t was sent together with t.
<1>13. ASSUME NEW s \in Transfer, s # t, transfers[s].from = u, v \in Receivers(s),
              0 < R[s][v], R[s][v] <= transfers[s].chunks + 1, ~IsCut(s) \/ k = s
       PROVE  Mixed(s, v)
  <2>1. R[t][v] > 0
    BY <1>4, <1>8
  <2> QED BY <1>1, <1>3, <1>6, <1>13, <2>1, ReadTogether
<1>14. OpenAt(R1, v, u)'
  BY <1>11 DEF OpenAt, Absent
<1>15. ASSUME NEW s \in Transfer, transfers[s].from = u PROVE KeptAt(R1, s, v)'
  <2>1. SUFFICES ASSUME ~IsCut(s), v \in Receivers(s), R1[s][v] > 0, ~Mixed(s, v)
                 PROVE  ~(R1[s][v] <= transfers[s].chunks + 1) /\ <<s, v>> \in delivered'
    BY <1>2, <1>15 DEF KeptAt, IsCut, Receivers, Mixed, Transfer
  <2>2. KeptAt(R, s, v)
    BY <1>7
  <2>3. CASE s = t
    <3>1. R[t][v] > 0 /\ R[t][v] <= transfers[t].chunks + 1 /\ ~(R1[t][v] <= transfers[t].chunks + 1)
      BY <1>4, <1>8, <1>9
    <3>2. k = t
      BY <1>1, <2>1, <2>2, <2>3, <3>1 DEF KeptAt
    <3> QED BY <1>4, <1>11, <2>3, <3>1, <3>2
  <2>4. CASE s # t
    <3>1. R1[s][v] = R[s][v]
      BY <1>4, <1>9, <2>4
    <3>2. ~(R[s][v] <= transfers[s].chunks + 1)
      BY <1>13, <1>15, <2>1, <2>4, <3>1
    <3> QED BY <1>11, <2>1, <2>2, <3>1, <3>2 DEF KeptAt
  <2> QED BY <2>3, <2>4
<1>16. \E A, B, C, D : History(A, B, C, D)'
  <2>1. IF complete = "meta" THEN incomingFiles'[v][u].transfer = t
        ELSE incomingFiles'[v][u].transfer \in {incomingFiles[v][u].transfer, 0}
    BY <1>1, <1>11 DEF Absent
  <2>2. UNCHANGED <<link, transfers, outbox>> /\ overlaps' = overlaps
    BY <1>2
  <2> QED BY <1>1, <1>2, <1>3, <1>6, <1>9, <1>11, <1>12, <1>14, <1>15, <2>1, <2>2, ReceiveArrival
<1>17. Shown'
  <2>1. CASE UNCHANGED windowVars
    BY <1>12, <2>1, ShownKept DEF windowVars, Arrival
  <2>2. CASE FinishWidget(v, u, "complete")
    <3>1. u \in Contact /\ "complete" \in {"complete", "failed"}
      BY <1>3 DEF Contact
    <3> QED BY <1>12, <2>2, <3>1, ShownFinish DEF Arrival
  <2> QED BY <1>10, <2>1, <2>2
\* The new file in Downloads.
<1>18. ASSUME k # 0
       PROVE  /\ \A i \in DOMAIN W : transfers[W[i][1]].from = transfers[k].from
              /\ \A i, j \in DOMAIN W : i < j => W[i][2] < W[j][2]
              /\ \/ W = Whole(k)
                 \/ Mixed(k, v)
                 \/ Garbled(k)
                 \/ transfers[k].to \in Group /\ W = <<>>
  <2>1. /\ \A i \in DOMAIN f.chunks : transfers[f.chunks[i]].from = u
        /\ k \in Transfer /\ transfers[k].from = u /\ v \in Receivers(k)
        /\ 0 < R[k][v] /\ R[k][v] <= transfers[k].chunks + 1
        /\ ~Mixed(k, v) =>
             IF transfers[k].to \in Group THEN DOMAIN f.chunks = {}
             ELSE ~Garbled(k) => /\ DOMAIN f.chunks = 0..(R[k][v] - 2)
                                 /\ \A i \in DOMAIN f.chunks : f.chunks[i] = k
    <3>1. OpenAt(R, v, u)
      BY <1>3, <1>7
    <3> QED BY <1>1, <1>5, <1>18, <3>1 DEF OpenAt
  <2>2. /\ \A i \in DOMAIN W : W[i][2] \in DOMAIN f.chunks /\ W[i][1] = f.chunks[W[i][2]]
        /\ \A i, j \in DOMAIN W : i < j => W[i][2] < W[j][2]
    <3>1. /\ Written(f) \in Seq(Transfer \X Nat)
          /\ \A i \in DOMAIN Written(f) : /\ Written(f)[i][2] \in DOMAIN f.chunks
                                          /\ Written(f)[i][1] = f.chunks[Written(f)[i][2]]
          /\ \A i, j \in DOMAIN Written(f) : i < j => Written(f)[i][2] < Written(f)[j][2]
      BY <1>5, WrittenFacts, ZenonT(60)
    <3>2. W = Written(f)
      BY <1>1
    <3> QED BY <3>1, <3>2
  <2>3. CASE Mixed(k, v)
    BY <2>1, <2>2, <2>3
  <2>4. CASE ~Mixed(k, v) /\ transfers[k].to \in Group
    BY <1>1, <2>1, <2>2, <2>4, WrittenNone
  <2>5. CASE ~Mixed(k, v) /\ transfers[k].to \notin Group /\ ~Garbled(k)
    <3>1. k = t
      BY <1>13, <2>1, <2>5
    <3>2. R[k][v] - 2 = transfers[k].chunks - 1 /\ transfers[k].chunks \in Nat
      BY <1>4, <1>8, <3>1
    <3>3. DOMAIN f.chunks = 0..(transfers[k].chunks - 1) /\ \A i \in DOMAIN f.chunks : f.chunks[i] = k
      BY <2>1, <2>5, <3>2
    <3>4. W = Whole(k)
      <4>1. PICK n \in Nat : n = transfers[k].chunks
        BY <3>2
      <4>2. DOMAIN f.chunks = 0..(n - 1) /\ \A i \in DOMAIN f.chunks : f.chunks[i] = k
        BY <3>3, <4>1
      <4>3. Written(f) = Whole(k)
        BY <4>1, <4>2, WrittenWhole
      <4> QED BY <1>1, <4>3
    <3> QED BY <2>1, <2>2, <3>4
  <2> QED BY <2>1, <2>2, <2>3, <2>4, <2>5
<1>19. SavedIsSent'
  <2>1. SUFFICES ASSUME NEW x \in User, NEW name \in FileName PROVE SavedAt(x, name)'
    BY SavedPartsNext
  <2>2. SavedAt(x, name)
    BY SavedParts DEF Arrival
  <2>3. CASE downloads'[x][name] = downloads[x][name]
    BY <1>12, <2>2, <2>3, SavedAtKept
  <2>4. CASE /\ k # 0
             /\ downloads' = [downloads EXCEPT ![v][transfers[k].name] = [transfer |-> k, chunks |-> W]]
    <3>1. /\ k \in Transfer /\ transfers[k].name \in FileName /\ W \in Seq(Transfer \X Nat)
      BY <1>1, <1>4, <1>5, <2>4, TransferFacts, WrittenFacts
    <3>2. /\ downloads'[v][transfers[k].name] = [transfer |-> k, chunks |-> W]
          /\ \A y \in User, n \in FileName : (y # v \/ n # transfers[k].name) =>
                downloads'[y][n] = downloads[y][n]
      <4>1. PICK d, file : d = [transfer |-> k, chunks |-> W] /\ file = transfers[k].name
        OBVIOUS
      <4>2. DownloadTypes
        BY <1>4, TypeParts
      <4>3. DOMAIN downloads = User /\ \A x1 \in User : DOMAIN downloads[x1] = FileName
        BY <4>2 DEF DownloadTypes
      <4>4. /\ downloads'[v][file] = d
            /\ \A y \in User, n \in FileName : (y # v \/ n # file) =>
                  downloads'[y][n] = downloads[y][n]
        BY <2>4, <3>1, <4>1, <4>3
      <4> QED BY <4>1, <4>4
    <3>3. CASE x # v \/ name # transfers[k].name
      BY <2>3, <3>2, <3>3
    <3>4. CASE x = v /\ name = transfers[k].name
      <4>1. downloads'[x][name].transfer = k /\ downloads'[x][name].chunks = W
        BY <3>2, <3>4
      <4>2. /\ transfers' = transfers /\ Whole(k)' = Whole(k)
            /\ Mixed(k, v) => Mixed(k, v)'
            /\ Garbled(k) => Garbled(k)'
        BY <1>2 DEF Whole, Mixed, Garbled, Receivers, Transfer
      <4> QED BY <1>18, <2>4, <3>4, <4>1, <4>2 DEF SavedAt
    <3> QED BY <3>3, <3>4
  <2> QED BY <1>5, <1>10, <2>3, <2>4
<1> QED BY <1>16, <1>17, <1>19 DEF Arrival

-----------------------------------------------------------------------------
LEMMA ArrivalNext == FlightInv /\ Arrival /\ [Next]_vars => Arrival'
<1> SUFFICES ASSUME FlightInv, Arrival, [Next]_vars PROVE Arrival'
  OBVIOUS
<1>1. ASSUME NEW u \in User, Enter(u) PROVE Arrival'
  BY <1>1, EnterArrival
<1>2. ASSUME NEW u \in User, OpenChat(u) PROVE Arrival'
  BY <1>2, OpenChatArrival
<1>3. ASSUME NEW u \in User, Unlist(u) PROVE Arrival'
  BY <1>3, UnlistArrival
<1>4. ASSUME NEW u \in User, Break(u) PROVE Arrival'
  BY <1>4, BreakArrival
<1>5. ASSUME NEW u \in User, Leave(u) PROVE Arrival'
  BY <1>5, LeaveArrival
<1>6. ASSUME NEW u \in User, NEW to \in Contact, NEW name \in FileName, NEW n \in 0..MaxChunks,
             Attach(u, to, name, n)
      PROVE  Arrival'
  BY <1>6, AttachArrival
<1>7. ASSUME NEW u \in User, RouteFile(u) PROVE Arrival'
  BY <1>7, RouteArrival
<1>8. ASSUME NEW u \in User, Receive(u) PROVE Arrival'
  BY <1>8, MetadataArrival, ChunkArrival, CompleteArrival DEF Receive
<1>9. ASSUME NEW t \in Transfer, RunThread(t) PROVE Arrival'
  BY <1>9, OpenFailsArrival, SendMetaArrival, SendChunkArrival, SendCompleteArrival DEF RunThread
<1>10. ASSUME UNCHANGED vars PROVE Arrival'
  <2>1. UNCHANGED <<link, transfers, outbox, inbox, incomingFiles, downloads, windowVars, pastVars>>
    BY <1>10 DEF vars
  <2>2. Forward /\ Transfer' = Transfer /\ Len(transfers') = Len(transfers)
    BY <2>1, ForwardSame DEF pastVars
  <2>3. SavedIsSent' /\ \E R, E, P, Q : History(R, E, P, Q)'
    BY <2>1, <2>2, HistoryKept DEF Transfer
  <2>4. Shown'
    BY <2>1, <2>2, ShownKept DEF windowVars, Arrival
  <2> QED BY <2>3, <2>4 DEF Arrival
<1> QED BY <1>1, <1>2, <1>3, <1>4, <1>5, <1>6, <1>7, <1>8, <1>9, <1>10 DEF Next

LEMMA ArrivalInvariant == Spec => [](FlightInv /\ Arrival)
<1>1. Init => FlightInv /\ Arrival
  BY FlightInit, ArrivalInit
<1>2. (FlightInv /\ Arrival) /\ [Next]_vars => (FlightInv /\ Arrival)'
  BY FlightNext, ArrivalNext
<1> QED BY <1>1, <1>2, PTL DEF Spec

(* What is saved in Downloads was sent by the sender of the metadata, in order and no
   piece twice; a file that a user sends on its own to a user is whole, unless a chunk
   came garbled, whatever broke off or ended before (handleFileComplete).            *)
THEOREM FilesArriveAsSent == Spec => []SavedIsSent
<1>1. Arrival => SavedIsSent
  BY DEF Arrival
<1> QED BY <1>1, ArrivalInvariant, PTL

(* A widget that is still moving belongs to a file that is under way, unless two files
   crossed, or, at a receiver, the file was cut off (activeTransfers_ and the slots
   onFileMetaReceived, onFileComplete, onFileSent and onFileError).                  *)
THEOREM ActiveWidgetsAreUnderWay == Spec => []ActiveIsUnderWay
<1>1. ASSUME FlightInv, Arrival PROVE ActiveIsUnderWay
  <2>1. SUFFICES ASSUME NEW t \in Transfer, NEW u \in User, widgets[t][u] = "active",
                        ~Crossed(t, u), ~(u # transfers[t].from /\ IsCut(t))
                 PROVE  UnderWay(t)
    BY DEF ActiveIsUnderWay, IsCut
  <2>2. PICK R, E, P, Q : History(R, E, P, Q)
    BY <1>1 DEF Arrival
  <2>3. activeTransfers[u][Key(t, u)] = t
    BY <1>1, <2>1 DEF Arrival, Shown
  <2>4. t # 0 /\ Key(t, u) \in Contact /\ transfers[t].from \in User
    BY <1>1, TransferFacts DEF FlightInv
  <2>5. /\ u \in Involved(t)
        /\ transfers[t].from = u => Running(t)
        /\ transfers[t].from # u => incomingFiles[u][transfers[t].from].transfer = t
    BY <1>1, <2>3, <2>4 DEF FlightInv, Registered
  <2>6. CASE transfers[t].from = u
    BY <2>5, <2>6 DEF Running, UnderWay
  <2>7. CASE transfers[t].from # u
    <3>1. OpenAt(R, u, transfers[t].from)
      BY <1>1, <2>2, <2>4, HistoryFacts
    <3>2. 0 < R[t][u] /\ R[t][u] <= transfers[t].chunks + 1 /\ u \in Receivers(t)
      BY <2>4, <2>5, <2>7, <3>1 DEF OpenAt
    <3>3. ~IsCut(t)
      BY <2>1, <2>7
    <3> QED BY <1>1, <2>2, <3>2, <3>3, ReadUnderWay
  <2> QED BY <2>6, <2>7
<1>2. FlightInv /\ Arrival => ActiveIsUnderWay
  BY <1>1
<1> QED BY <1>2, ArrivalInvariant, PTL

(* A file that its sender reports as sent, and of which nothing is under way any more,
   was put together by all its receivers, unless it was cut on its way or mixed with
   another file of the same sender (sendFile, routeFileRaw and handleFileComplete).  *)
THEOREM SentFilesHaveArrived == Spec => []SentHasArrived
<1>1. ASSUME FlightInv, Arrival PROVE SentHasArrived
  <2>1. SUFFICES ASSUME NEW t \in Transfer, transfers[t].thread = "sent", ~UnderWay(t),
                        ~IsCut(t), NEW v \in Receivers(t), ~Mixed(t, v)
                 PROVE  <<t, v>> \in delivered
    BY DEF SentHasArrived, IsCut
  <2>2. PICK R, E, P, Q : History(R, E, P, Q)
    BY <1>1 DEF Arrival
  <2>3. v \in User /\ transfers[t].chunks \in Nat
    BY <1>1, TransferFacts DEF FlightInv
  <2>4. R[t][v] = transfers[t].chunks + 2
    BY <1>1, <2>1, <2>2, NowhereLevel
  <2>5. KeptAt(R, t, v)
    BY <1>1, <2>2, <2>3, HistoryFacts
  <2> QED BY <2>1, <2>3, <2>4, <2>5 DEF KeptAt
<1>2. FlightInv /\ Arrival => SentHasArrived
  BY <1>1
<1> QED BY <1>2, ArrivalInvariant, PTL
=============================================================================
