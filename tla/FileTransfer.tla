---------------------------- MODULE FileTransfer ----------------------------
(***************************************************************************)
(* Files on their way from one user to others: the thread that sendFile    *)
(* starts for each file, the server that forwards or drops the pieces, the *)
(* receiver's one incoming file per sender, and the widgets by which both  *)
(* chat windows tell their users what became of a file.                    *)
(*                                                                         *)
(* A user has one program and one connection at a time.  What the program  *)
(* queues for the server (write queue, socket, the session's reads) is one *)
(* queue, and so is what the server queues for the program: both keep the  *)
(* order, see RequestsInOrder of ClientCore and FifoPerConnection of       *)
(* LanShareServer.  A callback and the slot it invokes on the ui thread    *)
(* are one step: slots run in the order of the callbacks and share no      *)
(* state with the io thread.  All users are members of all groups.         *)
(*                                                                         *)
(* Transfers are numbered as they start; a chunk is its transfer and its   *)
(* index, so that a saved file shows where each of its pieces came from.   *)
(***************************************************************************)
EXTENDS Naturals, Sequences, FiniteSets, SequencesExt, Positions

CONSTANTS
    User, Group, FileName,
    MaxTransfers,  \* bound: files sent in a behaviour
    MaxChunks,     \* bound: chunks of all files together
    MaxQueue,      \* bound: messages in one queue
    MaxFailures    \* bound: programs that end and connections that fail

ASSUME FileAssumption ==
    /\ User \cap Group = {}
    /\ {MaxTransfers, MaxChunks, MaxQueue, MaxFailures} \subseteq Nat

VARIABLES
    program,         \* "off", "login": logged in, no chat window yet, "chat"
    link,            \* the connection: "up", "unlisted": the server does not find
                     \* the user, "down": lost, or never there
    transfers,       \* the sendFile calls, each with the state of its thread
    outbox,          \* per user: on the way to the server
    inbox,           \* per user: on the way from the server
    incomingFiles,   \* incomingFiles_ of each user, per sender
    downloads,       \* the Downloads folder of each user, per file name
    activeTransfers, \* activeTransfers_ of each user, per contact
    widgets,         \* the FileTransferWidget of each transfer at each user
    failures,        \* number of failures so far
    \* history, never read by the code:
    delivered,       \* <<transfer, user>>: handled to the end by that receiver
    overlaps,        \* pairs of transfers that were under way at the same time
    mishaps          \* <<transfer, what went wrong with it on its way>>

windowVars == <<activeTransfers, widgets>>
pastVars == <<delivered, overlaps, mishaps>>
vars == <<program, link, transfers, outbox, inbox, incomingFiles, downloads, windowVars, failures, pastVars>>

Contact == User \cup Group

-----------------------------------------------------------------------------
(* Data. *)

Transfer == 1..Len(transfers)

\* No transfer has the number 0: there is no such widget, entry or file.
Absent == [transfer |-> 0, chunks |-> <<>>]

Receivers(t) == IF transfers[t].to \in Group THEN User \ {transfers[t].from}
                                             ELSE {transfers[t].to}

Involved(t) == {transfers[t].from} \cup Receivers(t)

UnderWay(t) ==
    \/ transfers[t].thread \in {"opening", "sending"}
    \/ \E u \in User : \E m \in ToSet(outbox[u]) \cup ToSet(inbox[u]) : m.transfer = t

\* History: these transfers lost a piece, or whoever sends or takes it.
Cut(S) == mishaps' = mishaps \cup {<<t, "cut">> : t \in S}

CutFor(u) == Cut({t \in Transfer : u \in Involved(t) /\ UnderWay(t)})

-----------------------------------------------------------------------------
(* The chat window. *)

\* Mutant: the widget is made and not registered, as its chat is not the open one.
onFileMetaReceivedHidden(v, from, t) ==
    /\ widgets' = [widgets EXCEPT ![t][v] = "active"]
    /\ UNCHANGED activeTransfers

\* Mutant: a contact that has a widget keeps it.
onFileMetaReceivedOnce(v, from, t) ==
    /\ widgets' = [widgets EXCEPT ![t][v] = "active"]
    /\ activeTransfers' = [activeTransfers EXCEPT ![v][from] = IF @ = 0 THEN t ELSE @]

onFileMetaReceived(v, from, t) ==
    /\ widgets' = [widgets EXCEPT ![t][v] = "active"]
    /\ activeTransfers' = [activeTransfers EXCEPT ![v][from] = t]

\* onFileComplete and onFileSent (setComplete), onFileError (setFailed): the widget
\* the contact has at the moment, if any.
FinishWidget(u, contact, status) ==
    LET t == activeTransfers[u][contact]
    IN  IF t = 0 THEN UNCHANGED windowVars
        ELSE /\ widgets' = [widgets EXCEPT ![t][u] = status]
             /\ activeTransfers' = [activeTransfers EXCEPT ![u][contact] = 0]

\* onAttachClicked, for the current contact, with the thread that sendFile starts.
Attach(u, to, name, chunks) ==
    /\ program[u] = "chat" /\ to # u
    /\ Len(transfers) < MaxTransfers
    /\ FoldSeq(LAMBDA f, n : f.chunks + n, chunks, transfers) <= MaxChunks
    /\ LET t == Len(transfers) + 1
       IN  /\ transfers' = Append(transfers, [from |-> u, to |-> to, name |-> name,
                                              chunks |-> chunks, thread |-> "opening", next |-> 0])
           /\ widgets' = [widgets EXCEPT ![t][u] = "active"]
           /\ activeTransfers' = [activeTransfers EXCEPT ![u][to] = t]
           /\ overlaps' = overlaps \cup
                {{s, t} : s \in {s \in Transfer :
                    IF transfers[s].from = u THEN transfers[s].thread \in {"opening", "sending"}
                                             ELSE UnderWay(s)}}
    /\ UNCHANGED <<program, link, outbox, inbox, incomingFiles, downloads, delivered, mishaps, failures>>

-----------------------------------------------------------------------------
(* The thread of sendFile. *)

Becomes(t, thread, next) ==
    transfers' = [transfers EXCEPT ![t].thread = thread, ![t].next = next]

\* ClientCore::sendMessage.  Without a connection what is queued goes nowhere.
sendMessage(t, kind, index) ==
    LET u == transfers[t].from
    IN  IF link[u] = "down"
        THEN Cut({t}) /\ UNCHANGED outbox
        ELSE /\ Len(outbox[u]) < MaxQueue
             /\ outbox' = [outbox EXCEPT ![u] =
                             Append(@, [transfer |-> t, kind |-> kind, index |-> index])]
             /\ UNCHANGED mishaps

OpenFails(t) ==
    /\ transfers[t].thread = "opening"
    /\ Becomes(t, "failed", 0)
    /\ FinishWidget(transfers[t].from, transfers[t].to, "failed")
    /\ UNCHANGED <<program, link, outbox, inbox, incomingFiles, downloads, pastVars, failures>>

SendMeta(t) ==
    /\ transfers[t].thread = "opening"
    /\ Becomes(t, "sending", 0)
    /\ sendMessage(t, "meta", 0)
    /\ UNCHANGED <<program, link, inbox, incomingFiles, downloads, windowVars, delivered, overlaps, failures>>

\* Mutant: the loop runs once too often.
SendChunkMore(t) ==
    /\ transfers[t].thread = "sending" /\ transfers[t].next <= transfers[t].chunks
    /\ Becomes(t, "sending", transfers[t].next + 1)
    /\ sendMessage(t, "chunk", transfers[t].next)
    /\ UNCHANGED <<program, link, inbox, incomingFiles, downloads, windowVars, delivered, overlaps, failures>>

\* One turn of the loop: read, encrypt, send; an empty file has no chunk.
SendChunk(t) ==
    /\ transfers[t].thread = "sending" /\ transfers[t].next < transfers[t].chunks
    /\ Becomes(t, "sending", transfers[t].next + 1)
    /\ sendMessage(t, "chunk", transfers[t].next)
    /\ UNCHANGED <<program, link, inbox, incomingFiles, downloads, windowVars, delivered, overlaps, failures>>

\* Mutant: an empty file is at its end before FILE_COMPLETE is sent.
SendCompleteOfSome(t) ==
    /\ transfers[t].thread = "sending" /\ transfers[t].next = transfers[t].chunks
    /\ Becomes(t, "sent", transfers[t].chunks)
    /\ IF transfers[t].chunks = 0 THEN UNCHANGED <<outbox, mishaps>>
                                  ELSE sendMessage(t, "complete", 0)
    /\ FinishWidget(transfers[t].from, transfers[t].to, "complete")
    /\ UNCHANGED <<program, link, inbox, incomingFiles, downloads, delivered, overlaps, failures>>

\* FILE_COMPLETE and fileSentCallback_: nobody has said that anything arrived.
SendComplete(t) ==
    /\ transfers[t].thread = "sending" /\ transfers[t].next = transfers[t].chunks
    /\ Becomes(t, "sent", transfers[t].chunks)
    /\ sendMessage(t, "complete", 0)
    /\ FinishWidget(transfers[t].from, transfers[t].to, "complete")
    /\ UNCHANGED <<program, link, inbox, incomingFiles, downloads, delivered, overlaps, failures>>

RunThread(t) == OpenFails(t) \/ SendMeta(t) \/ SendChunk(t) \/ SendComplete(t)

-----------------------------------------------------------------------------
(* The server: routeFileRaw and routeFileRawGroup.  What comes from u goes to the
   sessions the registry has for its receivers; for the others it is dropped.     *)

RouteFile(u) ==
    /\ outbox[u] # <<>>
    /\ outbox' = [outbox EXCEPT ![u] = Tail(@)]
    /\ LET m == Head(outbox[u])
           R == Receivers(m.transfer)
       IN  /\ \A v \in R : Len(inbox[v]) < MaxQueue
           /\ inbox' = [v \in User |-> IF v \in R /\ link[v] = "up" THEN Append(inbox[v], m)
                                                                    ELSE inbox[v]]
           /\ IF \A v \in R : link[v] = "up" THEN UNCHANGED mishaps ELSE Cut({m.transfer})
    /\ UNCHANGED <<program, link, transfers, incomingFiles, downloads, windowVars, delivered, overlaps, failures>>

-----------------------------------------------------------------------------
(* The receiver's handlers.  Before there is a chat window nobody is told. *)

\* v reads a message of this kind, from the transfer t.
Reads(v, kind, t) ==
    /\ inbox[v] # <<>>
    /\ Head(inbox[v]).kind = kind /\ Head(inbox[v]).transfer = t
    /\ inbox' = [inbox EXCEPT ![v] = Tail(@)]

\* Mutant: chunks of an earlier file that was not completed are kept.
handleFileMetadataKeeping(v, t) ==
    /\ Reads(v, "meta", t)
    /\ LET from == transfers[t].from
       IN  /\ incomingFiles' = [incomingFiles EXCEPT ![v][from].transfer = t]
           /\ IF program[v] = "chat" THEN onFileMetaReceived(v, from, t) ELSE UNCHANGED windowVars
    /\ UNCHANGED <<program, link, transfers, outbox, downloads, pastVars, failures>>

\* Whatever the sender's earlier file had received is forgotten.
handleFileMetadata(v, t) ==
    /\ Reads(v, "meta", t)
    /\ LET from == transfers[t].from
       IN  /\ incomingFiles' = [incomingFiles EXCEPT ![v][from] =
                                  [transfer |-> t, chunks |-> <<>>]]
           /\ IF program[v] = "chat" THEN onFileMetaReceived(v, from, t) ELSE UNCHANGED windowVars
    /\ UNCHANGED <<program, link, transfers, outbox, downloads, pastVars, failures>>

\* The sender derives the key of a chunk from its own name and what it sends to; the
\* receiver derives it from the two users.
KeysAgree(v, t) == {transfers[t].from, transfers[t].to} = {v, transfers[t].from}

\* The chunk is stored if it can be decrypted and its sender has an incoming file.
StoreChunk(v, t, index) ==
    LET from == transfers[t].from
        f == incomingFiles[v][from]
    IN  IF KeysAgree(v, t) /\ f # Absent
        THEN incomingFiles' = [incomingFiles EXCEPT ![v][from].chunks =
                 [i \in DOMAIN f.chunks \cup {index} |-> IF i = index THEN t ELSE f.chunks[i]]]
        ELSE UNCHANGED incomingFiles

\* The end of a chunk that the sender's socket did not take at once was read from freed
\* memory (writeNext of ClientCore): its decryption may fail, and then it is skipped.
handleFileChunk(v, t) ==
    /\ Reads(v, "chunk", t)
    /\ \/ StoreChunk(v, t, Head(inbox[v]).index) /\ UNCHANGED mishaps
       \/ /\ KeysAgree(v, t)
          /\ mishaps' = mishaps \cup {<<t, "garbled">>} /\ UNCHANGED incomingFiles
    /\ UNCHANGED <<program, link, transfers, outbox, downloads, windowVars, delivered, overlaps, failures>>

\* What is written: of the indices below the number of chunks those there are, in order.
Written(f) ==
    LET present == {n \in 1..Cardinality(DOMAIN f.chunks) : n - 1 \in DOMAIN f.chunks}
        index(k) == Nth(present, k) - 1
    IN  [k \in 1..Cardinality(present) |-> <<f.chunks[index(k)], index(k)>>]

\* The file gets the name its metadata had.  If it cannot be opened, everything else
\* happens all the same.
handleFileComplete(v, t) ==
    /\ Reads(v, "complete", t)
    /\ LET from == transfers[t].from
           f == incomingFiles[v][from]
       IN  IF f = Absent
           THEN UNCHANGED <<incomingFiles, downloads, windowVars, delivered>>
           ELSE /\ incomingFiles' = [incomingFiles EXCEPT ![v][from] = Absent]
                /\ \/ downloads' = [downloads EXCEPT ![v][transfers[f.transfer].name] =
                                      [transfer |-> f.transfer, chunks |-> Written(f)]]
                   \/ UNCHANGED downloads
                /\ delivered' = delivered \cup {<<f.transfer, v>>}
                /\ IF program[v] = "chat" THEN FinishWidget(v, from, "complete")
                                          ELSE UNCHANGED windowVars
    /\ UNCHANGED <<program, link, transfers, outbox, overlaps, mishaps, failures>>

Receive(v) == \E t \in Transfer :
    handleFileMetadata(v, t) \/ handleFileChunk(v, t) \/ handleFileComplete(v, t)

-----------------------------------------------------------------------------
(* Programs and connections come and go. *)

\* The server has read what was left of the user's former connection.
Enter(u) ==
    /\ program[u] = "off" /\ outbox[u] = <<>>
    /\ program' = [program EXCEPT ![u] = "login"]
    /\ link' = [link EXCEPT ![u] = "up"]
    /\ UNCHANGED <<transfers, outbox, inbox, incomingFiles, downloads, windowVars, pastVars, failures>>

\* LoginWindow::openChatWindow, 500 ms after the login
OpenChat(u) ==
    /\ program[u] = "login"
    /\ program' = [program EXCEPT ![u] = "chat"]
    /\ UNCHANGED <<link, transfers, outbox, inbox, incomingFiles, downloads, windowVars, pastVars, failures>>

Fails == failures < MaxFailures /\ failures' = failures + 1

\* An older session of the user ends: see UnlistedOnlyByAnother of LanShareServer.
Unlist(u) ==
    /\ link[u] = "up" /\ Fails
    /\ link' = [link EXCEPT ![u] = "unlisted"]
    /\ UNCHANGED <<program, transfers, outbox, inbox, incomingFiles, downloads, windowVars, pastVars>>

\* The connection breaks; some of what was on the way still arrives.
Break(u) ==
    /\ link[u] # "down" /\ Fails
    /\ link' = [link EXCEPT ![u] = "down"]
    /\ \E i \in 0..Len(outbox[u]) : outbox' = [outbox EXCEPT ![u] = SubSeq(@, 1, i)]
    /\ \E i \in 0..Len(inbox[u]) : inbox' = [inbox EXCEPT ![u] = SubSeq(@, 1, i)]
    /\ CutFor(u)
    /\ UNCHANGED <<program, transfers, incomingFiles, downloads, windowVars, delivered, overlaps>>

\* The program ends, whatever its threads are doing.
Leave(u) ==
    /\ program[u] # "off" /\ Fails
    /\ program' = [program EXCEPT ![u] = "off"]
    /\ link' = [link EXCEPT ![u] = "down"]
    /\ transfers' = [t \in Transfer |->
          IF transfers[t].from = u /\ transfers[t].thread \in {"opening", "sending"}
          THEN [transfers[t] EXCEPT !.thread = "ended"] ELSE transfers[t]]
    /\ \E i \in 0..Len(outbox[u]) : outbox' = [outbox EXCEPT ![u] = SubSeq(@, 1, i)]
    /\ inbox' = [inbox EXCEPT ![u] = <<>>]
    /\ incomingFiles' = [incomingFiles EXCEPT ![u] = [v \in User |-> Absent]]
    /\ activeTransfers' = [activeTransfers EXCEPT ![u] = [c \in Contact |-> 0]]
    /\ widgets' = [t \in 1..MaxTransfers |-> [widgets[t] EXCEPT ![u] = "none"]]
    /\ CutFor(u)
    /\ UNCHANGED <<downloads, delivered, overlaps>>

-----------------------------------------------------------------------------
Init ==
    /\ program = [u \in User |-> "off"] /\ link = [u \in User |-> "down"]
    /\ transfers = <<>>
    /\ outbox = [u \in User |-> <<>>] /\ inbox = [u \in User |-> <<>>]
    /\ incomingFiles = [u \in User |-> [v \in User |-> Absent]]
    /\ downloads = [u \in User |-> [name \in FileName |-> Absent]]
    /\ activeTransfers = [u \in User |-> [c \in Contact |-> 0]]
    /\ widgets = [t \in 1..MaxTransfers |-> [u \in User |-> "none"]]
    /\ failures = 0
    /\ delivered = {} /\ overlaps = {} /\ mishaps = {}

Next ==
    \/ \E u \in User :
        \/ Enter(u) \/ OpenChat(u) \/ Unlist(u) \/ Break(u) \/ Leave(u)
        \/ \E to \in Contact, name \in FileName, n \in 0..MaxChunks : Attach(u, to, name, n)
        \/ RouteFile(u) \/ Receive(u)
    \/ \E t \in Transfer : RunThread(t)

Spec == Init /\ [][Next]_vars

-----------------------------------------------------------------------------
Message == [transfer : Nat, kind : {"meta", "chunk", "complete"}, index : Nat]

(* Types. *)
TypeOK ==
    /\ program \in [User -> {"off", "login", "chat"}]
    /\ link \in [User -> {"up", "unlisted", "down"}]
    /\ transfers \in Seq([from : User, to : Contact, name : FileName, chunks : Nat, next : Nat,
                          thread : {"opening", "sending", "sent", "failed", "ended"}])
    /\ \A t \in Transfer : transfers[t].next <= transfers[t].chunks
    /\ outbox \in [User -> Seq(Message)] /\ inbox \in [User -> Seq(Message)]
    /\ \A u \in User : \A m \in ToSet(outbox[u]) \cup ToSet(inbox[u]) : m.transfer \in Transfer
    /\ \A u, v \in User : LET f == incomingFiles[u][v]
                          IN  /\ f.transfer \in Transfer \cup {0}
                              /\ f.chunks \in [DOMAIN f.chunks -> Transfer]
    /\ \A u \in User, name \in FileName :
          downloads[u][name].chunks \in Seq(Transfer \X Nat)
    /\ activeTransfers \in [User -> [Contact -> Transfer \cup {0}]]
    /\ widgets \in [1..MaxTransfers -> [User -> {"none", "active", "complete", "failed"}]]
    /\ failures \in Nat
    /\ delivered \subseteq Transfer \X User
    /\ overlaps \subseteq SUBSET Transfer
    /\ mishaps \subseteq Transfer \X {"cut", "garbled"}

-----------------------------------------------------------------------------
(* Safety. *)

Whole(t) == [k \in 1..transfers[t].chunks |-> <<t, k - 1>>]

\* The sender had another file under way to v.
Mixed(t, v) ==
    \E s \in Transfer \ {t} : /\ {s, t} \in overlaps
                              /\ transfers[s].from = transfers[t].from
                              /\ v \in Receivers(s)

(* What a file in Downloads holds was sent by the sender of the metadata it was named
   after, in the order of the indices and no piece twice.  A file that a user sends on
   its own is complete unless a chunk came garbled, whoever ended, broke off or came
   back before, and whatever was left of files that broke off.  A file sent to a group
   is empty: see GroupFilesAreWhole.                                                  *)
SavedIsSent ==
    \A v \in User, name \in FileName :
        LET d == downloads[v][name]
        IN  d # Absent =>
              /\ \A i \in DOMAIN d.chunks :
                    transfers[d.chunks[i][1]].from = transfers[d.transfer].from
              /\ \A i, j \in DOMAIN d.chunks : i < j => d.chunks[i][2] < d.chunks[j][2]
              /\ \/ d.chunks = Whole(d.transfer)
                 \/ Mixed(d.transfer, v)
                 \/ <<d.transfer, "garbled">> \in mishaps
                 \/ transfers[d.transfer].to \in Group /\ d.chunks = <<>>

\* The contact under which u keeps the widget of t.
Key(t, u) == IF u = transfers[t].from THEN transfers[t].to ELSE transfers[t].from

\* Another transfer was under way under the same key.
Crossed(t, u) ==
    \E s \in Transfer \ {t} : {s, t} \in overlaps /\ u \in Involved(s) /\ Key(s, u) = Key(t, u)

(* A widget that says `complete' tells the truth: the sender's, that every piece was
   handed over; the receiver's, that this file was put together and saved, if it could
   be written.  Unless two files crossed: widgets are looked up by contact, so one file
   may finish the other's.                                                            *)
CompleteIsTrue ==
    \A t \in Transfer, u \in User :
        widgets[t][u] = "complete" =>
            \/ u = transfers[t].from /\ transfers[t].thread = "sent"
            \/ <<t, u>> \in delivered
            \/ Crossed(t, u)

(* A widget that says `sending' or `receiving' belongs to a file that is still under
   way: a sender's widget is finished whatever becomes of the connection, a receiver's
   unless the file was cut off, and unless two files crossed, when one is forgotten.  *)
ActiveIsUnderWay ==
    \A t \in Transfer, u \in User :
        widgets[t][u] = "active" =>
            \/ UnderWay(t)
            \/ Crossed(t, u)
            \/ u # transfers[t].from /\ <<t, "cut">> \in mishaps

(* A file reported as sent, of which no piece is under way any more, has reached all its
   receivers, unless somebody on its way ended, broke off or was not found, or the same
   user sent another file beside it: the receiver takes the first end for the end of
   both.                                                                              *)
SentHasArrived ==
    \A t \in Transfer :
        transfers[t].thread = "sent" /\ ~UnderWay(t) =>
            \/ \A v \in Receivers(t) : <<t, v>> \in delivered \/ Mixed(t, v)
            \/ <<t, "cut">> \in mishaps

-----------------------------------------------------------------------------
(* What the documents say and the code does not keep. *)

(* A file sent to a group is saved by its members like any other.               *)
GroupFilesAreWhole ==
    \A v \in User, name \in FileName :
        LET d == downloads[v][name]
        IN  /\ d # Absent /\ transfers[d.transfer].to \in Group
            /\ <<d.transfer, "garbled">> \notin mishaps
            => d.chunks = Whole(d.transfer)
=============================================================================
