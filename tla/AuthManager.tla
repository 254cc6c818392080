----------------------------- MODULE AuthManager -----------------------------
(***************************************************************************)
(* User accounts (server/AuthManager.cpp) through the life of the server   *)
(* process: registration, the save of users.db on a signal, a kill at any  *)
(* time, and the load at the next start (server/main.cpp, ServerCore).     *)
(*                                                                         *)
(* Two threads use AuthManager: the one that runs ioContext_, and, on the  *)
(* program's platform, the thread in which the system calls signalHandler. *)
(* Every method holds mutex_ for its whole body and is one action, except  *)
(* saveToFile, which is taken apart because the process may be killed      *)
(* between its writes.                                                     *)
(*                                                                         *)
(* A user name is the sequence of its parts between '|' characters, so     *)
(* <<"a">> is the name a and <<"a", "b">> the name a|b.  Times are left    *)
(* out: nothing but the file ever reads them.                              *)
(***************************************************************************)
EXTENDS Naturals, Sequences, FiniteSets, FiniteSetsExt

CONSTANTS
    Username,   \* names of 1 to 32 characters, as sequences of their parts
    Password,   \* passwords of at least 4 characters
    Tag,        \* the four hexadecimal digits at the end of a user id
    Unusable, NoUserID

ASSUME AccountAssumption ==
    /\ IsFiniteSet(Username) /\ \A n \in Username : Len(n) \in {1, 2}
    /\ Unusable \notin Password
    /\ NoUserID \notin Username \X Tag

VARIABLES
    users,      \* users_
    usersDB,    \* the lines of users.db; no line at all if there is no such file
    process,    \* "running", "stopping": running_ = false, "saving": in saveToFile,
                \* "saved": left saveToFile, "down"
    unsaved,    \* names the loop of saveToFile has still to write
    \* history, never read by the code:
    previous,   \* what users.db held when the save began
    atSignal,   \* users_ when the signal came, if users.db could be opened
    latest      \* the last registration of each name, lost or not

vars == <<users, usersDB, process, unsaved, previous, atSignal, latest>>

UserID == Username \X Tag

Account == [password : Password \cup {Unusable}, userID : UserID \cup {NoUserID}]

None == [n \in {} |-> {}]

-----------------------------------------------------------------------------
(* The file. *)

\* The line of a user, [name, account].
Line(n) == [name |-> n, account |-> users[n]]

\* A line whose end is missing: the id is cut short, or the hash is and there is
\* no id.  (A cut in the name leaves a line for another name, which is left out.)
Torn(line) == {[line EXCEPT !.account.userID = NoUserID],
               [line EXCEPT !.account = [password |-> Unusable, userID |-> NoUserID]]}

\* What loadFromFile makes of a line: the fields are split at every '|', those in
\* the name included.  The second part of the name is taken for the password hash
\* (it has no ':', so no password matches) and hash:salt for the user id.
Parsed(line) ==
    IF Len(line.name) = 1
    THEN line
    ELSE [name |-> <<Head(line.name)>>,
          account |-> [password |-> Unusable, userID |-> NoUserID]]

\* loadFromFile: of several lines for a name the last one counts.
Loaded(lines) ==
    LET LinesOf(n) == {i \in DOMAIN lines : Parsed(lines[i]).name = n}
    IN  [n \in {Parsed(lines[i]).name : i \in DOMAIN lines} |->
            Parsed(lines[Max(LinesOf(n))]).account]

-----------------------------------------------------------------------------
(* The thread that runs ioContext_, until stop() stops it. *)

\* Mutant: saveToFile does not lock mutex_.
MutexNeverTaken == process # "down"

\* mutex_ is free and a handler can run.
MutexFree == process \in {"running", "stopping", "saved"}

\* Mutant: an existing account is replaced.
registerUserAgain(n, password) ==
    /\ MutexFree
    /\ \E tag \in Tag :
         LET account == [password |-> password, userID |-> <<n, tag>>]
             With(table) == [k \in DOMAIN table \cup {n} |-> IF k = n THEN account ELSE table[k]]
         IN  users' = With(users) /\ latest' = With(latest)
    /\ UNCHANGED <<usersDB, process, unsaved, previous, atSignal>>

\* The salt is fresh: any id of this name may result.
registerUser(n, password) ==
    /\ MutexFree
    /\ n \notin DOMAIN users
    /\ \E tag \in Tag :
         LET account == [password |-> password, userID |-> <<n, tag>>]
             With(table) == [k \in DOMAIN table \cup {n} |-> IF k = n THEN account ELSE table[k]]
         IN  users' = With(users) /\ latest' = With(latest)
    /\ UNCHANGED <<usersDB, process, unsaved, previous, atSignal>>

\* authenticateUser succeeds; it changes no more than a time.
Authenticates(n, password) == n \in DOMAIN users /\ users[n].password = password

-----------------------------------------------------------------------------
(* signalHandler and ServerCore::stop. *)

Signal ==
    /\ process = "running"
    /\ process' = "stopping"
    /\ atSignal' = users
    /\ UNCHANGED <<users, usersDB, unsaved, previous, latest>>

\* saveToFile locks mutex_ and opens the file, which empties it.
OpenFile ==
    /\ process = "stopping"
    /\ process' = "saving"
    /\ previous' = Loaded(usersDB)
    /\ usersDB' = <<>>
    /\ unsaved' = DOMAIN users
    /\ UNCHANGED <<users, atSignal, latest>>

\* users.db cannot be opened: stop() reports it and goes on.
OpenFails ==
    /\ process = "stopping"
    /\ process' = "saved"
    /\ atSignal' = None
    /\ UNCHANGED <<users, usersDB, unsaved, previous, latest>>

\* Mutant: the loop does not advance past the user it has written.
WriteUserAgain(n) ==
    /\ process = "saving" /\ n \in unsaved
    /\ usersDB' = Append(usersDB, Line(n))
    /\ UNCHANGED <<users, process, unsaved, previous, atSignal, latest>>

\* users_ is a hash table: its order is arbitrary.
WriteUser(n) ==
    /\ process = "saving" /\ n \in unsaved
    /\ usersDB' = Append(usersDB, Line(n))
    /\ unsaved' = unsaved \ {n}
    /\ UNCHANGED <<users, process, previous, atSignal, latest>>

CloseFile ==
    /\ process = "saving"
    /\ unsaved = {}
    /\ process' = "saved"
    /\ UNCHANGED <<users, usersDB, unsaved, previous, atSignal, latest>>

\* Mutant: exit() does not wait for the file to be closed.
ExitEarly ==
    /\ process \in {"saving", "saved"}
    /\ process' = "down"
    /\ unsaved' = {}
    /\ UNCHANGED <<users, usersDB, previous, atSignal, latest>>

\* ioContext_.stop(), and then exit().
Exit ==
    /\ process = "saved"
    /\ process' = "down"
    /\ UNCHANGED <<users, usersDB, unsaved, previous, atSignal, latest>>

-----------------------------------------------------------------------------
(* The environment: the process is killed, or a second signal, whose handler is
   the default one by then, ends it; and somebody starts it again.            *)

Kill ==
    /\ process # "down"
    /\ process' = "down"
    /\ atSignal' = None
    /\ unsaved' = {}
    /\ \/ UNCHANGED usersDB
       \/ /\ process = "saving" /\ usersDB # <<>>
          /\ \E line \in Torn(usersDB[Len(usersDB)]) : usersDB' = [usersDB EXCEPT ![Len(usersDB)] = line]
    /\ UNCHANGED <<users, previous, latest>>

\* The constructor of ServerCore.
Start ==
    /\ process = "down"
    /\ process' = "running"
    /\ users' = Loaded(usersDB)
    /\ UNCHANGED <<usersDB, unsaved, previous, atSignal, latest>>

Init ==
    /\ users = None
    /\ usersDB = <<>>
    /\ process = "running"
    /\ unsaved = {}
    /\ previous = None
    /\ atSignal = None
    /\ latest = None

Next ==
    \/ \E n \in Username, password \in Password : registerUser(n, password)
    \/ Signal \/ OpenFile \/ OpenFails \/ CloseFile \/ Exit
    \/ \E n \in unsaved : WriteUser(n)
    \/ Kill \/ Start

Spec == Init /\ [][Next]_vars

-----------------------------------------------------------------------------
\* Names given and names that loadFromFile makes of them.
Name == Username \cup {<<Head(n)>> : n \in Username}

IsTable(table) == DOMAIN table \subseteq Name /\ table \in [DOMAIN table -> Account]

(* Types; the file never has two lines for a name. *)
TypeOK ==
    /\ \A table \in {users, previous, atSignal, latest} : IsTable(table)
    /\ usersDB \in Seq([name : Name, account : Account])
    /\ \A i, j \in DOMAIN usersDB : usersDB[i].name = usersDB[j].name => i = j
    /\ process \in {"running", "stopping", "saving", "saved", "down"}
    /\ unsaved \subseteq DOMAIN users

(* When the server has been stopped by a signal, the accounts it had at that
   moment are what the next start loads, unchanged.                          *)
StopKeepsAccounts ==
    process = "down" =>
        \A n \in DOMAIN atSignal : /\ n \in DOMAIN Loaded(usersDB)
                                   /\ Loaded(usersDB)[n] = atSignal[n]

(* Whatever is lost or cut short, nobody logs in with a password other than that
   of the last registration of the name: an older table never comes back.     *)
OnlyTheLatestPassword ==
    \A n \in DOMAIN users, password \in Password :
        Authenticates(n, password) => latest[n].password = password

(* The account table and its file do what AccountStore promises.               *)
Store == INSTANCE AccountStore WITH
            accounts <- users,
            durable <- IF process = "saving" THEN previous ELSE Loaded(usersDB),
            up <- process # "down"

ImplementsAccountStore == Store!Spec
=============================================================================
