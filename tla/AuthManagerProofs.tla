------------------------- MODULE AuthManagerProofs -------------------------
(***************************************************************************)
(* Proofs about AuthManager, for every set of names, passwords and tags:   *)
(* what a table of accounts, its file and the passwords given have to do   *)
(* with each other, through saves, kills and starts.                       *)
(***************************************************************************)
EXTENDS AuthManager, PositionsProofs, SequenceTheorems

-----------------------------------------------------------------------------
(* The inductive invariant. *)

FileLine == [name : Name, account : Account]

\* The names in lines that loadFromFile reads as they were written are known to the
\* process; while the file is written, it has the lines of the users that are done.
FileInv ==
    /\ process # "saving" => unsaved = {}
    /\ process # "down" =>
         \A i \in DOMAIN usersDB : Len(usersDB[i].name) = 1 => usersDB[i].name \in DOMAIN users
    /\ process = "saving" =>
         /\ \A i \in DOMAIN usersDB : /\ usersDB[i].name \in DOMAIN users \ unsaved
                                      /\ usersDB[i].account = users[usersDB[i].name]
         /\ \A n \in DOMAIN users \ unsaved : \E i \in DOMAIN usersDB : usersDB[i].name = n

\* The accounts there were at the signal are kept until they are saved, and are in the
\* file from then on.
SignalInv ==
    /\ process \in {"stopping", "saving"} =>
         \A n \in DOMAIN atSignal : n \in DOMAIN users /\ users[n] = atSignal[n]
    /\ process \in {"saved", "down"} =>
         \A n \in DOMAIN atSignal : \E i \in DOMAIN usersDB :
             usersDB[i].name = n /\ usersDB[i].account = atSignal[n]

\* A password that can be used is the one given last.
Latest(n, account) ==
    account.password \in Password => n \in DOMAIN latest /\ latest[n].password = account.password

PasswordInv ==
    /\ \A n \in DOMAIN users : Latest(n, users[n])
    /\ \A i \in DOMAIN usersDB :
          Len(usersDB[i].name) = 1 => Latest(usersDB[i].name, usersDB[i].account)

AccountInv == TypeOK /\ FileInv /\ SignalInv /\ PasswordInv

-----------------------------------------------------------------------------
(* The file. *)

LEMMA NameFacts ==
    /\ \A n \in Name : Len(n) \in {1, 2}
    /\ \A n \in Name : Len(n) # 1 => n \in Username /\ <<Head(n)>> \in Name
    /\ \A n \in Username : n \in Name
    /\ \A n : Len(<<Head(n)>>) = 1
BY AccountAssumption DEF Name

LEMMA ParsedFacts ==
    ASSUME NEW line \in FileLine
    PROVE  /\ Parsed(line) \in FileLine
           /\ Len(line.name) = 1 => Parsed(line) = line
           /\ Len(line.name) # 1 => Parsed(line).account.password = Unusable
<1>1. CASE Len(line.name) = 1
  BY <1>1 DEF Parsed
<1>2. CASE Len(line.name) # 1
  <2>1. Parsed(line) = [name |-> <<Head(line.name)>>,
                        account |-> [password |-> Unusable, userID |-> NoUserID]]
    BY <1>2 DEF Parsed
  <2>2. <<Head(line.name)>> \in Name
    BY <1>2, NameFacts DEF FileLine
  <2>3. [password |-> Unusable, userID |-> NoUserID] \in Account
    BY DEF Account
  <2> QED BY <1>2, <2>1, <2>2, <2>3 DEF FileLine
<1> QED BY <1>1, <1>2

LEMMA Greatest ==
    ASSUME NEW n \in Nat, NEW S \in SUBSET (1..n), S # {}
    PROVE  Max(S) \in S /\ \A i \in S : i <= Max(S)
<1> DEFINE D == {n - i : i \in S}
<1>1. D \in SUBSET Nat /\ D # {}
  <2>1. \A i \in S : n - i \in Nat
    OBVIOUS
  <2> QED BY <2>1
<1>2. PICK d \in D : \A e \in D : d <= e
  <2> HIDE DEF D
  <2> QED BY <1>1, LeastNatural
<1>3. PICK m \in S : d = n - m
  OBVIOUS
<1>4. \A i \in S : i <= m
  <2> SUFFICES ASSUME NEW i \in S PROVE i <= m
    OBVIOUS
  <2>1. n - m <= n - i
    BY <1>2, <1>3
  <2> QED BY <2>1
<1>5. \A i \in S : m >= i
  BY <1>4
<1>6. Max(S) \in S /\ \A i \in S : Max(S) >= i
  BY <1>5 DEF Max
<1> QED BY <1>6

\* What is loaded comes from a line.
LEMMA LoadedFacts ==
    ASSUME NEW lines \in Seq(FileLine)
    PROVE  /\ \A n \in DOMAIN Loaded(lines) : \E i \in DOMAIN lines :
                 Parsed(lines[i]).name = n /\ Loaded(lines)[n] = Parsed(lines[i]).account
           /\ \A i \in DOMAIN lines : Parsed(lines[i]).name \in DOMAIN Loaded(lines)
           /\ IsTable(Loaded(lines))
<1> DEFINE N == {Parsed(lines[i]).name : i \in DOMAIN lines}
           At(n) == {i \in DOMAIN lines : Parsed(lines[i]).name = n}
<1>1. Loaded(lines) = [n \in N |-> Parsed(lines[Max(At(n))]).account]
  BY DEF Loaded
<1>2. ASSUME NEW n \in N
      PROVE  /\ Max(At(n)) \in DOMAIN lines /\ Parsed(lines[Max(At(n))]).name = n
             /\ Loaded(lines)[n] = Parsed(lines[Max(At(n))]).account
  <2>1. Len(lines) \in Nat /\ At(n) \in SUBSET (1..Len(lines)) /\ At(n) # {}
    OBVIOUS
  <2>2. Max(At(n)) \in At(n)
    <3> HIDE DEF At
    <3> QED BY <2>1, Greatest
  <2> QED BY <1>1, <2>2
<1>3. DOMAIN Loaded(lines) = N
  BY <1>1
<1>4. \A i \in DOMAIN lines : Parsed(lines[i]) \in FileLine
  BY ParsedFacts
<1>5. N \subseteq Name
  BY <1>4 DEF FileLine
<1>6. \A n \in N : Loaded(lines)[n] \in Account
  BY <1>2, <1>4 DEF FileLine
<1>7. Loaded(lines) \in [N -> Account]
  BY <1>1, <1>6
<1> QED BY <1>2, <1>3, <1>5, <1>7 DEF IsTable

\* With one line for each name and no name cut in two, what is loaded is what is there.
LEMMA LoadedLines ==
    ASSUME NEW lines \in Seq(FileLine), \A n \in Username : Len(n) = 1,
           \A i, j \in DOMAIN lines : lines[i].name = lines[j].name => i = j
    PROVE  /\ DOMAIN Loaded(lines) = {lines[i].name : i \in DOMAIN lines}
           /\ \A i \in DOMAIN lines : Loaded(lines)[lines[i].name] = lines[i].account
<1>1. \A i \in DOMAIN lines : Parsed(lines[i]) = lines[i]
  <2>1. \A n \in Name : Len(n) = 1
    BY DEF Name
  <2>2. \A i \in DOMAIN lines : lines[i] \in FileLine
    OBVIOUS
  <2>3. \A line \in FileLine : line.name \in Name
    BY DEF FileLine
  <2> QED BY <2>1, <2>2, <2>3, ParsedFacts
<1>2. /\ \A n \in DOMAIN Loaded(lines) : \E i \in DOMAIN lines :
            lines[i].name = n /\ Loaded(lines)[n] = lines[i].account
      /\ \A i \in DOMAIN lines : lines[i].name \in DOMAIN Loaded(lines)
  <2>1. /\ \A n \in DOMAIN Loaded(lines) : \E i \in DOMAIN lines :
              Parsed(lines[i]).name = n /\ Loaded(lines)[n] = Parsed(lines[i]).account
        /\ \A i \in DOMAIN lines : Parsed(lines[i]).name \in DOMAIN Loaded(lines)
    BY LoadedFacts
  <2> QED BY <1>1, <2>1
<1>3. DOMAIN Loaded(lines) = {lines[i].name : i \in DOMAIN lines}
  <2>1. \A n \in DOMAIN Loaded(lines) : n \in {lines[i].name : i \in DOMAIN lines}
    BY <1>2
  <2>2. \A n \in {lines[i].name : i \in DOMAIN lines} : n \in DOMAIN Loaded(lines)
    BY <1>2
  <2> QED BY <2>1, <2>2, Zenon
<1> QED BY <1>2, <1>3

-----------------------------------------------------------------------------
(* The invariant holds at first, and every step keeps it. *)

LEMMA AccountInit == Init => AccountInv
<1> SUFFICES ASSUME Init PROVE AccountInv
  OBVIOUS
<1>1. DOMAIN None = {} /\ IsTable(None)
  BY DEF None, IsTable
<1>2. usersDB \in Seq(FileLine) /\ DOMAIN usersDB = {}
  BY DEF Init
<1>3. TypeOK
  BY <1>1, <1>2 DEF Init, TypeOK, FileLine
<1>4. FileInv /\ SignalInv /\ PasswordInv
  BY <1>1, <1>2 DEF Init, FileInv, SignalInv, PasswordInv
<1> QED BY <1>3, <1>4 DEF AccountInv

LEMMA TypeFacts ==
    ASSUME TypeOK
    PROVE  /\ IsTable(users) /\ IsTable(previous) /\ IsTable(atSignal) /\ IsTable(latest)
           /\ usersDB \in Seq(FileLine) /\ Len(usersDB) \in Nat /\ DOMAIN usersDB = 1..Len(usersDB)
           /\ \A n \in DOMAIN users : n \in Name /\ users[n] \in Account
           /\ \A i \in DOMAIN usersDB : usersDB[i] \in FileLine
<1>1. IsTable(users) /\ IsTable(previous) /\ IsTable(atSignal) /\ IsTable(latest)
  BY DEF TypeOK
<1>2. usersDB \in Seq(FileLine) /\ Len(usersDB) \in Nat /\ DOMAIN usersDB = 1..Len(usersDB)
  BY DEF TypeOK, FileLine
<1>3. \A i \in DOMAIN usersDB : usersDB[i] \in FileLine
  BY <1>2
<1> QED BY <1>1, <1>2, <1>3 DEF IsTable

LEMMA TableAdd ==
    ASSUME NEW table, IsTable(table), NEW n \in Name, NEW account \in Account,
           NEW T, T = [k \in DOMAIN table \cup {n} |-> IF k = n THEN account ELSE table[k]]
    PROVE  /\ IsTable(T) /\ DOMAIN T = DOMAIN table \cup {n} /\ T[n] = account
           /\ \A k \in DOMAIN table : k # n => T[k] = table[k]
BY DEF IsTable

LEMMA RegisterKeeps ==
    ASSUME AccountInv, NEW n \in Username, NEW password \in Password, registerUser(n, password)
    PROVE  AccountInv'
<1>1. PICK tag \in Tag :
        LET account == [password |-> password, userID |-> <<n, tag>>]
            With(table) == [k \in DOMAIN table \cup {n} |-> IF k = n THEN account ELSE table[k]]
        IN  users' = With(users) /\ latest' = With(latest)
  BY DEF registerUser
<1>2. PICK account : account = [password |-> password, userID |-> <<n, tag>>]
  OBVIOUS
<1>3. account \in Account /\ account.password = password
  BY <1>2 DEF Account, UserID
<1>4. /\ users' = [k \in DOMAIN users \cup {n} |-> IF k = n THEN account ELSE users[k]]
      /\ latest' = [k \in DOMAIN latest \cup {n} |-> IF k = n THEN account ELSE latest[k]]
  BY <1>1, <1>2
<1>5. /\ n \notin DOMAIN users /\ process \in {"running", "stopping", "saved"}
      /\ UNCHANGED <<usersDB, process, unsaved, previous, atSignal>>
  BY DEF registerUser, MutexFree
<1>6. TypeOK /\ FileInv /\ SignalInv /\ PasswordInv
  BY DEF AccountInv
<1>7. /\ IsTable(users') /\ DOMAIN users' = DOMAIN users \cup {n} /\ users'[n] = account
      /\ \A k \in DOMAIN users : k # n => users'[k] = users[k]
  <2>1. IsTable(users) /\ n \in Name /\ account \in Account
    BY <1>3, <1>6, NameFacts, TypeFacts
  <2>2. PICK old, new : old = users /\ new = users'
    OBVIOUS
  <2>3. IsTable(old) /\ new = [k \in DOMAIN old \cup {n} |-> IF k = n THEN account ELSE old[k]]
    BY <1>4, <2>1, <2>2
  <2>4. /\ IsTable(new) /\ DOMAIN new = DOMAIN old \cup {n} /\ new[n] = account
        /\ \A k \in DOMAIN old : k # n => new[k] = old[k]
    BY <2>1, <2>3, TableAdd
  <2> QED BY <2>2, <2>4
<1>8. /\ IsTable(latest') /\ DOMAIN latest' = DOMAIN latest \cup {n} /\ latest'[n] = account
      /\ \A k \in DOMAIN latest : k # n => latest'[k] = latest[k]
  <2>1. IsTable(latest) /\ n \in Name /\ account \in Account
    BY <1>3, <1>6, NameFacts, TypeFacts
  <2>2. PICK old, new : old = latest /\ new = latest'
    OBVIOUS
  <2>3. IsTable(old) /\ new = [k \in DOMAIN old \cup {n} |-> IF k = n THEN account ELSE old[k]]
    BY <1>4, <2>1, <2>2
  <2>4. /\ IsTable(new) /\ DOMAIN new = DOMAIN old \cup {n} /\ new[n] = account
        /\ \A k \in DOMAIN old : k # n => new[k] = old[k]
    BY <2>1, <2>3, TableAdd
  <2> QED BY <2>2, <2>4
<1>9. TypeOK'
  BY <1>5, <1>6, <1>7, <1>8 DEF TypeOK, IsTable
<1>10. FileInv'
  BY <1>5, <1>6, <1>7 DEF FileInv
<1>11. SignalInv'
  BY <1>5, <1>6, <1>7 DEF SignalInv
<1>12. ASSUME NEW k, k # n, NEW a, Latest(k, a) PROVE Latest(k, a)'
  BY <1>8, <1>12 DEF Latest
<1>13. \A k \in DOMAIN users' : Latest(k, users[k])'
  <2>1. Latest(n, users[n])'
    BY <1>7, <1>8 DEF Latest
  <2>2. \A k \in DOMAIN users : k # n => users'[k] = users[k] /\ Latest(k, users[k])
    BY <1>6, <1>7 DEF PasswordInv
  <2>3. ASSUME NEW k \in DOMAIN users, k # n PROVE Latest(k, users[k])'
    <3>1. PICK a : a = users[k]
      OBVIOUS
    <3>2. Latest(k, a)'
      BY <1>12, <2>2, <2>3, <3>1
    <3> QED BY <2>2, <2>3, <3>1, <3>2 DEF Latest
  <2> QED BY <1>7, <2>1, <2>3
<1>14. \A i \in DOMAIN usersDB : Len(usersDB[i].name) = 1 => Latest(usersDB[i].name, usersDB[i].account)'
  <2> SUFFICES ASSUME NEW i \in DOMAIN usersDB, Len(usersDB[i].name) = 1
               PROVE  Latest(usersDB[i].name, usersDB[i].account)'
    OBVIOUS
  <2>1. PICK k, a : k = usersDB[i].name /\ a = usersDB[i].account
    OBVIOUS
  <2>2. k \in DOMAIN users /\ Latest(k, a)
    BY <1>5, <1>6, <2>1 DEF FileInv, PasswordInv
  <2>3. Latest(k, a)'
    BY <1>5, <1>12, <2>2
  <2> QED BY <1>5, <2>1, <2>3 DEF Latest
<1>15. PasswordInv'
  BY <1>5, <1>13, <1>14 DEF PasswordInv
<1> QED BY <1>9, <1>10, <1>11, <1>15 DEF AccountInv

\* Steps that leave the table and the file alone.
LEMMA QuietKeeps ==
    ASSUME AccountInv, UNCHANGED <<users, usersDB, latest>>, IsTable(previous'), IsTable(atSignal'),
           process' \in {"running", "stopping", "saving", "saved", "down"},
           unsaved' \subseteq DOMAIN users, FileInv', SignalInv'
    PROVE  AccountInv'
<1>1. TypeOK'
  BY DEF AccountInv, TypeOK, IsTable
<1>2. PasswordInv'
  BY DEF AccountInv, PasswordInv, Latest
<1> QED BY <1>1, <1>2 DEF AccountInv

LEMMA SignalKeeps == ASSUME AccountInv, Signal PROVE AccountInv'
<1>1. FileInv' /\ SignalInv'
  BY DEF AccountInv, FileInv, SignalInv, Signal
<1> QED BY <1>1, TypeFacts, QuietKeeps DEF Signal, AccountInv, TypeOK

LEMMA OpenFailsKeeps == ASSUME AccountInv, OpenFails PROVE AccountInv'
<1>1. DOMAIN None = {} /\ IsTable(None)
  BY DEF None, IsTable
<1>2. FileInv' /\ SignalInv'
  BY <1>1 DEF AccountInv, FileInv, SignalInv, OpenFails
<1> QED BY <1>1, <1>2, TypeFacts, QuietKeeps DEF OpenFails, AccountInv, TypeOK

\* All users are written.
LEMMA CloseFileKeeps == ASSUME AccountInv, CloseFile PROVE AccountInv'
<1>1. FileInv'
  BY DEF AccountInv, FileInv, CloseFile
<1>2. SignalInv'
  BY DEF AccountInv, FileInv, SignalInv, CloseFile
<1> QED BY <1>1, <1>2, TypeFacts, QuietKeeps DEF CloseFile, AccountInv, TypeOK

LEMMA ExitKeeps == ASSUME AccountInv, Exit PROVE AccountInv'
<1>1. FileInv' /\ SignalInv'
  BY DEF AccountInv, FileInv, SignalInv, Exit
<1> QED BY <1>1, TypeFacts, QuietKeeps DEF Exit, AccountInv, TypeOK

LEMMA OpenFileKeeps == ASSUME AccountInv, OpenFile PROVE AccountInv'
<1>1. /\ process = "stopping" /\ process' = "saving" /\ usersDB' = <<>>
      /\ previous' = Loaded(usersDB) /\ unsaved' = DOMAIN users
      /\ UNCHANGED <<users, atSignal, latest>>
  BY DEF OpenFile
<1>2. usersDB' \in Seq(FileLine) /\ DOMAIN usersDB' = {}
  BY <1>1
<1>3. TypeOK /\ FileInv /\ SignalInv /\ PasswordInv
  BY DEF AccountInv
<1>4. IsTable(previous')
  BY <1>1, <1>3, TypeFacts, LoadedFacts
<1>5. TypeOK'
  BY <1>1, <1>2, <1>3, <1>4 DEF TypeOK, IsTable, FileLine
<1>6. FileInv' /\ SignalInv' /\ PasswordInv'
  BY <1>1, <1>2, <1>3 DEF FileInv, SignalInv, PasswordInv, Latest
<1> QED BY <1>5, <1>6 DEF AccountInv

LEMMA WriteUserKeeps == ASSUME AccountInv, NEW n \in unsaved, WriteUser(n) PROVE AccountInv'
<1>1. /\ process = "saving" /\ usersDB' = Append(usersDB, Line(n)) /\ unsaved' = unsaved \ {n}
      /\ UNCHANGED <<users, process, previous, atSignal, latest>>
  BY DEF WriteUser
<1>2. TypeOK /\ FileInv /\ SignalInv /\ PasswordInv
  BY DEF AccountInv
<1>3. PICK line : line = Line(n)
  OBVIOUS
<1>4. n \in DOMAIN users /\ line \in FileLine /\ line.name = n /\ line.account = users[n]
  <2>1. n \in DOMAIN users
    BY <1>2 DEF TypeOK
  <2> QED BY <1>2, <1>3, <2>1, TypeFacts DEF Line, FileLine
<1>5. PICK l : l = Len(usersDB)
  OBVIOUS
<1>6. /\ usersDB \in Seq(FileLine) /\ l \in Nat /\ DOMAIN usersDB = 1..l
      /\ usersDB' \in Seq(FileLine) /\ DOMAIN usersDB' = 1..(l + 1)
      /\ \A i \in 1..l : usersDB'[i] = usersDB[i]
      /\ usersDB'[l + 1] = line
  <2>1. usersDB \in Seq(FileLine) /\ usersDB' = Append(usersDB, line)
    BY <1>1, <1>2, <1>3, TypeFacts
  <2> QED BY <1>4, <1>5, <2>1, AppendProperties
<1>7. 1..(l + 1) = 1..l \cup {l + 1} /\ l + 1 \notin 1..l
  BY <1>6
<1>8. /\ \A i \in 1..l : /\ usersDB[i].name \in DOMAIN users \ unsaved
                         /\ usersDB[i].account = users[usersDB[i].name]
      /\ \A k \in DOMAIN users \ unsaved : \E i \in 1..l : usersDB[i].name = k
  BY <1>1, <1>2, <1>6 DEF FileInv
<1>9. \A i, j \in 1..(l + 1) : usersDB'[i].name = usersDB'[j].name => i = j
  <2>1. \A i \in 1..l : usersDB'[i].name # n
    BY <1>6, <1>8
  <2>2. \A i, j \in 1..l : usersDB[i].name = usersDB[j].name => i = j
    BY <1>2, <1>6 DEF TypeOK
  <2> QED BY <1>4, <1>6, <1>7, <2>1, <2>2
<1>10. TypeOK'
  BY <1>1, <1>2, <1>6, <1>9 DEF TypeOK, IsTable, FileLine
<1>11. FileInv'
  <2>1. \A i \in 1..(l + 1) : /\ usersDB'[i].name \in DOMAIN users \ unsaved'
                              /\ usersDB'[i].account = users[usersDB'[i].name]
    BY <1>1, <1>4, <1>6, <1>7, <1>8
  <2>2. \A k \in DOMAIN users \ unsaved' : \E i \in 1..(l + 1) : usersDB'[i].name = k
    <3> SUFFICES ASSUME NEW k \in DOMAIN users \ unsaved'
                 PROVE  \E i \in 1..(l + 1) : usersDB'[i].name = k
      OBVIOUS
    <3>1. CASE k = n
      BY <1>4, <1>6, <1>7, <3>1
    <3>2. CASE k # n
      BY <1>1, <1>6, <1>7, <1>8, <3>2
    <3> QED BY <3>1, <3>2
  <2> QED BY <1>1, <1>6, <2>1, <2>2 DEF FileInv
<1>12. SignalInv'
  BY <1>1, <1>2 DEF SignalInv
<1>13. PasswordInv'
  <2>1. Latest(n, users[n])
    BY <1>2, <1>4 DEF PasswordInv
  <2>2. \A i \in 1..l : Len(usersDB[i].name) = 1 => Latest(usersDB[i].name, usersDB[i].account)
    BY <1>2, <1>6 DEF PasswordInv
  <2>3. \A i \in 1..(l + 1) : Len(usersDB'[i].name) = 1 => Latest(usersDB'[i].name, usersDB'[i].account)
    BY <1>4, <1>6, <1>7, <2>1, <2>2
  <2> QED BY <1>1, <1>2, <1>6, <2>3 DEF PasswordInv, Latest
<1> QED BY <1>10, <1>11, <1>12, <1>13 DEF AccountInv

\* What a process that is killed leaves of the file.
LEMMA KilledFile ==
    ASSUME TypeOK, Kill
    PROVE  /\ usersDB' \in Seq(FileLine) /\ DOMAIN usersDB' = DOMAIN usersDB
           /\ \A i \in DOMAIN usersDB :
                 /\ usersDB'[i].name = usersDB[i].name
                 /\ usersDB'[i].account.password \in {usersDB[i].account.password, Unusable}
                 /\ usersDB'[i].account.userID \in {usersDB[i].account.userID, NoUserID}
           /\ \A i \in DOMAIN usersDB : i # Len(usersDB) => usersDB'[i] = usersDB[i]
           /\ process # "saving" => usersDB' = usersDB
<1>1. /\ usersDB \in Seq(FileLine) /\ Len(usersDB) \in Nat /\ DOMAIN usersDB = 1..Len(usersDB)
      /\ \A i \in DOMAIN usersDB : usersDB[i] \in FileLine
  BY TypeFacts
<1>2. CASE UNCHANGED usersDB
  BY <1>1, <1>2
<1>3. CASE ~UNCHANGED usersDB
  <2>1. /\ process = "saving" /\ usersDB # <<>>
        /\ \E line \in Torn(usersDB[Len(usersDB)]) : usersDB' = [usersDB EXCEPT ![Len(usersDB)] = line]
    BY <1>3 DEF Kill
  <2>2. PICK l : l = Len(usersDB)
    OBVIOUS
  <2>3. PICK line \in Torn(usersDB[l]) : usersDB' = [usersDB EXCEPT ![l] = line]
    BY <2>1, <2>2
  <2>4. l \in 1..l /\ usersDB[l] \in FileLine
    <3>1. l # 0
      BY <1>1, <2>1, <2>2, EmptySeq
    <3> QED BY <1>1, <2>2, <3>1
  <2>5. PICK old \in FileLine : old = usersDB[l]
    BY <2>4
  <2>6. /\ line \in FileLine /\ line.name = old.name
        /\ line.account.password \in {old.account.password, Unusable}
        /\ line.account.userID \in {old.account.userID, NoUserID}
    <3>1. /\ old.name \in Name /\ old.account \in Account
          /\ old = [name |-> old.name, account |-> old.account]
      BY DEF FileLine
    <3>2. PICK o : o = old.account
      OBVIOUS
    <3>3. /\ o.password \in Password \cup {Unusable} /\ o.userID \in UserID \cup {NoUserID}
          /\ o = [password |-> o.password, userID |-> o.userID]
      BY <3>1, <3>2 DEF Account
    <3>4. CASE line = [old EXCEPT !.account.userID = NoUserID]
      <4>1. line = [old EXCEPT !.account = [o EXCEPT !.userID = NoUserID]]
        BY <3>1, <3>2, <3>4
      <4>2. [o EXCEPT !.userID = NoUserID] = [password |-> o.password, userID |-> NoUserID]
        BY <3>3
      <4>3. line = [name |-> old.name, account |-> [password |-> o.password, userID |-> NoUserID]]
        BY <3>1, <4>1, <4>2
      <4> QED BY <3>1, <3>2, <3>3, <4>3 DEF FileLine, Account
    <3>5. CASE line = [old EXCEPT !.account = [password |-> Unusable, userID |-> NoUserID]]
      <4>1. line = [name |-> old.name, account |-> [password |-> Unusable, userID |-> NoUserID]]
        BY <3>1, <3>5
      <4> QED BY <3>1, <4>1 DEF FileLine, Account
    <3> QED BY <2>3, <2>5, <3>4, <3>5 DEF Torn
  <2>7. /\ usersDB' \in Seq(FileLine) /\ DOMAIN usersDB' = DOMAIN usersDB
        /\ usersDB'[l] = line /\ \A i \in DOMAIN usersDB : i # l => usersDB'[i] = usersDB[i]
    <3>1. usersDB \in Seq(FileLine) /\ l \in 1..Len(usersDB) /\ line \in FileLine
      BY <1>1, <2>2, <2>4, <2>6
    <3> QED BY <1>1, <2>3, <3>1, ExceptSeq
  <2> QED BY <2>1, <2>2, <2>5, <2>6, <2>7
<1> QED BY <1>2, <1>3

LEMMA KillKeeps == ASSUME AccountInv, Kill PROVE AccountInv'
<1>1. /\ process' = "down" /\ atSignal' = None /\ unsaved' = {} /\ UNCHANGED <<users, previous, latest>>
  BY DEF Kill
<1>2. TypeOK /\ FileInv /\ SignalInv /\ PasswordInv
  BY DEF AccountInv
<1>3. /\ usersDB' \in Seq(FileLine) /\ DOMAIN usersDB' = DOMAIN usersDB
      /\ \A i \in DOMAIN usersDB :
            /\ usersDB'[i].name = usersDB[i].name
            /\ usersDB'[i].account.password \in {usersDB[i].account.password, Unusable}
  BY <1>2, KilledFile
<1>4. DOMAIN None = {} /\ IsTable(None)
  BY DEF None, IsTable
<1>5. TypeOK'
  <2>1. \A i, j \in DOMAIN usersDB' : usersDB'[i].name = usersDB'[j].name => i = j
    BY <1>2, <1>3 DEF TypeOK
  <2> QED BY <1>1, <1>2, <1>3, <1>4, <2>1 DEF TypeOK, IsTable, FileLine
<1>6. FileInv' /\ SignalInv'
  BY <1>1, <1>4 DEF FileInv, SignalInv
<1>7. PasswordInv'
  <2>1. Unusable \notin Password
    BY AccountAssumption
  <2>2. \A i \in DOMAIN usersDB' :
          Len(usersDB'[i].name) = 1 => Latest(usersDB'[i].name, usersDB'[i].account)
    BY <1>1, <1>2, <1>3, <2>1 DEF PasswordInv, Latest
  <2> QED BY <1>1, <1>2, <2>2 DEF PasswordInv, Latest
<1> QED BY <1>5, <1>6, <1>7 DEF AccountInv

LEMMA StartKeeps == ASSUME AccountInv, Start PROVE AccountInv'
<1>1. /\ process = "down" /\ process' = "running" /\ users' = Loaded(usersDB)
      /\ UNCHANGED <<usersDB, unsaved, previous, atSignal, latest>>
  BY DEF Start
<1>2. TypeOK /\ FileInv /\ SignalInv /\ PasswordInv
  BY DEF AccountInv
<1>3. /\ \A n \in DOMAIN users' : \E i \in DOMAIN usersDB :
            Parsed(usersDB[i]).name = n /\ users'[n] = Parsed(usersDB[i]).account
      /\ \A i \in DOMAIN usersDB : Parsed(usersDB[i]).name \in DOMAIN users'
      /\ IsTable(users')
  BY <1>1, <1>2, TypeFacts, LoadedFacts
<1>4. \A i \in DOMAIN usersDB : /\ usersDB[i] \in FileLine
                                /\ Len(usersDB[i].name) = 1 => Parsed(usersDB[i]) = usersDB[i]
                                /\ Len(usersDB[i].name) # 1 =>
                                      Parsed(usersDB[i]).account.password = Unusable
  BY <1>2, TypeFacts, ParsedFacts
<1>5. unsaved = {}
  BY <1>1, <1>2 DEF FileInv
<1>6. TypeOK'
  BY <1>1, <1>2, <1>3, <1>5 DEF TypeOK, IsTable
<1>7. FileInv' /\ SignalInv'
  <2>1. \A i \in DOMAIN usersDB : Len(usersDB[i].name) = 1 => usersDB[i].name \in DOMAIN users'
    BY <1>3, <1>4
  <2> QED BY <1>1, <1>5, <2>1 DEF FileInv, SignalInv
<1>8. PasswordInv'
  <2>1. \A n \in DOMAIN users' : Latest(n, users'[n])
    <3> SUFFICES ASSUME NEW n \in DOMAIN users' PROVE Latest(n, users'[n])
      OBVIOUS
    <3>1. PICK i \in DOMAIN usersDB :
            Parsed(usersDB[i]).name = n /\ users'[n] = Parsed(usersDB[i]).account
      BY <1>3
    <3>2. CASE Len(usersDB[i].name) = 1
      BY <1>2, <1>4, <3>1, <3>2 DEF PasswordInv
    <3>3. CASE Len(usersDB[i].name) # 1
      BY <1>4, <3>1, <3>3, AccountAssumption DEF Latest
    <3> QED BY <3>2, <3>3
  <2> QED BY <1>1, <1>2, <2>1 DEF PasswordInv, Latest
<1> QED BY <1>6, <1>7, <1>8 DEF AccountInv

LEMMA AccountNext == AccountInv /\ [Next]_vars => AccountInv'
<1> SUFFICES ASSUME AccountInv, [Next]_vars PROVE AccountInv'
  OBVIOUS
<1>1. ASSUME NEW n \in Username, NEW password \in Password, registerUser(n, password)
      PROVE  AccountInv'
  BY <1>1, RegisterKeeps
<1>2. CASE Signal
  BY <1>2, SignalKeeps
<1>3. CASE OpenFile
  BY <1>3, OpenFileKeeps
<1>4. CASE OpenFails
  BY <1>4, OpenFailsKeeps
<1>5. CASE CloseFile
  BY <1>5, CloseFileKeeps
<1>6. CASE Exit
  BY <1>6, ExitKeeps
<1>7. ASSUME NEW n \in unsaved, WriteUser(n) PROVE AccountInv'
  BY <1>7, WriteUserKeeps
<1>8. CASE Kill
  BY <1>8, KillKeeps
<1>9. CASE Start
  BY <1>9, StartKeeps
<1>10. CASE UNCHANGED vars
  <2>1. FileInv' /\ SignalInv'
    BY <1>10 DEF AccountInv, FileInv, SignalInv, vars
  <2> QED BY <1>10, <2>1, TypeFacts, QuietKeeps DEF vars, AccountInv, TypeOK
<1> QED BY <1>1, <1>2, <1>3, <1>4, <1>5, <1>6, <1>7, <1>8, <1>9, <1>10 DEF Next

LEMMA AccountInvariant == Spec => []AccountInv
<1> QED BY AccountInit, AccountNext, PTL DEF Spec

-----------------------------------------------------------------------------
(* The theorems. *)

(* The tables of accounts are functions from names to accounts, also when they are read
   back from a file with torn lines and split names, and the file never has two lines
   for a name (saveToFile, loadFromFile).                                             *)
THEOREM AccountsTypeCorrect == Spec => []TypeOK
<1>1. AccountInv => TypeOK
  BY DEF AccountInv
<1> QED BY <1>1, AccountInvariant, PTL

(* Whatever is lost, cut short or split, no account comes back with a password that
   is not the last one registered for its name (authenticateUser after any saves, kills
   and starts).                                                                       *)
THEOREM OldPasswordsStayOld == Spec => []OnlyTheLatestPassword
<1>1. ASSUME PasswordInv PROVE OnlyTheLatestPassword
  BY <1>1 DEF PasswordInv, Latest, OnlyTheLatestPassword, Authenticates
<1>2. AccountInv => OnlyTheLatestPassword
  BY <1>1 DEF AccountInv
<1> QED BY <1>2, AccountInvariant, PTL

\* No user name has the separator of users.db in it.
NoSeparator == \A n \in Username : Len(n) = 1

(* If no name has a '|' in it, a server that was stopped by a signal and could open its
   file starts with every account it had at the signal (signalHandler, saveToFile).   *)
THEOREM AccountsSurviveAStop == ASSUME NoSeparator PROVE Spec => []StopKeepsAccounts
<1>1. ASSUME AccountInv PROVE StopKeepsAccounts
  <2>1. SUFFICES ASSUME process = "down", NEW n \in DOMAIN atSignal
                 PROVE  n \in DOMAIN Loaded(usersDB) /\ Loaded(usersDB)[n] = atSignal[n]
    BY DEF StopKeepsAccounts
  <2>2. PICK i \in DOMAIN usersDB : usersDB[i].name = n /\ usersDB[i].account = atSignal[n]
    BY <1>1, <2>1 DEF AccountInv, SignalInv
  <2>3. /\ usersDB \in Seq(FileLine)
        /\ \A j, k \in DOMAIN usersDB : usersDB[j].name = usersDB[k].name => j = k
    BY <1>1, TypeFacts DEF AccountInv, TypeOK
  <2>4. /\ DOMAIN Loaded(usersDB) = {usersDB[j].name : j \in DOMAIN usersDB}
        /\ \A j \in DOMAIN usersDB : Loaded(usersDB)[usersDB[j].name] = usersDB[j].account
    BY <2>3, LoadedLines DEF NoSeparator
  <2> QED BY <2>2, <2>4
<1>2. AccountInv => StopKeepsAccounts
  BY <1>1
<1> QED BY <1>2, AccountInvariant, PTL

-----------------------------------------------------------------------------
(* The refinement. *)

\* What the next start would load, or would have loaded before the save under way.
Durable == IF process = "saving" THEN previous ELSE Loaded(usersDB)

StoreVars == <<users, Durable, process # "down">>

LEMMA StoreInit == Init => Store!Init
<1> SUFFICES ASSUME Init PROVE Store!Init
  OBVIOUS
<1>1. process # "saving" /\ process # "down" /\ usersDB = <<>> /\ users = None
  BY DEF Init
<1>2. Loaded(<<>>) = [n \in {} |-> {}]
  <2>1. {Parsed(<<>>[i]).name : i \in DOMAIN <<>>} = {}
    OBVIOUS
  <2>2. DOMAIN Loaded(<<>>) = {} /\ Loaded(<<>>) = [n \in DOMAIN Loaded(<<>>) |-> Loaded(<<>>)[n]]
    BY <2>1 DEF Loaded
  <2> QED BY <2>2
<1> QED BY <1>1, <1>2 DEF Store!Init, None

\* All users are in the file when it is closed.
LEMMA SavedTable ==
    ASSUME NoSeparator, AccountInv, process = "saving", unsaved = {}
    PROVE  Loaded(usersDB) = users
<1>1. /\ usersDB \in Seq(FileLine) /\ IsTable(users)
      /\ \A j, k \in DOMAIN usersDB : usersDB[j].name = usersDB[k].name => j = k
  BY TypeFacts DEF AccountInv, TypeOK
<1>2. /\ DOMAIN Loaded(usersDB) = {usersDB[j].name : j \in DOMAIN usersDB}
      /\ \A j \in DOMAIN usersDB : Loaded(usersDB)[usersDB[j].name] = usersDB[j].account
  BY <1>1, LoadedLines DEF NoSeparator
<1>3. /\ \A i \in DOMAIN usersDB : /\ usersDB[i].name \in DOMAIN users
                                   /\ usersDB[i].account = users[usersDB[i].name]
      /\ \A n \in DOMAIN users : \E i \in DOMAIN usersDB : usersDB[i].name = n
  BY DEF AccountInv, FileInv
<1>4. DOMAIN Loaded(usersDB) = DOMAIN users
  BY <1>2, <1>3
<1>5. \A n \in DOMAIN users : Loaded(usersDB)[n] = users[n]
  BY <1>2, <1>3
<1>6. Loaded(usersDB) = [n \in DOMAIN Loaded(usersDB) |-> Loaded(usersDB)[n]]
  BY DEF Loaded
<1>7. users = [n \in DOMAIN users |-> users[n]]
  BY <1>1 DEF IsTable
<1> QED BY <1>4, <1>5, <1>6, <1>7

\* A kill in the middle of a save keeps some accounts as they were and spoils one at most.
LEMMA KilledTable ==
    ASSUME NoSeparator, AccountInv, process = "saving", Kill
    PROVE  Store!IsTornCopy(Loaded(usersDB'))
<1>1. PICK D, c, l : D = usersDB' /\ c = Loaded(D) /\ l = Len(usersDB)
  OBVIOUS
<1>2. /\ D \in Seq(FileLine) /\ DOMAIN D = DOMAIN usersDB
      /\ \A i \in DOMAIN D :
            /\ D[i].name = usersDB[i].name
            /\ D[i].account.password \in {usersDB[i].account.password, Unusable}
            /\ D[i].account.userID \in {usersDB[i].account.userID, NoUserID}
      /\ \A i \in DOMAIN D : i # l => D[i] = usersDB[i]
  BY <1>1, KilledFile DEF AccountInv
<1>3. \A j, k \in DOMAIN D : D[j].name = D[k].name => j = k
  BY <1>2 DEF AccountInv, TypeOK
<1>4. /\ DOMAIN c = {D[j].name : j \in DOMAIN D}
      /\ \A j \in DOMAIN D : c[D[j].name] = D[j].account
  BY <1>1, <1>2, <1>3, LoadedLines DEF NoSeparator
<1>5. \A i \in DOMAIN D : /\ D[i].name \in DOMAIN users
                          /\ usersDB[i].account = users[D[i].name]
  BY <1>2 DEF AccountInv, FileInv
<1>6. DOMAIN c \subseteq DOMAIN users
  BY <1>4, <1>5
<1>7. \A n \in DOMAIN c : /\ c[n].password \in {users[n].password, Unusable}
                          /\ c[n].userID \in {users[n].userID, NoUserID}
  BY <1>2, <1>4, <1>5
<1>8. \A m, n \in DOMAIN c : c[m] # users[m] /\ c[n] # users[n] => m = n
  <2>1. \A n \in DOMAIN c : c[n] # users[n] => n = D[l].name
    BY <1>2, <1>4, <1>5
  <2> QED BY <2>1
<1>9. c = Loaded(usersDB')
  BY <1>1
<1> QED BY <1>6, <1>7, <1>8, <1>9 DEF Store!IsTornCopy

LEMMA StoreNext ==
    ASSUME NoSeparator, AccountInv, [Next]_vars
    PROVE  [Store!Next]_StoreVars
<1>1. ASSUME NEW n \in Username, NEW password \in Password, registerUser(n, password)
      PROVE  Store!Next
  <2>1. PICK tag \in Tag :
          users' = [k \in DOMAIN users \cup {n} |->
                      IF k = n THEN [password |-> password, userID |-> <<n, tag>>] ELSE users[k]]
    BY <1>1 DEF registerUser
  <2>2. n \in Username \ DOMAIN users /\ <<n, tag>> \in UserID
    BY <1>1 DEF registerUser, UserID
  <2>3. process # "down" /\ process # "saving" /\ UNCHANGED <<usersDB, process>>
    BY <1>1 DEF registerUser, MutexFree
  <2>4. Store!Register
    BY <2>1, <2>2, <2>3 DEF Store!Register
  <2> QED BY <2>4 DEF Store!Next
<1>2. CASE Signal
  BY <1>2 DEF Signal, StoreVars, Durable
<1>3. CASE OpenFile
  BY <1>3 DEF OpenFile, StoreVars, Durable
<1>4. CASE OpenFails
  BY <1>4 DEF OpenFails, StoreVars, Durable
<1>5. CASE CloseFile
  <2>1. Loaded(usersDB) = users
    BY <1>5, SavedTable DEF CloseFile
  <2>2. Store!Save
    BY <1>5, <2>1 DEF CloseFile, Store!Save
  <2> QED BY <2>2 DEF Store!Next
<1>6. CASE Exit
  <2>1. Store!Stop
    BY <1>6 DEF Exit, Store!Stop
  <2> QED BY <2>1 DEF Store!Next
<1>7. ASSUME NEW n \in unsaved, WriteUser(n) PROVE UNCHANGED StoreVars
  BY <1>7 DEF WriteUser, StoreVars, Durable
<1>8. CASE Kill
  <2>1. process # "down" /\ process' = "down" /\ UNCHANGED users
    BY <1>8 DEF Kill
  <2>2. CASE process = "saving"
    <3>1. Store!IsTornCopy(Loaded(usersDB'))
      BY <1>8, <2>2, KilledTable
    <3>2. Store!KilledWhileSaving
      BY <2>1, <3>1 DEF Store!KilledWhileSaving, Store!IsTornCopy
    <3> QED BY <3>2 DEF Store!Next
  <2>3. CASE process # "saving"
    <3>1. usersDB' = usersDB
      BY <1>8, <2>3 DEF Kill
    <3>2. Store!Stop
      BY <2>1, <2>3, <3>1 DEF Store!Stop
    <3> QED BY <3>2 DEF Store!Next
  <2> QED BY <2>2, <2>3
<1>9. CASE Start
  <2>1. Store!Restart
    BY <1>9 DEF Start, Store!Restart
  <2> QED BY <2>1 DEF Store!Next
<1>10. CASE UNCHANGED vars
  BY <1>10 DEF vars, StoreVars, Durable
<1> QED BY <1>1, <1>2, <1>3, <1>4, <1>5, <1>6, <1>7, <1>8, <1>9, <1>10 DEF Next

(* If no name has a '|' in it, the account table and its file do what AccountStore
   promises: a save is complete or cut short by a kill, which spoils one account at
   most, and a start brings back what the last save left.                           *)
THEOREM ServerKeepsAccounts == ASSUME NoSeparator PROVE Spec => ImplementsAccountStore
<1>1. AccountInv /\ [Next]_vars => [Store!Next]_StoreVars
  BY StoreNext
<1> QED BY <1>1, StoreInit, AccountInvariant, PTL
        DEF Spec, ImplementsAccountStore, Store!Spec, StoreVars, Durable
=============================================================================
