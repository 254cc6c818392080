---------------------------- MODULE AccountStore ----------------------------
(***************************************************************************)
(* What the server promises about user accounts: an account, once          *)
(* registered, keeps its password and its id, and a restart brings back    *)
(* the accounts of the last save that was completed.  Only a process that  *)
(* is killed in the middle of a save may lose accounts or spoil one.       *)
(***************************************************************************)
CONSTANTS
    Username, Password, UserID,
    Unusable,   \* a stored password hash that no password matches
    NoUserID    \* a stored id that was never handed out

VARIABLES
    accounts,   \* the accounts of the running server, by user name
    durable,    \* the accounts a restart brings back
    up          \* the server is running

Account == [password : Password \cup {Unusable}, userID : UserID \cup {NoUserID}]

Init == accounts = [n \in {} |-> {}] /\ durable = [n \in {} |-> {}] /\ up = TRUE

Register ==
    /\ up /\ UNCHANGED <<durable, up>>
    /\ \E n \in Username \ DOMAIN accounts, password \in Password, userID \in UserID :
          accounts' = [k \in DOMAIN accounts \cup {n} |->
                         IF k = n THEN [password |-> password, userID |-> userID] ELSE accounts[k]]

Save == up /\ durable' = accounts /\ UNCHANGED <<accounts, up>>

Stop == up /\ up' = FALSE /\ UNCHANGED <<accounts, durable>>

\* Every account is either kept or lost, and one may be left with a useless
\* password or id.
IsTornCopy(copy) ==
    /\ DOMAIN copy \subseteq DOMAIN accounts
    /\ \A m, n \in DOMAIN copy : copy[m] # accounts[m] /\ copy[n] # accounts[n] => m = n
    /\ \A n \in DOMAIN copy : /\ copy[n].password \in {accounts[n].password, Unusable}
                              /\ copy[n].userID \in {accounts[n].userID, NoUserID}

KilledWhileSaving == up /\ up' = FALSE /\ IsTornCopy(durable') /\ UNCHANGED accounts

Restart == ~up /\ up' = TRUE /\ accounts' = durable /\ UNCHANGED durable

Next == Register \/ Save \/ Stop \/ KilledWhileSaving \/ Restart

Spec == Init /\ [][Next]_<<accounts, durable, up>>
=============================================================================
