---------------------------- MODULE MessageRelay ----------------------------
(***************************************************************************)
(* What the router of the server promises about messages, whatever becomes *)
(* of connections.  Each addressee has a copy of a message at one of three *)
(* places and it only ever moves on: from the offline store to a           *)
(* connection, and over the connection.  A copy that was once given to a   *)
(* connection is never stored again, and is lost with it.                  *)
(***************************************************************************)
EXTENDS Naturals

CONSTANT UserID

VARIABLES
    stored,   \* the messages that wait for a user to log in
    queued,   \* those given to a connection on which the user logged in
    sent,     \* those that have left over such a connection
    lastID    \* number of messages so far

Gain(copies, R) ==
    [u \in UserID |-> IF u \in R THEN copies[u] \cup {lastID'} ELSE copies[u]]

Init ==
    /\ stored = [u \in UserID |-> {}]
    /\ queued = stored /\ sent = stored
    /\ lastID = 0

\* A new message is queued for some users and stored for others.  It does not
\* overtake what is still stored.
Route(Q, R) ==
    /\ Q \cap R = {}
    /\ \A u \in Q : stored[u] = {}
    /\ lastID' = lastID + 1
    /\ queued' = Gain(queued, Q)
    /\ stored' = Gain(stored, R)
    /\ UNCHANGED sent

\* At a login all that is stored for the user is queued, or nothing of it.
Flush(u) ==
    /\ queued' = [queued EXCEPT ![u] = @ \cup stored[u]]
    /\ stored' = [stored EXCEPT ![u] = {}]
    /\ UNCHANGED <<sent, lastID>>

Transmit(u, id) ==
    /\ id \in queued[u]
    /\ queued' = [queued EXCEPT ![u] = @ \ {id}]
    /\ sent' = [sent EXCEPT ![u] = @ \cup {id}]
    /\ UNCHANGED <<stored, lastID>>

Next ==
    \/ \E Q, R \in SUBSET UserID : Route(Q, R)
    \/ \E u \in UserID : Flush(u) \/ \E id \in queued[u] : Transmit(u, id)

Spec == Init /\ [][Next]_<<stored, queued, sent, lastID>>
=============================================================================
