---------------------------- MODULE GroupManager ----------------------------
(***************************************************************************)
(* The server's group table (server/GroupManager.cpp).                     *)
(*                                                                         *)
(* `groups' is groups_: a partial function from the names of the existing  *)
(* groups to their GroupInfo.  Every method holds mutex_ for its whole     *)
(* body, so each is one action here.  The code returned to the creator is  *)
(* drawn by rand(), so any code may be drawn, the code of another group    *)
(* included.  creationTime is never read and is left out.                  *)
(***************************************************************************)
EXTENDS Naturals, FiniteSets, Functions

CONSTANTS
    UserID,      \* the user ids the server can hand out
    GroupName,   \* group names of 1 to 64 characters
    JoinCode     \* the codes generateCode can return

VARIABLE groups

GroupInfo == [creatorUserID : UserID, joinCode : JoinCode, members : SUBSET UserID]

GroupsTypeOK ==
    /\ DOMAIN groups \subseteq GroupName
    /\ groups \in [DOMAIN groups -> GroupInfo]

Init == groups = [g \in {} |-> {}]

-----------------------------------------------------------------------------
(* The queries. *)

groupExists(g) == g \in DOMAIN groups

getGroupMembers(g) == IF groupExists(g) THEN groups[g].members ELSE {}

isMember(g, u) == u \in getGroupMembers(g)

-----------------------------------------------------------------------------
(* The updates.  Each is enabled exactly when the method returns success.   *)

\* Mutant: an existing group is replaced.
createGroupAgain(g, u, code) ==
    groups' = [h \in DOMAIN groups \cup {g} |->
                 IF h = g THEN [creatorUserID |-> u, joinCode |-> code, members |-> {u}]
                          ELSE groups[h]]

createGroup(g, u, code) ==
    /\ ~groupExists(g)
    /\ groups' = [h \in DOMAIN groups \cup {g} |->
                    IF h = g THEN [creatorUserID |-> u, joinCode |-> code, members |-> {u}]
                             ELSE groups[h]]

joinGroup(g, u, code) ==
    /\ groupExists(g)
    /\ groups[g].joinCode = code
    /\ groups' = [groups EXCEPT ![g].members = @ \cup {u}]

\* Mutant: a group without members stays.
leaveGroupEmpty(g, u) ==
    /\ groupExists(g)
    /\ groups' = [groups EXCEPT ![g].members = @ \ {u}]

\* Succeeds for a user who was not in the group, too.
leaveGroup(g, u) ==
    /\ groupExists(g)
    /\ LET left == groups[g].members \ {u}
       IN  groups' = IF left = {} THEN Restrict(groups, DOMAIN groups \ {g})
                                  ELSE [groups EXCEPT ![g].members = left]

Next ==
    \E g \in GroupName, u \in UserID :
        \/ \E code \in JoinCode : createGroup(g, u, code) \/ joinGroup(g, u, code)
        \/ leaveGroup(g, u)

Spec == Init /\ [][Next]_groups

-----------------------------------------------------------------------------
(* A listed group has a member: routeGroupMessage and routeFileRawGroup take
   an empty member list to mean "no such group", and leaveGroup must drop the
   group with its last member for the name to become free again.            *)
GroupsHaveMembers == \A g \in DOMAIN groups : groups[g].members # {}

(* While a group lives its creator and join code stay what the creator was
   told in the GROUP_CODE reply, and nobody but the members that leave is
   taken out of it one at a time: no create, join or leave of another user
   can rewrite it.                                                           *)
GroupIdentityStable ==
    [][ \A g \in DOMAIN groups \cap DOMAIN groups' :
          /\ groups'[g].joinCode = groups[g].joinCode
          /\ groups'[g].creatorUserID = groups[g].creatorUserID
          /\ Cardinality(groups[g].members \ groups'[g].members) <= 1 ]_groups
=============================================================================
