------------------------------ MODULE MCServer ------------------------------
(***************************************************************************)
(* LanShareServer for TLC: symmetry sets for the safety runs.              *)
(***************************************************************************)
EXTENDS LanShareServer, TLC

Symmetry == Permutations(Session) \cup Permutations(UserID)

JoinCodeSymmetry == Symmetry \cup Permutations(JoinCode)
=============================================================================
