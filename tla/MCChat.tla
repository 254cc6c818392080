------------------------------- MODULE MCChat -------------------------------
(***************************************************************************)
(* ChatWindow for TLC: users are interchangeable.                          *)
(***************************************************************************)
EXTENDS ChatWindow, TLC

Symmetry == Permutations(User)
=============================================================================
