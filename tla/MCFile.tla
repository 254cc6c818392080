------------------------------- MODULE MCFile -------------------------------
(***************************************************************************)
(* FileTransfer for TLC: users are interchangeable.                        *)
(***************************************************************************)
EXTENDS FileTransfer, TLC

Symmetry == Permutations(User)
=============================================================================
