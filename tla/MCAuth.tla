------------------------------- MODULE MCAuth -------------------------------
(***************************************************************************)
(* AuthManager for TLC: user names made of one or two parts.               *)
(***************************************************************************)
EXTENDS AuthManager, TLC

PlainNames == {<<"alice">>, <<"bob">>}

\* A name with the field separator of users.db in it, next to its first part.
PipedNames == {<<"bob">>, <<"bob", "work">>}

Symmetry == Permutations(Password) \cup Permutations(Tag)
=============================================================================
