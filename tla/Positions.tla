----------------------------- MODULE Positions -----------------------------
(***************************************************************************)
(* Elements at some positions of a sequence, without recursion: what a     *)
(* query with a condition or a loop that skips returns, in the order of    *)
(* the sequence.                                                           *)
(***************************************************************************)
EXTENDS Naturals, Sequences, FiniteSets

\* How many of the positions P there are up to i, and the k-th of them.
Rank(P, i) == Cardinality({j \in P : j <= i})

Nth(P, k) == CHOOSE i \in P : Rank(P, i) = k

Picked(q, P) == [k \in 1..Cardinality(P) |-> q[Nth(P, k)]]
=============================================================================
