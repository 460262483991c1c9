-------------------------------- MODULE Places --------------------------------
(* Elements of a sequence picked by their places, in the order of the places.    *)
EXTENDS Integers, Sequences, FiniteSets

\* The how-many-eth i is in S, and the n-th of S.
Rank(S, i) == Cardinality({j \in S : j <= i})
Nth(S, n) == CHOOSE i \in S : Rank(S, i) = n

\* What s has in the places S.
At(s, S) == [n \in 1..Cardinality(S) |-> s[Nth(S, n)]]
===============================================================================
