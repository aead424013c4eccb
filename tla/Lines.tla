------------------------------- MODULE Lines -------------------------------
(***************************************************************************)
(* A line of waiting calls (llm-gate.ts) and leaving it from any place;    *)
(* rows and segments in the order they are read in.  Both are written by   *)
(* counting places instead of SelectSeq and SortSeq, about whose recursion *)
(* and choice of a permutation no theorem can be stated.                   *)
(***************************************************************************)
EXTENDS Naturals, Sequences, FiniteSets

Standing(s) == {s[i] : i \in DOMAIN s}

\* The line without those of S: the n-th is at the n-th of the places that stay.
Staying(s, S) == {i \in DOMAIN s : s[i] \notin S}
Before(s, S, i) == {h \in Staying(s, S) : h <= i}
Place(s, S, n) == CHOOSE i \in Staying(s, S) : Cardinality(Before(s, S, i)) = n
Without(s, S) == [n \in 1..Cardinality(Staying(s, S)) |-> s[Place(s, S, n)]]

\* The elements of S in the order of their ranks, which differ.
UpTo(S, rank, x) == {y \in S : rank[y] <= rank[x]}
Listed(S, rank) == [n \in 1..Cardinality(S) |-> CHOOSE x \in S : Cardinality(UpTo(S, rank, x)) = n]
\* A set of numbers, ascending.
InSequence(S) == Listed(S, [i \in S |-> i])
=============================================================================
