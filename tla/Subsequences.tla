----------------------------- MODULE Subsequences -----------------------------
(***************************************************************************)
(* The part of a sequence at given places: a comprehension over a Python   *)
(* list that keeps some of its items in their order.  Without recursion,   *)
(* unlike SelectSeq, so that it can be reasoned about.                     *)
(***************************************************************************)
EXTENDS Naturals, FiniteSets, Sequences

\* The number of places up to i.
Rank(S, i) == Cardinality({j \in S : j <= i})

Nth(S, k) == CHOOSE i \in S : Rank(S, i) = k

\* The items of s at the places S.
Picked(s, S) == [k \in 1..Cardinality(S) |-> s[Nth(S, k)]]

=============================================================================
