---------------------------- MODULE Subsequences ----------------------------
(***************************************************************************)
(* What Rust's filter makes of a vector: the elements that some of the     *)
(* positions hold, in their order.  SelectSeq is the same; these say by    *)
(* counting, not by recursion, which element comes where, and can be       *)
(* reasoned about.                                                         *)
(***************************************************************************)
EXTENDS Naturals, Sequences, FiniteSets

\* How many numbers of I are i or smaller.
Rank(I, i) == Cardinality({j \in I : j <= i})

\* The k-th smallest number of I.
Nth(I, k) == CHOOSE i \in I : Rank(I, i) = k

\* The elements at the positions I of a sequence.
Picked(s, I) == [k \in 1..Cardinality(I) |-> s[Nth(I, k)]]

PositionsOf(s, S) == {i \in DOMAIN s : s[i] \in S}

\* The elements of s that are in S.
Filter(s, S) == Picked(s, PositionsOf(s, S))
=============================================================================
