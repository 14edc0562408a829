------------------------------- MODULE Sublists -------------------------------
(***************************************************************************)
(* What Array.prototype.filter keeps of a list, and a loop that goes over  *)
(* a list and skips elements: the elements at some positions, in their     *)
(* order.  It says what SelectSeq computes, without its recursion.         *)
(***************************************************************************)
EXTENDS Integers, FiniteSets

Rank(I, i) == Cardinality({j \in I : j <= i})
PositionAt(I, k) == CHOOSE i \in I : Rank(I, i) = k

\* The elements of s at the positions of I.
Picked(s, I) == [k \in 1..Cardinality(I) |-> s[PositionAt(I, k)]]
=============================================================================
