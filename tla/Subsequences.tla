---------------------------- MODULE Subsequences ----------------------------
(* What a filter leaves of a list, by the positions it keeps. *)
EXTENDS Integers, Sequences, FiniteSets

\* What s has at the positions I, in their order.
Picked(s, I) ==
  [k \in 1..Cardinality(I) |-> s[CHOOSE i \in I : Cardinality({j \in I : j <= i}) = k]]
=============================================================================
