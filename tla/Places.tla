------------------------------- MODULE Places -------------------------------
(* Sequences that are sorted, filtered or grouped, by the places of their   *)
(* elements. An order is the set of the pairs of places in it.              *)
EXTENDS Integers, FiniteSets

\* the place in S that k - 1 places of S come before
Placed(S, order, k) ==
  CHOOSE i \in S : Cardinality({j \in S : <<j, i>> \in order}) = k - 1

\* what s has at the places in S, in that order
Picked(s, S, order) == [k \in 1..Cardinality(S) |-> s[Placed(S, order, k)]]

Ascending(S) == {p \in S \X S : p[1] < p[2]}

=============================================================================
