------------------------------- MODULE Ordered -------------------------------
(* Sorting (slice::sort_by): the members of a finite set in the order of a  *)
(* relation that puts every two of them in order.                           *)
EXTENDS Naturals, FiniteSets

InOrder(S, before) ==
  CHOOSE s \in [1..Cardinality(S) -> S] :
    \A i, j \in DOMAIN s : i < j => <<s[i], s[j]>> \in before
=============================================================================
