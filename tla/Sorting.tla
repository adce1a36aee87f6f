------------------------------ MODULE Sorting ------------------------------
(* Python's sorted, as a definition of its result.                         *)
EXTENDS Integers, Sequences, FiniteSets

(* R, pairs of places of s, is a strict total order: the n-th element of   *)
(* the sorted list is the one that n - 1 others come before.               *)
Place(D, R, n) ==
    CHOOSE i \in D : Cardinality({j \in D : <<j, i>> \in R}) = n - 1

SortedBy(s, R) == [n \in DOMAIN s |-> s[Place(DOMAIN s, R, n)]]
=============================================================================
