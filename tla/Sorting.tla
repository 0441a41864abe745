------------------------------ MODULE Sorting ------------------------------
(* std::sort of finitely many elements by a key, as an operator.           *)
EXTENDS Naturals, FiniteSets

\* The elements of S in the order of their keys: the one with k - 1 smaller keys in S is
\* the k-th.
SortedBy(S, key) ==
    [k \in 1 .. Cardinality(S) |->
        CHOOSE x \in S : Cardinality({y \in S : key[y] < key[x]}) = k - 1]
=============================================================================
