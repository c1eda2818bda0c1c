------------------------------ MODULE Ordering ------------------------------
(***************************************************************************)
(* What the programs take from their libraries about order: the least and  *)
(* the greatest of some numbers, and stable sorting.                       *)
(***************************************************************************)
EXTENDS Integers, Sequences, FiniteSets

Least(S)    == CHOOSE x \in S : \A y \in S : x <= y
Greatest(S) == CHOOSE x \in S : \A y \in S : y <= x

\* How many members come no later than the m-th once they are sorted by key,
\* equal ones in the order they had.
Place(key, m) ==
  Cardinality({k \in DOMAIN key : key[k] < key[m] \/ (key[k] = key[m] /\ k <= m)})

\* The indices in the order of their keys.
StableSort(key) == [n \in DOMAIN key |-> CHOOSE m \in DOMAIN key : Place(key, m) = n]

Sorted(s) == LET order == StableSort(s) IN [n \in DOMAIN s |-> s[order[n]]]
=============================================================================
