-------------------------------- MODULE Lists --------------------------------
(***************************************************************************)
(* Lists as the pages and the queries make them: what filter leaves of a   *)
(* list, and a set of numbers in descending order. SelectSeq and the sorts *)
(* say the same; these definitions do not recurse, so that a proof can use *)
(* them.                                                                   *)
(***************************************************************************)
EXTENDS Naturals, FiniteSets, Sequences

\* The k-th smallest of a set of numbers.
Nth(S, k) == CHOOSE n \in S : Cardinality({m \in S : m <= n}) = k

\* The elements of a list that are in a set, in the order they had.
Filter(s, S) ==
    LET kept == {i \in DOMAIN s : s[i] \in S}
    IN  [k \in 1..Cardinality(kept) |-> s[Nth(kept, k)]]

\* The numbers of a finite set, the largest first.
Descending(S) ==
    LET size == Cardinality(S)
    IN  [k \in 1..size |-> Nth(S, size + 1 - k)]
=============================================================================
