------------------------------ MODULE Ordering ------------------------------
(***************************************************************************)
(* ORDER BY: the elements of a finite set as a sequence, in an order given *)
(* as a set of pairs.  SetToSortSeq and SelectSeq of the community modules *)
(* say the same, by sorting and by recursion; an element is found here by  *)
(* its rank, so that theorems can be proved of what a query answers.       *)
(***************************************************************************)
EXTENDS Integers, Sequences, FiniteSets

\* x and what comes before it.
UpTo(S, R, x) == {y \in S : y = x \/ <<y, x>> \in R}

\* SELECT ... ORDER BY
InOrder(S, R) ==
    [k \in 1..Cardinality(S) |-> CHOOSE x \in S : Cardinality(UpTo(S, R, x)) = k]

\* A strict total order of S.
Orders(R, S) ==
    /\ \A x, y \in S : x # y => <<x, y>> \in R \/ <<y, x>> \in R
    /\ \A x \in S : <<x, x>> \notin R
    /\ \A x, y, z \in S : <<x, y>> \in R /\ <<y, z>> \in R => <<x, z>> \in R

Less(S) == {p \in S \X S : p[1] < p[2]}

\* Numbers from the least to the greatest.
Ascending(S) ==
    [k \in 1..Cardinality(S) |-> CHOOSE x \in S : Cardinality({y \in S : y <= x}) = k]

\* The elements of a sequence at some of its positions: a WHERE, an if in a loop.
SelectAt(s, I) == [k \in 1..Cardinality(I) |-> s[Ascending(I)[k]]]
=============================================================================
