------------------------------- MODULE Lists -------------------------------
(***************************************************************************)
(* Operators on sequences that the models share.  They are defined so that *)
(* ListFacts can prove what they return: SelectSeq and SortSeq are built   *)
(* into the tools and have no definition a proof could use.                *)
(***************************************************************************)
EXTENDS Integers, Sequences, FiniteSets

\* The place of i in the order of the numbers I.
Rank(I, i) == Cardinality({j \in I : j <= i})

\* A finite set of numbers in ascending order.
Ascending(I) == [k \in 1 .. Cardinality(I) |-> CHOOSE i \in I : Rank(I, i) = k]

\* The elements of s at the positions I, in the order they have in s.
Pick(s, I) == [k \in 1 .. Cardinality(I) |-> s[Ascending(I)[k]]]

\* The sum of a sequence of integers.
Total(c) ==
    LET sum[k \in 0 .. Len(c)] == IF k = 0 THEN 0 ELSE sum[k - 1] + c[k]
    IN  sum[Len(c)]
=============================================================================
