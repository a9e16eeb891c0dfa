------------------------------- MODULE Places -------------------------------
(***************************************************************************)
(* Lists by the places of their elements: what the web application's       *)
(* filter() keeps and what its sort() makes of numbers that differ.  They  *)
(* say what SelectSeq and SortSeq say without a recursive definition, so   *)
(* that the lists can be reasoned about.                                   *)
(***************************************************************************)
EXTENDS Integers, FiniteSets

\* The k-th number of a set, counted from the smallest.
Place(I, k) == CHOOSE i \in I : Cardinality({j \in I : j <= i}) = k

Rising(S) == [k \in 1 .. Cardinality(S) |-> Place(S, k)]

Falling(S) == [k \in 1 .. Cardinality(S) |-> Place(S, Cardinality(S) + 1 - k)]

\* What a filter leaves of the list s: the elements at the places I.
Kept(s, I) == [k \in 1 .. Cardinality(I) |-> s[Place(I, k)]]
=============================================================================
