------------------------------- MODULE Lists -------------------------------
(***************************************************************************)
(* What the array methods of the client return.                            *)
(***************************************************************************)
EXTENDS Integers, Sequences, FiniteSets

\* How many of the places come no later than this one.
CountUpTo(places, i) == Cardinality({j \in places : j <= i})

\* filter: the elements at some places, in the list's order.
AtPlaces(list, places) ==
  [n \in 1..Cardinality(places) |-> list[CHOOSE i \in places : CountUpTo(places, i) = n]]

\* reduce: the sum of the first n numbers of a list.
SumUpTo(list, n) ==
  LET sum[k \in 0..Len(list)] == IF k = 0 THEN 0 ELSE sum[k - 1] + list[k]
  IN sum[n]
=============================================================================
