----------------------------- MODULE ListPlaces -----------------------------
(***************************************************************************)
(* The filters and the sums of the code's arrays, over the places of a     *)
(* list: what a filter keeps, in the order of the list, and what reduce    *)
(* adds up from its beginning.                                             *)
(***************************************************************************)
EXTENDS Integers, Sequences, FiniteSets

\* How many of the places there are up to p, and the nth of them.
CountUpTo(places, p) == Cardinality({q \in places : q <= p})

Nth(places, n) == CHOOSE p \in places : CountUpTo(places, p) = n

\* The elements at the given places of a list, in the order of the list.
Picked(list, places) == [n \in 1..Cardinality(places) |-> list[Nth(places, n)]]

\* The sum of a list of numbers.
Total(numbers) ==
  LET sum[n \in 0..Len(numbers)] == IF n = 0 THEN 0 ELSE sum[n - 1] + numbers[n]
  IN  sum[Len(numbers)]
=============================================================================
