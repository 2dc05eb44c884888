------------------------------- MODULE Places -------------------------------
(* The part of a sequence at a set of places, and the stable sort by keys. *)
EXTENDS Integers, Sequences, FiniteSets

\* the elements of seq at the places in S, in their order
At(seq, S) ==
  [n \in 1..Cardinality(S) |-> seq[CHOOSE i \in S : Cardinality({j \in S : j <= i}) = n]]

\* the elements of seq that P holds of
Picked(seq, P(_)) == At(seq, {i \in 1..Len(seq) : P(seq[i])})

\* tuples of numbers in the order of their first difference
Above(k, l) == \E x \in DOMAIN k : k[x] > l[x] /\ \A y \in 1..(x - 1) : k[y] = l[y]

\* the places up to that of rank i, when places are sorted by their keys; places
\* with equal keys stay in order
UpTo(keys, i) == {j \in DOMAIN keys : Above(keys[i], keys[j]) \/ (keys[i] = keys[j] /\ j <= i)}

\* seq sorted by the keys of its places
Ordered(seq, keys) ==
  [n \in 1..Len(seq) |-> seq[CHOOSE i \in 1..Len(seq) : Cardinality(UpTo(keys, i)) = n]]
=============================================================================
