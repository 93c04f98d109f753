------------------------------ MODULE KeyedShuffle ------------------------------
(***************************************************************************)
(* The order in which a coefficient carrier uses its positions: a          *)
(* Fisher-Yates shuffle, from front to back, whose draws the key gives     *)
(* (KeyedPrefixShuffle).  What is fixed never changes again, so the same   *)
(* draws give the same positions whether they are asked for at once or in  *)
(* several calls.                                                          *)
(***************************************************************************)
EXTENDS Integers

CONSTANT Sizes     \* sizes of the domain

VARIABLES
  items,     \* the values 0, 1, ... in the order so far
  fixed      \* how many are fixed

\* The values of a domain of n positions in their own order.
Ordered(n) == [p \in 0..(n - 1) |-> p]

Init == \E n \in Sizes : items = Ordered(n) /\ fixed = 0

Swapped(f, p, q) == [f EXCEPT ![p] = f[q], ![q] = f[p]]

\* One draw: the position gets one of the values that are not fixed yet.
Draw ==
  \E other \in DOMAIN items :
    /\ fixed <= other /\ fixed + 1 \in DOMAIN items
    /\ items' = Swapped(items, fixed, other)
    /\ fixed' = fixed + 1

Spec == Init /\ [][Draw]_<<items, fixed>>
=============================================================================
