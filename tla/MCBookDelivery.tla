--------------------------- MODULE MCBookDelivery ---------------------------
(* Model checking of BookDelivery: two price levels, quantities 0 and 1, and *)
(* a book that is valid while it holds at least one level.                   *)
EXTENDS BookDelivery, TLC

CONSTANTS a, b

MCLevel == {a, b}
MCValidBooks == {k \in [MCLevel -> 0 .. 1] : \E l \in MCLevel : k[l] > 0}
MCSymmetry == Permutations(MCLevel)
=============================================================================
