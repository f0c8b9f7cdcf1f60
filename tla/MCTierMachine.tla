---------------------------- MODULE MCTierMachine ----------------------------
(* Model checking of TierMachine.  The dwell times are shortened and keep    *)
(* their order in the code (3s, 5s, 10s, 12s); a hidden tab keeps its        *)
(* connection long enough for one rise.                                      *)
EXTENDS TierMachine

MCFlush == [full |-> 1, degraded |-> 1, minimal |-> 2]
=============================================================================
