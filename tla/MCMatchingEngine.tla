--------------------------- MODULE MCMatchingEngine ---------------------------
(* Model checking of MatchingEngine.  Sequence numbers and order IDs run out, *)
(* which bounds the state space where the code's own guard stops it.          *)
EXTENDS MatchingEngine
=============================================================================
