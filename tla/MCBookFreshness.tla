--------------------------- MODULE MCBookFreshness --------------------------
(* Model checking of BookFreshness: one price level that is never empty in a *)
(* valid book, so that every change can be published.                        *)
EXTENDS BookFreshness

CONSTANT a
MCLevel == {a}
MCValidBooks == [MCLevel -> 1 .. 2]
=============================================================================
