---------------------------- MODULE MCMarketOwner ----------------------------
(* Model checking of MarketOwner: two handlers, a queue for two requests and *)
(* one capture between two ticks.                                            *)
EXTENDS MarketOwner
=============================================================================
