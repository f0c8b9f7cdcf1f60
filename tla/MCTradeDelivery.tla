--------------------------- MODULE MCTradeDelivery ---------------------------
(* Model checking of TradeDelivery: two server processes, four trades, two   *)
(* of which fit into an update or an answer.                                 *)
EXTENDS TradeDelivery
=============================================================================
