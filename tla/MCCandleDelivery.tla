-------------------------- MODULE MCCandleDelivery ---------------------------
(* Model checking of CandleDelivery: two intervals, the longer ending only   *)
(* together with the shorter.                                                *)
EXTENDS CandleDelivery

CONSTANTS s, m

MCInterval == {s, m}
MCBoundaries == {{}, {s}, {s, m}}
=============================================================================
