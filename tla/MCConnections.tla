---------------------------- MODULE MCConnections ----------------------------
(* Model checking of Connections: two requests and one slot.                 *)
EXTENDS Connections
=============================================================================
