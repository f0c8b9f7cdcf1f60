----------------------------- MODULE MCTelemetry -----------------------------
(* Model checking of Telemetry: the intervals, the timeout and the silence of *)
(* the code; samples grow old after four seconds.                             *)
EXTENDS Telemetry
=============================================================================
