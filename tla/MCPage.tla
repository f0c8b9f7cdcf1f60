------------------------------- MODULE MCPage -------------------------------
(* Model checking of Page: MaxEpoch sockets, all but the last of which may  *)
(* fail, MaxAttempts attempts of each request, MaxNudges failed requests,   *)
(* selections and resyncs.                                                  *)
EXTENDS Page
=============================================================================
