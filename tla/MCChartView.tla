----------------------------- MODULE MCChartView -----------------------------
(* Model checking of ChartView: MaxTime candles, of which the feed keeps     *)
(* MaxCandles, and MaxMoves disturbances.                                    *)
EXTENDS ChartView

\* What the properties and the other steps can tell apart: superseded loads only
\* settle, and the place of a drag that the adapter did not keep is nobody's.
Discernible ==
    <<market, feed, queued, [page EXCEPT !.mounting = @ \cap {page.generation}],
      adapter, reading, user.away, moves>>
=============================================================================
