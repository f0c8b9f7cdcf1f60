----------------------------- MODULE ChartAdapter -----------------------------
(***************************************************************************)
(* The adapter of the candlestick chart (web/src/chart/adapter.ts): what   *)
(* setCandles makes of the candles it is given, and how it keeps the view  *)
(* at the live edge or where the user left it.                             *)
(*                                                                         *)
(* A view is the distance of its right edge from the last candle drawn     *)
(* (scrollPosition): negative when later candles are hidden.  Its width    *)
(* and fractions of a candle are left out.  The library keeps a view that  *)
(* shows the last candle at that distance, and leaves one that does not    *)
(* where it is when a candle is added (shiftVisibleRangeOnNewBar).         *)
(***************************************************************************)
EXTENDS Integers, SequencesExt

CONSTANT LiveOffset     \* LIVE_RIGHT_OFFSET (3)

ASSUME LiveOffsetAssumption == LiveOffset \in Nat

nowhere == -1000        \* no visible range: nothing is drawn
noAnchor == [t |-> 0, index |-> 0, to |-> 0]

\* generation: of the effect that mounted it; drawn: the data of the library;
\* prev: previousCandles; seen: right end of lastVisibleRange.
NewAdapter(generation) ==
    [generation |-> generation, prev |-> <<>>, drawn |-> <<>>, right |-> LiveOffset,
     seen |-> nowhere, following |-> TRUE, anchored |-> FALSE,
     waiting |-> FALSE, wasFollowing |-> TRUE, offset |-> LiveOffset, anchor |-> noAnchor]

-----------------------------------------------------------------------------
(* The visible range. *)

\* Right end of the visible range, as an index of the candles drawn.
To(a) == IF a.drawn = <<>> THEN nowhere ELSE Len(a.drawn) + a.right

\* isHistoricalView of a range that ends at to
Historical(a, to) == a.right < 0 \/ (to # nowhere /\ a.prev # <<>> /\ to < Len(a.prev))

\* handleVisibleRangeChange
Report(a) ==
    IF a.waiting \/ a.prev = <<>> \/ a.drawn = <<>> THEN a
    ELSE [a EXCEPT !.seen = To(a), !.following = ~Historical(a, To(a))]

\* A new position is reported at once, the same one is not.
MovedTo(a, right) == IF right = a.right THEN a ELSE Report([a EXCEPT !.right = right])

\* Both calls of the library keep at least one candle in view.
AtLeast(candles, right) == IF right < 1 - Len(candles) THEN 1 - Len(candles) ELSE right

ScrollTo(a, position) == MovedTo(a, position)

\* Mutant: the move is muted, as those of replaceData are.
SetRangeMuted(a, to) == [a EXCEPT !.right = AtLeast(a.drawn, to - Len(a.drawn))]

SetRange(a, to) == MovedTo(a, AtLeast(a.drawn, to - Len(a.drawn)))

\* series.setData; rest: where the library leaves a view without the last candle.
SetData(a, candles, rest) ==
    [a EXCEPT !.drawn = candles,
              !.right = IF @ < 0 /\ candles # <<>> THEN AtLeast(candles, rest) ELSE @]

\* series.update with a new candle
Added(a, candle) ==
    LET b == [a EXCEPT !.drawn = Append(@, candle), !.right = IF @ < 0 THEN @ - 1 ELSE @]
    IN  IF a.right < 0 THEN b ELSE Report(b)

-----------------------------------------------------------------------------
(* Anchors: the candle at the right edge, and the range around it. *)

EdgeIndex(candles, to) == IF to < 1 THEN 1 ELSE IF to > Len(candles) THEN Len(candles) ELSE to

IndexOf(candles, time) == SelectInSeq(candles, LAMBDA c : c.t = time)

\* recoveryAnchorForRange
AnchorAt(candles, to) ==
    LET index == EdgeIndex(candles, to)
    IN  [t |-> candles[index].t, index |-> index, to |-> to]

\* Mutant: the range keeps its indices.
RangeKept(anchor, candles) == anchor.to

\* rangeFromRecoveryAnchor, rangeWithSharedCandleAnchor: the range moves with its candle.
RangeFrom(anchor, candles) ==
    LET index == IndexOf(candles, anchor.t)
    IN  IF index = 0 THEN anchor.to ELSE anchor.to + index - anchor.index

-----------------------------------------------------------------------------
(* setCandles. *)

\* The history loads again: what the view was like is put aside.
BeginRecovery(a) ==
    LET following == a.following /\ ~Historical(a, To(a))
    IN  [a EXCEPT
            !.waiting = TRUE,
            !.wasFollowing = following,
            !.offset = IF following THEN a.right ELSE LiveOffset,
            !.anchor = IF ~following /\ a.prev # <<>> THEN AnchorAt(a.prev, To(a)) ELSE noAnchor]

\* applyHistoryViewport
Viewport(a, candles, ready) ==
    LET done == [a EXCEPT !.waiting = FALSE, !.anchor = noAnchor,
                          !.wasFollowing = TRUE, !.offset = LiveOffset]     \* used up
        live == [done EXCEPT !.anchored = TRUE]
    IN  CASE ~ready -> a
          [] ready /\ candles = <<>> -> done
          [] ready /\ candles # <<>> /\ a.waiting ->
               IF ~a.wasFollowing /\ a.anchor # noAnchor
               THEN SetRange(done, RangeFrom(a.anchor, candles))
               ELSE ScrollTo(live, IF a.wasFollowing THEN a.offset ELSE LiveOffset)
          [] ready /\ candles # <<>> /\ ~a.waiting ->
               IF a.anchored THEN a ELSE ScrollTo(live, LiveOffset)

\* replaceData, with the reports of the range muted.
ReplaceData(a, candles, rest) ==
    LET to == IF a.waiting THEN nowhere ELSE To(a)
        keep == a.following /\ ~Historical(a, to)
        b == SetData([a EXCEPT !.following = keep], candles, rest)
    IN  IF keep \/ to = nowhere THEN b
        ELSE [b EXCEPT !.right =
                AtLeast(candles, RangeFrom(AnchorAt(a.prev, to), candles) - Len(candles))]

\* One candle more at the end.
AppendCandle(a, candles) ==
    LET to == IF a.seen # nowhere THEN a.seen ELSE To(a)
        keep == a.following /\ ~Historical(a, to)
        b == Added([a EXCEPT !.following = keep], Last(candles))
    IN  IF keep THEN ScrollTo(b, a.right) ELSE b

\* One candle changed in place.
UpdateCandle(a, candle) ==
    [a EXCEPT !.drawn = [i \in DOMAIN @ |-> IF @[i].t = candle.t THEN candle ELSE @[i]]]

\* Mutant: only the last candle is looked at.
LastIndex(prev, candles) == {Len(prev)}

ChangedIndexes(prev, candles) == {i \in DOMAIN prev : prev[i] # candles[i]}

\* The least the library has to be told.
Changed(a, candles, rest) ==
    LET n == Len(a.prev) IN
    CASE Len(candles) = n + 1 /\ IsPrefix(a.prev, candles) -> AppendCandle(a, candles)
      [] Len(candles) = n /\ Last(candles).t = Last(a.prev).t
         /\ (\E i \in 1 .. n : ChangedIndexes(a.prev, candles) = {i}) ->
            UpdateCandle(a, candles[CHOOSE i \in 1 .. n : ChangedIndexes(a.prev, candles) = {i}])
      [] OTHER -> ReplaceData(a, candles, rest)

\* setCandles, loading being its option reset.
SetCandles(a, candles, loading, ready, rest) ==
    LET b == IF loading /\ ~a.waiting THEN BeginRecovery(a) ELSE a
    IN  CASE b.prev = candles -> Viewport(b, candles, ready)
          [] b.prev # candles /\ (candles = <<>> \/ b.prev = <<>> \/ loading) ->
               Viewport([SetData(b, candles, rest) EXCEPT !.prev = candles], candles, ready)
          [] OTHER ->
               Viewport([Changed(b, candles, rest) EXCEPT !.prev = candles], candles, ready)

\* The user drags the chart.
Drag(a, right) == MovedTo(a, right)

\* The Go Live button
FollowLive(a) == [ScrollTo(a, LiveOffset) EXCEPT !.following = TRUE]

=============================================================================
