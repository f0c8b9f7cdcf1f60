------------------------------- MODULE ChartView -------------------------------
(***************************************************************************)
(* The candlestick chart from the CandleFeed to the screen: the selected   *)
(* candles of the runtime (web/src/engines/candle-feed.ts,                 *)
(* web/src/runtime/create-market-runtime.ts), the frame that renders the   *)
(* last snapshot, the effects of the component that mount, feed and        *)
(* dispose the adapter (web/src/ui/market-chart.tsx), and the adapter      *)
(* (ChartAdapter).                                                         *)
(*                                                                         *)
(* The market is its last candle and the revision of it: 1 or 2 while it   *)
(* is open, 3 when the next one has closed it.  A candle is known by       *)
(* interval, time and revision.                                            *)
(***************************************************************************)
EXTENDS ChartAdapter

CONSTANTS
    Interval,
    MaxCandles,     \* MAX_CANDLES of the feed (1000)
    HistoryLimit,   \* candles of a history (500)
    Warm,           \* candles the server starts with: those of its warm-up, for a
                    \* long interval fewer than a history
    MaxTime,        \* bound: candles of the market; the last one does not change
    MaxMoves        \* bound: selections, losses, failures, retries of the chart

ASSUME ChartAssumption ==
    /\ {HistoryLimit, Warm, MaxTime, MaxMoves} \subseteq Nat \ {0}
    /\ MaxCandles \in Nat /\ MaxCandles > HistoryLimit
    /\ Interval # {}

VARIABLES
    market,     \* the last candle and its revision
    feed,       \* the CandleFeed and the history request of the runtime
    queued,     \* a snapshot waits for the next frame
    page,       \* the mounted component
    adapter,    \* its adapter, or none
    user,       \* ghost: the last drag of the user, since then undone or not
    moves       \* moves left

vars == <<market, feed, queued, page, adapter, user, moves>>

\* user.left: the candle the user left at the right edge, 0 for none; user.drag:
\* the adapter keeps it, or it ignored the drag, or it has no first history yet;
\* user.away: an ignored drag has the view away from the live edge.
untouched == [left |-> 0, drag |-> "kept", away |-> FALSE]
reading == IF user.drag = "kept" THEN user.left ELSE 0

none == [generation |-> 0]

Move == moves > 0 /\ moves' = moves - 1

-----------------------------------------------------------------------------
(* The feed: candles by time, each with its revision. *)

NewMarket == [last |-> Warm, rev |-> 1]

RevIn(m, t) == IF t < m.last THEN 3 ELSE m.rev

\* The last n candles of the market m
Newest(m, n) ==
    [t \in {u \in 1 .. m.last : u > m.last - n} |-> RevIn(m, t)]

\* mergeInto
MergeInto(candles, incoming) ==
    [t \in DOMAIN candles \cup DOMAIN incoming |->
        IF t \in DOMAIN candles /\ (t \in DOMAIN incoming => candles[t] >= incoming[t])
        THEN candles[t] ELSE incoming[t]]

\* trimCandles
Trim(candles) ==
    [t \in {u \in DOMAIN candles :
              Cardinality({v \in DOMAIN candles : v > u}) < MaxCandles} |-> candles[t]]

NoCandles == [t \in {} |-> 0]

unsent == [last |-> 0, rev |-> 0]

\* selectHistory: the feed forgets its candles and the history loads, unless no
\* attempt is left for a recovery.  since: the market that neither the history nor
\* the seed can precede; sent: the market the live batches of the subscription
\* have reached.
SelectHistory(f, status) ==
    [f EXCEPT !.of = <<f.session, f.selected>>, !.candles = NoCandles, !.status = status,
              !.since = IF status = "loading" THEN market ELSE unsent, !.sent = unsent]

\* sortedCandles: the i-th candle has i times up to its own.
Sorted(f) ==
    LET times == DOMAIN f.candles
        Nth(i) == CHOOSE t \in times : Cardinality({u \in times : u <= t}) = i
        CandleAt(t) == [of |-> f.of, t |-> t, rev |-> f.candles[t]]
    IN  [i \in 1 .. Cardinality(times) |-> CandleAt(Nth(i))]

\* What the component takes from a snapshot: candlesPayload, and the key of its effect.
Payload(f) ==
    [key |-> <<f.session, f.selected>>, candles |-> Sorted(f),
     loading |-> f.status = "loading", ready |-> f.status = "ready"]

-----------------------------------------------------------------------------
(* The runtime.  Every handler ends with a publish. *)

Publishes(f) == feed' = f /\ queued' = TRUE /\ UNCHANGED <<page, adapter, user>>

\* A trade changes the open candle, or closes it and opens the next.
Trade ==
    /\ market.last < MaxTime
    /\ \/ market.rev < 2 /\ market' = [market EXCEPT !.rev = 2]
       \/ market' = [last |-> market.last + 1, rev |-> 1]
    /\ UNCHANGED <<feed, queued, page, adapter, user, moves>>

\* The history, captured at some moment since it was asked for.  A request is
\* given up long before the market has moved by as many candles as it returns.
ReceiveHistory ==
    /\ feed.connected /\ feed.status = "loading"
    /\ \E last \in feed.since.last .. market.last, rev \in 1 .. 2 :
         /\ last < feed.since.last + HistoryLimit
         /\ last = market.last => rev <= market.rev
         /\ last = feed.since.last => rev >= feed.since.rev
         /\ LET history == Newest([last |-> last, rev |-> rev], HistoryLimit)
            IN  Publishes([feed EXCEPT !.candles = Trim(MergeInto(@, history)),
                                       !.status = "ready",
                                       !.since = IF feed.sent = unsent THEN @ ELSE unsent])
    /\ UNCHANGED <<market, moves>>

\* A batch: what changed since the last one, for a new subscription the newest
\* candle.  That seed is there or the connection is given up before the market has
\* moved by as many candles as the shortest warm-up gives (a minute, at least one).
ReceiveLive ==
    /\ feed.connected /\ market # feed.sent
    /\ feed.sent = unsent /\ feed.since # unsent => market.last <= feed.since.last + Warm
    /\ LET batch == Newest(market, IF feed.sent = unsent THEN 1
                                  ELSE market.last - feed.sent.last + 1)
       IN  Publishes([feed EXCEPT !.candles = Trim(MergeInto(@, batch)), !.sent = market,
                                  !.since = IF feed.status = "loading" THEN @ ELSE unsent])
    /\ UNCHANGED <<market, moves>>

\* candles_reset, a revision conflict or a stalled panel
Resync ==
    /\ feed.connected /\ Move
    /\ \E status \in {"loading", "failed"} : Publishes(SelectHistory(feed, status))
    /\ UNCHANGED market

\* No attempt of the history request is left ...
HistoryFails ==
    /\ feed.connected /\ feed.status = "loading" /\ Move
    /\ Publishes([feed EXCEPT !.status = "failed", !.since = unsent])
    /\ UNCHANGED market

\* ... until the user asks for it.
Retry ==
    /\ feed.connected /\ feed.status = "failed"
    /\ Publishes(SelectHistory(feed, "loading"))
    /\ UNCHANGED <<market, moves>>

\* The request is cancelled, the candles stay.
Disconnect ==
    /\ feed.connected /\ Move
    /\ Publishes([feed EXCEPT !.connected = FALSE, !.status = "idle",
                              !.since = unsent, !.sent = unsent])
    /\ UNCHANGED market

\* hello and bootstrap, by the server known ...
Reconnect ==
    /\ ~feed.connected /\ feed.session # 0
    /\ \E status \in {"loading", "failed"} :
         Publishes(SelectHistory([feed EXCEPT !.connected = TRUE], status))
    /\ UNCHANGED <<market, moves>>

\* ... or by a new one, the first included, whose market starts anew.
Connect ==
    /\ ~feed.connected
    /\ IF feed.session = 0 THEN UNCHANGED <<market, moves>>
                           ELSE Move /\ market' = NewMarket
    /\ Publishes([feed EXCEPT !.connected = TRUE, !.session = @ + 1, !.candles = NoCandles,
                              !.of = <<feed.session + 1, feed.selected>>, !.status = "loading",
                              !.since = market', !.sent = unsent])

\* selectInterval; without a connection the candles of the other interval stay.
SelectInterval ==
    /\ Move
    /\ \E i \in Interval \ {feed.selected} :
         LET f == [feed EXCEPT !.selected = i]
         IN  Publishes(IF feed.connected THEN SelectHistory(f, "loading") ELSE f)
    /\ UNCHANGED market

-----------------------------------------------------------------------------
(* The component. *)

\* Where the library may leave a view: at the last candle if it shows it, else anywhere.
Rests(a) == IF a.right < 0 THEN (1 - MaxCandles) .. 0 ELSE {0}

\* What setCandles does to the adapter, and to the place of the user: a candle
\* that is no longer there cannot be kept.
Feeds(a, shown) ==
    \E rest \in Rests(a) :
        LET b == SetCandles(a, shown.candles, shown.loading, shown.ready, rest)
        IN  /\ adapter' = b
            /\ page' = [page EXCEPT !.shown = shown, !.error = FALSE,
                                    !.following = b.following, !.mounting = @ \ {b.generation}]
            /\ user' = [(IF b.waiting \/ IndexOf(b.drawn, user.left) # 0
                         THEN user ELSE untouched) EXCEPT
                            !.away = user.away /\ b.following /\ b.right < 0]

\* The first effect: the old adapter is disposed of, a new one is loaded.
Mounts(shown) ==
    /\ adapter' = none /\ user' = untouched
    /\ page' = [generation |-> page.generation + 1, mounting |-> page.mounting \cup {page.generation + 1},
                shown |-> shown, error |-> FALSE, following |-> TRUE]

\* A frame renders the last snapshot and runs the effects.
Frame ==
    /\ queued /\ queued' = FALSE
    /\ LET shown == Payload(feed)
       IN  CASE shown.key # page.shown.key -> Mounts(shown)
             [] shown.key = page.shown.key /\ adapter # none -> Feeds(adapter, shown)
             [] OTHER -> /\ page' = [page EXCEPT !.shown = shown]
                         /\ UNCHANGED <<adapter, user>>
    /\ UNCHANGED <<market, feed, moves>>

CurrentGeneration(generation) == generation = page.generation

\* The module of the adapter has arrived and mounted a chart.  One that is no
\* longer wanted is disposed of.
AdapterLoaded ==
    /\ \E generation \in page.mounting :
         IF CurrentGeneration(generation)
         THEN Feeds(NewAdapter(generation), page.shown)
         ELSE /\ page' = [page EXCEPT !.mounting = @ \ {generation}]
              /\ UNCHANGED <<adapter, user>>
    /\ UNCHANGED <<market, feed, queued, moves>>

LoadFails ==
    /\ Move
    /\ \E generation \in page.mounting :
         page' = [page EXCEPT !.mounting = @ \ {generation},
                              !.error = @ \/ CurrentGeneration(generation)]
    /\ UNCHANGED <<market, feed, queued, adapter, user>>

\* The Retry button of a chart that is not available.
RetryChart ==
    /\ page.error
    /\ Mounts(page.shown)
    /\ UNCHANGED <<market, feed, queued, moves>>

\* The place of a drag that leaves candle t at the right edge of the adapter a.
PlaceOf(a, t) ==
    [left |-> t, away |-> FALSE,
     drag |-> IF t = 0 \/ (~a.waiting /\ a.anchored) THEN "kept"
              ELSE IF a.waiting THEN "ignored" ELSE "loose"]

\* The user drags the chart.  While the adapter waits for a history, a failed one
\* included, it does not listen; only while one loads is that meant to be so.
Scroll ==
    /\ adapter # none /\ adapter.drawn # <<>>
    /\ \E right \in (1 - Len(adapter.drawn)) .. LiveOffset :
         LET a == Drag(adapter, right)
             place == PlaceOf(a, IF right >= 0 THEN 0 ELSE a.drawn[To(a)].t)
         IN  /\ right # adapter.right
             /\ adapter' = a
             /\ page' = [page EXCEPT !.following = a.following]
             /\ user' = [(IF page.shown.loading THEN user ELSE place) EXCEPT
                            !.away = a.waiting /\ a.following /\ right < 0]
    /\ UNCHANGED <<market, feed, queued, moves>>

GoLive ==
    /\ adapter # none /\ ~page.following
    /\ adapter' = FollowLive(adapter)
    /\ page' = [page EXCEPT !.following = TRUE]
    /\ user' = untouched
    /\ UNCHANGED <<market, feed, queued, moves>>

Init ==
    /\ market = NewMarket
    /\ feed = [connected |-> FALSE, session |-> 0, selected |-> CHOOSE i \in Interval : TRUE,
               of |-> <<0, "none">>, candles |-> NoCandles, status |-> "idle", since |-> unsent,
               sent |-> unsent]
    /\ queued = TRUE
    /\ page = [generation |-> 1, mounting |-> {1}, shown |-> Payload(feed),
               error |-> FALSE, following |-> TRUE]
    /\ adapter = none /\ user = untouched /\ moves = MaxMoves

Next ==
    \/ Trade
    \/ ReceiveHistory \/ ReceiveLive \/ Resync \/ HistoryFails \/ Retry
    \/ Disconnect \/ Reconnect \/ Connect \/ SelectInterval
    \/ Frame \/ AdapterLoaded \/ LoadFails \/ RetryChart \/ Scroll \/ GoLive

Spec == Init /\ [][Next]_vars

-----------------------------------------------------------------------------

\* Whatever order snapshots, selections and slow loads of the chart come in, the
\* chart draws the candles of the last snapshot rendered, an adapter belongs to
\* the session and interval on show, and loaded candles are of them (setCandles,
\* the effects of MarketChart).
ChartShowsFeed ==
    /\ ~queued => page.shown = Payload(feed)
    /\ adapter # none => /\ adapter.generation = page.generation
                         /\ adapter.drawn = page.shown.candles
    /\ adapter = none => page.generation \in page.mounting \/ page.error
    /\ page.shown.ready => \A i \in DOMAIN page.shown.candles :
                              page.shown.candles[i].of = page.shown.key

\* A chart that says it follows the market shows the newest candle, whatever it
\* waits for, unless the user dragged it away while it did not listen, and Go Live
\* is offered exactly by a chart that does not (setFollowing, onFollowingChange).
FollowsLive ==
    /\ adapter # none => page.following = adapter.following
    /\ adapter # none /\ adapter.following /\ adapter.right < 0 => user.away

\* The candle on the screen's right edge
EdgeTime == adapter.drawn[EdgeIndex(adapter.drawn, To(adapter))].t

\* The candle at the right edge of a drag that the adapter noticed, in a chart with
\* its first history, stays there through updates, trims, resyncs and reconnects,
\* and drags while a history loads, as long as the feed has it; the place is empty
\* or another only while a history is awaited (replaceData,
\* recoveryAnchorForRange, applyHistoryViewport).
ViewStays ==
    reading # 0 /\ ~adapter.waiting /\ adapter.drawn # <<>> => EdgeTime = reading

\* docs/architecture.md:460: panning into history pauses follow and shows Go Live.
\* The chart that breaks it is connected and loads nothing: its history failed.
PanPausesFollow ==
    adapter # none /\ feed.connected /\ ~queued /\ feed.status # "loading"
    /\ adapter.drawn # <<>> /\ adapter.right < 0 => ~page.following

\* README.md:64: scrolling into history keeps the place until Go Live, also in a
\* chart of live candles whose history had failed, or was cancelled by a loss of
\* the connection, once the next history is there.
IgnoredDragKeepsPlace ==
    user.left # 0 /\ user.drag = "ignored" /\ page.shown.ready /\ adapter.drawn # <<>>
        => EdgeTime = user.left

\* README.md:64, of a chart that has drawn candles before its first history.
FirstHistoryKeepsPlace ==
    user.left # 0 /\ user.drag = "loose" /\ page.shown.ready /\ adapter.drawn # <<>>
        => EdgeTime = user.left

=============================================================================
