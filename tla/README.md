# SpacKt: specifications, model checking and proofs

SpacKt is one Go backend process that generates a synthetic market and a browser application that shows it. The
interesting part of it is delivery: how an order book and candles, produced once by a single owner, reach any number of
browsers over a socket and a REST interface that race with each other, at a rate that follows the quality of each
link, through resets, reconnects, retries, hidden tabs and restarts of the server. This directory holds the TLA+
models of that, the configurations that model-check them with TLC, and proofs checked by TLAPS.

## 1. The system

| Component | Source | State | Operations |
|---|---|---|---|
| Market owner | `backend/internal/market/owner.go` | working book, candles, trades, retained level changes; the current publication; the capture queue | `Start`, `Close`, `run` (apply events, publish), `Capture*`, `Current`, `Ready` |
| Matching engine | `backend/internal/matching/engine.go` | price levels with FIFO queues, order and sequence counters | `Submit`, `Cancel`, `Snapshot`, `Orders` |
| Candle aggregators | `backend/internal/candle/candle.go` | one bounded ring of candles per interval | `Apply`, `Advance`, `History` |
| Simulator | `backend/internal/sim` | random generator, the engine | `Next` |
| Delivery session | `backend/internal/delivery/session.go`, `batch.go` | cursors of one connection | `PrepareSubscribe`, `PrepareFlush`, `Commit` |
| Connection owner | `backend/internal/delivery/connection.go` | tier machine, flush and heartbeat times, hidden time, delayed pongs, debug flags | `Run`: ticks and controls |
| Tier machine | `backend/internal/tier/machine.go` | automatic and forced tier, evidence timers, report deadline | `Step` |
| Transport | `backend/internal/transport` | live connections, admission buckets, `stopping` | REST handlers, upgrade, control reader, protocol pings, `Close` |
| App | `backend/cmd/server` | owner and server | start, shutdown |
| BookSync | `web/src/engines/book-sync.ts` | book, expected sequence number, buffer, attempts, generation | `start`, `recover`, `receiveSnapshot`, `receiveRange`, `failed` |
| CandleFeed | `web/src/engines/candle-feed.ts` | selection and candles | `select`, `receiveHistory`, `receiveLive` |
| FreshnessMonitor | `web/src/engines/freshness.ts` | heads and stall timers per panel | `heartbeat`, `panelApplied`, `advance`, `visibilityChanged` |
| Telemetry | `web/src/engines/telemetry.ts` | probes in flight, samples | `pingSent`, `pongReceived`, `advance`, `report` |
| RecentTrades | `web/src/engines/recent-trades.ts` | trades by ID | `merge`, `reset` |
| RequestOwner | `web/src/net/request-owner.ts` | generation, attempts, timer | `start`, `recover`, `retry`, `cancel` |
| ConnectionLifecycle | `web/src/net/lifecycle.ts` | epoch, visibility, backoff, deferred retry | browser and socket events |
| Market runtime | `web/src/runtime/create-market-runtime.ts` | the engines above, one socket, timers | dispatch |
| Frame publisher, store | `web/src/store`, `app/client-entry.tsx` | the pending snapshot, the one on show | `publish`, the frame callback |
| Chart | `web/src/chart/adapter.ts`, `ui/market-chart.tsx` | candles drawn, viewport, anchor of a recovery, following | `setCandles`, `followLive`, mount, retry, dispose |
| UI | `web/src/ui` | view state | rendering |
| Wire formats | `backend/internal/transport/wire`, `web/src/net/wire` | none | encode, decode and validate |

How they interact. The owner alone writes market state. It hands copies out in two ways: a *publication* that every
connection owner reads at its own pace (`Current`), and *captures* answered through a queue for REST. A connection owner
turns the publication into frames relative to its cursors, at the flush interval of its tier, and moves the cursors
after the write. The browser runtime receives frames in order on one socket, while its REST answers arrive at any time;
the engines have to make one picture of both. The freshness monitor compares what heartbeats advertise with what the
panels have applied; telemetry reports go back and move the tier.

What is hard: the two paths to the browser are not ordered with each other; cursors can fall out of the bounded log they
refer to; requests of an earlier generation answer late; the connection, the tab, the network and the server process
come and go at any point; several timers (silence, dwell, flush, hidden close, stall, retry) race with the events that
disarm them. `PROJECT.json` lists these hazards with the line where each one bites.

## 2. Modules

| Module | Models | Extends |
|---|---|---|
| `BookRanges` | the log of level changes, retention, `buildBookRange` | |
| `BookSync` | the browser's BookSync as functions on its state | `BookRanges` |
| `BookDelivery` | log, publication, one connection, socket, REST snapshot, runtime; restart of the server | `BookSync` |
| `BookReplica` | the abstract specification of `BookDelivery` | |
| `BookFreshness` | `BookDelivery` with the freshness monitor, under fairness | `BookDelivery` |
| `BookDeliveryProofs` | theorems about BookSync, the pipeline and the monitor | `BookFreshness` |
| `CandleDelivery` | candle revisions, subscription, REST history, CandleFeed, its requests | |
| `CandleDeliveryProofs` | theorems about it | `CandleDelivery` |
| `TierMachine` | tier machine and the pacing of one connection | |
| `Lifecycle` | ConnectionLifecycle and the socket and timers of the runtime | |
| `Page` | what the runtime does with its data when the connection comes and goes; snapshots, frames, the status label | `Lifecycle` |
| `PageProofs` | theorems about `Lifecycle`; that `Page` implements it, and what the page says of its data | `Page` |
| `ChartAdapter` | the chart adapter as functions on its state | |
| `ChartView` | the candle feed, frames, the chart component and the user who drags | `ChartAdapter` |
| `ChartViewProofs` | theorems about both | `ChartView` |
| `MatchingEngine` | orders, matching, limits, level changes | |
| `MatchingEngineProofs` | theorems about it | `MatchingEngine` |
| `MarketOwner` | the goroutines around the owner: `Start`, loop, capture queue, `Close` | |
| `Connections` | upgrade, reader, pings and end of a connection; `Server.Close` and `App.Close` | |
| `ServerProofs` | theorems about the tier, the owner and the connections, one part after the other | `TierMachine`, `MarketOwner`, `Connections` |
| `RequestOwner` | the browser's RequestOwner, with answers of superseded loads | |
| `TradeDelivery` | trades over updates and REST, RecentTrades, the count of omitted trades | `RequestOwner` |
| `TradeDeliveryProofs` | theorems about `RequestOwner` alone and about trade delivery | `TradeDelivery` |
| `Telemetry` | probes, pongs and reports of a link; the debug delay of pongs | |
| `TelemetryProofs` | theorems about it | `Telemetry` |

`MC*` modules give the constants their values for TLC; every `.cfg` belongs to one run of `PROJECT.json`, except three
for `MCChartView` that show what the chart does not keep (`MCChartPan.cfg`, `MCChartIgnored.cfg`, `MCChartFirst.cfg`, see *Findings*).

### How state and actions correspond to the code

**Book pipeline.** The engine numbers every level change (`BookRanges!Mutate`); the owner's publication is the last
number published (`pub`), and the changes it retains are the newest `Retain` of the log. The log entries carry two
annotations the code does not have, the whole book after the change and whether a publication ended there: properties
compare what the browser shows with them. A connection is its cursor (`conn.sent`) and the debug flags; `FlushRange` is
`PrepareFlush` + write + `Commit`, and `FlushReset` the branch in which the cursor is no longer covered. `wire` is the
socket, in order; `fetch` is the one book request the runtime has in flight, whose answer is fixed by `Capture` at some
moment between request and arrival and arrives at any time later. `BookSync` is written as functions from record to
record because the runtime calls the class in the middle of its own handlers: `ReceiveUpdate`, `SnapshotArrives`, ...
apply such a function and then carry out the `fetchSnapshot` effect it returned (`Issue`). A replay of buffered ranges is
not a recursion here but its closed form: level by level, the last applied range that carries the level.
`Restart` ends the process: connection and request are lost, session, log and publication begin again.

**Freshness.** `panel` is the book's evidence (local head, advertised head, stalled, resync spent), `HealthTick` the
periodic check. `OtherUpdate` stands for an update whose book part is empty, which advertises nothing and applies nothing.

**Candles.** A candle is the revision of the last event that changed it: contents are equal exactly when revisions
are. `cursor` is the connection's subscription; `ProcessSubscribe` seeds it with the newest candle; `Flush` sends what
changed since the cursor in the delivery view (at most `DeliveryClosed` closed candles and the active one), or
`candles_reset`. `hist` is the request of the current selection, `early` records that its answer was captured before the
server seeded the subscription (see the finding below).

**Tier machine.** The code stores the time a timer started, the model its age, capped where the code stops
distinguishing. One report is one of five bands, ordered by quality, because latency and jitter only enter through the
comparisons those bands name. `Tick` is a tick of the connection owner, `SlowFlush` and
`SlowSeed` are writes of a market flush and of a subscription's seed that take several units while ticks are missed, and `Announce` the policy frame that goes out when something in it changed and moves the next flush.
`calm`, `mild` and `last` are ghosts for the liveness properties.

**Lifecycle.** `tab` is the lifecycle object together with the runtime's socket and timers, one record, because each
calls the other inside its handlers (a failed open is a close, a close may open the next socket); a step is one event
of the browser, of the socket or of a timer. `ok` is the nondeterministic success of `new WebSocket`. `dead` is a link
the network has forgotten. `oversized` is a ghost that counts 4009 closes. `Publish` is what `buildSnapshot` does to the
lifecycle: a live page forgets its backoff and its used retry.

**Page.** `data` is what the runtime holds besides the lifecycle: per part (metadata and trades, book, candles) the
status of its request, the attempts used, and whether the page holds nothing, something fetched on this connection
(`fresh`) or something kept from before it (`cached`), which is an annotation the code does not have; it has the flag
`stale`, and the properties compare the two. Each action is a step of `Lifecycle` with the handler the runtime hangs
on it (`Carried(Disconnect(...))`, `Greeted`, ...) or an event of the data alone (`Answer`, `Failure`, `Message`,
`ResyncBook`, ...), and ends with `Publishes`, the `publish()` at the end of every handler: the snapshot is built, which may
take the mark back (`Built`) and tells the lifecycle that the page is live, and is queued for the next `Frame`. `StatusLabel`
is the label of the status strip, its conditions in the order of the code. The environment does what browsers do: nothing
arrives between `pagehide` and `pageshow`, no frame is drawn for a hidden page, and Retry is pressed only where
the screen offers it.

**Chart.** A candle is known by interval, time and revision. `ChartAdapter` is the adapter as functions from record to
record: `SetCandles` chooses between updating changed candles, appending and replacing the data, and `BeginRecovery` and
`Viewport` put the view aside and restore it by the candle at its right edge. lightweight-charts is external: it keeps a
view that shows the last bar at that bar and leaves any other where it is, and reports every move at once. In `ChartView`,
`feed` is the CandleFeed with the history request as far as the snapshot shows it, `Frame` renders the last snapshot and
runs the effects of the component, and `page.mounting` are the loads of the chart module not settled yet, superseded
ones included. `Scroll` is a drag by the user at any time, also while the adapter waits for a history and does not listen. `user` is a ghost: the
candle the last drag left at the edge, whether the adapter noticed it (`reading` is the place of such a drag), ignored it or has
no history to anchor it by, and whether an ignored drag has taken a following chart away from the edge (`away`).

**Matching engine.** `queue` holds the FIFO of every price; `total`, the order index and the counters are kept beside
it because the code keeps them beside it, and the properties compare them. A call that is refused changes nothing, so the
plan and its execution are one thing here: `Matched` takes the fills from a copy of the book (`Current`), each of them one
`Taken` from the first order of the best compatible level, with its level change; the checks (`Accepted`) look at the
copy, and `Submit` makes it the book (`Becomes`), with what is left at the end of its level (`Rested`). `Cancel` is a `Taken` of all an order
has. `feed` is a book built only from the level changes the engine reports.

**Market owner.** `Start`, `Close`, the loop and the HTTP handlers are goroutines with program counters; a step ends
where another goroutine can get in: at the lock, at a channel operation, at the end of the warm-up. `SelectDone`,
`SelectTick` and `SelectCapture` are the cases of the loop's `select`. The market is a counter of events (`work`) and the
publication a copy of it, since the properties only compare the two. A handler whose deadline passes leaves its request
behind in the queue, as the code does.

**Connections.** One program counter per `serveWebSocket`, its reader and pinger beside it, and `shutdown` for
`Server.Close`, which collects the closers under the lock and calls them one by one. `socket` remembers the first
close code a socket got; `done` is the cancelled context all parts of a connection share. `todo` is the closer that
`Server.Close` has in hand for a handler, which may be the early one that only cancels.

**Requests and trades.** `owner` is the object of `request-owner.ts`; `owner.flights` are the promises not settled yet,
superseded ones included, because these still answer. `SucceedsAndRecovers` is an `accept` that recovers its own
owner. `TradeDelivery` uses the same operators for the trades request and adds the cursor of the connection, the updates
and `RecentTrades`. A trade is its ID. A restarted server counts its trades from 1 again; the page may notice later
(`lost`). `got` and `live` are ghosts: everything the page was given in the session, and the part of it that came in updates.

**Telemetry.** Time is counted in seconds, the intervals are those of the code. `tele` is the object of `telemetry.ts`,
`page` the runtime's timers, `up` and `down` the socket. The `life` of a probe is a ghost that counts the resets of
the evidence; `prompt` is a ghost that says that nothing of this connection was late or delayed so far. `DuePongs` is the one pass of `processDuePongs`:
the positions that are due, in order, and those that are kept, in order (`InOrder`).

## 3. Runs

| Run | What it asks |
|---|---|
| `book_delivery` | two server processes, a dropped delta, a lost connection, a failed capture, a resync or a manual retry: the book on show is always one the market published (`ShownBookIsPublished`), a gap appears only if the debug control dropped a delta (`GapOnlyAfterDrop`), and neither the decoder nor BookSync refuses what the server published (`PublishedDataIsAccepted`) |
| `book_freshness` | two server processes and the freshness monitor: the pipeline implements `BookReplica` (`ImplementsReplica`), a lost delta is repaired (`Converges`), and no resync is spent on a current book (`ResyncOnlyBehind`) |
| `tier_machine` | hysteresis, the cap silence puts on the automatic tier (a forced one overrides it), market flushes are never starved, a steady good link ends at the full tier |
| `candle_delivery` | the chart shows only its selection, never goes back, agrees with the market once a history captured after the seed is in, and gets there |
| `candle_race` | violation: see findings |
| `matching` | the book does not cross, price-time priority, totals and index agree with the queues, the feed rebuilds the book |
| `market_owner` | captures between two ticks are bounded (`ClockWaitsAtMost`), see the published state (`AnswersMatchPublication`) and are answered or failed (`CapturesEnd`) |
| `connections` | slots and connections agree, `Close` leaves no goroutine behind, a healthy connection is told 1001 wherever the shutdown met its upgrade, and every slot is given back |
| `trade_delivery` | the page keeps the newest trades of its own session (`TradeInv`), omitted trades are counted once across reconnects (`SkippedIsExact`), no update is refused by the decoder, the newest trade arrives; the request keeps its budget and takes no late answer (`AcceptedInForce`) |
| `telemetry` | a sample is the answer to a probe of this connection and visibility (`SamplesAreTrue`), reports rest on fresh samples (`ReportsAreFresh`), and a page on a prompt link is heard before its silence costs a tier (`PromptPageIsHeard`) |
| `page` | losses of every kind, hidden, offline and cached pages, resyncs, selections, failed requests and retries: no page that should be connected is left without socket and timer (`NeverStranded`), no socket is opened too early or where it must not be (`OpensWhenAllowed`), what was fetched before a loss is marked until all of it is fetched again (`CachedIsMarked`), "Live" is said only over fresh data (`LiveIsCurrent`), and a page that should be connected becomes live or asks for Retry (`GetsLive`) |
| `chart_view` | batches, histories, resyncs, losses, restarts, selections, slow and failed loads of the chart module, drags at any time: the chart draws the candles of the last snapshot (`ChartShowsFeed`), says truly whether it follows the market unless a drag was ignored (`FollowsLive`), and keeps the candle of the last drag it noticed at its edge once it has had a history (`ViewStays`) |

The type invariants of most modules, the inductive invariants, `BufferingHasRequest`, `TimersFit`, `WaitersAreQueued`,
`ClosedKeepsPublication`, `MarketOutlivesConnections`, `NoLateRegistration`, `OnePending`, `NeverRewinds`,
`NothingAfterDone`, `OwnersAgree` and `OneAutomaticRetry` are not in the configurations: they are proved for all values of
the constants (section 4). `ShownFromSelection`, `RecordsAgree`, `TradeInv` (which also holds `BudgetHolds`),
`SamplesAreTrue` and `LiveIsCurrent` contain the type invariants of their modules.

What the browser's decoder refuses is passed over without a word (`create-market-runtime.ts:307-325`), so a frame beyond its
limits would lose trades, candles or level changes that no cursor sends again. `ValidUpdate`, `ValidAnswer`, `ValidBatch`,
`ValidRange` and `ValidSnapshot` are those limits, and the invariants above say of everything on its way that it meets them.

Every property has at least one mutant in `PROJECT.json`: a definition with the change a plausible bug would make (a
dropped guard, a stale generation accepted, a timer left armed), under which TLC finds the property violated. The mutated
forms stand in the modules, just before the definition they replace, and are used nowhere else.

### Findings

*`candle_race`.* The browser sends the subscription and requests the history at the same time. If the
history is captured first and a bucket ends before the server processes the subscription, the seed is the new candle and
the cursor moves to it. The candle the browser holds as active is never sent again, so the chart keeps a closed candle
without its last trades until the next selection. `docs/protocol.md:243` promises the final value of the active candle,
and `:245` a `candles_reset` instead of guessing. The passing candle run therefore states convergence except for histories
that were captured before the seed (`feed.early`).

*The chart and ignored drags.* Three statements of the docs about the chart do not hold of the code. `ChartView` states them
beside the properties of the passing run, and TLC refutes each within a minute (`tlc -config MCChartPan.cfg MCChartView`):

* `PanPausesFollow` (`MCChartPan.cfg`): the adapter does not listen to drags from the moment a history begins to load until a ready one
  is drawn (`adapter.ts:293`, `:323`). A history that fails ends the loading and not the wait: the chart goes on drawing
  live candles, and until a Retry has succeeded it ignores every drag. It says that it follows, and offers no Go Live,
  with its newest candle out of view; `docs/architecture.md:460` says that panning into history pauses follow and shows
  Go Live. In the same state scrolling back to the edge does not resume following (`README.md:65`).
* `IgnoredDragKeepsPlace` (`MCChartIgnored.cfg`): the wait also outlasts a history that a lost connection cancelled. The view is put aside
  at its beginning and not again (`adapter.ts:349`), so the next history restores that view or goes to the live edge,
  whatever the user has scrolled to since; by `README.md:64` the way back from there is Go Live.
* `FirstHistoryKeepsPlace` (`MCChartFirst.cfg`): a chart that draws candles before it has had a history, after a mount or a
  selection without a connection, notices a drag and stops following. The first history scrolls it to the live edge
  nevertheless, or restores the place and lets the next candles do so, because the content counts as not anchored yet
  (`adapter.ts:298-311`).

`FollowsLive` and `ViewStays` of the passing run hold beside these. Beyond the wait itself and candles the feed no longer has, their exceptions are these cases: a following chart that an
ignored drag took away from the edge (`user.away`), and the places of drags the adapter ignored or noticed before a first history.

### Bounds, and why they are enough

* Book: in `book_delivery` two levels and quantities 0 and 1 are enough for a range to carry a level that a later range overrides and
  for a book that is not valid (empty); `Retain = 1..2` with three changes makes cursors expire; one buffered range
  makes the buffer overflow; two attempts make a budget end; two frames on the wire make the receiver lag. One environment
  move is a restart or one fault; their combinations are the subject of `book_freshness`, which has two. The levels are
  interchangeable, hence the symmetry set, which is not used with liveness.
* Freshness: two sessions of one level that is never empty, so that every change can be published, and generations
  enough for two environment moves and all repairs they cause.
* Candles: two intervals of which the longer ends only with the shorter, one closed candle in the delivery view, four
  events: a candle can fall out of the view, and selection A, B, A happens.
* Tier: dwell times shortened but in the order they have in the code (bad 3 s < silence 5 s < good 10 s < minimal 12 s).
* Engine: three prices, three orders, seven sequence numbers and IDs: the numbers run out, which is a guard of the code.
* Owner: two handlers with a queue of two and one capture per tick, a warm-up of one event, three events: a third
  capture would wait for a tick, one may be left in the queue by a handler that gave up, and `Close` meets the warm-up.
* Connections: two requests for one slot, a control queue of one: the limit and the full queue both bite.
* Trades: four trades, of which three are retained, three kept and two fit an update or an answer; two sessions, three
  requests, and one lost connection, failed request or retry besides the restart.
* Telemetry: samples live 4 s instead of 10 and two are kept, probes in flight are limited to two, so every limit is met in
  10 s with a delay of 3 s, one reconnect and four steps of the environment.
* Page: two sockets, two attempts of each request, one failed request, selection or resync; the last socket is
  kept. Every page event, close code, retry and 4009 occurs before it, and the second socket meets data of the first. The
  lifecycle alone is not run: its invariants are proved, and `Page` runs all of its actions.
* Chart: two intervals, three candles kept, histories of two, one or two new candles; two selections, losses, failures or
  retries. A candle is trimmed while the view rests on it or left of it, a history overlaps what is held or leaves a
  hole. The server starts with one candle (`Warm`), fewer than a history: the warm-up of six hours (`config.go:33`) gives some
  360 candles of 1m and 72 of 5m against a history of 500, and it can be set to a minute (`:51`). A history is
  captured less than its own length of candles after it was asked for: its timeout is 5 s and it has 500 candles of at
  least 1 s. The seed of a subscription arrives, or the connection is given up, before the market has moved by
  `Warm` candles, which at the shortest warm-up is a minute of them. The view `Discernible` takes states for one that differ only in
  superseded loads of the chart module, which do nothing but settle, or in the ghost's memory of a drag that was not kept;
  no property of the run and no other step depends on either. 2.7 times fewer states are left.

`MaxEnv` counts environment moves (faults and user actions); liveness is asked of what follows the last of them.
`CHECK_DEADLOCK FALSE` stands in every configuration because bounded markets, bounded environments, exhausted sequence
numbers and a disposed page really stop.

### Fairness

Weak fairness is assumed only of what a running process does by itself: the tickers and flush timers of
the connection owner, the capture queue, delivery of frames on a live socket and their handlers in the event
loop, the health interval, browser timers that are set, and a hello from a server that can be reached. Nothing is assumed of
the user, of the network's faults, of reports or of the market. Requests may fail or time out at any moment, their answers
need no fairness beyond the attempt budget. In `MarketOwner` the choice of a capture by the loop's `select` is strongly
fair: Go picks at random among the ready cases, so one that is ready again and again is taken. In `Connections` only
goroutine steps are fair; peers, controls and the signal to stop are not. `TradeDelivery` needs nothing of
requests, and `RequestOwner`, `Telemetry` and `ChartView` state safety only. `Page` adds to the fairness of its connection
that a server that can be reached answers requests, that heartbeats of a ready feed arrive (`Message(TRUE, TRUE)`)
and that a visible browser draws; a request may still fail as often as its budget allows.

## 4. Proofs

TLAPS proves for all values of the constants, from the `ASSUME`s of the modules alone:

| Module | Theorems | Argument |
|---|---|---|
| `BookDeliveryProofs` | `Invariance`, `TypeCorrect`, `ShownBook`, `RequestInFlight`, `NoRewind` | The invariant `IInv` |
| | `OneServerInvariance`, `PublishedAccepted`, `NothingIsMissing`, `GapsAreDropped` | `IInv` and `GInv` |
| | `RefinesReplica`, `MonitoredReplica` | Step simulation of `BookReplica` |
| | `MonitoredInvariance`, `ResyncsOnlyBehind` | `IInv`, `GInv` and `PanelInv` |
| `CandleDeliveryProofs` | `CandleInvariance`, `ShownAreSelected`, `SettledAgrees`, `NeverRewinds` | The invariant `CInv` |
| `ServerProofs` (tier) | `TInvariance`, `TierTypeCorrect`, `SilenceCaps`, `TierHysteresis` | The invariant `TInv` |
| `PageProofs` | `LifecycleTypeCorrect`, `OwnersAlwaysAgree`, `PageNeverStranded`, `TimersAlwaysFit`, `RetriesOnce`, `OpensCarefullyAlways` | The invariant `LInv` |
| | `PageImplementsLifecycle`, `PageIsNeverStranded`, `PageOpensCarefully`, `CachedAlwaysMarked`, `LiveAlwaysCurrent` | Refinement, the invariants `Marked` and `Showing` |
| `ServerProofs` (owner) | `OwnerTypeCorrect`, `ClockIsServed`, `QueueAgrees`, `AnswersAgree`, `PublicationKept`, `NobodyWorksAfterDone` | The invariant `OInv` |
| `ServerProofs` (connections) | `ConnectionsTypeCorrect`, `ToldOfShutdown`, `CloseLeavesNothing`, `MarketOutlives`, `GroupOnlyShrinks`, `SlotsKept` | The invariant `CInv` |
| `MatchingEngineProofs` | `EngineInvariance`, `BookNeverCrosses`, `FeedRebuildsBook`, `RecordsAlwaysAgree`, `PriorityKept` | The invariant `EngineInvariant`; `Underway` between two fills |
| `TradeDeliveryProofs` | `RequestTypeCorrect`, `OneRequest`, `BudgetKept`, `LateAnswersDropped` | The invariant `RInv` |
| | `TradeInvariance`, `OmissionsAreExact`, `TradesAreKept`, `TradeAnswersInForce` | `RInv` and `TInv` |
| `ChartViewProofs` | `ChartInvariance`, `ChartShowsFeedAlways`, `FollowsLiveAlways`, `ViewStaysAlways` | The invariant `ChartInv` |
| `TelemetryProofs` | `TelemetryInvariance`, `SamplesAlwaysTrue`, `ReportsAlwaysFresh`, `PromptPageAlwaysHeard` | The invariants `MInv` and `PInv` |

*Book.* That the browser shows a published book is not inductive: it depends on every range and snapshot still on
its way. `IInv` adds that the logs are consistent (`LogsOK`: annotated books are what the changes produce, publications
end at valid books), that every range on the wire or in the buffer carries exactly the levels touched in its span with their
values at its end (`WireRangesOK`, `SyncRight`), that a snapshot in flight is a published book of a session
(`AnswerIsPublished`), is not behind what is shown (`AnswerIsNotBehind`), and that the request belongs to the
current generation. The first part of `BookDeliveryProofs` holds the heart of it: `ReplayIsPublished` (right ranges replayed without a gap over a
published snapshot give the book published at their end), and one lemma per operation of BookSync.

`GInv` is about what is missing, which `IInv` does not see. `OneServer` says that a socket, its frames, its cursor and
the request of a page belong to one process; with it `PublishedDataIsAccepted` follows, because a range then
starts at most `Retain` changes back and a snapshot is of the session of the ranges it meets. As long as nothing was dropped,
`Chain` says that the ranges on the wire join each other and end at the cursor, and `NothingMissing` that the first of them
joins what the page holds, shown or buffered; a gap would contradict it. `PanelInv` adds that what heartbeats on the wire
and the panel advertise was published, and that the panel's local head is not behind the book on show: so a resync
is only spent on a book that is behind. `RefinesReplica` maps the published books of the log to the history of the replica and
the book on show to its view; each lemma of an operation of BookSync says which step of the replica it is.

*Candles.* `CInv` adds to the types that an event starts one candle at most (`MarketOK`), that answers and frames
on their way carry candles that are or were the market's (`InFlightOK`), that a request ID names one selection
(`SelectionsOK`), and `NothingLost`: what the connection takes for sent is held, by the chart, the history or a frame on its
way, in the revision it has now, and the cursor's own candle in the revision of the cursor; or a `candles_reset` is on its way.
`SettledCandlesAgree` is `NothingLost` with nothing on its way. The exception for histories captured before the seed
(`Followed`) is exactly where it would fail.

*Tier.* `SilenceCaps` is about the automatic tier, which the browser is served unless the viewer forces another. `TInv` relates the ages of the evidence timers to each other and to the ghost counters: that a drop of the tier
had its dwell time follows from the timers never being older than the evidence itself.

*Lifecycle.* `LInv` is the conjunction of the type, of what `Settled` says about a record between two events
(exactly one of socket, reconnect timer, or a reason to have neither) and of the bookkeeping of the 4009 retry. The
operators that handlers are composed of have a lemma each.

*Page.* `PageImplementsLifecycle` maps every step of the page to a step of `Lifecycle` or to one that leaves the
connection alone, so `LInv` and all that follows from it holds of the page with no second proof. `Marked` adds what the data
must satisfy next to it: their types, that whatever is cached is marked, that nothing is fresh on a page without a connection
that said hello, and that with one every part that is ready is fresh. It is not enough to look at the mark: that a hello
may come only after a loss that marked everything uses `LInv`. `CarriedKeeps`, `LostKeeps`,
`BootstrapFacts` and `GreetedKeeps` are the lemmas of the operators handlers are made of, and `ConnectingStep`,
`LosingStep` and `LoadingStep` the three kinds of steps. `OpensWhenAllowed` is a property of steps: besides `LInv` it needs that
a waiting deferred retry is only ended by its own deadline (`CloseCareful` and its companions for each operator). `Showing`, that the waiting snapshot or else the screen is the snapshot of
the present state, needs neither, but `LiveIsCurrent` needs both.

*Owner.* `OInv` says who may work on the market: at most one goroutine at a time, none after the last one has
finished, and a closed owner stays closed. It needs the positions of all program counters because `finish` has three
callers, and the last of them decides.

*Connections.* `CInv` ties the program counter of a handler to its slot, its closer and its socket (`Shape`,
`Collected`): a handler that registered before the shutdown has a closer in hand or looks at `stopping` a second time,
which is why a connection without a fault of its own cannot end unnoticed. `Cardinality` of the registered
handlers comes in for the limit only: `SlotsStep` says that a step adds one handler at most, and that one under the limit.

*Requests.* `RInv` says that the timer or the load in force belongs to the current generation and that superseded loads
are of earlier ones; the budget then follows from the attempts of one episode being counted in one place.

*Trades.* `TInv` says of every update on its way that it holds an interval of trades, that it follows on the last trade the page
counted or on the update before it, the omitted ones in between (`UpdatesJoin`), and that the last one ends at the
cursor; `PageJoins` the same of what the page has counted, `PageCounts` that what it skipped is the difference. The other
half is that the page keeps the newest of *all* it was given although it trims after every merge: `NewestOfMore` (to trim,
add and trim again is to add and trim once), `NewestBound` and `NewestOfInterval` are the lemmas about `Newest`, whose
cardinalities are the subtle part. `RInv` of the embedded request is kept because every step is a step of
`RequestOwner` or leaves `owner` alone.

*Telemetry.* Every probe that is in flight, waits in the server for its delay, or comes back as a pong of the present socket has a
number that was used on this connection, and if that number is still waited for, the probe is of the present life
(`Known`). The invariant `MInv` says so of `up`, `down` and `server.delayed` together with the soundness of the evidence
(`Sound`): numbers are unique, and pending, measured and timed out ones are disjoint. `Follows` is what a step
may do to numbers so that what is on its way stays known; each operation of telemetry has a lemma. The limit of
the samples needs the oldest of those kept, which has all the others above it (`TrimFacts`).

*A prompt page is heard.* `PInv` says where a prompt connection stands between its timers. `InFlight`: a probe that is waited for, or
its pong, is on its way. `Turns`: read in order, the messages on their way turn the tab hidden and shown in turn, from
what the server knows to what the page is, and no report is among them while it is hidden; so the server takes
every report, and knows the page once nothing is on its way. `Schedule`: the next probe is at most one interval away and
the next report at most one, and (`Evidence`) either the two samples the next report needs are there or come with the pong
that is awaited, or it is the first report of a connection or a return and the next one is still in time. `Hears`
counts what is on its way as heard now, because time stands still until it is read. Each timer, message
and second has a lemma about `Schedule` alone (`ScheduleSent`, `ScheduleReported`, `SchedulePonged`,
`ScheduleWaits`, ...) and one about the step. What it takes of the intervals is `IntervalAssumption`: two probes between two
reports, three probes within the age of a sample, two samples kept, two reports within the silence that costs a tier; the
code has 1 s, 2 s, 10 s, 10 and 5 s. With a report every 2.5 s it would no longer be true.

*Matching engine.* `EngineInvariant` is what the records of a book owe each other (`Consistent`): the total of a level is the
sum of its orders, the index is the orders in the book, IDs grow along every level and are below the next one, what the feed says is the totals, and the book does not
cross. `Submit` takes any number of fills in one step, so the step needs an invariant of its own: `Underway` says, of every element of
the function that `Matched` defines, that the book so far is consistent, that what is gone from the other side and what is left make up the
order, that levels beyond the limit are untouched, that a level has lost orders from its front only (`Suffix`), and that every better level
is empty when one has given; `Done`, that there is
nothing left to match. Both are proved of every `k` by induction over numbers, the operator of the library's rule
being replaced by a set of numbers that holds 0 and every successor. That the fills end before the numbers do is because every fill but the
last one takes an order from the index. Two things come first: that a recursive function, `SumOf` and the one in `Matched`, satisfies its
equation, which the prover does not take for granted, and what `SumOf` becomes when an element changes, goes or comes.

*Chart.* `setCandles` redraws as little as it can: when a list has the length of the one before, ends at the same time and
differs at one place, only that candle is updated, wherever it says it belongs. That is right only if its time is the time of the
candle it replaces (`InPlace`), which the adapter cannot know; the feed has to see to it. So the proof has two halves. The
first is about the adapter: `CandlesSet` says that an adapter in order which is given rising candles in place draws them,
follows only what it shows, and keeps the candle the user left at its edge (`Reads`) or the range put aside for it
(`Keeps`); `Appends`, `Updates`, `Replaces`, `RecoveryBegins` and `ViewRestored` are its cases. The second half relates the
times held to the times on show, which may be several publications older: they are of the same history (`Same`: what is no
longer held was trimmed, what is new is later) or of one the feed has forgotten since (`Before`: the market has reached
all of them). `UpdatesInPlace` derives `InPlace` from either. `FeedInOrder` is what that takes of the feed: candles held
while a history loads are a run that starts where the history was asked for, so that with it they are one run
(`Contiguous`), or more than the history alone. A market may be younger than a history, `Warm` is any positive number: then a
history has all of its candles, and the times held may have a gap but start with the first two of the market (`Rooted`).
`Shape` is that one of the three holds. The second half uses what `ReceiveHistory` and
`ReceiveLive` assume, that a request is given up before the market has moved by a whole history and a subscription
before it has moved by `Warm` candles. `Truthful` says of a chart that waits for a history where ignored drags have taken it
(`user.away`); `Noted`, `Untouched` and `Dragged` are the lemmas about drags.
`AfterHistory` and `AfterBatch` are the merges, with the arithmetic of the trim in `TopIs`.

Before it was proved, each of these invariants was an invariant of a run: `GInv` and `PanelInv` on the instances of
`book_delivery` and `book_freshness`, the `CInv` of candles on 368 070 states, the `TInv` of trades on 833 175 states
and, with larger limits, on 1 283 695, `MInv` and `PInv` on the 3 659 873 states of
`telemetry`, `EngineInvariant` and `Underway` on 41 511 states of the engine, `ChartInv` on the
2 970 316 states that `chart_view` has without its view.

Only model-checked:

* all liveness: fairness and ENABLED are out of the prover's reach;
* the findings, all of them violations.

## 5. Not modelled

* *Wire formats* beyond the limits named in section 3: the encoding, limits of bytes and depth, decimal texts, the fields of a
  candle or a trade, client messages. They are stateless.
* *Simulator*: it is the environment; where it matters any order flow is allowed.
* *Transport*: REST handlers and the token buckets of admission and controls (a request or a control is admitted or not),
  error frames and their rate limit.
* *Timers*: the lengths of backoffs and timeouts (a timer that is set may fire at any time), except where a length is
  the subject: tiers, telemetry.
* *Runtime*: the values a snapshot only displays, the candle heads of the freshness monitor (its resync of the
  candles may come at any time), the maximum age of a publication in `Ready`.
* *User interface*: the panels other than the chart and the status label; of the chart its width, bar spacing and
  inspection, fractions of a candle, and a `setCandles` that throws.
* The values of a telemetry report and the observed rate, decimal formatting, configuration, the repository tools.

### Limits of the code the models step around

* When a hidden page is shown again the freshness monitor forgets when it last heard the server, and silence is only measured
  from a message (`freshness.ts:109`, `:202`). A link that died while the page was hidden, or between its return and the next
  frame, is never noticed, though `docs/protocol.md:313` promises that visible silence for 10 s triggers stale and a reconnect.
  `GetsLive` names this state (`Unnoticed`) as an exception.
* Drags are ignored while the adapter waits for a history, also after it failed, and a chart without a first history jumps to the live
  edge: see the findings. `FollowsLive` and `ViewStays` say what holds all the same.
* A Go Live pressed while the adapter waits is undone when the history arrives, which restores the view put aside before
  (`adapter.ts:296-300`, `:433-439`). `ViewStays` says nothing of the place then, `FollowsLive` holds: the chart says that it no longer follows.
* A forced full tier is served through any silence (`machine.go:204-208`); `SilenceCapsTier` is about the automatic tier.
* An interval selected offline shows the candles of the old one, marked as cached, until the page is connected again.

## 6. Plan

Done, in this order: book pipeline, its refinement and proofs; tier machine with proofs; candles; matching engine;
lifecycle with proofs; market owner, connections and requests with proofs; trades; telemetry; the page with its
refinement and proofs; the chart; the limits of the decoder; the refinement of the book pipeline, candles, trades and
telemetry proved; the matching engine and the chart proved. Next:

1. Admission: the token buckets of REST, upgrades and controls in `Connections`, with the rate limit of error frames.
2. The candle panel in `BookFreshness`; the candle aggregator behind `CandleDelivery`.
3. The simulator's liquidity on `MatchingEngine`; the closed form of the replay against a recursive reference.
