--------------------------- MODULE CandleDelivery ---------------------------
(***************************************************************************)
(* Candles from the aggregators to the chart: the owner's candle history,  *)
(* one connection's candle subscription and cursor                         *)
(* (backend/internal/delivery/session.go and batch.go), the REST history   *)
(* that races with the subscription, and the browser's CandleFeed and      *)
(* history RequestOwner (web/src/engines/candle-feed.ts,                   *)
(* web/src/net/request-owner.ts, web/src/runtime/create-market-runtime.ts).*)
(*                                                                         *)
(* Buckets are numbered from the first real trade.  A candle is its        *)
(* revision: two candles of one bucket with the same revision are the same *)
(* candle.  Every bucket but the last is closed.  The bounds that drop the *)
(* oldest of 1000 or more candles are left out.                            *)
(***************************************************************************)
EXTENDS Integers, Sequences, FiniteSets

CONSTANTS
    Interval,           \* the candle intervals
    Boundaries,         \* the sets of intervals whose buckets may end together
    DeliveryClosed,     \* closed candles in the delivery view
    MaxAttempts,        \* history requests of one episode
    MaxRev,             \* bound: market events
    MaxWire,            \* bound: frames in flight
    MaxEnv              \* bound: selections, reconnects, failed requests

ASSUME CandleAssumption ==
    /\ Interval # {}
    /\ Boundaries \subseteq SUBSET Interval
    /\ DeliveryClosed \in Nat
    /\ {MaxAttempts, MaxRev, MaxWire} \subseteq Nat \ {0}
    /\ MaxEnv \in Nat

VARIABLES
    rev,        \* the last market event
    revs,       \* [Interval -> the revision of each candle]
    cursor,     \* the connection's subscription and the last candle it sent
    controls,   \* subscribe messages on their way to the server
    wire,       \* frames on their way to the browser
    feed,       \* the CandleFeed: selection and candles by bucket
    hist,       \* the history request of the current selection
    attempts,   \* attemptsUsed of the history RequestOwner
    env         \* environment moves left

vars == <<rev, revs, cursor, controls, wire, feed, hist, attempts, env>>

NoCandles == [k \in {} |-> 0]
NewCursor == [interval |-> CHOOSE i \in Interval : TRUE, req |-> 0, start |-> 0, rev |-> 0]

\* `early` remembers, for the properties, that the history was captured when the
\* connection's cursor did not yet stand at a candle of this selection: the
\* subscription was not processed, or there was no candle to seed it with.
Request(st) == [st |-> st, snap |-> <<>>, early |-> FALSE]

EnvMove == env > 0 /\ env' = env - 1

\* nextAttempt: the next request of the episode, or none is left.
NextRequest(used) == IF used < MaxAttempts THEN Request("pending") ELSE Request("failed")
NextAttempts(used) == IF used < MaxAttempts THEN used + 1 ELSE used

\* selectHistory: the feed forgets its candles, the history is requested and the
\* subscription is sent.  `used` is 0 for a fresh episode.
Select(i, used) ==
    /\ feed' = [interval |-> i, req |-> feed.req + 1, candles |-> NoCandles, early |-> FALSE]
    /\ hist' = NextRequest(used)
    /\ attempts' = NextAttempts(used)

Subscription == [interval |-> feed'.interval, req |-> feed'.req]

Init ==
    /\ rev = 0
    /\ revs = [i \in Interval |-> <<>>]
    /\ cursor = NewCursor
    /\ feed = [interval |-> NewCursor.interval, req |-> 1, candles |-> NoCandles, early |-> FALSE]
    /\ controls = <<[interval |-> NewCursor.interval, req |-> 1]>>
    /\ wire = <<>>
    /\ hist = Request("pending") /\ attempts = 1
    /\ env = MaxEnv

-----------------------------------------------------------------------------
(* The market owner. *)

\* One aggregator after an event of revision r: the ended bucket is closed and
\* the next one opened, or a trade changes the active candle.
Aggregated(s, r, trade, ended) ==
    IF s = <<>> THEN IF trade THEN <<r>> ELSE <<>>
    ELSE IF ended THEN Append([s EXCEPT ![Len(s)] = r], r)
    ELSE IF trade THEN [s EXCEPT ![Len(s)] = r]
    ELSE s

\* One event, its candles and its publication.
MarketEvent(trade, ended) ==
    /\ rev < MaxRev
    /\ rev' = rev + 1
    /\ revs' = [i \in Interval |-> Aggregated(revs[i], rev', trade, i \in ended)]
    /\ UNCHANGED <<cursor, controls, wire, feed, hist, attempts, env>>

-----------------------------------------------------------------------------
(* The connection. *)

Frame(kind, items) ==
    [kind |-> kind, interval |-> cursor'.interval, req |-> cursor'.req, items |-> items]

\* The cursor of a new subscription: the active candle, sent as its seed.
Seeded(i, id) ==
    LET n == Len(revs[i])
    IN  [interval |-> i, req |-> id, start |-> n, rev |-> IF n = 0 THEN 0 ELSE revs[i][n]]

\* PrepareSubscribe and Commit.  A request ID that does not increase is an
\* error frame, which changes nothing.
ProcessSubscribe ==
    /\ controls # <<>> /\ Len(wire) < MaxWire
    /\ controls' = Tail(controls)
    /\ LET c == Head(controls)
           n == Len(revs[c.interval])
       IN  IF c.req <= cursor.req THEN UNCHANGED <<cursor, wire>>
           ELSE /\ cursor' = Seeded(c.interval, c.req)
                /\ wire' = IF n = 0 THEN wire
                           ELSE Append(wire, Frame("update", [k \in {n} |-> revs[c.interval][n]]))
    /\ UNCHANGED <<rev, revs, feed, hist, attempts, env>>

View == revs[cursor.interval]
FirstInView == IF Len(View) > DeliveryClosed + 1 THEN Len(View) - DeliveryClosed ELSE 1

\* Mutant: only candles after the last one sent.
OnlyNewer == {k \in FirstInView .. Len(View) : k > cursor.start}

\* changedCandles: the last candle sent if it changed, and every later one.
ChangedCandles ==
    IF cursor.rev = 0 THEN {Len(View)}
    ELSE {k \in FirstInView .. Len(View) :
            \/ k > cursor.start
            \/ k = cursor.start /\ View[k] > cursor.rev}

\* PrepareFlush and Commit of the candle part: a reset when the cursor has left
\* the delivery view, otherwise what changed.
Flush ==
    /\ Len(wire) < MaxWire
    /\ cursor.req # 0 /\ View # <<>>
    /\ LET n == Len(View)
           expired == cursor.rev # 0 /\ cursor.start < FirstInView
       IN  /\ expired \/ ChangedCandles # {}
           /\ cursor' = [cursor EXCEPT !.start = n, !.rev = View[n]]
           /\ wire' = Append(wire,
                        IF expired THEN Frame("candles_reset", NoCandles)
                        ELSE Frame("update", [k \in ChangedCandles |-> View[k]]))
    /\ UNCHANGED <<rev, revs, controls, feed, hist, attempts, env>>

\* GET /api/history: the owner copies the candles it has.
CaptureHistory ==
    /\ hist.st = "pending"
    /\ hist' = [st |-> "answered", snap |-> revs[feed.interval],
                early |-> cursor.req # feed.req \/ cursor.rev = 0]
    /\ UNCHANGED <<rev, revs, cursor, controls, wire, feed, attempts, env>>

-----------------------------------------------------------------------------
(* The browser. *)

\* Mutant: what arrives last wins.
Overwrite(held, items) ==
    [k \in DOMAIN held \cup DOMAIN items |-> IF k \in DOMAIN items THEN items[k] ELSE held[k]]

\* mergeInto: the higher revision wins.
MergeInto(held, items) ==
    [k \in DOMAIN held \cup DOMAIN items |->
        IF k \notin DOMAIN held \/ (k \in DOMAIN items /\ items[k] > held[k])
        THEN items[k] ELSE held[k]]

\* Mutant: the request ID of a batch is not compared.
AcceptAll(f) == f.kind = "update"

\* accepts: a batch of the current selection.
Accepts(f) == f.kind = "update" /\ f.interval = feed.interval /\ f.req = feed.req

\* receiveLive
ReceiveUpdate ==
    /\ wire # <<>> /\ Head(wire).kind = "update"
    /\ wire' = Tail(wire)
    /\ feed' = IF Accepts(Head(wire))
               THEN [feed EXCEPT !.candles = MergeInto(@, Head(wire).items)] ELSE feed
    /\ UNCHANGED <<rev, revs, cursor, controls, hist, attempts, env>>

\* candles_reset of the current selection: select again within the episode.
ReceiveReset ==
    /\ wire # <<>> /\ Head(wire).kind = "candles_reset"
    /\ wire' = Tail(wire)
    /\ IF Head(wire).interval = feed.interval /\ Head(wire).req = feed.req
       THEN /\ Select(feed.interval, attempts)
            /\ controls' = Append(controls, Subscription)
       ELSE UNCHANGED <<feed, hist, attempts, controls>>
    /\ UNCHANGED <<rev, revs, cursor, env>>

\* receiveHistory; the request owner's episode ends.
HistoryArrives ==
    /\ hist.st = "answered"
    /\ hist' = Request("ready")
    /\ attempts' = 0
    /\ feed' = [feed EXCEPT !.early = hist.early,
                            !.candles = MergeInto(@, hist.snap)]
    /\ UNCHANGED <<rev, revs, cursor, controls, wire, env>>

\* The request fails: the next attempt of the episode, or none.
HistoryFails ==
    /\ hist.st = "pending"
    /\ EnvMove
    /\ hist' = NextRequest(attempts) /\ attempts' = NextAttempts(attempts)
    /\ UNCHANGED <<rev, revs, cursor, controls, wire, feed>>

\* The user selects another interval.
SelectInterval(i) ==
    /\ i # feed.interval
    /\ EnvMove
    /\ Select(i, 0)
    /\ controls' = Append(controls, Subscription)
    /\ UNCHANGED <<rev, revs, cursor, wire>>

\* The connection is lost and the hello of the next one selects again within
\* the episode; what was in flight on the old one is gone.
Reconnect ==
    /\ EnvMove
    /\ Select(feed.interval, attempts)
    /\ cursor' = NewCursor
    /\ wire' = <<>>
    /\ controls' = <<Subscription>>
    /\ UNCHANGED <<rev, revs>>

Next ==
    \/ \E trade \in BOOLEAN, ended \in Boundaries : MarketEvent(trade, ended)
    \/ ProcessSubscribe
    \/ Flush
    \/ CaptureHistory
    \/ ReceiveUpdate
    \/ ReceiveReset
    \/ HistoryArrives
    \/ HistoryFails
    \/ \E i \in Interval : SelectInterval(i)
    \/ Reconnect

\* The connection owner, the capture queue and the browser's event loop run on.
Spec == /\ Init /\ [][Next]_vars
        /\ WF_vars(ProcessSubscribe) /\ WF_vars(Flush) /\ WF_vars(CaptureHistory)
        /\ WF_vars(ReceiveUpdate) /\ WF_vars(ReceiveReset) /\ WF_vars(HistoryArrives)

-----------------------------------------------------------------------------

Selected == revs[feed.interval]

\* The selection's subscription is processed and the server has sent all it
\* will send until the next event; the history has been accepted.
Settled == /\ cursor.req = feed.req /\ wire = <<>> /\ hist.st = "ready"
           /\ Selected # <<>> => cursor.start = Len(Selected) /\ cursor.rev = Selected[cursor.start]

Agree == feed.candles = [k \in 1 .. Len(Selected) |-> Selected[k]]

\* Candles by bucket: each bucket starts with an event of its own.
Bucket == 1 .. MaxRev
Batch == UNION {[S -> 1 .. MaxRev] : S \in SUBSET Bucket}
Control == [interval : Interval, req : Nat]
WireFrame == [kind : {"update", "candles_reset"}, interval : Interval, req : Nat, items : Batch]
HistoryRequest == [st : {"pending", "answered", "ready", "failed"},
                   snap : Seq(1 .. MaxRev), early : BOOLEAN]

\* Types; a subscription never has a request ID the browser has not issued; the
\* cursor stands at a candle of its interval, never ahead of it.
TypeOK ==
    /\ rev \in 0 .. MaxRev
    /\ revs \in [Interval -> Seq(1 .. MaxRev)]
    /\ cursor \in [interval : Interval, req : Nat, start : Nat, rev : 0 .. MaxRev]
    /\ controls \in Seq(Control) /\ wire \in Seq(WireFrame)
    /\ feed \in [interval : Interval, req : Nat, candles : Batch, early : BOOLEAN]
    /\ hist \in HistoryRequest
    /\ attempts \in 0 .. MaxAttempts /\ env \in 0 .. MaxEnv
    /\ cursor.req <= feed.req
    /\ \A i \in DOMAIN controls : cursor.req < controls[i].req /\ controls[i].req <= feed.req
    /\ \A i \in DOMAIN wire : wire[i].req <= cursor.req
    /\ cursor.rev = 0 => cursor.start = 0
    /\ cursor.rev # 0 => cursor.start \in DOMAIN View /\ cursor.rev <= View[cursor.start]

\* validateCandleBatch: the number of candles, and no revision beyond the market's.
ValidBatch(items) ==
    /\ Cardinality(DOMAIN items) \in 1 .. DeliveryClosed + 1
    /\ \A k \in DOMAIN items : items[k] \in 1 .. rev

\* The chart shows candles of the selected interval only, none newer than the
\* market's: after A -> B -> A nothing of an earlier selection gets in.  No batch
\* is lost because the browser's decoder refuses it.
ShownFromSelection ==
    /\ TypeOK
    /\ \A i \in DOMAIN wire : wire[i].kind = "update" => ValidBatch(wire[i].items)
    /\ \A k \in DOMAIN feed.candles :
          k \in 1 .. Len(Selected) /\ feed.candles[k] <= Selected[k]

\* Within a selection no candle goes back to an earlier revision or disappears,
\* however history and live batches are interleaved.
CandlesNeverRewind ==
    [][feed'.req = feed.req =>
         \A k \in DOMAIN feed.candles :
            k \in DOMAIN feed'.candles /\ feed'.candles[k] >= feed.candles[k]]_vars

\* A settled chart whose history was captured once its subscription was seeded
\* shows every candle of the market at its latest revision, closed ones included:
\* each change reaches it by the history or by a batch (changedCandles, mergeInto).
SettledCandlesAgree == Settled /\ ~feed.early => Agree

\* Once market, faults and user rest, such a chart does settle, unless the
\* history attempts ran out.
CandlesConverge == <>[](hist.st = "failed" \/ feed.early \/ Agree)

\* docs/protocol.md of the candle the browser holds as active: it is sent its
\* final changed value, and where older candles are needed a reset.  So no candle
\* of a settled chart is out of date.  Not so when the history was captured
\* early: the bucket may end before the subscription is processed, and the seed
\* (session.go) is the newest candle only.
FinalValueIsSent ==
    Settled => \A k \in DOMAIN feed.candles : feed.candles[k] = Selected[k]

-----------------------------------------------------------------------------
(***************************************************************************)
(* The inductive invariant behind the properties.                          *)
(***************************************************************************)

\* A revision is the event that made it, and an event starts one candle at most.
MarketOK == \A i \in Interval : /\ Len(revs[i]) <= rev
                                /\ \A k \in DOMAIN revs[i] : revs[i][k] <= rev

\* Candles that are, or were, those of the market's candles m.
TrueCandles(c, m) ==
    \A k \in DOMAIN c : k \in DOMAIN m /\ c[k] <= m[k]

InFlightOK ==
    /\ \A i \in DOMAIN wire :
         wire[i].kind = "update" => /\ ValidBatch(wire[i].items)
                                    /\ TrueCandles(wire[i].items, revs[wire[i].interval])
    /\ hist.st = "answered" => TrueCandles(hist.snap, Selected)
    /\ TrueCandles(feed.candles, Selected)

\* Request IDs name selections: they increase along the way, and the newest one
\* means the same interval everywhere.
SelectionsOK ==
    /\ \A i, j \in DOMAIN controls : i < j => controls[i].req < controls[j].req
    /\ \A i \in DOMAIN controls :
         controls[i].req = feed.req => controls[i].interval = feed.interval
    /\ cursor.req = feed.req => cursor.interval = feed.interval
    /\ \A i \in DOMAIN wire :
         wire[i].req = feed.req => wire[i].interval = feed.interval

\* Candle k is held by chart f, or is on its way to it in the history h or in
\* the frames w, at revision r at least.
HeldIn(f, h, w, k, r) ==
    \/ k \in DOMAIN f.candles /\ f.candles[k] >= r
    \/ h.st = "answered" /\ k \in DOMAIN h.snap /\ h.snap[k] >= r
    \/ \E i \in DOMAIN w : /\ w[i].kind = "update" /\ w[i].req = f.req
                           /\ k \in DOMAIN w[i].items /\ w[i].items[k] >= r

\* The history was captured while the connection's cursor stood at a candle.
Followed(f, h) == \/ h.st = "answered" /\ ~h.early
                  \/ h.st = "ready" /\ ~f.early

\* A reset tells chart f to start over.
ResetIn(f, w) == \E i \in DOMAIN w : w[i].kind = "candles_reset" /\ w[i].req = f.req

\* What the connection takes for sent really is held: every candle before the
\* cursor as it is now, the cursor's own at the revision the cursor remembers.
NothingLost ==
    Followed(feed, hist) =>
        /\ cursor.req = feed.req /\ cursor.rev # 0
        /\ \/ ResetIn(feed, wire)
           \/ /\ \A k \in 1 .. cursor.start - 1 : HeldIn(feed, hist, wire, k, View[k])
              /\ HeldIn(feed, hist, wire, cursor.start, cursor.rev)

CInv == TypeOK /\ MarketOK /\ InFlightOK /\ SelectionsOK /\ NothingLost

=============================================================================
