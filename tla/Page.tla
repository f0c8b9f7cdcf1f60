-------------------------------- MODULE Page --------------------------------
(***************************************************************************)
(* The page on top of its connection: what the runtime                     *)
(* (web/src/runtime/create-market-runtime.ts) does with the data it holds  *)
(* when the connection comes and goes, the snapshot it publishes after     *)
(* every handler (buildSnapshot, publish), the frame publisher             *)
(* (web/src/store/frame-publisher.ts) and the store the components read    *)
(* (web/src/app/client-entry.tsx), with the status strip of the screen     *)
(* (web/src/ui/status.tsx).                                                *)
(*                                                                         *)
(* A part is a request with its attempts and what the page holds of it.    *)
(* Recent trades are requested, kept and forgotten with the metadata, so   *)
(* "meta" stands for both.  What is in the data is left to the modules of  *)
(* the single feeds; here it only matters on which connection it was       *)
(* fetched.                                                                *)
(***************************************************************************)
EXTENDS Lifecycle

CONSTANTS
    MaxAttempts,    \* attempts of a request until one succeeds (5)
    MaxNudges       \* bound: failed requests, selections, resyncs

ASSUME PageAssumption == MaxAttempts \in Nat \ {0} /\ MaxNudges \in Nat

VARIABLES
    data,       \* the parts and the flags the snapshot is built from
    pending,    \* the snapshot that waits for the next frame, or none
    screen,     \* the snapshot in the store, as the status strip shows it
    nudges      \* nudges left

pageVars == <<data, pending, screen, nudges>>

Parts == {"meta", "book", "candles"}
Owned == {"meta", "candles"}        \* requests of a RequestOwner; BookSync has its own

\* holds: what the page has of the part, fetched on this connection or before.
Part == [status : {"idle", "loading", "ready", "failed"}, used : 0 .. MaxAttempts,
         holds : {"nothing", "cached", "fresh"}]

Data == [
    part : [Parts -> Part],
    stale : BOOLEAN,            \* cachedStale
    feedReady : BOOLEAN,
    condition : {"waiting", "live", "stale", "feed-delayed"},   \* of the FreshnessMonitor
    matches : BOOLEAN,          \* the candles are of the selected interval
    known : BOOLEAN,            \* a session is known
    manualBootstrap : BOOLEAN]

Labels == {"Reload required", "Recovery failed", "Offline", "Reconnecting", "Connecting",
           "Feed delayed", "Stale", "Live", "Waiting for market", "Syncing feed"}

\* cached: the copy "Cached values" is shown.
Snapshots == [label : Labels, cached : BOOLEAN]

none == [snapshot |-> "none"]

-----------------------------------------------------------------------------
(* Requests: RequestOwner, and BookSync's way of counting its attempts. *)

NextAttempt(p) ==
    IF p.used < MaxAttempts THEN [p EXCEPT !.status = "loading", !.used = @ + 1]
                            ELSE [p EXCEPT !.status = "failed"]

Start(p) == NextAttempt([p EXCEPT !.used = 0])

Emptied(p) == [p EXCEPT !.holds = "nothing"]

Accepted(p) == [p EXCEPT !.status = "ready", !.used = 0, !.holds = "fresh"]

\* bootstrap, with the selection of the candle history at its end.  Only the
\* candles are forgotten in both cases.
Bootstrap(d, recover) ==
    LET next == [p \in Parts |-> IF recover THEN NextAttempt(d.part[p]) ELSE Start(d.part[p])]
    IN  [d EXCEPT
            !.matches = TRUE,
            !.part = [next EXCEPT !["candles"] = Emptied(@),
                                  !["book"] = IF recover THEN @ ELSE Emptied(@)]]

\* A new session: nothing of the old one stays on show.
Forget(d, new) ==
    IF new THEN [d EXCEPT !.known = TRUE, !.stale = FALSE,
                          !.part = [p \in Parts |-> Emptied(d.part[p])]]
           ELSE d

Greeted(d, new) ==
    [Bootstrap(Forget(d, new), ~new /\ ~d.manualBootstrap) EXCEPT !.manualBootstrap = FALSE]

-----------------------------------------------------------------------------
(* What the loss of a connection and the opening of a socket do to the data. *)

\* Mutant: what was fetched is not marked.
Unmarked(d) == d

\* markStale
MarkStale(d) == [d EXCEPT !.stale = @ \/ \E p \in Parts : d.part[p].holds # "nothing"]

Disconnect(d) == [MarkStale(d) EXCEPT !.feedReady = FALSE]

\* abortRequests: the owners are cancelled within their budgets; the book only
\* loses its fetch.  What was fetched is of an earlier connection from now on.
Abort(d) ==
    [d EXCEPT !.part = [p \in Parts |->
        [d.part[p] EXCEPT !.status = IF p \in Owned THEN "idle" ELSE @,
                          !.holds = IF @ = "fresh" THEN "cached" ELSE @]]]

\* openSocket resets the evidence that the feed is live.
Carried(d) ==
    LET kept == IF tab'.conn # tab.conn \/ tab'.epoch # tab.epoch THEN Abort(d) ELSE d
    IN  IF tab'.epoch # tab.epoch
        THEN [kept EXCEPT !.feedReady = FALSE, !.condition = "waiting"] ELSE kept

-----------------------------------------------------------------------------
(* The snapshot and its way to the screen. *)

\* Mutant: the book is not asked.
OwnersReady(s, d) ==
    /\ Active(s) /\ d.matches
    /\ \A p \in Owned : d.part[p].status = "ready"

BootstrapReady(s, d) ==
    /\ Active(s) /\ d.matches
    /\ \A p \in Parts : d.part[p].status = "ready"

Exhausted(p) == p.status = "failed" \/ (p.status = "idle" /\ p.used >= MaxAttempts)

ManualRetryRequired(s, d) ==
    \/ s.manual
    \/ \E p \in Owned : Exhausted(d.part[p])
    \/ d.part["book"].status = "failed"

LiveEligible(s, d) ==
    /\ BootstrapReady(s, d) /\ ~d.stale /\ ~ManualRetryRequired(s, d)
    /\ Visible(s) /\ d.feedReady /\ d.condition = "live"

\* Mutant: the stale mark is never taken back.
StaleForEver(s, d) == d

\* Building a snapshot takes the stale mark back when everything is loaded again.
Built(s, d) == [d EXCEPT !.stale = @ /\ ~BootstrapReady(s, d)]

\* "Cached values" in the status strip.
Cached(d) == d.stale \/ d.condition = "stale"

\* The first label that applies.
StatusLabel(s, d) ==
    IF s.terminal THEN "Reload required"
    ELSE IF ManualRetryRequired(s, d) THEN "Recovery failed"
    ELSE IF ~s.online THEN "Offline"
    ELSE IF s.status = "reconnecting" THEN "Reconnecting"
    ELSE IF s.status = "connecting" THEN "Connecting"
    ELSE IF d.condition = "feed-delayed" THEN "Feed delayed"
    ELSE IF Cached(d) THEN "Stale"
    ELSE IF LiveEligible(s, d) THEN "Live"
    ELSE IF d.condition = "waiting" /\ d.part["meta"].status = "ready" THEN "Waiting for market"
    ELSE "Syncing feed"

Snapshot(s, d) == [label |-> StatusLabel(s, d), cached |-> Cached(d)]

\* FramePublisher.queue: the frame shows the snapshot queued last.
Queue(snapshot) == snapshot

\* The end of every handler: publish, and what the subscriber does with it.
Publishes(d) ==
    LET built == Built(tab', d)
    IN  data' = built /\ pending' = Queue(Snapshot(tab', built)) /\ UNCHANGED screen

-----------------------------------------------------------------------------
(* Events of the connection: what Lifecycle says, and what it means for the data. *)

NewPart == [status |-> "idle", used |-> 0, holds |-> "nothing"]

\* createInitialSnapshot, and the runtime before its first hello.
PageInit ==
    /\ Init
    /\ data = [part |-> [p \in Parts |-> NewPart], stale |-> FALSE, feedReady |-> FALSE,
               condition |-> "waiting", matches |-> FALSE, known |-> FALSE,
               manualBootstrap |-> FALSE]
    /\ screen = [label |-> "Syncing feed", cached |-> FALSE]
    /\ pending = Snapshot(tab, data)
    /\ nudges = MaxNudges

\* Between pagehide and pageshow no message and no answer reaches the page.
Running == tab.page = "shown"

Nudge == nudges > 0 /\ nudges' = nudges - 1

OnHide == Hide /\ Publishes(data) /\ UNCHANGED nudges

OnUnhide ==
    /\ Unhide
    /\ Publishes([Carried(data) EXCEPT !.condition = "waiting"])
    /\ UNCHANGED nudges

OnConnect ==
    /\ GoOnline \/ PageShow
    /\ Publishes(Carried(data))
    /\ UNCHANGED nudges

OnReconnect == ReconnectFires /\ Publishes(Carried(data)) /\ UNCHANGED nudges

OnBrowserClose ==
    /\ GoOffline \/ PageHide
    /\ Publishes(Carried(MarkStale(data)))
    /\ UNCHANGED nudges

OnClose ==
    /\ \E code \in Codes : Close(code)
    /\ Publishes(Carried(Disconnect(data)))
    /\ UNCHANGED nudges

OnHelloTimeout == HelloTimeout /\ Publishes(Carried(Disconnect(data))) /\ UNCHANGED nudges

OnSilence ==
    /\ Silence
    /\ Publishes(Carried([Disconnect(data) EXCEPT !.condition = "stale"]))
    /\ UNCHANGED nudges

OnHello ==
    /\ Running /\ ReceiveHello
    /\ \E new \in BOOLEAN :
         /\ ~data.known => new
         /\ Publishes(Greeted(data, new))
    /\ UNCHANGED nudges

\* The Retry button, which is only there while the screen tells that recovery
\* failed.  It loads everything again, at once or after the next hello.
OnRetry ==
    /\ Retry /\ screen.label = "Recovery failed"
    /\ Publishes(IF Active(tab) THEN Bootstrap(data, FALSE)
                               ELSE Carried([data EXCEPT !.manualBootstrap = TRUE]))
    /\ UNCHANGED nudges

\* The cleanup of ClientEntry: unsubscribed and the frame cancelled first.
OnDispose ==
    /\ Dispose
    /\ data' = Carried(data) /\ pending' = none
    /\ UNCHANGED <<screen, nudges>>

Unseen == (LinkDies \/ DeadlinePasses) /\ UNCHANGED pageVars

-----------------------------------------------------------------------------
(* Events of the data. *)

\* What a handler leaves is published; message: it was a message of the socket.
DataEvent(d, message) ==
    /\ Running
    /\ IF tab.hello /\ ~tab.hidden
         THEN \E elapsed \in BOOLEAN :
                Publish(message, LiveEligible(tab, Built(tab, d)), elapsed)
         ELSE UNCHANGED <<tab, oversized>>
    /\ Publishes(d)

\* The answer of the server, accepted.
Answer(p) ==
    /\ Active(tab) /\ data.part[p].status = "loading"
    /\ DataEvent([data EXCEPT !.part[p] = Accepted(@)], FALSE)
    /\ UNCHANGED nudges

\* ... or no answer, or one that does not fit: the next attempt, or none is left.
Failure(p) ==
    /\ Active(tab) /\ data.part[p].status = "loading" /\ Nudge
    /\ DataEvent([data EXCEPT !.part[p] = NextAttempt(@)], FALSE)

\* A gap, a reset or a stall: the book is fetched again and keeps its levels.
ResyncBook ==
    /\ Active(tab) /\ ~tab.dead /\ Nudge
    /\ DataEvent([data EXCEPT !.part["book"] = NextAttempt(@)], TRUE)

\* ... and the candles, which start from nothing.
ResyncCandles ==
    /\ Active(tab) /\ ~tab.dead /\ Nudge
    /\ DataEvent([data EXCEPT !.matches = TRUE, !.part["candles"] = Emptied(NextAttempt(@))], TRUE)

\* selectInterval; without a live connection only the selection changes.
SelectInterval ==
    /\ Nudge
    /\ IF Active(tab)
         THEN DataEvent([data EXCEPT !.matches = TRUE, !.part["candles"] = Emptied(Start(@))], FALSE)
         ELSE \E same \in BOOLEAN :
                /\ data.matches => ~same
                /\ DataEvent([data EXCEPT !.matches = same], FALSE)

\* A heartbeat or an update.  A hidden page does not count it as evidence.
Message(ready, advances) ==
    /\ tab.hello /\ ~tab.dead
    /\ data.condition = "waiting" => advances
    /\ DataEvent([data EXCEPT !.feedReady = ready,
                              !.condition = IF advances /\ ~tab.hidden THEN "live" ELSE @], TRUE)
    /\ UNCHANGED nudges

\* The health interval finds the feed without progress for 5 s.
FeedDelayed ==
    /\ tab.measuring /\ data.condition = "live"
    /\ DataEvent([data EXCEPT !.condition = "feed-delayed"], FALSE)
    /\ UNCHANGED nudges

\* The frame callback; the browser draws no frame for a hidden page.
Frame ==
    /\ Running /\ ~tab.hidden /\ pending # none
    /\ screen' = pending /\ pending' = none
    /\ UNCHANGED <<vars, data, nudges>>

Answers == \E p \in Parts : Answer(p)

PageNext ==
    \/ OnHide \/ OnUnhide \/ OnConnect \/ OnReconnect \/ OnBrowserClose
    \/ OnClose \/ OnHelloTimeout \/ OnSilence
    \/ OnHello \/ OnRetry \/ OnDispose \/ Unseen
    \/ Answers
    \/ \E p \in Parts : Failure(p)
    \/ ResyncBook \/ ResyncCandles \/ SelectInterval
    \/ \E ready, advances \in BOOLEAN : Message(ready, advances)
    \/ FeedDelayed
    \/ Frame

PageSpec == PageInit /\ [][PageNext]_<<vars, pageVars>>

\* Lifecycle's fairness, a server that answers, heartbeats of a ready feed, and a
\* browser that draws.
PageFairness ==
    /\ WF_<<vars, pageVars>>(OnHello \/ OnHelloTimeout \/ OnReconnect \/ OnSilence)
    /\ WF_<<vars, pageVars>>(Unseen /\ DeadlinePasses)
    /\ WF_<<vars, pageVars>>(Answers)
    /\ WF_<<vars, pageVars>>(Message(TRUE, TRUE))
    /\ WF_<<vars, pageVars>>(Frame)

FairPageSpec == PageSpec /\ PageFairness

-----------------------------------------------------------------------------

\* Every variable has its type.
PageTypeOK ==
    /\ data \in Data /\ nudges \in 0 .. MaxNudges
    /\ pending \in Snapshots \cup {none} /\ screen \in Snapshots

\* The label is "Live" only over data of which every part was fetched on this
\* connection and while none of it is marked, and the screen shows the label of
\* the last event unless the next frame brings it (buildSnapshot, FramePublisher,
\* statusLabel).
LiveIsCurrent ==
    /\ PageTypeOK
    /\ StatusLabel(tab, data) = "Live" =>
         /\ tab.conn # 0 /\ tab.online /\ ~data.stale
         /\ \A p \in Parts : data.part[p].holds = "fresh"
    /\ tab.page # "disposed" =>
         Snapshot(tab, data) = IF pending = none THEN screen ELSE pending

\* README: the browser shows cached values as stale after a disconnect.  It says
\* so until every part is fetched again, whatever the order of losses, hellos and
\* answers (markStale, buildSnapshot).
CachedIsMarked ==
    tab.page # "disposed" /\ (\E p \in Parts : data.part[p].holds = "cached") => data.stale

\* A page that should be connected becomes "Live", or asks for Retry, or its link
\* died unnoticed: no order of losses, resyncs and failed requests leaves it
\* loading for ever.
GetsLive ==
    Wanted ~> \/ StatusLabel(tab, data) \in {"Live", "Recovery failed"}
              \/ Unnoticed \/ ~Wanted

=============================================================================
