------------------------------ MODULE Lifecycle ------------------------------
(***************************************************************************)
(* The life of the browser's connection: web/src/net/lifecycle.ts, which   *)
(* decides, and the part of web/src/runtime/create-market-runtime.ts that  *)
(* owns the socket and the timers and carries the decisions out.           *)
(*                                                                         *)
(* Handlers call each other in the middle (a failed open is a close, a     *)
(* close may open the next socket), so they are operators on the record    *)
(* tab, and a step is one event of the browser, the socket or a timer.     *)
(* Time is left out: a timer that is set may fire, also early, and the     *)
(* deadline of a deferred retry passes in a step of its own.               *)
(***************************************************************************)
EXTENDS Naturals

CONSTANT MaxEpoch       \* bound: sockets opened; the last one is not lost

ASSUME EpochAssumption == MaxEpoch \in Nat \ {0}

VARIABLES
    tab,        \* the runtime and its ConnectionLifecycle
    oversized   \* ghost: 4009 closes since 30 s of health or a manual retry (at most 2)

vars == <<tab, oversized>>

Codes == {1006, 4001, 4002, 4008, 4009}
Status == {"idle", "connecting", "live", "reconnecting", "offline", "terminal"}

Tabs == [
    epoch : Nat,
    hidden : BOOLEAN, online : BOOLEAN,
    page : {"shown", "gone", "disposed"},   \* gone: after pagehide, before pageshow
    status : Status,
    terminal : BOOLEAN,             \* terminalReason # null
    manual : BOOLEAN,               \* manualRetryRequired
    hiddenClosed : BOOLEAN,
    payloadRetry : BOOLEAN,         \* payloadRetryAvailable
    pending : {"none", "waiting", "due"},   \* pendingRetry and its deadline
    healthy : BOOLEAN,              \* healthySinceMs # null
    conn : Nat,                     \* epoch of the connection, 0 without one
    hello : BOOLEAN,                \* helloReceived
    dead : BOOLEAN,                 \* the link delivers nothing, and no close either
    heard : BOOLEAN,                \* freshness.lastTransportAtMs # null
    helloTimer : BOOLEAN,
    reconnect : Nat,                \* epoch of the reconnect timer, 0 without one
    measuring : BOOLEAN]            \* ping, report and health intervals

CanOpen(s) == s.page # "disposed" /\ ~s.terminal /\ ~s.hidden /\ s.online /\ ~s.manual
Active(s) == s.conn # 0 /\ s.hello /\ s.status = "live"
Visible(s) == ~s.hidden /\ s.online

-----------------------------------------------------------------------------
(* Opening and closing. *)

StopConnectionWork(s) ==
    [s EXCEPT !.measuring = FALSE, !.helloTimer = FALSE, !.reconnect = 0]

RetireSocket(s) == [s EXCEPT !.conn = 0, !.hello = FALSE, !.dead = FALSE]

ScheduleReconnect(s) == [s EXCEPT !.status = "reconnecting", !.reconnect = s.epoch]

\* openSocket of the lifecycle, and what the runtime clears before it opens.
NextEpoch(s) ==
    [RetireSocket(StopConnectionWork(s)) EXCEPT
        !.epoch = @ + 1, !.status = "connecting", !.pending = "none",
        !.hiddenClosed = FALSE, !.heard = FALSE]

\* ok: the browser created the socket.  A failure is a close with code 1006.
OpenSocket(s, ok) ==
    LET next == NextEpoch(s)
    IN  IF ok THEN [next EXCEPT !.conn = next.epoch, !.helloTimer = TRUE]
              ELSE ScheduleReconnect([next EXCEPT !.healthy = FALSE])

\* Mutant: the deadline of a deferred retry is not checked again.
ConnectAtOnce(s, ok) == IF CanOpen(s) THEN OpenSocket(s, ok) ELSE s

Connect(s, ok) ==
    CASE ~CanOpen(s) -> s
      [] CanOpen(s) /\ s.pending = "waiting" -> ScheduleReconnect(s)
      [] OTHER -> OpenSocket(s, ok)

\* deferRetry: at least 10 s from now, so connect() only schedules.
DeferRetry(s) ==
    LET idle == [s EXCEPT !.pending = "waiting", !.hiddenClosed = s.hidden,
                          !.status = IF s.online THEN "idle" ELSE "offline"]
    IN  IF CanOpen(idle) THEN ScheduleReconnect(idle) ELSE idle

\* 4009: one automatic retry, then the user has to ask for it.
PayloadTooLarge(s) ==
    IF s.payloadRetry
      THEN DeferRetry([s EXCEPT !.payloadRetry = FALSE])
      ELSE [s EXCEPT !.manual = TRUE, !.status = "idle", !.pending = "none"]

\* lifecycle.socketClosed
SocketClosed(s, code, ok) ==
    LET t == [s EXCEPT !.healthy = FALSE]
    IN  CASE code = 4002 -> [t EXCEPT !.status = "terminal", !.terminal = TRUE, !.pending = "none"]
          [] code = 4009 -> PayloadTooLarge(t)
          [] code = 4008 -> DeferRetry(t)
          [] code \in {1006, 4001} /\ ~Visible(t) ->
                [t EXCEPT !.status = IF t.online THEN "idle" ELSE "offline",
                          !.hiddenClosed = t.hidden \/ @]
          [] code = 4001 /\ Visible(t) -> Connect(t, ok)
          [] OTHER -> ScheduleReconnect(t)

\* runtime.disconnected
Disconnected(s, code, ok) == SocketClosed(RetireSocket(StopConnectionWork(s)), code, ok)

\* effects.closeSocket with cancelTimers and abortRequests
CloseForBrowser(s) == RetireSocket(StopConnectionWork(s))

-----------------------------------------------------------------------------
(* Events.  Each one is a whole handler: what lifecycle decides, what the  *)
(* runtime does with it, and the publish at the end, which takes the health *)
(* of a page that is not live back.                                        *)

\* The bound: a socket opened as the last one stays.
Step(s) ==
    /\ s.epoch <= MaxEpoch
    /\ s.epoch = MaxEpoch => s.conn # 0
    /\ tab' = s

NewTab(hidden, online) ==
    [epoch |-> 0, hidden |-> hidden, online |-> online, page |-> "shown",
     status |-> IF online THEN "idle" ELSE "offline",
     terminal |-> FALSE, manual |-> FALSE, hiddenClosed |-> FALSE,
     payloadRetry |-> TRUE, pending |-> "none", healthy |-> FALSE,
     conn |-> 0, hello |-> FALSE, dead |-> FALSE, heard |-> FALSE,
     helloTimer |-> FALSE, reconnect |-> 0, measuring |-> FALSE]

\* start() after the constructor: the page may be hidden or offline already.
Init ==
    /\ \E hidden \in BOOLEAN, online \in BOOLEAN : tab = Connect(NewTab(hidden, online), TRUE)
    /\ oversized = 0

Hide ==
    /\ tab.page # "disposed" /\ ~tab.hidden
    /\ Step([tab EXCEPT !.hidden = TRUE, !.healthy = FALSE,
                        !.measuring = FALSE, !.helloTimer = FALSE])
    /\ UNCHANGED oversized

\* What the lifecycle answers when the page is shown again.
Shown(s, ok) ==
    IF (s.hiddenClosed \/ s.pending # "none") /\ CanOpen(s)
      THEN Connect(s, ok)
      ELSE [s EXCEPT !.measuring = @ \/ (Active(s) /\ Visible(s))]

\* Mutant: only what the lifecycle answers is done.
LifecycleOnly(s, ok) == s

\* What the runtime adds: a missing connection or a missing hello timer.
Resume(s, ok) ==
    CASE ~Visible(s) -> s
      [] Visible(s) /\ s.conn = 0 -> Connect(s, ok)
      [] Visible(s) /\ s.conn # 0 /\ ~s.hello -> [s EXCEPT !.helloTimer = TRUE]
      [] OTHER -> s

Unhide ==
    /\ tab.page # "disposed" /\ tab.hidden
    /\ \E ok1 \in BOOLEAN, ok2 \in BOOLEAN :
         LET s == [tab EXCEPT !.hidden = FALSE, !.healthy = FALSE, !.heard = FALSE]
         IN  Step(Resume(Shown(s, ok1), ok2))
    /\ UNCHANGED oversized

GoOffline ==
    /\ tab.page # "disposed" /\ tab.online
    /\ Step([CloseForBrowser(tab) EXCEPT !.online = FALSE, !.healthy = FALSE, !.status = "offline"])
    /\ UNCHANGED oversized

GoOnline ==
    /\ tab.page # "disposed" /\ ~tab.online
    /\ \E ok \in BOOLEAN : Step(Connect([tab EXCEPT !.online = TRUE, !.healthy = FALSE], ok))
    /\ UNCHANGED oversized

PageHide ==
    /\ tab.page = "shown"
    /\ Step([CloseForBrowser(tab) EXCEPT !.page = "gone", !.healthy = FALSE, !.status = "idle"])
    /\ UNCHANGED oversized

\* A pageshow from the back-forward cache.
PageShow ==
    /\ tab.page = "gone"
    /\ \E ok \in BOOLEAN : Step(Connect([tab EXCEPT !.page = "shown"], ok))
    /\ UNCHANGED oversized

\* The Retry control: a live page loads its data again, a page without a
\* connection connects, but not before the deadline of a deferred retry.
Retry ==
    /\ tab.page # "disposed" /\ Visible(tab) /\ ~tab.terminal
    /\ \E ok \in BOOLEAN :
         CASE Active(tab) -> Step([tab EXCEPT !.healthy = FALSE]) /\ UNCHANGED oversized
           [] ~Active(tab) /\ tab.manual ->
                /\ Step(OpenSocket([tab EXCEPT !.manual = FALSE, !.payloadRetry = TRUE], ok))
                /\ oversized' = 0
           [] OTHER -> Step(Connect(tab, ok)) /\ UNCHANGED oversized

Dispose ==
    /\ tab.page # "disposed"
    /\ tab' = [RetireSocket(StopConnectionWork(tab)) EXCEPT
                 !.page = "disposed", !.status = "terminal", !.healthy = FALSE]
    /\ UNCHANGED oversized

Live(s) ==
    [s EXCEPT !.hello = TRUE, !.helloTimer = FALSE, !.status = "live",
              !.hiddenClosed = FALSE, !.heard = ~s.hidden, !.measuring = ~s.hidden]

ReceiveHello ==
    /\ tab.conn # 0 /\ ~tab.hello /\ ~tab.dead
    /\ Step(Live(tab))
    /\ UNCHANGED oversized

\* The socket closes, or the runtime gives it up: an invalid hello or a wrong
\* session (1006), an unsupported protocol version (4002).
Close(code) ==
    /\ tab.conn # 0
    /\ \E ok \in BOOLEAN : Step(Disconnected(tab, code, ok))
    /\ oversized' = IF code = 4009 /\ oversized < 2 THEN oversized + 1 ELSE oversized

\* Half open: the network forgets the connection and tells nobody.
LinkDies ==
    /\ tab.conn # 0 /\ ~tab.dead /\ tab.epoch < MaxEpoch
    /\ Step([tab EXCEPT !.dead = TRUE])
    /\ UNCHANGED oversized

\* The hello timer after it fired.
HelloOverdue(s, ok) == Disconnected(s, 1006, ok)

\* No hello in 10 s.
HelloTimeout ==
    /\ tab.helloTimer
    /\ \E ok \in BOOLEAN : Step(HelloOverdue(tab, ok))
    /\ UNCHANGED oversized

ReconnectFires ==
    /\ tab.reconnect # 0
    /\ \E ok \in BOOLEAN :
         LET fired == [tab EXCEPT !.reconnect = 0]
         IN  Step(IF tab.reconnect = tab.epoch THEN Connect(fired, ok) ELSE fired)
    /\ UNCHANGED oversized

\* The clock reaches the deadline of a deferred retry.
DeadlinePasses ==
    /\ tab.pending = "waiting"
    /\ tab' = [tab EXCEPT !.pending = "due"]
    /\ UNCHANGED oversized

\* The health interval finds 10 s of silence.
Silence ==
    /\ tab.measuring /\ tab.heard
    /\ \E ok \in BOOLEAN : Step(Disconnected(tab, 1006, ok))
    /\ UNCHANGED oversized

\* The publish of a page with a hello, after a message, an answer or a timer.
\* eligible: everything it shows is loaded and live; elapsed: it has been so for 30 s.
Publish(message, eligible, elapsed) ==
    /\ tab.hello /\ ~tab.hidden
    /\ message => ~tab.dead
    /\ elapsed => eligible /\ tab.healthy
    /\ Step([tab EXCEPT !.heard = @ \/ message,
                        !.healthy = eligible /\ ~elapsed, !.payloadRetry = @ \/ elapsed])
    /\ oversized' = IF elapsed THEN 0 ELSE oversized

Next ==
    \/ Hide \/ Unhide \/ GoOffline \/ GoOnline \/ PageHide \/ PageShow \/ Retry \/ Dispose
    \/ ReceiveHello \/ LinkDies \/ HelloTimeout \/ ReconnectFires \/ DeadlinePasses
    \/ Silence
    \/ \E code \in Codes : Close(code)
    \/ \E message, eligible, elapsed \in BOOLEAN : Publish(message, eligible, elapsed)

Spec == Init /\ [][Next]_vars

-----------------------------------------------------------------------------

\* Every variable has its type, and socket and timer belong to the current epoch.
TypeOK ==
    /\ tab \in Tabs /\ oversized \in 0 .. 2
    /\ tab.epoch <= MaxEpoch
    /\ tab.conn \in {0, tab.epoch} /\ tab.reconnect \in {0, tab.epoch}

\* lifecycle.ts and the runtime keep the connection twice and must agree: a
\* connection exists only where the lifecycle would open one, without any retry
\* left over, and "live" is said exactly with a hello.
OwnersAgree ==
    /\ tab.conn # 0 =>
         /\ tab.online /\ ~tab.terminal /\ ~tab.manual
         /\ tab.pending = "none" /\ ~tab.hiddenClosed /\ tab.reconnect = 0
         /\ tab.status = IF tab.hello THEN "live" ELSE "connecting"
    /\ tab.conn = 0 => ~tab.hello /\ tab.status \notin {"live", "connecting"}

\* The page is one that should be connected.
Wanted == CanOpen(tab) /\ tab.page = "shown"

\* Whatever happened while hidden, offline or in the back-forward cache, a page
\* that should be connected has a connection or a timer that will make one.
NeverStranded == Wanted => tab.conn # 0 \/ tab.reconnect # 0

\* A connection has the timers that notice when it fails exactly while the page
\* is visible: the hello timer before the hello, the intervals after it.
TimersFit ==
    /\ tab.helloTimer <=> tab.conn # 0 /\ ~tab.hello /\ ~tab.hidden
    /\ tab.measuring <=> tab.conn # 0 /\ tab.hello /\ ~tab.hidden

\* After a second 4009 without 30 s of health in between the page does not
\* connect again by itself.
OneAutomaticRetry == oversized = 2 => tab.conn = 0 /\ tab.reconnect = 0

\* A socket is opened only by a visible, online page that is not told to reload,
\* and neither a timer nor the user opens one before the deadline of a deferred
\* retry.
OpensWhenAllowed ==
    [][tab'.epoch # tab.epoch =>
         /\ ~tab'.hidden /\ tab'.online /\ ~tab'.terminal /\ ~tab'.manual
         /\ tab.pending # "waiting"]_vars

\* The link died while the page was hidden, and nothing has been heard since.
Unnoticed == tab.dead /\ tab.hello /\ ~tab.heard

=============================================================================
