----------------------------- MODULE Connections -----------------------------
(***************************************************************************)
(* Connections of the server against its shutdown (backend/internal/       *)
(* transport/websocket.go, Server.Close in http.go, App.Close in           *)
(* cmd/server/app.go).                                                     *)
(*                                                                         *)
(* Each connection is three goroutines: the handler, which runs the        *)
(* connection owner, the reader of controls and the protocol pings.  They  *)
(* share a socket and a context.  Shutdown adds a goroutine per connection *)
(* that runs the closer registered for it.                                 *)
(*                                                                         *)
(* The WebSocket library: whoever closes an open socket first decides what *)
(* the peer is told; a read under a context that is done tears the socket  *)
(* down without a word; reads, writes and pings of a closed socket fail.   *)
(***************************************************************************)
EXTENDS Naturals, FiniteSets

CONSTANTS
    Handler,            \* requests to /ws
    MaxConnections,     \* options.MaxConnections
    ControlsSize        \* capacity of the controls channel

ASSUME ConnectionsAssumption ==
    /\ IsFiniteSet(Handler)
    /\ {MaxConnections, ControlsSize} \subseteq Nat \ {0}

VARIABLES
    shutdown,   \* Server.Close and App.Close: "no", "stopping", "closing", "returned", "gaveUp"
    marketUp,   \* the market owner runs
    todo,       \* [Handler -> closer collected by Server.Close and not yet run, or NoCloser]
    pc,         \* [Handler -> where its handler is]
    closers,    \* connections: [Handler -> registered closer, or NoCloser]
    result,     \* [Handler -> code of CloseResult]
    reader,     \* [Handler -> "none", "reading", "done"]
    pinger,     \* [Handler -> "none", "waiting", "done"]
    controls,   \* [Handler -> controls in its channel]
    done,       \* [Handler -> its context is done]
    socket,     \* [Handler -> "none", "open", or what the peer was told at the end]
    fault       \* ghost: [Handler -> it had a reason of its own to end]

conn == <<pc, closers, result, reader, pinger, controls, done, socket, fault>>
connVars == <<shutdown, marketUp, todo, conn>>

NoCloser == "none"
Cancel == "cancel"                  \* the closer before the upgrade
GoingAway == "goingAway"            \* 1001, and the closer that sends it
Normal == "normal"                  \* 1000
Own == "own"                        \* 4001, 4003, 4008, 4009
Abnormal == "abnormal"              \* 1006: nothing is sent
Overflow == "overflow"              \* 4008 of the reader
Codes == {GoingAway, Normal, Own, Abnormal, Overflow}

ConnInit ==
    /\ shutdown = "no" /\ marketUp = TRUE
    /\ todo = [h \in Handler |-> NoCloser] /\ closers = [h \in Handler |-> NoCloser]
    /\ pc = [h \in Handler |-> "idle"] /\ result = [h \in Handler |-> Normal]
    /\ reader = [h \in Handler |-> "none"] /\ pinger = [h \in Handler |-> "none"]
    /\ controls = [h \in Handler |-> 0]
    /\ done = [h \in Handler |-> FALSE] /\ fault = [h \in Handler |-> FALSE]
    /\ socket = [h \in Handler |-> "none"]

stopping == shutdown # "no"

Registered == {h \in Handler : closers[h] # NoCloser}

\* conn.Close(code, ...), conn.CloseNow() when code is Abnormal.
SocketEnds(h, code) ==
    socket' = [socket EXCEPT ![h] = IF @ = "open" THEN code ELSE @]

At(h, from, to) == pc[h] = from /\ pc' = [pc EXCEPT ![h] = to]

-----------------------------------------------------------------------------
(* serveWebSocket *)

\* Stopping, readiness, admission.
Checks(h) ==
    /\ \/ ~stopping /\ marketUp /\ At(h, "idle", "checked")
       \/ At(h, "idle", "refused")
    /\ UNCHANGED <<shutdown, marketUp, todo, closers, result, reader, pinger, controls, done, socket, fault>>

\* Mutant: the limit is off by one.
OneMore == Cardinality(Registered) <= MaxConnections

\* Under the lock that Server.Close takes too.
MayRegister == ~stopping /\ Cardinality(Registered) < MaxConnections

Registers(h) ==
    /\ IF MayRegister
       THEN At(h, "checked", "registered") /\ closers' = [closers EXCEPT ![h] = Cancel]
       ELSE At(h, "checked", "refused") /\ UNCHANGED closers
    /\ UNCHANGED <<shutdown, marketUp, todo, result, reader, pinger, controls, done, socket, fault>>

\* Mutant: the failed upgrade returns before the slot is given back.
KeepsItsSlot == "refused"

AfterFailedUpgrade == "leaving"

UpgradeFails(h) ==
    /\ At(h, "registered", AfterFailedUpgrade)
    /\ UNCHANGED <<shutdown, marketUp, todo, closers, result, reader, pinger, controls, done, socket, fault>>

Upgrades(h) ==
    /\ At(h, "registered", "upgraded")
    /\ socket' = [socket EXCEPT ![h] = "open"]
    /\ UNCHANGED <<shutdown, marketUp, todo, closers, result, reader, pinger, controls, done, fault>>

\* Mutant: the new closer is registered without a look at stopping.
NeverStopped == FALSE

StoppedMeanwhile == stopping

\* The closer learns to say goodbye; reader and pings start.
Starts(h) ==
    /\ closers' = [closers EXCEPT ![h] = GoingAway]
    /\ IF StoppedMeanwhile
       THEN At(h, "upgraded", "turnedAway") /\ UNCHANGED <<reader, pinger>>
       ELSE /\ At(h, "upgraded", "running")
            /\ reader' = [reader EXCEPT ![h] = "reading"]
            /\ pinger' = [pinger EXCEPT ![h] = "waiting"]
    /\ UNCHANGED <<shutdown, marketUp, todo, result, controls, done, socket, fault>>

TurnsAway(h) ==
    /\ At(h, "turnedAway", "leaving")
    /\ SocketEnds(h, GoingAway)
    /\ UNCHANGED <<shutdown, marketUp, todo, closers, result, reader, pinger, controls, done, fault>>

\* The owner handles a control of its channel.
Handles(h) ==
    /\ pc[h] = "running" /\ controls[h] > 0
    /\ controls' = [controls EXCEPT ![h] = @ - 1]
    /\ UNCHANGED <<shutdown, marketUp, todo, pc, closers, result, reader, pinger, done, socket, fault>>

RunReturns(h, code) ==
    /\ At(h, "running", "ended")
    /\ result' = [result EXCEPT ![h] = code]
    /\ UNCHANGED <<shutdown, marketUp, todo, closers, reader, pinger, controls, done>>

\* Run returns: its context is done.
RunCancelled(h) == done[h] /\ RunReturns(h, Normal) /\ UNCHANGED <<socket, fault>>

\* A write fails (the heartbeat at the latest); a write under a context that is
\* done tears the socket down as well.
WriteFails(h) ==
    /\ socket[h] # "open" \/ done[h]
    /\ RunReturns(h, Abnormal) /\ SocketEnds(h, Abnormal) /\ UNCHANGED fault

\* Run returns for a reason of its own (hidden, disconnect, too large), or a
\* write to a slow peer times out and takes the socket with it.
RunEnds(h) ==
    /\ fault' = [fault EXCEPT ![h] = TRUE]
    /\ \/ RunReturns(h, Own) /\ UNCHANGED socket
       \/ RunReturns(h, Abnormal) /\ SocketEnds(h, Abnormal)

\* A server that stops says so, whatever the owner's reason was.
Judges(h) ==
    /\ At(h, "ended", "closing")
    /\ result' = [result EXCEPT ![h] = IF stopping THEN GoingAway ELSE @]
    /\ UNCHANGED <<shutdown, marketUp, todo, closers, reader, pinger, controls, done, socket, fault>>

ClosesSocket(h) ==
    /\ At(h, "closing", "cancelling")
    /\ SocketEnds(h, result[h])
    /\ UNCHANGED <<shutdown, marketUp, todo, closers, result, reader, pinger, controls, done, fault>>

Cancels(h) ==
    /\ At(h, "cancelling", "joining")
    /\ done' = [done EXCEPT ![h] = TRUE]
    /\ UNCHANGED <<shutdown, marketUp, todo, closers, result, reader, pinger, controls, socket, fault>>

\* Mutant: the handler does not wait for the pings.
ReaderOnly(h) == reader[h] = "done"

GoroutinesDone(h) == reader[h] = "done" /\ pinger[h] = "done"

Joins(h) ==
    /\ GoroutinesDone(h) /\ At(h, "joining", "leaving")
    /\ UNCHANGED <<shutdown, marketUp, todo, closers, result, reader, pinger, controls, done, socket, fault>>

\* The deferred calls: CloseNow, the slot and the wait group, cancel.
Leaves(h) ==
    /\ At(h, "leaving", "gone")
    /\ SocketEnds(h, Abnormal)
    /\ closers' = [closers EXCEPT ![h] = NoCloser]
    /\ done' = [done EXCEPT ![h] = TRUE]
    /\ UNCHANGED <<shutdown, marketUp, todo, result, reader, pinger, controls, fault>>

-----------------------------------------------------------------------------
(* readControls and pingPeer *)

ControlFits(h) == controls[h] < ControlsSize

\* A control is read and passed on; reading needs a context that is not done.
Reads(h) ==
    /\ reader[h] = "reading" /\ socket[h] = "open" /\ ~done[h]
    /\ ControlFits(h) /\ controls' = [controls EXCEPT ![h] = @ + 1]
    /\ UNCHANGED <<shutdown, marketUp, todo, pc, closers, result, reader, pinger, done, socket, fault>>

ReaderDone(h) ==
    /\ reader[h] = "reading" /\ reader' = [reader EXCEPT ![h] = "done"]
    /\ done' = [done EXCEPT ![h] = TRUE]
    /\ UNCHANGED <<shutdown, marketUp, todo, pc, closers, result, pinger, controls>>

\* The peer sends faster than its tokens allow, or than the owner handles.
ReaderOverflows(h) ==
    /\ socket[h] = "open" /\ ReaderDone(h)
    /\ SocketEnds(h, Overflow)
    /\ fault' = [fault EXCEPT ![h] = TRUE]

\* The read fails: the socket is closed or the context is done.
ReadFails(h) ==
    /\ socket[h] # "open" \/ done[h]
    /\ ReaderDone(h) /\ SocketEnds(h, Abnormal) /\ UNCHANGED fault

\* The read fails as the peer closed, vanished or sent too much.
PeerLeaves(h) ==
    /\ socket[h] = "open"
    /\ ReaderDone(h) /\ SocketEnds(h, Abnormal)
    /\ fault' = [fault EXCEPT ![h] = TRUE]

PingerDone(h) ==
    /\ pinger[h] = "waiting" /\ pinger' = [pinger EXCEPT ![h] = "done"]
    /\ UNCHANGED <<shutdown, marketUp, todo, pc, closers, result, reader, controls>>

PingerStops(h) == done[h] /\ PingerDone(h) /\ UNCHANGED <<done, socket, fault>>

\* A ping fails on a closed socket or, if the peer is silent, after a while.
PingFails(h) ==
    /\ PingerDone(h)
    /\ done' = [done EXCEPT ![h] = TRUE]
    /\ SocketEnds(h, Abnormal)
    /\ IF socket[h] = "open" /\ ~done[h]
       THEN fault' = [fault EXCEPT ![h] = TRUE]
       ELSE UNCHANGED fault

-----------------------------------------------------------------------------
(* Server.Close and App.Close *)

Stops ==
    /\ shutdown = "no" /\ shutdown' = "stopping"
    /\ UNCHANGED <<marketUp, todo, conn>>

Collects ==
    /\ shutdown = "stopping" /\ shutdown' = "closing"
    /\ todo' = closers
    /\ UNCHANGED <<marketUp, conn>>

\* The first half of the closer of a running connection.
SaysGoodbye(h) ==
    /\ todo[h] = GoingAway /\ todo' = [todo EXCEPT ![h] = Cancel]
    /\ SocketEnds(h, GoingAway) /\ UNCHANGED done

CloserCloses(h) ==
    /\ SaysGoodbye(h)
    /\ UNCHANGED <<shutdown, marketUp, pc, closers, result, reader, pinger, controls, fault>>

CloserCancels(h) ==
    /\ todo[h] = Cancel /\ todo' = [todo EXCEPT ![h] = NoCloser]
    /\ done' = [done EXCEPT ![h] = TRUE]
    /\ UNCHANGED <<shutdown, marketUp, pc, closers, result, reader, pinger, controls, socket, fault>>

\* The wait group counts the registered handlers.
ServerCloseReturns ==
    /\ shutdown = "closing" /\ Registered = {} /\ shutdown' = "returned"
    /\ UNCHANGED <<marketUp, todo, conn>>

\* The ten seconds of App.Close pass.
CloseGivesUp ==
    /\ shutdown = "closing" /\ Registered # {} /\ shutdown' = "gaveUp"
    /\ UNCHANGED <<marketUp, todo, conn>>

\* App.Close closes the server first.
MayStopMarket == shutdown \in {"returned", "gaveUp"}

MarketStops ==
    /\ MayStopMarket /\ marketUp /\ marketUp' = FALSE
    /\ UNCHANGED <<shutdown, todo, conn>>

-----------------------------------------------------------------------------

HandlerStep(h) ==
    \/ Registers(h) \/ Starts(h) \/ TurnsAway(h) \/ Judges(h) \/ ClosesSocket(h)
    \/ Cancels(h) \/ Joins(h) \/ Leaves(h) \/ RunCancelled(h) \/ WriteFails(h)
UpgradeStep(h) == Upgrades(h) \/ UpgradeFails(h)
ReaderStep(h) == ReadFails(h)
PingerStep(h) == PingerStops(h)
CloserStep(h) == CloserCloses(h) \/ CloserCancels(h)

ConnNext ==
    \/ \E h \in Handler :
          \/ Checks(h) \/ HandlerStep(h) \/ UpgradeStep(h) \/ Handles(h) \/ RunEnds(h)
          \/ Reads(h) \/ ReaderStep(h) \/ ReaderOverflows(h) \/ PeerLeaves(h)
          \/ PingerStep(h) \/ PingFails(h) \/ CloserStep(h)
    \/ Stops \/ Collects \/ ServerCloseReturns \/ CloseGivesUp \/ MarketStops

\* Every goroutine runs on: an upgrade succeeds or fails, reads and writes have
\* an end once socket or context have.  No peer, deadline or signal is assumed.
ConnSpec == /\ ConnInit /\ [][ConnNext]_connVars
            /\ \A h \in Handler : /\ WF_connVars(HandlerStep(h)) /\ WF_connVars(UpgradeStep(h))
                                  /\ WF_connVars(ReaderStep(h)) /\ WF_connVars(PingerStep(h))
                                  /\ WF_connVars(CloserStep(h))
            /\ WF_connVars(Collects)

-----------------------------------------------------------------------------

\* Handlers that hold a slot, and those with an owner, reader or pings at work.
Slotted == {"registered", "upgraded", "turnedAway", "running", "ended", "closing",
            "cancelling", "joining", "leaving"}

\* Every variable has its type; the channel of controls its bound.
ConnTypeOK ==
    /\ shutdown \in {"no", "stopping", "closing", "returned", "gaveUp"}
    /\ marketUp \in BOOLEAN
    /\ todo \in [Handler -> {NoCloser, Cancel, GoingAway}]
    /\ pc \in [Handler -> {"idle", "checked", "refused", "gone"} \cup Slotted]
    /\ closers \in [Handler -> {NoCloser, Cancel, GoingAway}]
    /\ result \in [Handler -> Codes]
    /\ reader \in [Handler -> {"none", "reading", "done"}]
    /\ pinger \in [Handler -> {"none", "waiting", "done"}]
    /\ controls \in [Handler -> 0 .. ControlsSize]
    /\ done \in [Handler -> BOOLEAN] /\ fault \in [Handler -> BOOLEAN]
    /\ socket \in [Handler -> {"none", "open"} \cup Codes]

\* The limit holds although it is examined before the upgrade, and a closer is
\* registered exactly for the handlers that hold a slot (serveWebSocket).
SlotsAgree ==
    /\ Cardinality(Registered) <= MaxConnections
    /\ \A h \in Handler : closers[h] # NoCloser <=> pc[h] \in Slotted

\* No handler joins the wait group once Server.Close waits for it: what was
\* collected is all there will ever be.
NoLateRegistration == [][shutdown \notin {"no", "stopping"} => Registered' \subseteq Registered]_connVars

\* When Server.Close returns without an error nothing of a connection is left:
\* no open socket, no reader, no pings.
NothingLeft ==
    shutdown = "returned" =>
        \A h \in Handler :
            /\ socket[h] # "open" /\ reader[h] # "reading" /\ pinger[h] # "waiting"
            /\ pc[h] \notin Slotted

\* docs/protocol.md: shutdown closes with 1001.  A connection without a fault of
\* its own is told so, however far its upgrade was when the server stopped.
ShutdownIsTold ==
    \A h \in Handler : ~fault[h] => socket[h] \in {"none", "open", GoingAway}

\* The market runs as long as connections read from it, unless the deadline of
\* the shutdown passes (App.Close).
MarketOutlivesConnections == ~marketUp /\ shutdown # "gaveUp" => Registered = {}

\* A slot is given back after the socket or the context has ended, for whatever
\* reason, and when the server stops: App.Close need not wait for its deadline.
SlotsAreFreed ==
    \A h \in Handler :
        (h \in Registered /\ (stopping \/ done[h] \/ socket[h] \in Codes)) ~> h \notin Registered
=============================================================================
