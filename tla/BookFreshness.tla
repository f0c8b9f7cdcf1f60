---------------------------- MODULE BookFreshness ---------------------------
(***************************************************************************)
(* BookDelivery with the freshness monitor's book panel                    *)
(* (web/src/engines/freshness.ts): heartbeats advertise the published      *)
(* sequence number, applied books report the local one, and a book that    *)
(* stays behind is resynchronised once until it moves again.  The hidden   *)
(* tab suspends all of it.                                                 *)
(*                                                                         *)
(* The stall threshold max(5s, 3 * flushMs) is left out: once stalledSince *)
(* is set the health tick may find it passed at any time.                  *)
(***************************************************************************)
EXTENDS BookDelivery

VARIABLES
    panel,      \* the book's PanelEvidenceState; None where the code has null
    hidden      \* the browser tab is hidden

fvars == <<vars, panel, hidden>>

NewPanel == [local |-> None, advertised |-> None, stalled |-> FALSE, resynced |-> FALSE]

\* panelApplied: progress re-arms the resync and restarts the stall timer.
PanelApplied(p, head) ==
    IF p.local # None /\ head <= p.local THEN p
    ELSE [p EXCEPT !.local = head, !.resynced = FALSE,
                   !.stalled = head < p.advertised]

\* Mutant: an advertised head never starts the stall timer.
AdvertiseOnly(p, head) == [p EXCEPT !.advertised = head]

\* recordAdvertisedHead: falling behind starts the stall timer, catching up
\* clears it.
RecordAdvertisedHead(p, head) ==
    LET q == [p EXCEPT !.advertised = head]
        wasAhead == p.local # None /\ p.advertised > p.local
    IN  IF p.local = None THEN q
        ELSE IF head <= p.local THEN [q EXCEPT !.stalled = FALSE, !.resynced = FALSE]
        ELSE IF ~wasAhead \/ ~p.stalled
             THEN [q EXCEPT !.stalled = TRUE, !.resynced = FALSE]
        ELSE q

\* findStalledPanel
IsStalled(p) == /\ p.local # None
                /\ p.advertised > p.local
                /\ p.stalled
                /\ ~p.resynced

\* reportApplied: evidence is ignored while hidden.
ReportApplied(b) ==
    IF b.status = "synced" /\ ~hidden THEN PanelApplied(panel, b.expectedSeq - 1)
    ELSE panel

FInit == Init /\ panel = NewPanel /\ hidden = FALSE

-----------------------------------------------------------------------------

\* The lifecycle opens no socket while hidden; a new socket resets the monitor.
FConnect == /\ ~hidden
            /\ Connect
            /\ panel' = NewPanel
            /\ UNCHANGED hidden

FReceiveUpdate == /\ ReceiveUpdate
                  /\ panel' = ReportApplied(sync')
                  /\ UNCHANGED hidden

FSnapshotArrives == /\ SnapshotArrives
                    /\ panel' = ReportApplied(sync')
                    /\ UNCHANGED hidden

FReceiveHeartbeat ==
    /\ ReceiveHeartbeat
    /\ panel' = IF hidden THEN panel ELSE RecordAdvertisedHead(panel, Incoming.seq)
    /\ UNCHANGED hidden

\* An update without a book range, or an accepted candle history, reports the
\* applied heads too.
OtherUpdate ==
    /\ sock = "live"
    /\ panel' = ReportApplied(sync)
    /\ UNCHANGED <<vars, hidden>>

\* The one-second health tick of a visible live connection.
HealthTick ==
    /\ ~hidden
    /\ IsStalled(panel)
    /\ Resync
    /\ panel' = [panel EXCEPT !.resynced = TRUE]
    /\ UNCHANGED hidden

Hide ==
    /\ ~hidden
    /\ EnvMove
    /\ hidden' = TRUE
    /\ UNCHANGED <<session, log, pub, conn, wire, sock, sync, fetch, manual, panel>>

\* Mutant: the evidence from before the tab was hidden is kept.
UnhideKeeping == hidden /\ hidden' = FALSE /\ UNCHANGED <<vars, panel>>

\* visibilityChanged(false) drops the evidence from before.
Unhide ==
    /\ hidden
    /\ hidden' = FALSE
    /\ panel' = NewPanel
    /\ UNCHANGED vars

\* Everything the monitor does not see.
Unobserved ==
    /\ \/ Mutation \/ Publish \/ Restart
       \/ FlushReset \/ FlushRange \/ Heartbeat \/ DropNext \/ ServerClose
       \/ Capture \/ CaptureFails
       \/ ServerClosed \/ ClientClose
       \/ ReceiveHello \/ ReceiveReset
    /\ UNCHANGED <<panel, hidden>>

\* runtime.retry is refused while hidden.
FRetry == /\ ~hidden
          /\ RetryLive \/ RetryDown
          /\ UNCHANGED <<panel, hidden>>

FNext ==
    \/ Unobserved
    \/ FConnect
    \/ FReceiveUpdate
    \/ FSnapshotArrives
    \/ FReceiveHeartbeat
    \/ OtherUpdate
    \/ HealthTick
    \/ Hide
    \/ Unhide
    \/ FRetry

(***************************************************************************)
(* Fairness: the owner's clock, the connection's 25 ms ticker, the browser *)
(* event loop, the capture queue and the reconnect timer all keep running. *)
(* Level changes, faults, the user and the tab's visibility are not fair.  *)
(***************************************************************************)
Quiet(A) == A /\ UNCHANGED <<panel, hidden>>

Fairness ==
    /\ WF_fvars(Quiet(FlushReset)) /\ WF_fvars(Quiet(FlushRange))
    /\ WF_fvars(Quiet(Heartbeat))
    /\ WF_fvars(Quiet(Capture)) /\ WF_fvars(FSnapshotArrives)
    /\ WF_fvars(Quiet(ServerClosed)) /\ WF_fvars(FConnect)
    /\ WF_fvars(Quiet(ReceiveHello)) /\ WF_fvars(Quiet(ReceiveReset))
    /\ WF_fvars(FReceiveUpdate) /\ WF_fvars(FReceiveHeartbeat)
    /\ WF_fvars(OtherUpdate) /\ WF_fvars(HealthTick)

FSpec == FInit /\ [][FNext]_fvars /\ Fairness

-----------------------------------------------------------------------------

\* The book on show is the current publication of the running session.
Current == /\ sync.status = "synced"
           /\ sync.session = session
           /\ sync.expectedSeq = Published + 1

\* Once market, faults and user rest, a visible book becomes current and stays
\* so, or the panel asks for a manual retry: a lost delta, even the last one,
\* cannot hide behind heartbeats.
Converges == <>[](hidden \/ Published = 0 \/ sync.status = "failed" \/ Current)

\* The monitor resynchronises only a book that really is behind what the server
\* has published: a resync is never spent on a current book.
ResyncOnlyBehind ==
    [][HealthTick => (sync.session # session \/ sync.expectedSeq <= Published)]_fvars

-----------------------------------------------------------------------------
(***************************************************************************)
(* Why: a heartbeat advertises what its server had published, and while    *)
(* the tab is visible the panel has heard of every book the engine shows.  *)
(***************************************************************************)

PanelState == [local : Nat, advertised : Nat, stalled : BOOLEAN, resynced : BOOLEAN]

HeartbeatsAreTrue ==
    \A i \in DOMAIN wire :
        wire[i].kind = "heartbeat" => wire[i].seq <= pub[wire[i].session]

AdvertisedIsPublished == sock # "closed" => panel.advertised <= pub[ConnSession]

LocalIsShown ==
    (~hidden /\ panel.local # None /\ sync.expectedSeq # None)
        => sync.expectedSeq - 1 <= panel.local

PanelInv == /\ panel \in PanelState /\ hidden \in BOOLEAN
            /\ HeartbeatsAreTrue /\ AdvertisedIsPublished /\ LocalIsShown

=============================================================================
