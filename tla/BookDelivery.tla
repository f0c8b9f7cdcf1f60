---------------------------- MODULE BookDelivery ----------------------------
(***************************************************************************)
(* The order book from the matching engine to the screen: the market       *)
(* owner's publications, one connection's delivery cursor, the socket, the *)
(* REST snapshot that races with it, and the browser's BookSync driven by  *)
(* the runtime.                                                            *)
(*                                                                         *)
(*   Mutate, Publish, Restart       backend/internal/market (one process)  *)
(*   Flush, Heartbeat, DropNext,    backend/internal/delivery (Connection  *)
(*     ServerClose                    and Session)                         *)
(*   Capture, CaptureFails          GET /api/book                          *)
(*   Connect, Receive..., Snapshot  web/src/runtime/create-market-runtime  *)
(*     Arrives, Resync, Retry...      and web/src/engines/book-sync        *)
(*                                                                         *)
(* Faults and the user are the environment; `env` counts down the moves it *)
(* has left.  Time is left out: a timer may fire whenever it is armed.     *)
(***************************************************************************)
EXTENDS BookSync

CONSTANTS
    MaxSession,     \* bound: runs of the server process
    MaxSeq,         \* bound: level changes of one session
    MaxWire,        \* bound: frames in flight
    MaxEnv,         \* bound: environment moves
    MaxGeneration   \* bound: snapshot generations that Resync may start

ASSUME DeliveryAssumption ==
    {MaxSession, MaxSeq, MaxWire, MaxEnv, MaxGeneration} \subseteq Nat \ {0}

VARIABLES
    session,    \* the session of the running server process
    log,        \* [Session -> level changes], those of dead sessions kept
    pub,        \* [Session -> seq of the current publication], 0 before the first
    conn,       \* the server's end of the newest connection
    wire,       \* frames written and not yet received
    sock,       \* the browser's end: "closed", "opening" (no hello yet), "live"
    sync,       \* the BookSync engine
    fetch,      \* the one book request the runtime has in flight
    manual,     \* manualBootstrap: the next hello starts a fresh episode
    env         \* environment moves left

vars == <<session, log, pub, conn, wire, sock, sync, fetch, manual, env>>

Session == 1 .. MaxSession
Seq0 == 0 .. MaxSeq

Snapshot == [session : Session, seq : Seq0, book : Book]
NoSnapshot == [session |-> 1, seq |-> 0, book |-> EmptyBook]

NoFetch == [st |-> "none", gen |-> 0, snap |-> NoSnapshot]
Fetch(gen) == [st |-> "pending", gen |-> gen, snap |-> NoSnapshot]

NoRange == [from |-> 0, to |-> 0, lots |-> <<>>]
Frame(kind, seq, range) ==
    [kind |-> kind, session |-> session, seq |-> seq, range |-> range]

\* sent is Cursors.BookSeq, drop is dropNextBook; dropped remembers, for the
\* properties, that this connection lost a range to the debug control.
NewConn == [open |-> TRUE, sent |-> 0, drop |-> FALSE, dropped |-> FALSE]

Published == pub[session]
EnvMove == env > 0 /\ env' = env - 1

Init ==
    /\ session = 1
    /\ log = [s \in Session |-> <<>>]
    /\ pub = [s \in Session |-> 0]
    /\ conn = [NewConn EXCEPT !.open = FALSE]
    /\ wire = <<>>
    /\ sock = "closed"
    /\ sync = NewBookSync
    /\ fetch = NoFetch
    /\ manual = FALSE
    /\ env = MaxEnv

-----------------------------------------------------------------------------
(* The market owner. *)

\* One level change of a command, its matches or the maintenance after it; the
\* current publication is not touched.
MutateLevel(l, q) ==
    /\ Len(log[session]) < MaxSeq
    /\ q # BookAt(log[session], Len(log[session]))[l]
    /\ log' = [log EXCEPT ![session] = Mutate(@, l, q)]
    /\ UNCHANGED <<session, pub, conn, wire, sock, sync, fetch, manual, env>>

\* The due events are applied; their book becomes the publication.
Publish ==
    LET n == Len(log[session])
    IN  /\ n > Published
        /\ BookAt(log[session], n) \in ValidBooks
        /\ log' = [log EXCEPT ![session][n].published = TRUE]
        /\ pub' = [pub EXCEPT ![session] = n]
        /\ UNCHANGED <<session, conn, wire, sock, sync, fetch, manual, env>>

\* The process dies and a new one, with a new session, warms up.
Restart ==
    /\ session < MaxSession
    /\ EnvMove
    /\ session' = session + 1
    /\ conn' = [conn EXCEPT !.open = FALSE]
    /\ UNCHANGED <<log, pub, wire, sock, sync, fetch, manual>>

-----------------------------------------------------------------------------
(* The connection. *)

CanWrite == conn.open /\ Len(wire) < MaxWire

\* PrepareFlush and Commit when the range is no longer retained: book_reset is
\* written and the cursor jumps to the publication.
FlushReset ==
    /\ CanWrite
    /\ Published > conn.sent
    /\ CursorExpired(Published, conn.sent)
    /\ wire' = Append(wire, Frame("book_reset", 0, NoRange))
    /\ conn' = [conn EXCEPT !.sent = Published]
    /\ UNCHANGED <<session, log, pub, sock, sync, fetch, manual, env>>

\* PrepareFlush and Commit of a retained range.  With dropNextBook the sink
\* leaves the range out and reports success: the cursor advances all the same.
FlushRange ==
    /\ CanWrite
    /\ Published > conn.sent
    /\ ~CursorExpired(Published, conn.sent)
    /\ LET r == BuildBookRange(log[session], Published, conn.sent)
       IN  /\ wire' = IF conn.drop THEN wire
                      ELSE Append(wire, Frame("update", 0, r))
           /\ conn' = [conn EXCEPT !.sent = r.to, !.drop = FALSE,
                                   !.dropped = @ \/ conn.drop]
    /\ UNCHANGED <<session, log, pub, sock, sync, fetch, manual, env>>

\* writeHeartbeat advertises the published sequence number.  Bound: one
\* heartbeat in flight.
Heartbeat ==
    /\ CanWrite
    /\ \A i \in 1 .. Len(wire) : wire[i].kind # "heartbeat"
    /\ wire' = Append(wire, Frame("heartbeat", Published, NoRange))
    /\ UNCHANGED <<session, log, pub, conn, sock, sync, fetch, manual, env>>

\* The viewer's debug control dropNextBookDelta.
DropNext ==
    /\ conn.open
    /\ sock = "live"
    /\ EnvMove
    /\ conn' = [conn EXCEPT !.drop = TRUE]
    /\ UNCHANGED <<session, log, pub, wire, sock, sync, fetch, manual>>

\* A failed write, a failed liveness probe, a limit, the hidden timeout: the
\* connection owner returns.  Frames already written may still arrive.
ServerClose ==
    /\ conn.open
    /\ EnvMove
    /\ conn' = [conn EXCEPT !.open = FALSE]
    /\ UNCHANGED <<session, log, pub, wire, sock, sync, fetch, manual>>

-----------------------------------------------------------------------------
(* GET /api/book. *)

\* The owner copies the current publication for a pending request.
Capture ==
    /\ fetch.st = "pending"
    /\ Published > 0
    /\ fetch' = [fetch EXCEPT !.st = "answered",
                   !.snap = [session |-> session, seq |-> Published,
                             book |-> BookAt(log[session], Published)]]
    /\ UNCHANGED <<session, log, pub, conn, wire, sock, sync, manual, env>>

\* Mutant: the request in flight goes on and its answer serves the new
\* generation.
ReuseAnswer(b) ==
    IF b.generation = sync.generation THEN fetch
    ELSE IF fetch.st = "none" THEN Fetch(b.generation)
    ELSE [fetch EXCEPT !.gen = b.generation]

\* bookEffects: a fetchSnapshot effect, visible as a new generation, aborts the
\* request in flight and issues the next one.
Issue(b) == IF b.generation # sync.generation THEN Fetch(b.generation) ELSE fetch

\* As Issue, once the request in flight has ended.
IssueAfterEnd(b) == IF b.generation # sync.generation THEN Fetch(b.generation) ELSE NoFetch

\* A timeout, a refusal (capture queue full, not ready) or a transport error.
CaptureFails ==
    /\ fetch.st = "pending"
    /\ EnvMove
    /\ sync' = Failed(sync, fetch.gen)
    /\ fetch' = IssueAfterEnd(sync')
    /\ UNCHANGED <<session, log, pub, conn, wire, sock, manual>>

\* The answer arrives.  One from another session is an error of this request.
SnapshotArrives ==
    /\ fetch.st = "answered"
    /\ sync' = IF fetch.gen # sync.generation THEN sync
               ELSE IF fetch.snap.session # sync.session THEN Failed(sync, fetch.gen)
               ELSE ReceiveSnapshot(sync, fetch.snap, fetch.gen)
    /\ fetch' = IssueAfterEnd(sync')
    /\ UNCHANGED <<session, log, pub, conn, wire, sock, manual, env>>

-----------------------------------------------------------------------------
(* The browser runtime. *)

\* The lifecycle opens a socket, the transport admits it, and the connection
\* owner writes hello.  A server that is not ready refuses.
Connect ==
    /\ sock = "closed"
    /\ Published > 0
    /\ conn' = NewConn
    /\ wire' = <<Frame("hello", 0, NoRange)>>
    /\ sock' = "opening"
    /\ UNCHANGED <<session, log, pub, sync, fetch, manual, env>>

\* disconnected and retireSocket: the listeners go, so what is in flight is
\* lost, and stopConnectionWork aborts the book request.
CloseSocket ==
    /\ sock' = "closed"
    /\ wire' = <<>>
    /\ conn' = [conn EXCEPT !.open = FALSE]
    /\ fetch' = NoFetch

\* The close event of a connection the server ended.
ServerClosed ==
    /\ sock # "closed"
    /\ ~conn.open
    /\ CloseSocket
    /\ UNCHANGED <<session, log, pub, sync, manual, env>>

\* Offline, pagehide, transport silence, hello timeout, failed send, or the
\* network: the browser gives the connection up.
ClientClose ==
    /\ sock # "closed"
    /\ conn.open
    /\ EnvMove
    /\ CloseSocket
    /\ UNCHANGED <<session, log, pub, sync, manual>>

Incoming == wire[1]

\* hello: bootstrap afresh for a new session or after a manual retry, otherwise
\* recover within the episode that was running.
ReceiveHello ==
    /\ sock = "opening"
    /\ wire # <<>>
    /\ Incoming.kind = "hello"
    /\ wire' = Tail(wire)
    /\ sock' = "live"
    /\ manual' = FALSE
    /\ IF Incoming.session # sync.session \/ manual
       THEN /\ sync' = Start(sync, Incoming.session)
            /\ fetch' = Fetch(sync'.generation)
       ELSE /\ sync' = RequestSnapshot(sync)
            /\ fetch' = Issue(sync')
    /\ UNCHANGED <<session, log, pub, conn, env>>

\* An update: its range goes to the engine.
ReceiveUpdate ==
    /\ sock = "live"
    /\ wire # <<>>
    /\ Incoming.kind = "update"
    /\ wire' = Tail(wire)
    /\ sync' = ReceiveRange(sync, Incoming.session, Incoming.range)
    /\ fetch' = Issue(sync')
    /\ UNCHANGED <<session, log, pub, conn, sock, manual, env>>

\* book_reset: recover.
ReceiveReset ==
    /\ sock = "live"
    /\ wire # <<>>
    /\ Incoming.kind = "book_reset"
    /\ wire' = Tail(wire)
    /\ sync' = RequestSnapshot(sync)
    /\ fetch' = Issue(sync')
    /\ UNCHANGED <<session, log, pub, conn, sock, manual, env>>

\* A heartbeat is evidence for the freshness monitor (module BookFreshness).
ReceiveHeartbeat ==
    /\ sock = "live"
    /\ wire # <<>>
    /\ Incoming.kind = "heartbeat"
    /\ wire' = Tail(wire)
    /\ UNCHANGED <<session, log, pub, conn, sock, sync, fetch, manual, env>>

\* The freshness monitor asks for the book to be resynchronised.
Resync ==
    /\ sock = "live"
    /\ sync.generation < MaxGeneration
    /\ sync' = RequestSnapshot(sync)
    /\ fetch' = Issue(sync')
    /\ UNCHANGED <<session, log, pub, conn, wire, sock, manual, env>>

\* The user's Retry on a live connection starts a fresh episode.
RetryLive ==
    /\ sock = "live"
    /\ EnvMove
    /\ sync' = Start(sync, sync.session)
    /\ fetch' = Fetch(sync'.generation)
    /\ UNCHANGED <<session, log, pub, conn, wire, sock, manual>>

\* The user's Retry without one: the next hello bootstraps afresh, and a socket
\* still waiting for its hello is replaced.
RetryDown ==
    /\ sock # "live"
    /\ EnvMove
    /\ manual' = TRUE
    /\ CloseSocket
    /\ UNCHANGED <<session, log, pub, sync>>

-----------------------------------------------------------------------------

Mutation == \E l \in Level, q \in Lots : MutateLevel(l, q)

Next ==
    \/ Mutation
    \/ Publish
    \/ Restart
    \/ FlushReset
    \/ FlushRange
    \/ Heartbeat
    \/ DropNext
    \/ ServerClose
    \/ Capture
    \/ CaptureFails
    \/ SnapshotArrives
    \/ Connect
    \/ ServerClosed
    \/ ClientClose
    \/ ReceiveHello
    \/ ReceiveUpdate
    \/ ReceiveReset
    \/ ReceiveHeartbeat
    \/ Resync
    \/ RetryLive
    \/ RetryDown

Spec == Init /\ [][Next]_vars

-----------------------------------------------------------------------------
(* Properties. *)

FrameKind == {"hello", "update", "book_reset", "heartbeat"}
WireFrame == [kind : FrameKind, session : Session, seq : Seq0, range : BookRange]
ConnState == [open : BOOLEAN, sent : Seq0, drop : BOOLEAN, dropped : BOOLEAN]
FetchState == [st : {"none", "pending", "answered"}, gen : Nat, snap : Snapshot]

\* Every variable keeps the shape the code gives it, whichever action runs.
TypeOK ==
    /\ session \in Session
    /\ log \in [Session -> Seq(Change)]
    /\ pub \in [Session -> Seq0]
    /\ conn \in ConnState
    /\ wire \in Seq(WireFrame)
    /\ sock \in {"closed", "opening", "live"}
    /\ sync \in SyncState
    /\ sync.session \in Session \cup {None}
    /\ fetch \in FetchState
    /\ manual \in BOOLEAN
    /\ env \in 0 .. MaxEnv

\* The book on show, synchronised or kept while a resync runs, is exactly the
\* market's book after change expectedSeq - 1 of its session, and a publication
\* ended there: no lost, repeated or reordered change, no state from the middle
\* of a command.
ShownBookIsPublished ==
    sync.expectedSeq # None =>
        LET n == sync.expectedSeq - 1
        IN  /\ n \in 1 .. pub[sync.session]
            /\ log[sync.session][n].published
            /\ sync.book = log[sync.session][n].book

\* A book waiting for its snapshot on a live connection has that very request
\* in flight: it can never wait for an answer nobody asked for.
BufferingHasRequest ==
    (sock = "live" /\ sync.status = "buffering") =>
        fetch.st # "none" /\ fetch.gen = sync.generation

\* Unless the viewer dropped a delta on this connection, neither a live range
\* nor a replay ever finds changes missing: the cursor, the socket order and
\* the snapshot asked for after the last range leave no hole.
GapOnlyAfterDrop ==
    (sock = "live" /\ ~conn.dropped) =>
        /\ (sync.status = "synced" /\ wire # <<>> /\ Incoming.kind = "update")
              => Incoming.range.from <= sync.expectedSeq
        /\ (/\ sync.status = "buffering"
            /\ fetch.st = "answered"
            /\ fetch.snap.session = sync.session)
              => \A i \in 1 .. Len(sync.buffered) :
                    ~GapAt(sync.buffered, fetch.snap.seq, i)

\* validateBookRange: a range that is not reversed and changes at least one level.
ValidRange(r) == r.from \in 1 .. r.to /\ DOMAIN r.lots # {}

\* validateBookSnapshot: depth in bounds on both sides, not crossed.
ValidSnapshot(snap) == snap.seq \in Nat /\ snap.book \in ValidBooks

\* The client never rejects what the server published.  No frame on its way and
\* no answer is refused by its decoder, which would leave a gap nobody dropped;
\* and a snapshot, a live range or a replay without a gap yields a valid book.
PublishedDataIsAccepted ==
    /\ \A i \in DOMAIN wire : wire[i].kind = "update" => ValidRange(wire[i].range)
    /\ fetch.st = "answered" => ValidSnapshot(fetch.snap)
    /\ sock = "live" =>
        /\ (sync.status = "synced" /\ wire # <<>> /\ Incoming.kind = "update"
              /\ Incoming.range.from <= sync.expectedSeq
              /\ Incoming.range.to >= sync.expectedSeq)
              => ApplyRange(sync.book, Incoming.range) \in ValidBooks
        /\ (/\ sync.status = "buffering"
            /\ fetch.st = "answered"
            /\ fetch.snap.session = sync.session
            /\ \A i \in 1 .. Len(sync.buffered) :
                  ~GapAt(sync.buffered, fetch.snap.seq, i))
              => ReplayOK(sync.buffered, fetch.snap)

\* Within a session the shown book never moves back, not even across a resync,
\* unless an explicit or first bootstrap cleared it.
NeverRewinds ==
    [][(/\ sync'.session = sync.session
        /\ sync.expectedSeq # None
        /\ sync'.expectedSeq # None)
          => sync'.expectedSeq >= sync.expectedSeq]_vars

-----------------------------------------------------------------------------
(***************************************************************************)
(* The inductive invariant behind the properties: what is on its way, at   *)
(* every place a range or a snapshot can be, is a true piece of the        *)
(* history of its session, and a request belongs to the current generation.*)
(***************************************************************************)

LogsOK == \A s \in Session : LogOK(log[s], pub[s]) /\ Len(log[s]) <= MaxSeq

WireRangesOK ==
    \A i \in 1 .. Len(wire) :
        wire[i].kind = "update" =>
            RangeOK(log[wire[i].session], pub[wire[i].session], wire[i].range)

AnswerIsPublished ==
    fetch.st = "answered" =>
        LET s == fetch.snap
        IN  /\ s.seq \in 1 .. pub[s.session]
            /\ log[s.session][s.seq].published
            /\ s.book = log[s.session][s.seq].book

AnswerIsNotBehind ==
    (/\ fetch.st = "answered"
     /\ fetch.snap.session = sync.session
     /\ sync.expectedSeq # None) => sync.expectedSeq <= fetch.snap.seq + 1

SyncedHasNoRequest == sync.status = "synced" => fetch.st = "none"

RequestIsCurrent == fetch.st # "none" => fetch.gen = sync.generation

IInv == /\ TypeOK /\ LogsOK
        /\ WireRangesOK /\ SyncRight(sync, log, pub)
        /\ AnswerIsPublished /\ AnswerIsNotBehind
        /\ SyncedHasNoRequest /\ RequestIsCurrent /\ BufferingHasRequest

-----------------------------------------------------------------------------
(***************************************************************************)
(* What is on the socket.  IInv knows every frame by itself; the next      *)
(* theorems need to know how the frames follow each other and what the     *)
(* connection has still to send.                                           *)
(***************************************************************************)

\* The session of the server at the other end of the socket.
ConnSession == IF sock = "opening" THEN wire[1].session ELSE sync.session

\* One server writes to a socket: its hello first, which ends the opening, and
\* nothing after the process has gone.
OneServer ==
    /\ sock = "closed" => wire = <<>> /\ ~conn.open
    /\ sock = "opening" => wire # <<>>
    /\ sock = "live" => sync.session \in Session
    /\ \A i \in DOMAIN wire : /\ wire[i].session = ConnSession
                              /\ wire[i].kind = "hello" <=> sock = "opening" /\ i = 1
    /\ conn.open => ConnSession = session
    /\ sock # "closed" => conn.sent <= pub[ConnSession]

IsData(f) == f.kind \in {"update", "book_reset"}

\* The ranges on the socket join: each starts where the one before it ended, and
\* the last one ends at the cursor, unless a book_reset is in between.
Chain ==
    /\ \A i \in DOMAIN wire : wire[i].kind = "update" => wire[i].range.to <= conn.sent
    /\ \A i, j \in DOMAIN wire :
         (/\ i < j /\ wire[i].kind = "update" /\ wire[j].kind = "update"
          /\ \A k \in i + 1 .. j - 1 : ~IsData(wire[k]))
            => wire[j].range.from = wire[i].range.to + 1
    /\ \A i \in DOMAIN wire :
         (wire[i].kind = "update" /\ \A k \in i + 1 .. Len(wire) : ~IsData(wire[k]))
            => wire[i].range.to = conn.sent

\* The next range the browser receives starts at one of the numbers in S, if no
\* book_reset comes before it.
StartsIn(w, sent, S) ==
    /\ \A j \in DOMAIN w :
         (w[j].kind = "update" /\ \A k \in 1 .. j - 1 : ~IsData(w[k]))
            => w[j].range.from \in S
    /\ (\A j \in DOMAIN w : ~IsData(w[j])) => sent + 1 \in S
NextStartsIn(S) == StartsIn(wire, conn.sent, S)

\* Nothing is missing between what the engine has and what it will receive:
\* the book on show, or the buffered ranges and the snapshot, reach the next range.
NothingMissing ==
    sock = "live" =>
        /\ sync.status = "synced" => NextStartsIn(1 .. sync.expectedSeq)
        /\ sync.status = "buffering" =>
             /\ \A i \in 1 .. Len(sync.buffered) : sync.buffered[i].to <= conn.sent
             /\ \A i \in 2 .. Len(sync.buffered) :
                  sync.buffered[i].from = sync.buffered[i - 1].to + 1
             /\ sync.buffered # <<>> =>
                  NextStartsIn({sync.buffered[Len(sync.buffered)].to + 1})
             /\ (fetch.st = "answered" /\ fetch.snap.session = sync.session) =>
                  IF sync.buffered = <<>> THEN NextStartsIn(1 .. fetch.snap.seq + 1)
                  ELSE sync.buffered[1].from <= fetch.snap.seq + 1

\* A range taken off the socket by the debug control is all that breaks it.
GInv == OneServer /\ (~conn.dropped => Chain /\ NothingMissing)

-----------------------------------------------------------------------------
(* The pipeline implements BookReplica. *)

History == [s \in Session |->
              {[seq |-> n, book |-> log[s][n].book] :
                 n \in {k \in 1 .. Len(log[s]) : log[s][k].published}}]

View == IF sync.expectedSeq = None THEN [session |-> 0]
        ELSE [session |-> sync.session, seq |-> sync.expectedSeq - 1, book |-> sync.book]

Replica == INSTANCE BookReplica WITH history <- History, view <- View

\* A process that has not started yet has changed nothing.
FutureIsEmpty == \A t \in Session : t > session => log[t] = <<>>

\* Every behaviour of the pipeline is one of the abstract replica: what is shown
\* is always a published book, later than the one shown before it.
ImplementsReplica == Replica!Spec

=============================================================================
