---------------------------- MODULE TradeDelivery ----------------------------
(***************************************************************************)
(* Recent trades from the owner to the browser (unseenTrades in backend/   *)
(* internal/delivery/batch.go, web/src/engines/recent-trades.ts and the    *)
(* trades of web/src/runtime/create-market-runtime.ts).                    *)
(*                                                                         *)
(* A trade is its ID; the market numbers them from 1 in each session.  Two *)
(* paths lead to the browser: updates relative to the cursor of a          *)
(* connection, which leave out what does not fit and say how much, and a   *)
(* REST request (RequestOwner) cut from the working state, which may be    *)
(* ahead of the publication.                                               *)
(***************************************************************************)
EXTENDS RequestOwner, Sequences, FiniteSetsExt

CONSTANTS
    Retain,         \* trades the owner retains
    Batch,          \* trades of an update
    RestLimit,      \* trades of a REST answer
    Keep,           \* MAX_TRADES of the browser
    MaxTrade,       \* bound: trades of a session
    MaxSession,     \* bound: server processes
    MaxWire,        \* bound: updates on the socket
    MaxFault        \* bound: lost connections, failed requests and retries by hand

ASSUME TradeAssumption ==
    {Retain, Batch, RestLimit, Keep, MaxTrade, MaxSession, MaxWire} \subseteq Nat \ {0}

VARIABLES
    session,    \* of the server
    last,       \* [session -> lastTradeID of the working state]
    pub,        \* LastTradeID of the publication
    conn,       \* [state, sent]: the connection ("lost": its server has gone) and its cursor
    wire,       \* updates on the socket
    captured,   \* answers of the loads in flight: [generation, session, trades]
    page,       \* the browser
    faults

server == <<session, last, pub>>
tradeVars == <<owner, accepted, session, last, pub, conn, wire, captured, page, faults>>

Down == [state |-> "down", sent |-> 0]

\* ids is tradesById; counted and skipped of the runtime; got and live are
\* ghosts: all trades merged in the session, and those of updates.
FreshPage(s) == [session |-> s, ids |-> {}, counted |-> 0, skipped |-> 0, got |-> {}, live |-> {}]

TradeInit ==
    /\ Init
    /\ session = 1 /\ last = [s \in 1 .. MaxSession |-> 0] /\ pub = 0
    /\ conn = Down /\ wire = <<>> /\ captured = {} /\ page = FreshPage(0) /\ faults = 0

-----------------------------------------------------------------------------
(* The server *)

Newest(trades, n) == {t \in trades : Cardinality({u \in trades : u > t}) < n}

\* tailTrades of the trades up to id.
Retained(id) == Newest(1 .. id, Retain)

\* Mutant: a trade of the batch is missed.
UnseenAfter(sent) == {t \in Newest(Retained(pub), Batch) : t > sent + 1}

Unseen(sent) == Newest({t \in Retained(pub) : t > sent}, Batch)

\* An event may match several trades.
Trade(n) ==
    /\ last[session] + n <= MaxTrade /\ last' = [last EXCEPT ![session] = @ + n]
    /\ UNCHANGED <<owner, accepted, session, pub, conn, wire, captured, page, faults>>

Publish ==
    /\ pub # last[session] /\ pub' = last[session]
    /\ UNCHANGED <<owner, accepted, session, last, conn, wire, captured, page, faults>>

\* PrepareFlush, the write and Commit.
Flush ==
    /\ conn.state = "up" /\ pub > conn.sent /\ Unseen(conn.sent) # {} /\ Len(wire) < MaxWire
    /\ wire' = Append(wire, [trades |-> Unseen(conn.sent),
                             skipped |-> pub - conn.sent - Cardinality(Unseen(conn.sent))])
    /\ conn' = [conn EXCEPT !.sent = Max(Unseen(conn.sent))]
    /\ UNCHANGED <<owner, accepted, server, captured, page, faults>>

\* CaptureTrades for a load in flight.
Capture ==
    /\ \E f \in owner.flights :
          /\ \A a \in captured : a.generation # f.generation
          /\ captured' = captured \cup {[generation |-> f.generation, session |-> session,
                                         trades |-> Newest(Retained(last[session]), RestLimit)]}
    /\ UNCHANGED <<owner, accepted, server, conn, wire, page, faults>>

-----------------------------------------------------------------------------
(* The browser *)

\* Mutant: the oldest trades are kept.
Oldest(ids) == {t \in ids : Cardinality({u \in ids : u < t}) < Keep}

\* trimTrades.
Trim(ids) == Newest(ids, Keep)

\* RecentTrades.merge.
Merge(p, s, trades) ==
    IF s # p.session THEN p
    ELSE [p EXCEPT !.ids = Trim(@ \cup trades), !.got = @ \cup trades]

\* Mutant: every reported omission is counted.
AsReported(p, u) == u.skipped

\* Omissions that an earlier connection has counted are not counted again.
NewlySkipped(p, u) ==
    LET unseenGap == Max({0, Min(u.trades) - p.counted - 1})
    IN  Min({u.skipped, unseenGap})

Receive(p, u) ==
    [Merge(p, p.session, u.trades) EXCEPT
        !.skipped = @ + NewlySkipped(p, u),
        !.counted = Max({@, Max(u.trades)}),
        !.live = @ \cup u.trades]

Deliver ==
    /\ wire # <<>> /\ wire' = Tail(wire)
    /\ page' = Receive(page, Head(wire))
    /\ UNCHANGED <<owner, accepted, server, conn, captured, faults>>

\* A connection and its hello: a new session forgets the trades of the old one;
\* the request is started, or recovered in a session known already (unless the
\* connection was asked for by hand).
Connect ==
    /\ conn.state = "down" /\ Bounded
    /\ conn' = [state |-> "up", sent |-> 0]
    /\ page' = IF page.session = session THEN page ELSE FreshPage(session)
    /\ \E t \in Task :
          \/ page.session = session /\ owner' = Recover(owner, t)
          \/ owner' = Start(owner, t)
    /\ UNCHANGED <<accepted, server, wire, captured, faults>>

\* The user asks for a retry on a live connection.
RetriesLive ==
    /\ conn.state # "down" /\ Bounded /\ faults < MaxFault /\ faults' = faults + 1
    /\ \E t \in Task : owner' = Start(owner, t)
    /\ UNCHANGED <<accepted, server, conn, wire, captured, page>>

\* disconnected: what was on the socket is lost, the request is cancelled.
Disconnects ==
    /\ conn.state # "down" /\ conn' = Down /\ wire' = <<>>
    /\ owner' = Clear(owner, TRUE)
    /\ UNCHANGED <<accepted, server, captured, page>>

Disconnect == conn.state = "up" /\ faults < MaxFault /\ faults' = faults + 1 /\ Disconnects

\* The page notices that its server has gone.
Notice == conn.state = "lost" /\ Disconnects /\ UNCHANGED faults

\* The server process ends and a new one starts.
Restart ==
    /\ session < MaxSession /\ session' = session + 1 /\ pub' = 0
    /\ conn' = IF conn.state = "up" THEN [conn EXCEPT !.state = "lost", !.sent = 0] ELSE conn
    /\ UNCHANGED <<owner, accepted, last, wire, captured, page, faults>>

TimerRuns ==
    /\ Timer
    /\ UNCHANGED <<server, conn, wire, captured, page, faults>>

\* A load ends without an answer, or out of date.
RequestFails ==
    /\ \E f \in owner.flights :
          /\ \/ Fails(f) /\ faults < MaxFault /\ faults' = faults + 1 /\ Bounded
             \/ SettlesLate(f) /\ UNCHANGED faults
          /\ captured' = {a \in captured : a.generation # f.generation}
    /\ UNCHANGED <<server, conn, wire, page>>

FitsSession(a) == a.session = page.session

\* An answer for another session than that of the connection is an error.
RequestArrives ==
    /\ \E a \in captured, f \in owner.flights :
          /\ f.generation = a.generation /\ captured' = captured \ {a}
          /\ \/ /\ FitsSession(a) /\ Succeeds(f)
                /\ page' = Merge(page, page.session, a.trades)
             \/ ~FitsSession(a) /\ Fails(f) /\ UNCHANGED page
             \/ SettlesLate(f) /\ UNCHANGED page
    /\ UNCHANGED <<server, conn, wire, faults>>

TradeNext ==
    \/ \E n \in 1 .. 2 : Trade(n)
    \/ Publish \/ Flush \/ Capture \/ Deliver \/ Connect \/ RetriesLive \/ Disconnect \/ Notice
    \/ Restart
    \/ TimerRuns \/ RequestFails \/ RequestArrives

\* The owner publishes, the flush timer fires, the socket delivers and the
\* page reconnects; of requests nothing is needed.
TradeSpec == /\ TradeInit /\ [][TradeNext]_tradeVars
             /\ WF_tradeVars(Publish) /\ WF_tradeVars(Flush) /\ WF_tradeVars(Deliver)
             /\ WF_tradeVars(Connect) /\ WF_tradeVars(Notice)

-----------------------------------------------------------------------------

\* Every variable has its type.
TradeTypeOK ==
    /\ TypeOK
    /\ session \in 1 .. MaxSession /\ last \in [1 .. MaxSession -> 0 .. MaxTrade]
    /\ pub \in 0 .. last[session]
    /\ conn \in [state : {"down", "up", "lost"}, sent : 0 .. pub]
    /\ \A i \in DOMAIN wire :
          wire[i].trades \subseteq 1 .. MaxTrade /\ wire[i].skipped \in 0 .. MaxTrade
    /\ \A a \in captured : a.trades \subseteq 1 .. MaxTrade
    /\ page.ids \cup page.got \cup page.live \subseteq 1 .. MaxTrade
    /\ Cardinality(page.ids) <= Keep

\* docs/protocol.md: each omitted trade is counted once per session, across
\* reconnects, whenever REST answers arrive.
SkippedIsExact == page.skipped = page.counted - Cardinality(page.live)

\* Whatever came when and over which path, the page keeps the newest trades it
\* was given in the session.
NewestAreKept == page.ids = Newest(page.got, Keep)

\* Only trades of the session on show, though the server may have gone on to
\* another one and answers of both are on their way.
OwnSessionOnly == page.session # 0 => page.got \subseteq 1 .. last[page.session]

\* validateServerUpdate: the trades of an update, and the count of omitted ones.
ValidUpdate(u) == Cardinality(u.trades) \in 1 .. Batch /\ u.skipped >= 0

\* validateRecentTrades; a young market may have no trade yet.
ValidAnswer(a) == Cardinality(a.trades) <= RestLimit

\* The page passes over a frame its decoder refuses, and the trades in it would
\* be missed without a word: none is refused.
TradesAreDecoded ==
    /\ \A i \in DOMAIN wire : ValidUpdate(wire[i])
    /\ \A a \in captured : ValidAnswer(a)

\* What holds of the page, of its request and of what is on its way to it.
TradeInv ==
    TradeTypeOK /\ BudgetHolds /\ NewestAreKept /\ OwnSessionOnly /\ TradesAreDecoded

\* The newest trade gets to the page.
NewestArrives ==
    <>[](session = MaxSession /\ last[session] = MaxTrade)
        => <>[](conn.state = "up" => MaxTrade \in page.ids)

-----------------------------------------------------------------------------
(* The inductive invariant (TradeDeliveryProofs). *)

\* An update holds the trades From .. To and follows on the trade Before.
From(u) == Min(u.trades)
To(u) == Max(u.trades)
Before(u) == From(u) - 1 - u.skipped

\* The newest trades that every update and the page hold.
Window == Min({Retain, Batch})

\* An update leaves trades out only when it is full.
UpdateOK(u) ==
    /\ To(u) \in 1 .. MaxTrade /\ From(u) \in 1 .. To(u)
    /\ u.trades = From(u) .. To(u) /\ u.skipped < From(u)
    /\ To(u) < From(u) + Window
    /\ u.skipped > 0 => To(u) + 1 = From(u) + Window

\* The updates on a socket follow on one another, and the cursor on the last; the
\* first follows on what the page has counted, or overlaps that after a reconnect.
UpdatesJoin ==
    /\ \A i \in DOMAIN wire :
          /\ UpdateOK(wire[i]) /\ To(wire[i]) <= last[page.session]
          /\ conn.state = "up" => To(wire[i]) <= pub
    /\ \A i \in 1 .. Len(wire) - 1 : Before(wire[i + 1]) = To(wire[i])
    /\ wire # <<>> =>
          /\ conn.state # "down"
          /\ Before(wire[1]) <= page.counted /\ page.counted <= To(wire[1])
          /\ conn.state = "up" => conn.sent = To(wire[Len(wire)])
    /\ wire = <<>> => conn.sent <= page.counted
    /\ conn.state # "up" => conn.sent = 0

\* A connected page is in the session of its connection, and what it has counted
\* was published there.
PageJoins ==
    /\ page.session \in 0 .. session
    /\ conn.state = "up" => page.session = session
    /\ conn.state = "lost" => page.session # session
    /\ conn.state # "down" => page.session # 0
    /\ page.session = session => page.counted <= pub
    /\ page.session # 0 => page.counted <= last[page.session]

\* The page has been given the newest trades up to the one it has counted, so that
\* an update that overlaps them brings nothing the counts have called skipped.
PageCounts ==
    /\ page.live \subseteq 1 .. page.counted
    /\ \A t \in 1 .. page.counted : page.counted < t + Window => t \in page.live
    /\ SkippedIsExact

\* Only a session that has begun has trades.
AnswersFit ==
    \A a \in captured :
        a.session \in 1 .. session /\ a.trades \subseteq 1 .. last[a.session] /\ ValidAnswer(a)

Update == [trades : SUBSET (1 .. MaxTrade), skipped : Nat]
Answer == [generation : Nat, session : 1 .. MaxSession, trades : SUBSET (1 .. MaxTrade)]
PageState == [session : 0 .. MaxSession, ids : SUBSET (1 .. MaxTrade), counted : Nat,
              skipped : Nat, got : SUBSET (1 .. MaxTrade), live : SUBSET (1 .. MaxTrade)]

TInv ==
    /\ session \in 1 .. MaxSession /\ last \in [1 .. MaxSession -> 0 .. MaxTrade]
    /\ pub \in 0 .. last[session]
    /\ conn \in [state : {"down", "up", "lost"}, sent : 0 .. pub]
    /\ page \in PageState /\ wire \in Seq(Update) /\ captured \subseteq Answer
    /\ ~owner.disposed
    /\ NewestAreKept /\ OwnSessionOnly
    /\ UpdatesJoin /\ PageJoins /\ PageCounts /\ AnswersFit

=============================================================================
