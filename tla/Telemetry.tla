------------------------------ MODULE Telemetry ------------------------------
(***************************************************************************)
(* The measurement of a link: Telemetry (web/src/engines/telemetry.ts) with *)
(* the intervals of the runtime, the pongs of the connection owner         *)
(* (backend/internal/delivery/connection.go) with their debug delay, and   *)
(* the time of the last report the tier machine judges silence by.         *)
(*                                                                         *)
(* Time is counted in seconds.  A step of the environment is a lost        *)
(* connection, a flip of the tab, a change of the delay, or a second in    *)
(* which a timer or a message that is due does not get its turn.           *)
(***************************************************************************)
EXTENDS Naturals, Sequences, FiniteSets

CONSTANTS
    Timeout,        \* TIMEOUT_MS
    SampleAge,      \* SAMPLE_MAX_AGE_MS
    MaxInFlight,    \* MAX_IN_FLIGHT
    MaxSuccesses,   \* MAX_SUCCESSES
    PingEvery,      \* interval of probes
    ReportEvery,    \* interval of reports
    Delay,          \* pongDelay, once it is set
    MaxDelayed,     \* maxDelayedPongs
    MissingStep,    \* DeliveryMissingReportStep: silence that costs a tier
    MaxTime,        \* bound: seconds
    MaxEpoch,       \* bound: connections
    MaxEnv          \* bound: steps of the environment

ASSUME TelemetryAssumption ==
    {Timeout, SampleAge, MaxInFlight, MaxSuccesses, PingEvery, ReportEvery, Delay,
     MaxDelayed, MissingStep, MaxTime, MaxEpoch, MaxEnv} \subseteq Nat \ {0}

VARIABLES
    now,
    tele,       \* Telemetry: [epoch, high, pending, successes, timedOut]
    page,       \* the runtime: [live, visible, pingId, pingAt, reportAt]
    up,         \* messages of the browser on the socket
    down,       \* pongs on their way, each with the epoch of its socket
    server,     \* the connection owner: [hidden, heard, delay, delayed]
    life,       \* ghost: counts the resets of the evidence
    prompt,     \* ghost: nothing of this connection was late or delayed
    env         \* steps of the environment so far

vars == <<now, tele, page, up, down, server, life, prompt, env>>

Tele0 == [epoch |-> 1, high |-> 0, pending |-> {}, successes |-> {}, timedOut |-> {}]

\* The tier machine counts from its start as from a report.
Server0(t) == [hidden |-> FALSE, heard |-> t, delay |-> 0, delayed |-> <<>>]

EnvStep == env < MaxEnv /\ env' = env + 1

-----------------------------------------------------------------------------
(* Telemetry.  A sample keeps, for the properties, the life of the probe    *)
(* that the pong really answers.                                            *)

\* Mutant: the ids of an earlier connection still count.
KeepHigh(t, epoch) ==
    [t EXCEPT !.epoch = epoch, !.pending = {}, !.successes = {}, !.timedOut = {}]

Reset(t, epoch) ==
    [t EXCEPT !.epoch = epoch, !.high = IF epoch = t.epoch THEN @ ELSE 0,
              !.pending = {}, !.successes = {}, !.timedOut = {}]

\* Mutant: samples do not grow old.
TrimCount(samples) ==
    {s \in samples : Cardinality({u \in samples : u.id > s.id}) < MaxSuccesses}

\* trimSuccesses
TrimSuccesses(samples) ==
    LET young == {s \in samples : now - s.sent <= SampleAge}
    IN  {s \in young : Cardinality({u \in young : u.id > s.id}) < MaxSuccesses}

Ids(probes) == {p.id : p \in probes}

Advance(t) ==
    LET expired == {p \in t.pending : now - p.sent >= Timeout}
    IN  [t EXCEPT !.pending = @ \ expired, !.timedOut = @ \cup Ids(expired),
                  !.successes = TrimSuccesses(@)]

CanSend(t, id) == id > t.high /\ Cardinality(t.pending) < MaxInFlight

PingSent(t, id) ==
    [t EXCEPT !.pending = @ \cup {[id |-> id, sent |-> now]}, !.high = id]

PongReceived(t, pong) ==
    LET mine == {p \in t.pending : p.id = pong.id}
        late == {p \in mine : now - p.sent >= Timeout}
        samples == {[id |-> p.id, sent |-> p.sent, life |-> pong.life] : p \in mine \ late}
    IN  [t EXCEPT !.pending = @ \ mine, !.timedOut = @ \cup Ids(late),
                  !.successes = IF samples = {} THEN @ ELSE TrimSuccesses(@ \cup samples)]

-----------------------------------------------------------------------------
(* The runtime *)

Sends(p, kind, content) ==
    IF p.live THEN Append(up, [kind |-> kind, content |-> content]) ELSE up

\* probe: what is sent, and what telemetry remembers, after `out` and `t`.
Probe(out, t, id) ==
    LET a == Advance(t)
    IN  IF CanSend(a, id)
        THEN /\ tele' = PingSent(a, id)
             /\ up' = Append(out, [kind |-> "ping", content |-> [id |-> id, life |-> life']])
        ELSE tele' = a /\ up' = out

Measuring == page.live /\ page.visible

PingTimer ==
    /\ Measuring /\ now >= page.pingAt
    /\ page' = [page EXCEPT !.pingId = @ + 1, !.pingAt = now + PingEvery]
    /\ UNCHANGED life
    /\ Probe(up, tele, page'.pingId)
    /\ UNCHANGED <<now, down, server, prompt, env>>

ReportTimer ==
    LET a == Advance(tele)
    IN  /\ Measuring /\ now >= page.reportAt
        /\ page' = [page EXCEPT !.reportAt = now + ReportEvery]
        /\ tele' = a
        /\ up' = IF Cardinality(a.successes) >= 2
                 THEN Sends(page, "report", [at |-> now, samples |-> a.successes])
                 ELSE up
        /\ UNCHANGED <<now, down, server, life, prompt, env>>

\* The health interval; its phase is left open.
Health ==
    /\ Measuring /\ tele' = Advance(tele)
    /\ UNCHANGED <<now, page, up, down, server, life, prompt, env>>

\* Mutant: a pong of an earlier socket is taken for one of this.
AnyEpoch(pong) == TRUE

IsCurrent(pong) == page.live /\ pong.epoch = tele.epoch

ReceivePong ==
    /\ down # <<>> /\ down' = Tail(down)
    /\ tele' = IF IsCurrent(Head(down)) THEN PongReceived(tele, Head(down)) ELSE tele
    /\ UNCHANGED <<now, page, up, server, life, prompt, env>>

\* The tab is hidden: no intervals, no evidence.
Hide ==
    /\ page.visible /\ EnvStep
    /\ page' = [page EXCEPT !.visible = FALSE]
    /\ life' = life + 1 /\ tele' = Reset(tele, tele.epoch)
    /\ up' = Sends(page, "visibility", TRUE)
    /\ UNCHANGED <<now, down, server, prompt>>

\* It is visible again: new evidence, and a probe at once.
Show ==
    /\ ~page.visible /\ EnvStep /\ life' = life + 1
    /\ IF page.live
       THEN /\ page' = [page EXCEPT !.visible = TRUE, !.pingId = @ + 1,
                                    !.pingAt = now + PingEvery, !.reportAt = now + ReportEvery]
            /\ Probe(Sends(page, "visibility", FALSE), Reset(tele, tele.epoch), page'.pingId)
       ELSE /\ page' = [page EXCEPT !.visible = TRUE]
            /\ tele' = Reset(tele, tele.epoch) /\ UNCHANGED up
    /\ UNCHANGED <<now, down, server, prompt>>

\* The connection is lost, or closed by the server: what the browser has sent
\* is lost with it.
Ends == page' = [page EXCEPT !.live = FALSE] /\ up' = <<>>

Disconnect ==
    /\ page.live /\ EnvStep /\ Ends
    /\ UNCHANGED <<now, tele, down, server, life, prompt>>

\* openSocket and its hello; probes start after an interval.
Connect ==
    /\ ~page.live /\ page.visible /\ tele.epoch < MaxEpoch
    /\ page' = [live |-> TRUE, visible |-> TRUE, pingId |-> 0,
                pingAt |-> now + PingEvery, reportAt |-> now + ReportEvery]
    /\ tele' = Reset(tele, tele.epoch + 1) /\ life' = life + 1
    /\ server' = Server0(now) /\ prompt' = TRUE
    /\ UNCHANGED <<now, up, down, env>>

\* The viewer sets or clears the delay of pongs.
SetDelay ==
    /\ page.live /\ EnvStep
    /\ \E d \in {0, Delay} : up' = Sends(page, "delay", d)
    /\ UNCHANGED <<now, tele, page, down, server, life, prompt>>

-----------------------------------------------------------------------------
(* The connection owner *)

Pong(ping) == [id |-> ping.id, life |-> ping.life, epoch |-> tele.epoch]

ReceivePing(ping) ==
    \/ /\ server.delay = 0
       /\ down' = Append(down, Pong(ping)) /\ up' = Tail(up) /\ UNCHANGED <<page, server>>
    \/ /\ server.delay > 0 /\ Len(server.delayed) < MaxDelayed
       /\ server' = [server EXCEPT !.delayed = Append(@, [ping |-> ping, due |-> now + server.delay])]
       /\ up' = Tail(up) /\ UNCHANGED <<page, down>>
    \/ /\ server.delay > 0 /\ Len(server.delayed) >= MaxDelayed
       /\ Ends /\ UNCHANGED <<down, server>>

ReceiveControl ==
    /\ page.live /\ up # <<>>
    /\ LET m == Head(up)
       IN  \/ m.kind = "ping" /\ ReceivePing(m.content) /\ UNCHANGED prompt
           \/ /\ m.kind # "ping" /\ up' = Tail(up) /\ UNCHANGED <<page, down>>
              /\ \/ /\ m.kind = "report"
                    /\ server' = IF server.hidden THEN server ELSE [server EXCEPT !.heard = now]
                    /\ UNCHANGED prompt
                 \/ /\ m.kind = "visibility"
                    /\ server' = [server EXCEPT !.hidden = m.content,
                                                !.heard = IF server.hidden /\ ~m.content THEN now ELSE @]
                    /\ UNCHANGED prompt
                 \/ /\ m.kind = "delay"
                    /\ server' = [server EXCEPT !.delay = m.content]
                    /\ prompt' = FALSE
    /\ UNCHANGED <<now, tele, life, env>>

IsDue(d) == d.due <= now

\* The positions of I in order.
InOrder(I) ==
    {f \in [1 .. Cardinality(I) -> I] : \A j, k \in DOMAIN f : j < k => f[j] < f[k]}

\* processDuePongs: one pass writes what is due and keeps the rest, both in order.
DuePongs ==
    LET due == {i \in DOMAIN server.delayed : IsDue(server.delayed[i])}
    IN  /\ page.live /\ due # {}
        /\ \E f \in InOrder(due), g \in InOrder(DOMAIN server.delayed \ due) :
              /\ down' = down \o [k \in DOMAIN f |-> Pong(server.delayed[f[k]].ping)]
              /\ server' = [server EXCEPT !.delayed = [k \in DOMAIN g |-> server.delayed[g[k]]]]
        /\ UNCHANGED <<now, tele, page, up, life, prompt, env>>

-----------------------------------------------------------------------------

Init ==
    /\ now = 0 /\ tele = Tele0 /\ life = 0 /\ prompt = TRUE /\ env = 0
    /\ page = [live |-> TRUE, visible |-> TRUE, pingId |-> 0,
               pingAt |-> PingEvery, reportAt |-> ReportEvery]
    /\ up = <<>> /\ down = <<>> /\ server = Server0(0)

SomethingDue ==
    \/ Measuring /\ (now >= page.pingAt \/ now >= page.reportAt)
    \/ page.live /\ (up # <<>> \/ \E i \in DOMAIN server.delayed : IsDue(server.delayed[i]))
    \/ down # <<>>

Time ==
    /\ now < MaxTime /\ now' = now + 1
    /\ IF SomethingDue THEN EnvStep /\ prompt' = FALSE ELSE UNCHANGED <<env, prompt>>
    /\ UNCHANGED <<tele, page, up, down, server, life>>

Next ==
    \/ PingTimer \/ ReportTimer \/ Health \/ ReceivePong \/ Hide \/ Show
    \/ Disconnect \/ Connect \/ SetDelay \/ ReceiveControl \/ DuePongs \/ Time

Spec == Init /\ [][Next]_vars

-----------------------------------------------------------------------------

\* The parts of Telemetry have their types and bounds.
TypeOK ==
    /\ now \in 0 .. MaxTime /\ life \in Nat /\ prompt \in BOOLEAN /\ env \in 0 .. MaxEnv
    /\ tele.epoch \in 1 .. MaxEpoch /\ tele.high \in 0 .. page.pingId
    /\ Cardinality(tele.pending) <= MaxInFlight
    /\ Cardinality(tele.successes) <= MaxSuccesses
    /\ \A p \in tele.pending : p.id \in 1 .. tele.high /\ p.sent \in 0 .. now
    /\ Len(server.delayed) <= MaxDelayed /\ server.heard \in 0 .. now

\* Each probe ends once, and a sample is the answer to a probe of this
\* connection that was sent since the page was last shown: no pong that comes
\* late, delayed, out of order or from another socket is measured.
SamplesAreTrue ==
    /\ TypeOK
    /\ \A s \in tele.successes : s.life = life
    /\ Ids(tele.pending) \cap (Ids(tele.successes) \cup tele.timedOut) = {}
    /\ Ids(tele.successes) \cap tele.timedOut = {}
    /\ Cardinality(Ids(tele.successes)) = Cardinality(tele.successes)

\* docs/protocol.md: an old healthy window is not reported again.  A report on
\* its way rests on at least two probes, none older than a sample may be.
ReportsAreFresh ==
    \A i \in DOMAIN up :
        up[i].kind = "report" =>
            /\ Cardinality(up[i].content.samples) >= 2
            /\ \A s \in up[i].content.samples : up[i].content.at - s.sent <= SampleAge

\* A page that is visible on a prompt link is heard before its silence costs a
\* tier, from the first report of a connection on and after each return.
PromptPageIsHeard ==
    prompt /\ page.live /\ ~server.hidden => now - server.heard < MissingStep

-----------------------------------------------------------------------------
(* The inductive invariant (TelemetryProofs), by telemetry t, life l and time n. *)

Probes == [id : Nat, sent : Nat]
Samples == [id : Nat, sent : Nat, life : Nat]

Teles == [epoch : 1 .. MaxEpoch, high : Nat, pending : SUBSET Probes,
          successes : SUBSET Samples, timedOut : SUBSET Nat]

UniqueIds(S) == \A p, q \in S : p.id = q.id => p = q

Sound(t, l, n) ==
    /\ t \in Teles
    /\ UniqueIds(t.pending) /\ IsFiniteSet(t.pending) /\ Cardinality(t.pending) <= MaxInFlight
    /\ \A p \in t.pending : p.id \in 1 .. t.high /\ p.sent <= n
    /\ UniqueIds(t.successes) /\ IsFiniteSet(t.successes)
    /\ Cardinality(t.successes) <= MaxSuccesses
    /\ \A s \in t.successes : s.id \in 1 .. t.high /\ s.life = l
    /\ t.timedOut \subseteq 1 .. t.high
    /\ Ids(t.pending) \cap Ids(t.successes) = {}
    /\ Ids(t.pending) \cap t.timedOut = {} /\ Ids(t.successes) \cap t.timedOut = {}

\* What holds of a probe of this connection, whoever has it: its number was
\* used, and it is only waited for if it was sent since the last reset.
Known(t, l, id, of) == id \in 1 .. t.high /\ (id \in Ids(t.pending) => of = l)

Pings(t, l) == {p \in [id : Nat, life : Nat] : Known(t, l, p.id, p.life)}

Pongs(t, l) ==
    {p \in [id : Nat, life : Nat, epoch : Nat] :
        p.epoch <= t.epoch /\ (p.epoch = t.epoch => Known(t, l, p.id, p.life))}

Reports == {r \in [at : Nat, samples : SUBSET Samples] :
              /\ Cardinality(r.samples) >= 2
              /\ \A s \in r.samples : r.at - s.sent <= SampleAge}

Messages(t, l) ==
    [kind : {"ping"}, content : Pings(t, l)] \cup [kind : {"report"}, content : Reports]
       \cup [kind : {"visibility"}, content : BOOLEAN] \cup [kind : {"delay"}, content : {0, Delay}]

Delayed(t, l) == [ping : Pings(t, l), due : Nat]

Pages == [live : BOOLEAN, visible : BOOLEAN, pingId : Nat, pingAt : Nat, reportAt : Nat]

Servers(t, l) == [hidden : BOOLEAN, heard : Nat, delay : Nat, delayed : Seq(Delayed(t, l))]

MInv ==
    /\ now \in 0 .. MaxTime /\ life \in Nat /\ prompt \in BOOLEAN /\ env \in 0 .. MaxEnv
    /\ Sound(tele, life, now)
    /\ page \in Pages /\ tele.high <= page.pingId
    /\ up \in Seq(Messages(tele, life)) /\ (~page.live => up = <<>>)
    /\ down \in Seq(Pongs(tele, life))
    /\ server \in Servers(tele, life)
    /\ server.heard <= now /\ Len(server.delayed) <= MaxDelayed
-----------------------------------------------------------------------------
(* The inductive invariant of PromptPageIsHeard (TelemetryProofs).          *)

\* What the intervals of the code have in common with any that work: two probes
\* fit between two reports, three of them do not grow old, two samples are
\* kept, and two reports are not as far apart as the silence that costs a tier.
ASSUME IntervalAssumption ==
    /\ 2 * PingEvery <= ReportEvery /\ 3 * PingEvery <= SampleAge
    /\ MaxSuccesses >= 2 /\ 2 * ReportEvery < MissingStep

IsVisibility(m) == m.kind = "visibility"

\* A message that ends the silence, if the server takes it in its turn.
IsHeard(m) == m.kind = "report" \/ (m.kind = "visibility" /\ ~m.content)

\* When the server has last heard of the page, once it has read the messages s.
Hears(s, h, n) == IF \E i \in DOMAIN s : IsHeard(s[i]) THEN n ELSE h

\* The state of the tab that the server knows after j of the messages s.
Said(h, s, j) == IF j = 0 THEN h ELSE s[j].content

Silent(s, j, i) ==
    (j = 0 \/ IsVisibility(s[j])) /\ \A k \in j + 1 .. i - 1 : ~IsVisibility(s[k])

\* The messages s turn the tab hidden and shown in turn, from hidden = h to
\* visible = v, and no report is sent while it is hidden.
Turns(h, s, v) ==
    \A j \in 0 .. Len(s), i \in 1 .. Len(s) + 1 :
        j < i /\ Silent(s, j, i) =>
            IF i > Len(s) THEN Said(h, s, j) <=> ~v
            ELSE /\ IsVisibility(s[i]) => (s[i].content <=> ~Said(h, s, j))
                 /\ s[i].kind = "report" => ~Said(h, s, j)

\* A probe that is waited for, or its answer, is on its way.
InFlight(t, s, d) ==
    \A p \in t.pending :
        \/ \E i \in DOMAIN s : s[i].kind = "ping" /\ s[i].content.id = p.id
        \/ \E i \in DOMAIN d : d[i].epoch = t.epoch /\ d[i].id = p.id

\* The probe sent k probes before the last, d before the next is due at a, is
\* answered.
Answered(t, a, k, d) == \E s \in t.successes : s.id + k = t.high /\ s.sent + d = a

\* A report is due at r within an interval of what was heard at h, or within
\* two if there is still time for it at n.
Within(r, h, n) == r <= h + ReportEvery \/ (n < r /\ r <= h + 2 * ReportEvery)

\* With the next probe due at a and the next report at r: there are samples for
\* this report, or there will be when it is due, or it is the first of a
\* connection or a return and the next one is in time.
Evidence(t, a, r, h, n) ==
    \/ /\ t.pending = {} /\ r <= h + 2 * ReportEvery
       /\ Answered(t, a, 0, PingEvery) /\ Answered(t, a, 1, 2 * PingEvery)
    \/ /\ t.pending # {} /\ r <= h + 2 * ReportEvery
       /\ Answered(t, a, 1, 2 * PingEvery) /\ Answered(t, a, 2, 3 * PingEvery)
    \/ t.pending # {} /\ Answered(t, a, 1, 2 * PingEvery) /\ Within(r, h, n)
    \/ /\ t.pending # {} \/ Answered(t, a, 0, PingEvery)
       /\ a <= r /\ Within(r, h, a)
    \/ a + PingEvery <= r /\ r <= h + ReportEvery

Schedule(t, a, r, h, n) ==
    /\ n <= a /\ a <= n + PingEvery /\ n <= r /\ r <= n + ReportEvery
    /\ \A p \in t.pending : p.id = t.high /\ p.sent = n /\ a = n + PingEvery
    /\ Evidence(t, a, r, h, n)

Punctual ==
    /\ server.delay = 0 /\ server.delayed = <<>> /\ tele.high = page.pingId
    /\ InFlight(tele, up, down) /\ Turns(server.hidden, up, page.visible)
    /\ ~server.hidden => now <= server.heard + 2 * ReportEvery
    /\ page.visible =>
         Schedule(tele, page.pingAt, page.reportAt, Hears(up, server.heard, now), now)

PInv == prompt /\ page.live => Punctual
=============================================================================
