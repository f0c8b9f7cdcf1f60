---------------------------- MODULE TierMachine -----------------------------
(***************************************************************************)
(* The delivery tier of one connection: backend/internal/tier/machine.go   *)
(* driven by delivery/connection.go.  Telemetry reports, the visibility of *)
(* the tab, a forced tier, slow writes and silence move the automatic      *)
(* tier; the connection closes when the tab stays hidden.                  *)
(*                                                                         *)
(* A timer of the code is the time it started; here it is its age, counted *)
(* in units of time and capped where the code no longer tells ages apart.  *)
(* A report is the worse of its latency and jitter bands:                  *)
(*   1  good enough for full          2  not bad, not good for full        *)
(*   3  bad for full, good for degraded                                    *)
(*   4  bad for full                  5  bad enough for minimal            *)
(***************************************************************************)
EXTENDS Integers

CONSTANTS
    DowngradeDwell,     \* how long bad reports must last
    UpgradeDwell,       \* how long good reports must last
    MissingStep,        \* silence that costs one tier
    MissingMinimal,     \* silence that leads to minimal
    HiddenCloseAfter,   \* how long a hidden tab keeps its connection
    MaxWriteTime,       \* the write deadline
    Flush,              \* [tier -> units between two market flushes]
    MaxEnv              \* bound: tab flips, forced tiers, slow writes

ASSUME TierAssumption ==
    /\ {DowngradeDwell, UpgradeDwell, MissingStep, HiddenCloseAfter} \subseteq Nat \ {0}
    /\ MissingMinimal \in Nat /\ MissingStep < MissingMinimal
    /\ MaxWriteTime \in Nat /\ MaxEnv \in Nat
    /\ Flush \in [{"full", "degraded", "minimal"} -> Nat \ {0}]

VARIABLES
    auto,       \* the automatic tier
    forced,     \* the tier forced by the viewer, or "auto"
    hidden,     \* the tab is hidden
    silence,    \* age of lastVisibleReport
    missed,     \* missingDowngraded
    bad,        \* age of degradedBadSince
    worst,      \* age of minimalBadSince
    good,       \* age of upGoodSince
    told,       \* lastPolicy: the policy last written to the browser
    flushIn,    \* time left until nextFlush
    hiddenFor,  \* age of the connection's hiddenSince
    open,       \* the connection owner runs
    last,       \* history: the band of the last report, 0 for an invalid one
    calm,       \* history: age of the last event that speaks against a rise
    mild,       \* history: [3, 5 -> age of the last event that speaks against a fall]
    env         \* moves left to the tab, the viewer and the network

evidence == <<bad, worst, good>>
history == <<last, calm, mild>>
tierVars == <<auto, forced, hidden, silence, missed, bad, worst, good, told, flushIn,
              hiddenFor, open, last, calm, mild, env>>

Tier == {"full", "degraded", "minimal"}
Band == 1 .. 5
NoTimer == -1

Rank(t) == CASE t = "minimal" -> 0 [] t = "degraded" -> 1 [] t = "full" -> 2
Upgrade(t) == IF t = "minimal" THEN "degraded" ELSE "full"
Downgrade(t) == IF t = "full" THEN "degraded" ELSE "minimal"

\* upwardGood: good enough for the tier above.
UpwardGood(t, band) == \/ t = "minimal" /\ band <= 3
                       \/ t = "degraded" /\ band = 1

\* Mutant: a report that does not qualify leaves the timer alone.
Sticky(age, qualifies) == IF age = NoTimer /\ qualifies THEN 0 ELSE age

\* Mutant: every report that qualifies starts the timer again.
Restarted(age, qualifies) == IF qualifies THEN 0 ELSE NoTimer

\* updateTimer
Timer(age, qualifies) ==
    IF ~qualifies THEN NoTimer ELSE IF age = NoTimer THEN 0 ELSE age

\* A timer d units of time later.
Older(age, d, cap) ==
    IF age = NoTimer THEN NoTimer ELSE IF age + d > cap THEN cap ELSE age + d

\* hiddenSince, d units later.
HiddenTime(d) == Older(hiddenFor, d, HiddenCloseAfter)

\* Hidden overrides forced overrides automatic.
Effective(p) == IF p.hidden THEN "minimal"
                ELSE IF p.forced # "auto" THEN p.forced ELSE p.auto

Policy(changed) == [auto |-> auto', forced |-> forced', hidden |-> hidden',
                    changed |-> changed]

\* Mutant: every step writes the policy.
AlwaysAnnounce(left) ==
    /\ told' = Policy(auto' # auto)
    /\ flushIn' = Flush[Effective(told')]

\* maybeWritePolicy: a policy that differs from the last one, its reason
\* included, is written and restarts the flush timer.
Announce(left) ==
    /\ told' = Policy(auto' # auto)
    /\ flushIn' = IF told' = told THEN left ELSE Flush[Effective(told')]

ResetEvidence == bad' = NoTimer /\ worst' = NoTimer /\ good' = NoTimer
Disturbed == calm' = 0 /\ mild' = [b \in {3, 5} |-> 0]
EnvMove == env > 0 /\ env' = env - 1

TierInit ==
    /\ auto = "degraded" /\ forced = "auto" /\ hidden = FALSE
    /\ silence = 0 /\ missed = FALSE
    /\ bad = NoTimer /\ worst = NoTimer /\ good = NoTimer
    /\ told = [auto |-> "degraded", forced |-> "auto", hidden |-> FALSE, changed |-> FALSE]
    /\ flushIn = Flush["degraded"]
    /\ hiddenFor = NoTimer /\ open = TRUE
    /\ last = 0 /\ calm = 0 /\ mild = [b \in {3, 5} |-> 0]
    /\ env = MaxEnv

-----------------------------------------------------------------------------
(***************************************************************************)
(* A step without a report, d units after the one before.  `slow`: a       *)
(* market write of more than a second has just ended; it costs a tier and  *)
(* the evidence for a rise.  Then applyMissingReport: silence costs a tier *)
(* once, and longer silence leads to minimal.                              *)
(***************************************************************************)
Missing(d, slow) ==
    LET from == IF slow THEN Downgrade(auto) ELSE auto
        s == Older(silence, d, MissingMinimal)
        toMinimal == ~hidden /\ s >= MissingMinimal
        oneStep == ~hidden /\ s >= MissingStep /\ s < MissingMinimal /\ ~missed
    IN  /\ silence' = s
        /\ missed' = (missed \/ toMinimal \/ oneStep)
        /\ auto' = IF toMinimal THEN "minimal"
                   ELSE IF oneStep THEN Downgrade(from) ELSE from
        /\ IF toMinimal \/ oneStep
           THEN ResetEvidence /\ Disturbed
           ELSE /\ bad' = Older(bad, d, DowngradeDwell)
                /\ worst' = Older(worst, d, DowngradeDwell)
                /\ good' = IF slow THEN NoTimer ELSE Older(good, d, UpgradeDwell)
                /\ calm' = IF slow THEN 0 ELSE Older(calm, d, UpgradeDwell)
                /\ mild' = [b \in {3, 5} |-> Older(mild[b], d, DowngradeDwell)]

\* onTick up to the flush: time passes, silence is judged, and a connection
\* hidden for too long closes.
Tick ==
    /\ open /\ flushIn > 0
    /\ UNCHANGED <<forced, hidden, last, env>>
    /\ Missing(1, FALSE)
    /\ Announce(flushIn - 1)
    /\ hiddenFor' = HiddenTime(1)
    /\ open' = (hiddenFor' < HiddenCloseAfter)

\* The market flush at the end of onTick.
FlushMarket ==
    /\ open /\ flushIn = 0
    /\ flushIn' = Flush[Effective(told)]
    /\ UNCHANGED <<auto, forced, hidden, silence, missed, evidence, told, hiddenFor, open,
                   history, env>>

\* A flush whose write takes d > 1 units: the policy steps with backpressure,
\* and the next flush is still counted from the beginning of this one.
SlowFlush(d) ==
    /\ open /\ flushIn = 0
    /\ EnvMove
    /\ UNCHANGED <<forced, hidden, open, last>>
    /\ Missing(d, TRUE)
    /\ told' = Policy(auto' # auto)
    /\ flushIn' = IF Flush[Effective(told')] > d THEN Flush[Effective(told')] - d ELSE 0
    /\ hiddenFor' = HiddenTime(d)

\* A subscription whose seed takes d > 1 units to write: the policy steps with
\* backpressure here too, at any distance from the next flush.
SlowSeed(d) ==
    /\ open
    /\ EnvMove
    /\ UNCHANGED <<forced, hidden, open, last>>
    /\ Missing(d, TRUE)
    /\ Announce(IF flushIn > d THEN flushIn - d ELSE 0)
    /\ hiddenFor' = HiddenTime(d)

-----------------------------------------------------------------------------
(* The controls. *)

\* A valid report.  Only a visible tab's report ends the silence; the worst
\* confirmed boundary decides, and then the way up.
Report(band) ==
    LET b == Timer(bad, band >= 3)
        w == Timer(worst, band = 5)
        g == Timer(good, UpwardGood(auto, band))
        toMinimal == w >= DowngradeDwell /\ auto # "minimal"
        toDegraded == ~toMinimal /\ b >= DowngradeDwell /\ auto = "full"
        rise == ~toMinimal /\ ~toDegraded /\ g >= UpgradeDwell
    IN  /\ open
        /\ UNCHANGED <<forced, hidden, hiddenFor, open, env>>
        /\ silence' = IF hidden THEN silence ELSE 0
        /\ missed' = (hidden /\ missed)
        /\ auto' = IF toMinimal THEN "minimal"
                   ELSE IF toDegraded THEN "degraded"
                   ELSE IF rise THEN Upgrade(auto) ELSE auto
        /\ IF toMinimal \/ toDegraded \/ rise
           THEN ResetEvidence
           ELSE bad' = b /\ worst' = w /\ good' = g
        /\ Announce(flushIn)
        /\ last' = band
        /\ calm' = IF auto' # auto \/ ~UpwardGood(auto, band) THEN 0 ELSE calm
        /\ mild' = [k \in {3, 5} |-> IF auto' # auto \/ band < k THEN 0 ELSE mild[k]]

\* A report that is not valid clears the evidence and ends no silence.
InvalidReport ==
    /\ open
    /\ UNCHANGED <<auto, forced, hidden, silence, missed, hiddenFor, open, env>>
    /\ ResetEvidence /\ Disturbed
    /\ Announce(flushIn)
    /\ last' = 0

\* The tab is hidden.
Hide ==
    /\ open /\ ~hidden
    /\ EnvMove
    /\ UNCHANGED <<auto, forced, silence, missed, open, last>>
    /\ hidden' = TRUE /\ hiddenFor' = 0
    /\ ResetEvidence /\ Disturbed
    /\ Announce(flushIn)

\* Mutant: a punished silence is not re-armed.
ShowUnarmed ==
    /\ open /\ hidden
    /\ UNCHANGED <<auto, forced, open, last, env, missed>>
    /\ hidden' = FALSE /\ hiddenFor' = NoTimer /\ silence' = 0
    /\ ResetEvidence /\ Disturbed /\ Announce(flushIn)

\* The tab is visible again: fresh evidence and a fresh report deadline.
Show ==
    /\ open /\ hidden
    /\ UNCHANGED <<auto, forced, open, last, env>>
    /\ hidden' = FALSE /\ hiddenFor' = NoTimer
    /\ silence' = 0 /\ missed' = FALSE
    /\ ResetEvidence /\ Disturbed
    /\ Announce(flushIn)

\* The viewer's debug control forces a tier, or "auto" again.
ForceTier(t) ==
    /\ open
    /\ EnvMove
    /\ UNCHANGED <<auto, hidden, silence, missed, evidence, hiddenFor, open, history>>
    /\ forced' = t
    /\ Announce(flushIn)

TierNext ==
    \/ Tick
    \/ FlushMarket
    \/ \E d \in 2 .. MaxWriteTime : SlowFlush(d) \/ SlowSeed(d)
    \/ \E band \in Band : Report(band)
    \/ InvalidReport
    \/ Hide
    \/ Show
    \/ \E t \in Tier \cup {"auto"} : ForceTier(t)

\* The connection's ticker runs; reports, the user and the network need not.
TierSpec == TierInit /\ [][TierNext]_tierVars /\ WF_tierVars(Tick) /\ WF_tierVars(FlushMarket)

-----------------------------------------------------------------------------

Age(cap) == {NoTimer} \cup 0 .. cap

\* Every variable has its type; the two records of visibility, the machine's
\* and the connection's, agree; minimal-bad evidence is degraded-bad evidence.
TierTypeOK ==
    /\ auto \in Tier /\ forced \in Tier \cup {"auto"} /\ hidden \in BOOLEAN
    /\ silence \in 0 .. MissingMinimal /\ missed \in BOOLEAN
    /\ bad \in Age(DowngradeDwell) /\ worst \in Age(DowngradeDwell)
    /\ good \in Age(UpgradeDwell) /\ worst <= bad
    /\ told \in [auto : Tier, forced : Tier \cup {"auto"}, hidden : BOOLEAN, changed : BOOLEAN]
    /\ flushIn \in Nat
    /\ hiddenFor \in Age(HiddenCloseAfter) /\ (hidden <=> hiddenFor # NoTimer)
    /\ open \in BOOLEAN
    /\ last \in 0 .. 5 /\ calm \in 0 .. UpgradeDwell
    /\ mild \in [{3, 5} -> 0 .. DowngradeDwell]
    /\ env \in 0 .. MaxEnv

\* Silence caps the automatic tier of a visible tab: after MissingStep it is
\* not full, after MissingMinimal it is minimal, whatever was measured or
\* written slowly before, and whatever invalid reports arrive.  The browser has
\* been told that tier and is served at it, unless the viewer forces another:
\* a forced tier overrides any silence (machine.go:204-208).
SilenceCapsTier ==
    ~hidden => /\ silence >= MissingStep => auto # "full"
               /\ silence >= MissingMinimal => auto = "minimal"
               /\ forced = "auto" => Effective(told) = auto

\* The inductive invariant behind SilenceCapsTier and Hysteresis: a punished
\* silence is remembered and keeps the tier down, the policy on record is the
\* machine's, and no evidence is older than the last event that speaks against
\* it.
TInv ==
    /\ TierTypeOK
    /\ ~hidden => /\ silence >= MissingStep => missed
                  /\ missed => auto # "full"
                  /\ silence >= MissingMinimal => auto = "minimal"
    /\ told.auto = auto /\ told.forced = forced /\ told.hidden = hidden
    /\ good <= calm /\ bad <= mild[3] /\ worst <= mild[5]

\* A report raises the tier by one and only after UpgradeDwell without anything
\* that speaks against it: a bad or invalid report, a change of tier, a slow
\* write, a flip of the tab, a punished silence.  A report, of a visible or of a
\* hidden tab, lowers the tier only after DowngradeDwell without a report milder
\* than the new tier's boundary.  (A step that ends in silence = 0 or happens
\* in a hidden tab is no punished silence; one that spends env is a slow write.)
Hysteresis ==
    [][/\ Rank(auto') > Rank(auto) =>
            calm >= UpgradeDwell /\ Rank(auto') = Rank(auto) + 1
       /\ (Rank(auto') < Rank(auto) /\ last' # 0 /\ (hidden \/ silence' = 0) /\ env' = env) =>
            mild[IF auto' = "minimal" THEN 5 ELSE 3] >= DowngradeDwell]_tierVars

\* However often the policy changes, the market is flushed again and again.
FlushesContinue == []<>(~open \/ flushIn = 0)

\* A visible connection whose reports keep coming and stay good ends at full.
GoodLinkEndsFull ==
    <>[](open /\ ~hidden /\ last = 1 /\ silence < MissingStep) => <>[](auto = "full")

=============================================================================
