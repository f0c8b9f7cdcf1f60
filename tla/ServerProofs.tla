---------------------------- MODULE ServerProofs ----------------------------
(***************************************************************************)
(* Theorems about three parts of the server that have their states to      *)
(* themselves: the tier of a connection (TierMachine), the goroutine that  *)
(* owns the market (MarketOwner), and the connections against the shutdown *)
(* (Connections).                                                          *)
(***************************************************************************)
EXTENDS TierMachine, MarketOwner, Connections, SequenceTheorems, FiniteSetTheorems, TLAPS

-----------------------------------------------------------------------------
(* TierMachine for all dwell times: its types, the cap that silence puts on  *)
(* the tier, and the hysteresis of the reports.                              *)

USE DEF NoTimer

\* The age of a timer stays in its range.
LEMMA OlderType ==
    ASSUME NEW cap \in Nat, NEW age \in Age(cap), NEW d \in Nat
    PROVE  /\ Older(age, d, cap) \in Age(cap)
           /\ (Older(age, d, cap) = NoTimer) = (age = NoTimer)
           /\ age \in 0 .. cap => Older(age, d, cap) \in 0 .. cap
           /\ age \in 0 .. cap => Older(age, d, cap) >= age
BY DEF Older, Age

\* Aging keeps two timers in their order.
LEMMA OlderMono ==
    ASSUME NEW cap \in Nat, NEW x \in Age(cap), NEW y \in Age(cap), NEW d \in Nat,
           x <= y
    PROVE  Older(x, d, cap) <= Older(y, d, cap)
BY DEF Older, Age

\* A timer that is updated keeps its range.
LEMMA TimerType ==
    ASSUME NEW cap \in Nat, NEW age \in Age(cap), NEW q \in BOOLEAN
    PROVE  /\ Timer(age, q) \in Age(cap)
           /\ ~q => Timer(age, q) = NoTimer
           /\ \A y \in 0 .. cap : age <= y => Timer(age, q) <= y
BY DEF Timer, Age

\* Tiers move within the three tiers; a downgrade never reaches full.
LEMMA TierMoves ==
    ASSUME NEW t \in Tier
    PROVE  /\ Upgrade(t) \in Tier /\ Downgrade(t) \in Tier
           /\ Downgrade(t) # "full"
           /\ t = "minimal" => Downgrade(t) = "minimal"
           /\ t # "full" => Rank(Upgrade(t)) = Rank(t) + 1
           /\ Rank(Downgrade(t)) <= Rank(t)
           /\ Rank(t) \in 0 .. 2
           /\ Rank(t) = 0 <=> t = "minimal"
BY DEF Tier, Upgrade, Downgrade, Rank

PolicyType == [auto : Tier, forced : Tier \cup {"auto"}, hidden : BOOLEAN, changed : BOOLEAN]

\* The flush timer and the policy on record keep their types.
LEMMA AnnounceType ==
    ASSUME auto' \in Tier, forced' \in Tier \cup {"auto"}, hidden' \in BOOLEAN,
           NEW left \in Nat, Announce(left)
    PROVE  /\ told' \in PolicyType /\ flushIn' \in Nat
           /\ told'.auto = auto' /\ told'.forced = forced' /\ told'.hidden = hidden'
<1>1. /\ told' \in PolicyType
      /\ told'.auto = auto' /\ told'.forced = forced' /\ told'.hidden = hidden'
  BY DEF Announce, Policy, PolicyType
<1>2. Flush[Effective(told')] \in Nat
  BY <1>1, TierAssumption DEF PolicyType, Effective, Tier
<1> QED
  BY <1>1, <1>2 DEF Announce

-----------------------------------------------------------------------------
(* The invariant in two halves: the tier machine and the connection. *)

Machine ==
    /\ auto \in Tier
    /\ silence \in 0 .. MissingMinimal /\ missed \in BOOLEAN
    /\ bad \in Age(DowngradeDwell) /\ worst \in Age(DowngradeDwell)
    /\ good \in Age(UpgradeDwell) /\ worst <= bad
    /\ calm \in 0 .. UpgradeDwell
    /\ mild \in [{3, 5} -> 0 .. DowngradeDwell]
    /\ ~hidden => /\ silence >= MissingStep => missed
                  /\ missed => auto # "full"
                  /\ silence >= MissingMinimal => auto = "minimal"
    /\ good <= calm /\ bad <= mild[3] /\ worst <= mild[5]

Shell ==
    /\ forced \in Tier \cup {"auto"} /\ hidden \in BOOLEAN
    /\ told \in PolicyType /\ flushIn \in Nat
    /\ hiddenFor \in Age(HiddenCloseAfter) /\ (hidden <=> hiddenFor # NoTimer)
    /\ open \in BOOLEAN /\ last \in 0 .. 5 /\ env \in 0 .. MaxEnv
    /\ told.auto = auto /\ told.forced = forced /\ told.hidden = hidden

LEMMA Halves == TInv <=> Machine /\ Shell
BY DEF TInv, TierTypeOK, Machine, Shell, PolicyType

\* Cleared evidence is in order whatever the ages of the objections.
LEMMA Cleared ==
    ASSUME ResetEvidence, Disturbed
    PROVE  /\ bad' \in Age(DowngradeDwell) /\ worst' \in Age(DowngradeDwell)
           /\ good' \in Age(UpgradeDwell) /\ worst' <= bad'
           /\ calm' \in 0 .. UpgradeDwell
           /\ mild' \in [{3, 5} -> 0 .. DowngradeDwell]
           /\ good' <= calm' /\ bad' <= mild'[3] /\ worst' <= mild'[5]
BY TierAssumption DEF ResetEvidence, Disturbed, Age

\* A step without a report keeps the machine right and never raises the tier.
LEMMA MissingRight ==
    ASSUME Machine, hidden \in BOOLEAN, hidden' = hidden,
           NEW d \in Nat, NEW slow \in BOOLEAN, Missing(d, slow)
    PROVE  Machine' /\ Rank(auto') <= Rank(auto)
<1> DEFINE from == IF slow THEN Downgrade(auto) ELSE auto
           s == Older(silence, d, MissingMinimal)
           toMinimal == ~hidden /\ s >= MissingMinimal
           oneStep == ~hidden /\ s >= MissingStep /\ s < MissingMinimal /\ ~missed
<1>0. /\ auto \in Tier /\ silence \in 0 .. MissingMinimal /\ missed \in BOOLEAN
      /\ MissingMinimal \in Nat /\ MissingStep \in Nat /\ MissingStep < MissingMinimal
      /\ DowngradeDwell \in Nat /\ UpgradeDwell \in Nat
  BY TierAssumption DEF Machine
<1>1. /\ from \in Tier /\ Rank(from) <= Rank(auto)
      /\ auto # "full" => from # "full"
      /\ auto = "minimal" => from = "minimal"
  <2>1. CASE slow
    BY <1>0, <2>1, TierMoves DEF Tier
  <2>2. CASE ~slow
    BY <1>0, <2>2, TierMoves DEF Tier
  <2> QED BY <2>1, <2>2
<1>2. /\ Downgrade(from) \in Tier /\ Downgrade(from) # "full"
      /\ Rank(Downgrade(from)) <= Rank(auto)
  <2>1. Rank(Downgrade(from)) <= Rank(from) /\ Rank(Downgrade(from)) \in 0 .. 2
    BY <1>1, TierMoves
  <2> HIDE DEF from
  <2>2. Rank(from) \in 0 .. 2 /\ Rank(auto) \in 0 .. 2
    BY <1>0, <1>1, TierMoves
  <2> QED BY <1>1, <2>1, <2>2, TierMoves
<1>3. s \in 0 .. MissingMinimal /\ s >= silence
  BY <1>0, OlderType DEF Age
<1>4. /\ silence' = s
      /\ missed' = (missed \/ toMinimal \/ oneStep)
      /\ auto' = IF toMinimal THEN "minimal"
                 ELSE IF oneStep THEN Downgrade(from) ELSE from
  BY DEF Missing
<1>5. /\ bad' \in Age(DowngradeDwell) /\ worst' \in Age(DowngradeDwell)
      /\ good' \in Age(UpgradeDwell) /\ worst' <= bad'
      /\ calm' \in 0 .. UpgradeDwell
      /\ mild' \in [{3, 5} -> 0 .. DowngradeDwell]
      /\ good' <= calm' /\ bad' <= mild'[3] /\ worst' <= mild'[5]
  <2>1. CASE toMinimal \/ oneStep
    BY <2>1, Cleared DEF Missing
  <2>2. CASE ~(toMinimal \/ oneStep)
    <3>1. /\ bad' = Older(bad, d, DowngradeDwell)
          /\ worst' = Older(worst, d, DowngradeDwell)
          /\ good' = IF slow THEN NoTimer ELSE Older(good, d, UpgradeDwell)
          /\ calm' = IF slow THEN 0 ELSE Older(calm, d, UpgradeDwell)
          /\ mild' = [b \in {3, 5} |-> Older(mild[b], d, DowngradeDwell)]
      BY <2>2 DEF Missing
    <3>2. /\ bad \in Age(DowngradeDwell) /\ worst \in Age(DowngradeDwell)
          /\ good \in Age(UpgradeDwell) /\ worst <= bad
          /\ calm \in 0 .. UpgradeDwell
          /\ mild[3] \in 0 .. DowngradeDwell /\ mild[5] \in 0 .. DowngradeDwell
          /\ good <= calm /\ bad <= mild[3] /\ worst <= mild[5]
      BY DEF Machine
    <3>3. calm \in Age(UpgradeDwell) /\ mild[3] \in Age(DowngradeDwell)
          /\ mild[5] \in Age(DowngradeDwell)
      BY <3>2 DEF Age
    <3>4. /\ Older(bad, d, DowngradeDwell) \in Age(DowngradeDwell)
          /\ Older(worst, d, DowngradeDwell) \in Age(DowngradeDwell)
          /\ Older(mild[3], d, DowngradeDwell) \in 0 .. DowngradeDwell
          /\ Older(mild[5], d, DowngradeDwell) \in 0 .. DowngradeDwell
          /\ Older(worst, d, DowngradeDwell) <= Older(bad, d, DowngradeDwell)
          /\ Older(bad, d, DowngradeDwell) <= Older(mild[3], d, DowngradeDwell)
          /\ Older(worst, d, DowngradeDwell) <= Older(mild[5], d, DowngradeDwell)
      BY <1>0, <3>2, <3>3, OlderType, OlderMono
    <3>5. /\ good' \in Age(UpgradeDwell) /\ calm' \in 0 .. UpgradeDwell /\ good' <= calm'
      <4>1. CASE slow
        BY <1>0, <3>1, <4>1 DEF Age
      <4>2. CASE ~slow
        BY <1>0, <3>1, <3>2, <3>3, <4>2, OlderType, OlderMono
      <4> QED BY <4>1, <4>2
    <3>6. /\ mild' \in [{3, 5} -> 0 .. DowngradeDwell]
          /\ mild'[3] = Older(mild[3], d, DowngradeDwell)
          /\ mild'[5] = Older(mild[5], d, DowngradeDwell)
      BY <3>1, <3>4
    <3> QED BY <3>1, <3>4, <3>5, <3>6
  <2> QED BY <2>1, <2>2
<1>6. ~hidden => /\ silence >= MissingStep => missed
                 /\ missed => auto # "full"
                 /\ silence >= MissingMinimal => auto = "minimal"
  BY DEF Machine
<1> HIDE DEF from, s
<1>7. auto' \in Tier /\ missed' \in BOOLEAN /\ silence' \in 0 .. MissingMinimal
  BY <1>0, <1>1, <1>2, <1>3, <1>4 DEF Tier
<1>8. ~hidden' => /\ silence' >= MissingStep => missed'
                  /\ missed' => auto' # "full"
                  /\ silence' >= MissingMinimal => auto' = "minimal"
  <2> HIDE DEF toMinimal, oneStep
  <2>1. /\ toMinimal <=> (~hidden /\ s >= MissingMinimal)
        /\ oneStep <=> (~hidden /\ s >= MissingStep /\ s < MissingMinimal /\ ~missed)
    BY DEF toMinimal, oneStep
  <2>2. CASE hidden
    BY <2>2
  <2>3. CASE ~hidden /\ toMinimal
    <3>1. auto' = "minimal" /\ missed'
      BY <1>4, <2>3
    <3> QED BY <3>1
  <2>4. CASE ~hidden /\ ~toMinimal /\ oneStep
    <3>1. auto' # "full" /\ silence' < MissingMinimal /\ missed'
      BY <1>2, <1>4, <2>1, <2>4
    <3> QED BY <1>0, <1>3, <1>4, <3>1
  <2>5. CASE ~hidden /\ ~toMinimal /\ ~oneStep
    <3>1. auto' = from /\ silence' = s /\ (missed' <=> missed)
      BY <1>4, <2>5
    <3>2. s < MissingMinimal
      BY <1>0, <1>3, <2>1, <2>5
    <3>3. s >= MissingStep => missed
      BY <1>0, <1>3, <2>1, <2>5, <3>2
    <3>4. missed => from # "full"
      BY <1>1, <1>6, <2>5
    <3> QED BY <1>0, <1>3, <3>1, <3>2, <3>3, <3>4
  <2> QED BY <2>2, <2>3, <2>4, <2>5
<1>9. Rank(auto') <= Rank(auto)
  <2>1. Rank("minimal") = 0 /\ Rank(auto) \in 0 .. 2
    BY <1>0, TierMoves DEF Tier
  <2> QED BY <1>1, <1>2, <1>4, <2>1
<1>10. Machine'
  <2>1. /\ auto' \in Tier
        /\ silence' \in 0 .. MissingMinimal /\ missed' \in BOOLEAN
    BY <1>7
  <2>2. /\ bad' \in Age(DowngradeDwell) /\ worst' \in Age(DowngradeDwell)
        /\ good' \in Age(UpgradeDwell) /\ worst' <= bad'
        /\ calm' \in 0 .. UpgradeDwell
        /\ mild' \in [{3, 5} -> 0 .. DowngradeDwell]
    BY <1>5
  <2>3. good' <= calm' /\ bad' <= mild'[3] /\ worst' <= mild'[5]
    BY <1>5
  <2>4. (~hidden => /\ silence >= MissingStep => missed
                    /\ missed => auto # "full"
                    /\ silence >= MissingMinimal => auto = "minimal")'
    BY <1>8
  <2> QED BY <2>1, <2>2, <2>3, <2>4 DEF Machine
<1> QED
  BY <1>9, <1>10

\* A report keeps the machine right, raises the tier by one after the dwell of
\* good evidence only, and lowers it after the dwell of bad evidence only.
LEMMA ReportRight ==
    ASSUME Machine, hidden \in BOOLEAN, NEW band \in Band, Report(band)
    PROVE  /\ Machine'
           /\ Rank(auto') > Rank(auto) =>
                 calm >= UpgradeDwell /\ Rank(auto') = Rank(auto) + 1
           /\ Rank(auto') < Rank(auto) =>
                 mild[IF auto' = "minimal" THEN 5 ELSE 3] >= DowngradeDwell
<1> DEFINE b == Timer(bad, band >= 3)
           w == Timer(worst, band = 5)
           up == UpwardGood(auto, band)
           g == Timer(good, up)
           toMinimal == w >= DowngradeDwell /\ auto # "minimal"
           toDegraded == ~toMinimal /\ b >= DowngradeDwell /\ auto = "full"
           rise == ~toMinimal /\ ~toDegraded /\ g >= UpgradeDwell
<1>0. /\ auto \in Tier /\ silence \in 0 .. MissingMinimal /\ missed \in BOOLEAN
      /\ MissingMinimal \in Nat /\ MissingStep \in Nat \ {0} /\ MissingStep < MissingMinimal
      /\ DowngradeDwell \in Nat \ {0} /\ UpgradeDwell \in Nat \ {0} /\ band \in Int
  BY TierAssumption DEF Machine, Band
<1>1. /\ bad \in Age(DowngradeDwell) /\ worst \in Age(DowngradeDwell)
      /\ good \in Age(UpgradeDwell) /\ worst <= bad
      /\ calm \in 0 .. UpgradeDwell
      /\ mild \in [{3, 5} -> 0 .. DowngradeDwell]
      /\ mild[3] \in 0 .. DowngradeDwell /\ mild[5] \in 0 .. DowngradeDwell
      /\ good <= calm /\ bad <= mild[3] /\ worst <= mild[5]
  BY DEF Machine
<1>2. up \in BOOLEAN /\ (band >= 3) \in BOOLEAN /\ (band = 5) \in BOOLEAN
  BY DEF UpwardGood
<1>3. /\ b \in Age(DowngradeDwell) /\ b <= mild[3]
      /\ band < 3 => b = NoTimer
  BY <1>0, <1>1 DEF Timer, Age
<1>4. /\ w \in Age(DowngradeDwell) /\ w <= mild[5]
      /\ band < 5 => w = NoTimer
  BY <1>0, <1>1 DEF Timer, Age
<1>5. /\ g \in Age(UpgradeDwell) /\ g <= calm
      /\ ~up => g = NoTimer
  BY <1>0, <1>1, <1>2, TimerType
<1>6. w <= b
  <2>1. CASE band = 5
    BY <1>0, <1>1, <2>1 DEF Timer, Age
  <2>2. CASE band # 5
    BY <1>0, <1>1, <2>2 DEF Timer, Age
  <2> QED BY <2>1, <2>2
<1>7. /\ silence' = (IF hidden THEN silence ELSE 0)
      /\ missed' = (hidden /\ missed)
      /\ hidden' = hidden
      /\ auto' = IF toMinimal THEN "minimal"
                 ELSE IF toDegraded THEN "degraded"
                 ELSE IF rise THEN Upgrade(auto) ELSE auto
      /\ IF toMinimal \/ toDegraded \/ rise
         THEN ResetEvidence
         ELSE bad' = b /\ worst' = w /\ good' = g
      /\ calm' = IF auto' # auto \/ ~up THEN 0 ELSE calm
      /\ mild' = [k \in {3, 5} |-> IF auto' # auto \/ band < k THEN 0 ELSE mild[k]]
  BY DEF Report
<1>8. auto = "full" => ~up
  BY DEF UpwardGood
<1>9. rise => auto # "full"
  <2>1. g >= UpgradeDwell => up
    BY <1>0, <1>2, <1>5
  <2> QED BY <1>8, <2>1
<1> HIDE DEF b, w, g, up
<1>10. /\ toMinimal => auto' = "minimal" /\ auto' # auto
       /\ toDegraded => auto' = "degraded" /\ auto' # auto
       /\ rise => auto' = Upgrade(auto) /\ auto' # auto
       /\ ~(toMinimal \/ toDegraded \/ rise) => auto' = auto
  <2>1. toMinimal => auto' = "minimal" /\ auto' # auto
    BY <1>7
  <2>2. toDegraded => auto' = "degraded" /\ auto' # auto
    BY <1>7
  <2>3. rise => auto' = Upgrade(auto)
    BY <1>7
  <2>4. rise => Upgrade(auto) # auto
    BY <1>0, <1>9 DEF Upgrade, Tier
  <2>5. ~(toMinimal \/ toDegraded \/ rise) => auto' = auto
    BY <1>7
  <2> QED BY <2>1, <2>2, <2>3, <2>4, <2>5
<1>11. auto' \in Tier
  BY <1>0, <1>7, TierMoves DEF Tier
<1>12. /\ mild' \in [{3, 5} -> 0 .. DowngradeDwell]
       /\ mild'[3] = IF auto' # auto \/ band < 3 THEN 0 ELSE mild[3]
       /\ mild'[5] = IF auto' # auto \/ band < 5 THEN 0 ELSE mild[5]
  BY <1>0, <1>1, <1>7
<1>13. calm' \in 0 .. UpgradeDwell
  BY <1>0, <1>1, <1>7
<1>14. /\ bad' \in Age(DowngradeDwell) /\ worst' \in Age(DowngradeDwell)
       /\ good' \in Age(UpgradeDwell) /\ worst' <= bad'
       /\ good' <= calm' /\ bad' <= mild'[3] /\ worst' <= mild'[5]
  <2>1. CASE toMinimal \/ toDegraded \/ rise
    <3>1. bad' = NoTimer /\ worst' = NoTimer /\ good' = NoTimer
      BY <1>7, <2>1 DEF ResetEvidence
    <3> QED BY <1>0, <1>12, <1>13, <3>1 DEF Age
  <2>2. CASE ~(toMinimal \/ toDegraded \/ rise)
    <3>1. bad' = b /\ worst' = w /\ good' = g /\ auto' = auto
      BY <1>7, <1>10, <2>2
    <3>2. good' <= calm'
      BY <1>0, <1>1, <1>5, <1>7, <3>1
    <3>3. bad' <= mild'[3]
      BY <1>0, <1>1, <1>3, <1>12, <3>1
    <3>4. worst' <= mild'[5]
      BY <1>0, <1>1, <1>4, <1>12, <3>1
    <3> QED BY <1>3, <1>4, <1>5, <1>6, <3>1, <3>2, <3>3, <3>4
  <2> QED BY <2>1, <2>2
<1>15. /\ silence' \in 0 .. MissingMinimal /\ missed' \in BOOLEAN
  BY <1>0, <1>7
<1>16. (~hidden => /\ silence >= MissingStep => missed
                   /\ missed => auto # "full"
                   /\ silence >= MissingMinimal => auto = "minimal")'
  BY <1>0, <1>7
<1>17. Machine'
  <2>1. /\ auto' \in Tier
        /\ silence' \in 0 .. MissingMinimal /\ missed' \in BOOLEAN
    BY <1>11, <1>15
  <2>2. /\ bad' \in Age(DowngradeDwell) /\ worst' \in Age(DowngradeDwell)
        /\ good' \in Age(UpgradeDwell) /\ worst' <= bad'
        /\ calm' \in 0 .. UpgradeDwell
        /\ mild' \in [{3, 5} -> 0 .. DowngradeDwell]
    BY <1>12, <1>13, <1>14
  <2> QED BY <1>14, <1>16, <2>1, <2>2 DEF Machine
<1>18. Rank(auto') > Rank(auto) => calm >= UpgradeDwell /\ Rank(auto') = Rank(auto) + 1
  <2>1. CASE rise
    <3>1. calm >= UpgradeDwell
      BY <1>0, <1>1, <1>5, <2>1 DEF Age
    <3> QED BY <1>0, <1>9, <1>10, <2>1, <3>1, TierMoves
  <2>2. CASE toMinimal \/ toDegraded
    <3>1. Rank(auto') <= Rank(auto)
      BY <1>0, <1>10, <2>2 DEF Rank, Tier
    <3>2. Rank(auto) \in 0 .. 2 /\ Rank(auto') \in 0 .. 2
      BY <1>0, <1>11, TierMoves
    <3> QED BY <3>1, <3>2
  <2>3. CASE ~(toMinimal \/ toDegraded \/ rise)
    <3>1. Rank(auto') = Rank(auto) /\ Rank(auto) \in 0 .. 2
      BY <1>0, <1>10, <2>3, TierMoves
    <3> QED BY <3>1
  <2> QED BY <2>1, <2>2, <2>3
<1>19. Rank(auto') < Rank(auto) => mild[IF auto' = "minimal" THEN 5 ELSE 3] >= DowngradeDwell
  <2>1. CASE toMinimal
    <3>1. mild[5] >= DowngradeDwell
      BY <1>0, <1>1, <1>4, <2>1 DEF Age
    <3> QED BY <1>10, <2>1, <3>1
  <2>2. CASE toDegraded
    <3>1. mild[3] >= DowngradeDwell
      BY <1>0, <1>1, <1>3, <2>2 DEF Age
    <3> QED BY <1>10, <2>2, <3>1
  <2>3. CASE rise
    <3>1. Rank(auto') = Rank(auto) + 1 /\ Rank(auto) \in 0 .. 2
      BY <1>0, <1>9, <1>10, <2>3, TierMoves
    <3> QED BY <3>1
  <2>4. CASE ~(toMinimal \/ toDegraded \/ rise)
    <3>1. Rank(auto') = Rank(auto) /\ Rank(auto) \in 0 .. 2
      BY <1>0, <1>10, <2>4, TierMoves
    <3> QED BY <3>1
  <2> QED BY <2>1, <2>2, <2>3, <2>4
<1> QED
  BY <1>17, <1>18, <1>19

-----------------------------------------------------------------------------

\* The invariant holds initially.
THEOREM TInit == TierInit => TInv
<1> SUFFICES ASSUME TierInit PROVE Machine /\ Shell
  BY Halves
<1>0. /\ DowngradeDwell \in Nat /\ UpgradeDwell \in Nat /\ MissingMinimal \in Nat
      /\ MissingStep \in Nat /\ MissingStep > 0 /\ MissingMinimal > 0
      /\ HiddenCloseAfter \in Nat /\ MaxEnv \in Nat /\ Flush["degraded"] \in Nat
  BY TierAssumption
<1>1. Machine
  <2>1. mild \in [{3, 5} -> 0 .. DowngradeDwell] /\ mild[3] = 0 /\ mild[5] = 0
    BY <1>0 DEF TierInit
  <2>2. calm \in 0 .. UpgradeDwell /\ silence \in 0 .. MissingMinimal
    BY <1>0 DEF TierInit
  <2>3. /\ auto = "degraded" /\ missed = FALSE
        /\ bad = NoTimer /\ worst = NoTimer /\ good = NoTimer /\ calm = 0
    BY DEF TierInit
  <2>4. auto \in Tier /\ missed \in BOOLEAN /\ ~missed /\ silence < MissingStep
        /\ silence < MissingMinimal
    BY <1>0, <2>3 DEF Tier, TierInit
  <2>5. bad \in Age(DowngradeDwell) /\ worst \in Age(DowngradeDwell) /\ good \in Age(UpgradeDwell)
    BY <2>3 DEF Age
  <2>6. good <= calm /\ worst <= bad /\ bad <= mild[3] /\ worst <= mild[5]
    BY <2>1, <2>3
  <2> QED BY <1>0, <2>1, <2>2, <2>4, <2>5, <2>6 DEF Machine
<1>2. Shell
  <2>1. told \in PolicyType
    BY DEF TierInit, PolicyType, Tier
  <2>2. env \in 0 .. MaxEnv /\ flushIn \in Nat
    BY <1>0 DEF TierInit
  <2>3. hiddenFor = NoTimer /\ hidden = FALSE /\ forced = "auto" /\ open = TRUE /\ last = 0
    BY DEF TierInit
  <2>4. hiddenFor \in Age(HiddenCloseAfter) /\ (hidden <=> hiddenFor # NoTimer)
    BY <2>3 DEF Age
  <2>5. forced \in Tier \cup {"auto"} /\ last \in 0 .. 5
    BY <2>3
  <2>6. hidden \in BOOLEAN /\ open \in BOOLEAN
    BY <2>3, Zenon
  <2>7. told.auto = auto /\ told.forced = forced /\ told.hidden = hidden
    BY DEF TierInit
  <2> QED BY <2>1, <2>2, <2>4, <2>5, <2>6, <2>7 DEF Shell
<1> QED BY <1>1, <1>2

\* hiddenSince keeps its type and its meaning as time passes.
LEMMA HiddenTimeType ==
    ASSUME Shell, NEW d \in Nat
    PROVE  HiddenTime(d) \in Age(HiddenCloseAfter) /\ (hidden <=> HiddenTime(d) # NoTimer)
<1>1. HiddenCloseAfter \in Nat
  BY TierAssumption
<1> QED BY <1>1, OlderType DEF Shell, HiddenTime

\* What the connection's half of the invariant needs of a step.
LEMMA ShellStep ==
    ASSUME Shell, auto' \in Tier, forced' \in Tier \cup {"auto"},
           hiddenFor' \in Age(HiddenCloseAfter), hidden' \in BOOLEAN,
           (hidden' <=> hiddenFor' # NoTimer), open' \in BOOLEAN, last' \in 0 .. 5,
           env' \in 0 .. MaxEnv, NEW left \in Nat, Announce(left)
    PROVE  Shell'
BY AnnounceType DEF Shell

\* A move of the environment leaves its count in range.
LEMMA EnvType == ASSUME Shell, EnvMove PROVE env' \in 0 .. MaxEnv /\ env' # env
BY TierAssumption DEF Shell, EnvMove

\* Steps that clear the evidence and leave the tier alone: the machine stays
\* right if the silence is left alone in a tab that was already visible, or
\* starts afresh, or stops to count.
LEMMA ClearedRight ==
    ASSUME Machine, UNCHANGED auto, ResetEvidence, Disturbed, hidden \in BOOLEAN,
           \/ UNCHANGED <<silence, missed, hidden>>
           \/ silence' = 0 /\ missed' = FALSE
           \/ UNCHANGED <<silence, missed>> /\ hidden'
    PROVE  Machine'
<1>1. /\ bad' \in Age(DowngradeDwell) /\ worst' \in Age(DowngradeDwell)
      /\ good' \in Age(UpgradeDwell) /\ worst' <= bad'
      /\ calm' \in 0 .. UpgradeDwell
      /\ mild' \in [{3, 5} -> 0 .. DowngradeDwell]
      /\ good' <= calm' /\ bad' <= mild'[3] /\ worst' <= mild'[5]
  BY Cleared
<1>2. auto' \in Tier /\ silence' \in 0 .. MissingMinimal /\ missed' \in BOOLEAN
  <2>1. MissingMinimal \in Nat
    BY TierAssumption
  <2>2. auto \in Tier /\ silence \in 0 .. MissingMinimal /\ missed \in BOOLEAN
    BY DEF Machine
  <2>3. auto' \in Tier
    BY <2>2
  <2>4. CASE UNCHANGED <<silence, missed>>
    BY <2>2, <2>3, <2>4
  <2>5. CASE silence' = 0 /\ missed' = FALSE
    <3>1. silence' \in 0 .. MissingMinimal
      BY <2>1, <2>5
    <3>2. missed' \in BOOLEAN
      BY <2>5, Zenon
    <3> QED BY <2>3, <3>1, <3>2
  <2> QED BY <2>4, <2>5
<1>3. (~hidden => /\ silence >= MissingStep => missed
                  /\ missed => auto # "full"
                  /\ silence >= MissingMinimal => auto = "minimal")'
  <2>1. MissingStep \in Nat /\ MissingStep > 0 /\ MissingMinimal \in Nat /\ MissingMinimal > 0
    BY TierAssumption
  <2>2. CASE UNCHANGED <<silence, missed, hidden>>
    BY <2>2 DEF Machine
  <2>3. CASE silence' = 0 /\ missed' = FALSE
    BY <2>1, <2>3
  <2>4. CASE hidden'
    BY <2>4
  <2> QED BY <2>2, <2>3, <2>4
<1> QED
  BY <1>1, <1>2, <1>3 DEF Machine

\* Every step preserves the invariant.
THEOREM TNext == TInv /\ [TierNext]_tierVars => TInv'
<1> SUFFICES ASSUME Machine, Shell, [TierNext]_tierVars PROVE Machine' /\ Shell'
  BY Halves DEF TInv, TierTypeOK, Machine, Shell, PolicyType
<1>0. /\ hidden \in BOOLEAN /\ auto \in Tier /\ flushIn \in Nat
      /\ forced \in Tier \cup {"auto"} /\ open \in BOOLEAN /\ last \in 0 .. 5
      /\ env \in 0 .. MaxEnv /\ HiddenCloseAfter \in Nat \ {0}
      /\ hiddenFor \in Age(HiddenCloseAfter) /\ (hidden <=> hiddenFor # NoTimer)
      /\ told \in PolicyType
  BY TierAssumption DEF Machine, Shell
<1>1. CASE Tick
  <2>1. Machine'
    BY <1>0, <1>1, MissingRight DEF Tick
  <2>2. HiddenTime(1) \in Age(HiddenCloseAfter) /\ (hidden <=> HiddenTime(1) # NoTimer)
    BY HiddenTimeType
  <2>3. flushIn - 1 \in Nat
    BY <1>0, <1>1 DEF Tick
  <2>4. auto' \in Tier
    BY <2>1 DEF Machine
  <2>5. Shell'
    BY <1>0, <1>1, <2>2, <2>3, <2>4, ShellStep DEF Tick
  <2> QED BY <2>1, <2>5
<1>2. CASE FlushMarket
  <2>1. Machine'
    BY <1>2 DEF FlushMarket, Machine, evidence, history
  <2>2. Flush[Effective(told)] \in Nat
    BY <1>0, TierAssumption DEF Effective, PolicyType, Tier
  <2>3. Shell'
    BY <1>2, <2>2 DEF FlushMarket, Shell, history
  <2> QED BY <2>1, <2>3
<1>3. ASSUME NEW d \in 2 .. MaxWriteTime, SlowFlush(d) PROVE Machine' /\ Shell'
  <2>0. d \in Nat /\ TRUE \in BOOLEAN
    BY TierAssumption
  <2>1. Machine'
    BY <1>0, <1>3, <2>0, MissingRight DEF SlowFlush
  <2>2. HiddenTime(d) \in Age(HiddenCloseAfter) /\ (hidden <=> HiddenTime(d) # NoTimer)
    BY <2>0, HiddenTimeType
  <2>3. env' \in 0 .. MaxEnv
    BY <1>3, EnvType DEF SlowFlush
  <2>4. auto' \in Tier
    BY <2>1 DEF Machine
  <2>5. /\ told' \in PolicyType
        /\ told'.auto = auto' /\ told'.forced = forced' /\ told'.hidden = hidden'
    BY <1>0, <1>3, <2>4 DEF SlowFlush, Policy, PolicyType
  <2>6. Flush[Effective(told')] \in Nat
    BY <2>5, TierAssumption DEF Effective, PolicyType, Tier
  <2>7. flushIn' \in Nat
    BY <1>3, <2>0, <2>6 DEF SlowFlush
  <2>8. Shell'
    BY <1>0, <1>3, <2>2, <2>3, <2>5, <2>7 DEF SlowFlush, Shell
  <2> QED BY <2>1, <2>8
<1>4. ASSUME NEW band \in Band, Report(band) PROVE Machine' /\ Shell'
  <2>1. Machine'
    BY <1>0, <1>4, ReportRight
  <2>2. auto' \in Tier
    BY <2>1 DEF Machine
  <2>3. band \in 0 .. 5
    BY DEF Band
  <2>4. Shell'
    BY <1>0, <1>4, <2>2, <2>3, ShellStep DEF Report
  <2> QED BY <2>1, <2>4
<1>5. CASE InvalidReport
  <2>1. Machine'
    BY <1>0, <1>5, ClearedRight DEF InvalidReport
  <2>2. Shell'
    BY <1>0, <1>5, ShellStep DEF InvalidReport
  <2> QED BY <2>1, <2>2
<1>6. CASE Hide
  <2>1. Machine'
    BY <1>0, <1>6, ClearedRight DEF Hide
  <2>2. env' \in 0 .. MaxEnv
    BY <1>6, EnvType DEF Hide
  <2>3. hiddenFor' \in Age(HiddenCloseAfter) /\ (hidden' <=> hiddenFor' # NoTimer)
    <3>1. hiddenFor' = 0 /\ hidden' = TRUE
      BY <1>6 DEF Hide
    <3>2. 0 \in Age(HiddenCloseAfter)
      BY <1>0 DEF Age
    <3> QED BY <3>1, <3>2
  <2>4. Shell'
    BY <1>0, <1>6, <2>2, <2>3, ShellStep DEF Hide
  <2> QED BY <2>1, <2>4
<1>7. CASE Show
  <2>1. Machine'
    BY <1>0, <1>7, ClearedRight DEF Show
  <2>2. hiddenFor' \in Age(HiddenCloseAfter) /\ (hidden' <=> hiddenFor' # NoTimer)
    BY <1>0, <1>7 DEF Show, Age
  <2>3. Shell'
    BY <1>0, <1>7, <2>2, ShellStep DEF Show
  <2> QED BY <2>1, <2>3
<1>8. ASSUME NEW t \in Tier \cup {"auto"}, ForceTier(t) PROVE Machine' /\ Shell'
  <2>1. Machine'
    BY <1>8 DEF ForceTier, Machine, evidence, history
  <2>2. env' \in 0 .. MaxEnv
    BY <1>8, EnvType DEF ForceTier
  <2>3. Shell'
    BY <1>0, <1>8, <2>2, ShellStep DEF ForceTier, history
  <2> QED BY <2>1, <2>3
<1>9. ASSUME NEW d \in 2 .. MaxWriteTime, SlowSeed(d) PROVE Machine' /\ Shell'
  <2>0. d \in Nat /\ TRUE \in BOOLEAN
    BY TierAssumption
  <2>1. Machine'
    BY <1>0, <1>9, <2>0, MissingRight DEF SlowSeed
  <2>2. HiddenTime(d) \in Age(HiddenCloseAfter) /\ (hidden <=> HiddenTime(d) # NoTimer)
    BY <2>0, HiddenTimeType
  <2>3. env' \in 0 .. MaxEnv
    BY <1>9, EnvType DEF SlowSeed
  <2>4. auto' \in Tier
    BY <2>1 DEF Machine
  <2>5. (IF flushIn > d THEN flushIn - d ELSE 0) \in Nat
    BY <1>0, <2>0
  <2>6. Shell'
    BY <1>0, <1>9, <2>2, <2>3, <2>4, <2>5, ShellStep DEF SlowSeed
  <2> QED BY <2>1, <2>6
<1>10. CASE UNCHANGED tierVars
  BY <1>10 DEF tierVars, Machine, Shell
<1> QED
  BY <1>1, <1>2, <1>3, <1>4, <1>5, <1>6, <1>7, <1>8, <1>9, <1>10 DEF TierNext

\* TInv is an invariant of the specification.
THEOREM TInvariance == TierSpec => []TInv
<1> QED BY TInit, TNext, PTL DEF TierSpec

\* Every reachable state is well typed, and the machine and the connection
\* agree on the visibility of the tab.
THEOREM TierTypeCorrect == TierSpec => []TierTypeOK
<1>1. TInv => TierTypeOK
  BY DEF TInv
<1> QED BY <1>1, TInvariance, PTL

\* Silence caps the automatic tier of a visible tab, and unless the viewer forces
\* a tier that is the one the browser was told and is served at.
THEOREM SilenceCaps == TierSpec => []SilenceCapsTier
<1>1. TInv => SilenceCapsTier
  BY DEF TInv, SilenceCapsTier, Effective
<1> QED BY <1>1, TInvariance, PTL

HysteresisStep ==
    /\ Rank(auto') > Rank(auto) =>
         calm >= UpgradeDwell /\ Rank(auto') = Rank(auto) + 1
    /\ (Rank(auto') < Rank(auto) /\ last' # 0 /\ (hidden \/ silence' = 0) /\ env' = env) =>
         mild[IF auto' = "minimal" THEN 5 ELSE 3] >= DowngradeDwell

\* Only reports move the tier without a move of the environment or a silence.
LEMMA StepHysteresis == TInv /\ [TierNext]_tierVars => HysteresisStep
<1> SUFFICES ASSUME Machine, Shell, TInv', [TierNext]_tierVars PROVE HysteresisStep
  BY Halves, TNext
<1>0. /\ hidden \in BOOLEAN /\ auto \in Tier /\ auto' \in Tier
      /\ Rank(auto) \in 0 .. 2 /\ Rank(auto') \in 0 .. 2
      /\ silence \in 0 .. MissingMinimal /\ MissingMinimal \in Nat /\ MissingMinimal > 0
  BY TierAssumption, TierMoves DEF Machine, Shell, TInv, TierTypeOK
<1>1. CASE Tick
  <2>1. Rank(auto') <= Rank(auto)
    BY <1>0, <1>1, MissingRight DEF Tick
  <2>2. silence' = Older(silence, 1, MissingMinimal)
    BY <1>1 DEF Tick, Missing
  <2>3. silence' # 0
    BY <1>0, <2>2 DEF Older
  <2>4. hidden => auto' = auto
    BY <1>1 DEF Tick, Missing
  <2> QED BY <1>0, <2>1, <2>3, <2>4 DEF HysteresisStep
<1>2. ASSUME NEW d \in 2 .. MaxWriteTime, SlowFlush(d) PROVE HysteresisStep
  <2>0. d \in Nat /\ TRUE \in BOOLEAN
    BY TierAssumption
  <2>1. Rank(auto') <= Rank(auto)
    BY <1>0, <1>2, <2>0, MissingRight DEF SlowFlush
  <2>2. env' # env
    BY <1>2, EnvType DEF SlowFlush
  <2> QED BY <1>0, <2>1, <2>2 DEF HysteresisStep
<1>3. ASSUME NEW band \in Band, Report(band) PROVE HysteresisStep
  BY <1>0, <1>3, ReportRight DEF HysteresisStep
<1>4. CASE auto' = auto
  BY <1>0, <1>4 DEF HysteresisStep
<1>5. ASSUME NEW d \in 2 .. MaxWriteTime, SlowSeed(d) PROVE HysteresisStep
  <2>0. d \in Nat /\ TRUE \in BOOLEAN
    BY TierAssumption
  <2>1. Rank(auto') <= Rank(auto)
    BY <1>0, <1>5, <2>0, MissingRight DEF SlowSeed
  <2>2. env' # env
    BY <1>5, EnvType DEF SlowSeed
  <2> QED BY <1>0, <2>1, <2>2 DEF HysteresisStep
<1> QED
  BY <1>1, <1>2, <1>3, <1>4, <1>5
     DEF TierNext, FlushMarket, InvalidReport, Hide, Show, ForceTier, tierVars

\* The tier rises one step at a time, after the dwell without an objection, and
\* reports lower it only after the dwell without a milder report.
THEOREM TierHysteresis == TierSpec => Hysteresis
<1>1. TInv /\ [TierNext]_tierVars => [HysteresisStep]_tierVars
  BY StepHysteresis
<1> QED
  BY <1>1, TInvariance, PTL DEF TierSpec, Hysteresis, HysteresisStep

HIDE DEF NoTimer

-----------------------------------------------------------------------------
(* MarketOwner for any number of handlers, any queue and any number of       *)
(* captures between two ticks.  Four parts of the state change on their own  *)
(* and get a lemma each: who runs, what is worked on, the clock, the         *)
(* requests.                                                                 *)

Looping == {"top", "select", "advance", "apply", "publish"}

\* Who runs: one worker at most, a closed owner stays closed, and it is
\* finished by whoever worked last.
Flow ==
    /\ state \in [running : BOOLEAN, closed : BOOLEAN, stop : BOOLEAN, cancelled : BOOLEAN]
    /\ starter \in {"idle", "entered", "refused"} \cup Warming \cup {"finishing", "returned"}
    /\ loop \in {"none", "exit", "ended"} \cup Looping
    /\ closer \in {"idle", "cancelling", "finishing", "waiting", "returned", "gaveUp"}
    /\ finish \in {"no", "drain", "done"}
    /\ loop # "none" => starter = "returned"
    /\ starter \in {"idle", "entered", "refused"} <=> ~state.stop
    /\ closer # "idle" => state.closed
    /\ closer = "finishing" => ~state.stop
    /\ finish # "no" => state.closed /\ starter \notin Warming /\ loop \notin Looping

\* What is worked on: it is what is published, except inside a step.
Work ==
    /\ due \in Nat /\ work \in 0 .. MaxRev /\ current \in 0 .. work
    /\ work + due <= MaxRev
    /\ due # 0 <=> loop \in {"advance", "apply"}
    /\ starter = "applying" => work < Warmup
    /\ loop \in {"top", "select"} => work = current \/ state.closed

\* The clock: a tick that has not arrived has not waited.
Clock ==
    /\ captures \in 0 .. MaxCaptures /\ tick \in BOOLEAN
    /\ waited \in 0 .. captures /\ (~tick => waited = 0)

\* The requests: those who wait are in the queue, once each.
Requests ==
    /\ queue \in Seq(Caller \cup {Gone}) /\ Len(queue) <= QueueSize
    /\ caller \in [Caller -> {"idle", "checked", "waiting"}]
    /\ answer \in [Caller -> 0 .. MaxRev]
    /\ WaitersAreQueued

OInv == Flow /\ Work /\ Clock /\ Requests

-----------------------------------------------------------------------------

\* Who runs.
LEMMA FlowStep == Flow /\ [Next]_vars => Flow'
<1> SUFFICES ASSUME Flow, [Next]_vars PROVE Flow'
  OBVIOUS
<1> USE DEF Flow, Warming, Looping
<1>1. CASE StartStep
  <2>1. CASE StartChecks \/ StartLocks
    BY <2>1 DEF StartChecks, StartLocks
  <2>2. CASE WarmUpChecks \/ WarmUpApplies \/ StartPublishes
    BY <2>2 DEF WarmUpChecks, WarmUpApplies, StartPublishes
  <2> QED BY <1>1, <2>1, <2>2 DEF StartStep
<1>2. CASE LoopStep
  <2>1. CASE LoopTop \/ SelectDone \/ SelectTick
    BY <2>1 DEF LoopTop, SelectDone, SelectTick, Loop
  <2>2. CASE AdvanceChecks \/ AdvanceApplies \/ LoopPublishes
    BY <2>2 DEF AdvanceChecks, AdvanceApplies, LoopPublishes, Loop
  <2> QED BY <1>2, <2>1, <2>2 DEF LoopStep
<1>3. CASE SelectCapture
  BY <1>3 DEF SelectCapture, MayCapture
<1>4. CASE TimePasses \/ CloseMarks \/ CloseReturns \/ ContextEnds
  BY <1>4 DEF TimePasses, CloseMarks, AfterMark, CloseReturns, ContextEnds, flow
<1>5. CASE CloseStep
  <2>1. CASE CloseCancels \/ FinishDrains \/ FinishEnds
    BY <2>1 DEF CloseCancels, FinishDrains, FinishEnds, flow
  <2>2. CASE FinishMarks
    BY <2>2 DEF FinishMarks, Finisher
  <2> QED BY <1>5, <2>1, <2>2 DEF CloseStep
<1>6. CASE \E c \in Caller : CaptureChecks(c) \/ CaptureSends(c) \/ GiveUp(c)
  BY <1>6 DEF CaptureChecks, CaptureSends, GiveUp, flow
<1>7. CASE UNCHANGED vars
  BY <1>7 DEF vars, flow
<1> QED BY <1>1, <1>2, <1>3, <1>4, <1>5, <1>6, <1>7 DEF Next

\* What is worked on.
LEMMA WorkStep == Flow /\ Work /\ [Next]_vars => Work'
<1> SUFFICES ASSUME Flow, Work, [Next]_vars PROVE Work'
  OBVIOUS
<1>a. MaxRev \in Nat /\ Warmup \in Nat /\ Warmup <= MaxRev
  BY OwnerAssumption
<1> USE DEF Work
<1>1. CASE StartStep
  <2>1. CASE StartChecks \/ StartLocks
    BY <2>1 DEF StartChecks, StartLocks, market, Flow
  <2>2. CASE WarmUpChecks
    BY <2>2, <1>a DEF WarmUpChecks, market
  <2>3. CASE WarmUpApplies
    BY <2>3, <1>a DEF WarmUpApplies, Flow, Warming
  <2>4. CASE StartPublishes
    BY <2>4, <1>a DEF StartPublishes, PublishWork, Flow, Warming
  <2> QED BY <1>1, <2>1, <2>2, <2>3, <2>4 DEF StartStep
<1>2. CASE LoopStep
  <2>1. CASE LoopTop \/ SelectDone
    BY <2>1 DEF LoopTop, SelectDone, Loop, market
  <2>2. CASE SelectTick
    BY <2>2, <1>a DEF SelectTick, Loop
  <2>3. CASE AdvanceChecks
    BY <2>3, <1>a DEF AdvanceChecks, Loop
  <2>4. CASE AdvanceApplies
    BY <2>4, <1>a DEF AdvanceApplies, Loop, Flow, Warming
  <2>5. CASE LoopPublishes
    BY <2>5, <1>a DEF LoopPublishes, PublishWork, Loop
  <2> QED BY <1>2, <2>1, <2>2, <2>3, <2>4, <2>5 DEF LoopStep
<1>3. CASE SelectCapture
  BY <1>3 DEF SelectCapture, MayCapture, market
<1>4. CASE TimePasses \/ CloseMarks \/ CloseReturns \/ ContextEnds
  BY <1>4 DEF TimePasses, CloseMarks, CloseReturns, ContextEnds, flow, market, Flow
<1>5. CASE CloseStep
  BY <1>5 DEF CloseStep, CloseCancels, FinishMarks, Finisher, FinishDrains, FinishEnds, flow, market,
     Flow
<1>6. CASE \E c \in Caller : CaptureChecks(c) \/ CaptureSends(c) \/ GiveUp(c)
  BY <1>6 DEF CaptureChecks, CaptureSends, GiveUp, flow, market
<1>7. CASE UNCHANGED vars
  BY <1>7 DEF vars, flow, market
<1> QED BY <1>1, <1>2, <1>3, <1>4, <1>5, <1>6, <1>7 DEF Next

\* The clock.
LEMMA ClockStep == Clock /\ [Next]_vars => Clock'
<1> SUFFICES ASSUME Clock, [Next]_vars PROVE Clock'
  OBVIOUS
<1>a. MaxCaptures \in Nat
  BY OwnerAssumption
<1>1. CASE UNCHANGED clock
  BY <1>1 DEF Clock, clock
<1>2. CASE SelectTick \/ TimePasses
  <2>1. CASE SelectTick
    <3>1. captures' = 0 /\ waited' = 0 /\ tick' = FALSE
      BY <2>1 DEF SelectTick
    <3>2. captures' \in 0 .. MaxCaptures /\ waited' \in 0 .. captures'
      BY <3>1, <1>a
    <3> QED BY <3>1, <3>2, Zenon DEF Clock
  <2>2. CASE TimePasses
    <3>1. captures' = captures /\ waited' = waited /\ ~tick /\ tick' = TRUE
      BY <2>2 DEF TimePasses
    <3> QED BY <3>1 DEF Clock
  <2> QED BY <1>2, <2>1, <2>2
<1>3. CASE SelectCapture
  BY <1>3, <1>a DEF Clock, SelectCapture, MayCapture
<1>4. UNCHANGED clock \/ SelectTick \/ TimePasses \/ SelectCapture
  BY DEF Next, vars, StartStep, StartChecks, StartLocks, WarmUpChecks, WarmUpApplies,
     StartPublishes, LoopStep, LoopTop, SelectDone, AdvanceChecks, AdvanceApplies, LoopPublishes,
     CloseMarks, CloseStep, CloseCancels, FinishMarks, FinishDrains, FinishEnds, CloseReturns,
     ContextEnds, CaptureChecks, CaptureSends, GiveUp
<1> QED BY <1>1, <1>2, <1>3, <1>4

\* Taking the oldest request keeps those behind it, once each.
LEMMA HeadTaken ==
    ASSUME Requests, queue # <<>>, NEW cs \in [Caller -> {"idle", "checked", "waiting"}],
           cs = IF Head(queue) = Gone THEN caller ELSE [caller EXCEPT ![Head(queue)] = "idle"]
    PROVE  /\ Tail(queue) \in Seq(Caller \cup {Gone}) /\ Len(Tail(queue)) <= QueueSize
           /\ \A c \in Caller :
                /\ cs[c] = "waiting" <=> \E k \in DOMAIN Tail(queue) : Tail(queue)[k] = c
                /\ \A j, k \in DOMAIN Tail(queue) :
                      Tail(queue)[j] = c /\ Tail(queue)[k] = c => j = k
<1> DEFINE t == Tail(queue)
<1>1. /\ t \in Seq(Caller \cup {Gone}) /\ Len(t) = Len(queue) - 1
      /\ Len(queue) \in Nat /\ Len(queue) > 0
      /\ DOMAIN queue = 1 .. Len(queue) /\ DOMAIN t = 1 .. Len(queue) - 1
      /\ \A k \in 1 .. Len(queue) - 1 : t[k] = queue[k + 1]
      /\ Head(queue) = queue[1] /\ QueueSize \in Nat
  BY OwnerAssumption, HeadTailProperties, EmptySeq DEF Requests
<1> HIDE DEF t
<1>2. ASSUME NEW c \in Caller
      PROVE  /\ cs[c] = "waiting" <=> \E k \in DOMAIN t : t[k] = c
             /\ \A j, k \in DOMAIN t : t[j] = c /\ t[k] = c => j = k
  <2>1. /\ caller[c] = "waiting" <=> \E k \in 1 .. Len(queue) : queue[k] = c
        /\ \A j, k \in 1 .. Len(queue) : queue[j] = c /\ queue[k] = c => j = k
    <3>1. DOMAIN queue = 1 .. Len(queue) /\ WaitersAreQueued
      BY <1>1 DEF Requests
    <3> QED BY <3>1, Zenon DEF WaitersAreQueued
  <2>2. \A j, k \in DOMAIN t : t[j] = c /\ t[k] = c => j = k
    <3> SUFFICES ASSUME NEW j \in DOMAIN t, NEW k \in DOMAIN t, t[j] = c, t[k] = c
                 PROVE  j = k
      OBVIOUS
    <3>1. j + 1 \in 1 .. Len(queue) /\ k + 1 \in 1 .. Len(queue) /\ j \in Nat /\ k \in Nat
      BY <1>1
    <3>2. j + 1 = k + 1
      BY <1>1, <2>1, <3>1
    <3> QED BY <3>1, <3>2
  <2>3. (\E k \in DOMAIN t : t[k] = c) <=> \E k \in 2 .. Len(queue) : queue[k] = c
    <3>1. ASSUME NEW k \in DOMAIN t, t[k] = c PROVE \E i \in 2 .. Len(queue) : queue[i] = c
      <4>1. k + 1 \in 2 .. Len(queue) /\ queue[k + 1] = c
        BY <1>1, <3>1
      <4> QED BY <4>1
    <3>2. ASSUME NEW k \in 2 .. Len(queue), queue[k] = c PROVE \E i \in DOMAIN t : t[i] = c
      <4>1. k - 1 \in DOMAIN t /\ t[k - 1] = queue[(k - 1) + 1] /\ (k - 1) + 1 = k
        BY <1>1, <3>2
      <4> QED BY <3>2, <4>1
    <3> QED BY <3>1, <3>2
  <2>4. CASE Head(queue) = c
    <3>1. cs[c] = "idle"
      BY <2>4, OwnerAssumption DEF Requests, Gone
    <3>2. \A k \in 2 .. Len(queue) : queue[k] # c
      BY <1>1, <2>1, <2>4
    <3> QED BY <2>2, <2>3, <3>1, <3>2
  <2>5. CASE Head(queue) # c
    <3>1. cs[c] = caller[c]
      BY <2>5 DEF Requests
    <3>2. (\E k \in 1 .. Len(queue) : queue[k] = c) <=> \E k \in 2 .. Len(queue) : queue[k] = c
      BY <1>1, <2>5
    <3> QED BY <2>1, <2>2, <2>3, <3>1, <3>2, Zenon
  <2> QED BY <2>4, <2>5
<1>3. t \in Seq(Caller \cup {Gone}) /\ Len(t) <= QueueSize
  BY <1>1 DEF Requests
<1> QED BY <1>2, <1>3, Zenon DEF t

\* The requests.
LEMMA RequestStep == Work /\ Requests /\ [Next]_vars => Requests'
<1> SUFFICES ASSUME Work, Requests, [Next]_vars PROVE Requests'
  OBVIOUS
<1>a. QueueSize \in Nat /\ Gone \notin Caller
  BY OwnerAssumption DEF Gone
<1>b. DOMAIN queue = 1 .. Len(queue) /\ Len(queue) \in Nat
  BY LenProperties DEF Requests
<1>c. work \in 0 .. MaxRev
  BY DEF Work
<1>1. CASE UNCHANGED requests
  BY <1>1 DEF Requests, requests, WaitersAreQueued
<1>2. CASE SelectCapture
  <2>1. queue # <<>> /\ queue' = Tail(queue) /\ answer' \in [Caller -> 0 .. MaxRev]
    BY <1>2, <1>c DEF SelectCapture, Answer, Requests
  <2>2. caller' = IF Head(queue) = Gone THEN caller ELSE [caller EXCEPT ![Head(queue)] = "idle"]
    BY <1>2 DEF SelectCapture, Answer
  <2>3. caller' \in [Caller -> {"idle", "checked", "waiting"}]
    BY <2>2 DEF Requests
  <2> QED BY <2>1, <2>2, <2>3, HeadTaken, Zenon DEF Requests, WaitersAreQueued
<1>3. CASE FinishDrains
  <2>1. queue # <<>> /\ queue' = Tail(queue) /\ answer' = answer
    BY <1>3 DEF FinishDrains, Pending
  <2>2. caller' = IF Head(queue) = Gone THEN caller ELSE [caller EXCEPT ![Head(queue)] = "idle"]
    BY <1>3 DEF FinishDrains, Told
  <2>3. caller' \in [Caller -> {"idle", "checked", "waiting"}]
    BY <2>2 DEF Requests
  <2>4. answer' \in [Caller -> 0 .. MaxRev]
    BY <2>1 DEF Requests
  <2> QED BY <2>1, <2>2, <2>3, <2>4, HeadTaken, Zenon DEF Requests, WaitersAreQueued
<1>4. ASSUME NEW c \in Caller, CaptureChecks(c) PROVE Requests'
  BY <1>4 DEF CaptureChecks, Requests, WaitersAreQueued
<1>5. ASSUME NEW c \in Caller, CaptureSends(c) PROVE Requests'
  <2>1. CASE ~HasRoom
    BY <1>5, <2>1 DEF CaptureSends, Requests, WaitersAreQueued
  <2>2. CASE HasRoom
    <3>1. /\ queue' = Append(queue, c) /\ caller' = [caller EXCEPT ![c] = "waiting"]
          /\ answer' = answer /\ caller[c] = "checked"
      BY <1>5, <2>2 DEF CaptureSends
    <3>2. /\ queue' \in Seq(Caller \cup {Gone}) /\ Len(queue') = Len(queue) + 1
          /\ DOMAIN queue' = 1 .. Len(queue) + 1
          /\ \A k \in 1 .. Len(queue) : queue'[k] = queue[k]
          /\ queue'[Len(queue) + 1] = c
      BY <3>1, <1>b, AppendProperties DEF Requests
    <3>3. Len(queue') <= QueueSize
      BY <1>a, <1>b, <2>2, <3>2 DEF HasRoom
    <3>4. caller' \in [Caller -> {"idle", "checked", "waiting"}] /\ answer' \in [Caller -> 0 .. MaxRev]
      BY <3>1 DEF Requests
    <3>5. \A k \in 1 .. Len(queue) : queue[k] # c
      BY <1>b, <3>1 DEF Requests, WaitersAreQueued
    <3>6. WaitersAreQueued'
      <4> SUFFICES ASSUME NEW d \in Caller
                   PROVE  /\ caller'[d] = "waiting" <=> \E k \in DOMAIN queue' : queue'[k] = d
                          /\ \A j, k \in DOMAIN queue' :
                                queue'[j] = d /\ queue'[k] = d => j = k
        BY Zenon DEF WaitersAreQueued
      <4>1. \A k \in DOMAIN queue' : k \in 1 .. Len(queue) \/ k = Len(queue) + 1
        BY <1>b, <3>2
      <4>2. \A k \in 1 .. Len(queue) : k \in DOMAIN queue'
        BY <1>b, <3>2
      <4>3. Len(queue) + 1 \in DOMAIN queue'
        BY <1>b, <3>2
      <4>4. CASE d = c
        <5>1. caller'[d] = "waiting"
          BY <3>1, <4>4 DEF Requests
        <5>2. \A j \in DOMAIN queue' : queue'[j] = d => j = Len(queue) + 1
          BY <3>2, <3>5, <4>1, <4>4
        <5> QED BY <3>2, <4>3, <4>4, <5>1, <5>2
      <4>5. CASE d # c
        <5>1. caller'[d] = caller[d]
          BY <3>1, <4>5 DEF Requests
        <5>2. \A k \in DOMAIN queue' : queue'[k] = d => k \in DOMAIN queue /\ queue[k] = d
          BY <1>b, <3>2, <4>1, <4>5
        <5>3. \A k \in DOMAIN queue : queue[k] = d => k \in DOMAIN queue' /\ queue'[k] = d
          BY <1>b, <3>2, <4>2
        <5>4. /\ caller[d] = "waiting" <=> \E k \in DOMAIN queue : queue[k] = d
              /\ \A j, k \in DOMAIN queue : queue[j] = d /\ queue[k] = d => j = k
          BY Zenon DEF Requests, WaitersAreQueued
        <5> QED BY <5>1, <5>2, <5>3, <5>4, Zenon
      <4> QED BY <4>4, <4>5
    <3> QED BY <3>2, <3>3, <3>4, <3>6 DEF Requests
  <2> QED BY <2>1, <2>2
<1>6. ASSUME NEW c \in Caller, GiveUp(c) PROVE Requests'
  <2>1. /\ queue' = [k \in DOMAIN queue |-> IF queue[k] = c THEN Gone ELSE queue[k]]
        /\ caller' = [caller EXCEPT ![c] = "idle"] /\ answer' = answer
    BY <1>6 DEF GiveUp
  <2>2. \A k \in 1 .. Len(queue) : queue[k] \in Caller \cup {Gone}
    BY <1>b, ElementOfSeq DEF Requests
  <2>3. /\ queue' \in Seq(Caller \cup {Gone}) /\ Len(queue') = Len(queue)
        /\ DOMAIN queue' = DOMAIN queue
    <3>1. queue' \in [1 .. Len(queue) -> Caller \cup {Gone}]
      BY <1>b, <2>1, <2>2
    <3> QED BY <1>b, <3>1, SeqDef, LenProperties
  <2>4. /\ caller' \in [Caller -> {"idle", "checked", "waiting"}]
        /\ answer' \in [Caller -> 0 .. MaxRev] /\ Len(queue') <= QueueSize
    BY <2>1, <2>3 DEF Requests
  <2>5. ASSUME NEW d \in Caller
        PROVE  /\ caller'[d] = "waiting" <=> \E k \in DOMAIN queue' : queue'[k] = d
               /\ \A j, k \in DOMAIN queue' : queue'[j] = d /\ queue'[k] = d => j = k
    <3>1. /\ caller[d] = "waiting" <=> \E k \in DOMAIN queue : queue[k] = d
          /\ \A j, k \in DOMAIN queue : queue[j] = d /\ queue[k] = d => j = k
      BY Zenon DEF Requests, WaitersAreQueued
    <3>2. CASE d = c
      <4>1. caller'[d] = "idle" /\ \A k \in DOMAIN queue' : queue'[k] # d
        BY <1>a, <2>1, <3>2 DEF Requests
      <4> QED BY <4>1
    <3>3. CASE d # c
      <4>1. caller'[d] = caller[d] /\ \A k \in DOMAIN queue : queue'[k] = d <=> queue[k] = d
        BY <1>a, <2>1, <3>3 DEF Requests
      <4> QED BY <2>3, <3>1, <4>1, Zenon
    <3> QED BY <3>2, <3>3
  <2>6. WaitersAreQueued'
    BY <2>5, Zenon DEF WaitersAreQueued
  <2> QED BY <2>3, <2>4, <2>6 DEF Requests
<1>7. \/ UNCHANGED requests \/ SelectCapture \/ FinishDrains
      \/ \E c \in Caller : CaptureChecks(c) \/ CaptureSends(c) \/ GiveUp(c)
  BY DEF Next, vars, StartStep, StartChecks, StartLocks, WarmUpChecks, WarmUpApplies,
     StartPublishes, LoopStep, LoopTop, SelectDone, SelectTick, AdvanceChecks, AdvanceApplies,
     LoopPublishes, TimePasses, CloseMarks, CloseStep, CloseCancels, FinishMarks, FinishEnds,
     CloseReturns, ContextEnds
<1> QED BY <1>1, <1>2, <1>3, <1>4, <1>5, <1>6, <1>7

-----------------------------------------------------------------------------
(* The theorems. *)

\* The inductive invariant holds for every set of handlers and all bounds.
THEOREM OwnerInvariance == Spec => []OInv
<1>1. Init => OInv
  <2>1. Init => Flow
    BY DEF Init, Flow, Warming, Looping
  <2>2. Init => Work
    BY OwnerAssumption DEF Init, Work
  <2>3. Init => Clock
    <3>1. 0 \in 0 .. MaxCaptures /\ 0 \in 0 .. 0
      BY OwnerAssumption
    <3> QED BY <3>1, Zenon DEF Init, Clock
  <2>4. Init => Requests
    BY OwnerAssumption, EmptySeq DEF Init, Requests, WaitersAreQueued
  <2> QED BY <2>1, <2>2, <2>3, <2>4 DEF OInv
<1>2. OInv /\ [Next]_vars => OInv'
  BY FlowStep, WorkStep, ClockStep, RequestStep DEF OInv
<1> QED BY <1>1, <1>2, PTL DEF Spec

\* Type correctness, with the bounds of queue and captures.
THEOREM OwnerTypeCorrect == Spec => []TypeOK
<1>1. OInv => TypeOK
  BY DEF OInv, Flow, Work, Clock, Requests, TypeOK, Looping
<1> QED BY <1>1, OwnerInvariance, PTL

\* However many handlers there are, a tick waits for MaxCaptures requests at most.
THEOREM ClockIsServed == Spec => []ClockWaitsAtMost
<1>1. OInv => ClockWaitsAtMost
  BY OwnerAssumption DEF OInv, Clock, ClockWaitsAtMost
<1> QED BY <1>1, OwnerInvariance, PTL

\* Every waiting handler has exactly one request in the queue, nobody else has one.
THEOREM QueueAgrees == Spec => []WaitersAreQueued
<1>1. OInv => WaitersAreQueued
  BY DEF OInv, Requests
<1> QED BY <1>1, OwnerInvariance, PTL

\* A capture never shows more or less than the publication, until the owner closes.
THEOREM AnswersAgree == Spec => AnswersMatchPublication
<1>1. OInv /\ [Next]_vars =>
        [\A c \in Caller : answer'[c] # answer[c] => answer'[c] = current \/ state.closed]_vars
  <2> SUFFICES ASSUME OInv, Next, NEW c \in Caller, answer'[c] # answer[c]
               PROVE  answer'[c] = current \/ state.closed
    OBVIOUS
  <2>1. SelectCapture
    BY DEF Next, StartStep, StartChecks, StartLocks, WarmUpChecks, WarmUpApplies, requests,
       StartPublishes, LoopStep, LoopTop, SelectDone, SelectTick, AdvanceChecks, AdvanceApplies,
       LoopPublishes, TimePasses, CloseMarks, CloseStep, CloseCancels, FinishMarks, FinishDrains,
       FinishEnds, CloseReturns, ContextEnds, CaptureChecks, CaptureSends, GiveUp
  <2>2. loop = "select" /\ answer'[c] = work
    BY <2>1 DEF SelectCapture, MayCapture, Answer, OInv, Requests
  <2> QED BY <2>2 DEF OInv, Work
<1> QED BY <1>1, OwnerInvariance, PTL DEF Spec, AnswersMatchPublication

\* A closed owner keeps its last publication.
THEOREM PublicationKept == Spec => ClosedKeepsPublication
<1>1. [Next]_vars => [state.closed => current' = current]_vars
  BY DEF Next, vars, StartStep, StartChecks, StartLocks, WarmUpChecks, WarmUpApplies, market,
     StartPublishes, PublishWork, LoopStep, LoopTop, SelectDone, SelectTick, AdvanceChecks,
     AdvanceApplies, LoopPublishes, SelectCapture, TimePasses, CloseMarks, CloseStep, CloseCancels,
     FinishMarks, FinishDrains, FinishEnds, CloseReturns, ContextEnds, CaptureChecks,
     CaptureSends, GiveUp
<1> QED BY <1>1, PTL DEF Spec, ClosedKeepsPublication

\* When done is closed no worker is left, whichever of warm-up, loop and Close
\* came last.
THEOREM NobodyWorksAfterDone == Spec => NothingAfterDone
<1>1. OInv /\ [Next]_vars => [finish = "done" => UNCHANGED <<work, current>>]_vars
  <2> SUFFICES ASSUME OInv, Next, finish = "done" PROVE UNCHANGED <<work, current>>
    OBVIOUS
  <2>1. starter \notin Warming /\ loop \notin Looping
    BY DEF OInv, Flow
  <2> QED
    BY <2>1 DEF Next, StartStep, StartChecks, StartLocks, WarmUpChecks, WarmUpApplies, market,
       StartPublishes, LoopStep, LoopTop, SelectDone, SelectTick, AdvanceChecks, AdvanceApplies,
       LoopPublishes, Loop, SelectCapture, TimePasses, CloseMarks, CloseStep, CloseCancels,
       FinishMarks, FinishDrains, FinishEnds, CloseReturns, ContextEnds, CaptureChecks,
       CaptureSends, GiveUp, Warming, Looping
<1> QED BY <1>1, OwnerInvariance, PTL DEF Spec, NothingAfterDone

-----------------------------------------------------------------------------
(* Connections for any number of handlers and any limit: slots, nothing left *)
(* behind, and 1001 for every connection that the shutdown ends.             *)

Before == {"idle", "checked", "refused"}
Ending == {"ended", "closing", "cancelling", "joining"}

\* Where a handler is determines what it has registered and started.
Shape(h) ==
    /\ closers[h] = NoCloser <=> pc[h] \notin Slotted
    /\ closers[h] = Cancel => pc[h] \in {"registered", "upgraded", "leaving"}
    /\ closers[h] = GoingAway => pc[h] \notin {"registered", "upgraded"}
    /\ pc[h] \in Before \cup {"registered"} => socket[h] = "none"
    /\ pc[h] \in {"upgraded", "turnedAway", "running"} \cup Ending => socket[h] # "none"
    /\ pc[h] \in {"cancelling", "joining", "leaving", "gone"} => socket[h] # "open"
    /\ reader[h] = "reading" \/ pinger[h] = "waiting" => pc[h] \in {"running"} \cup Ending

\* A closer runs, or has run, only while the server stops, and the one that says
\* goodbye only for a connection that is started.
Collected(h) ==
    /\ todo[h] # NoCloser => shutdown \notin {"no", "stopping"} /\ pc[h] \notin Before
    /\ todo[h] = GoingAway => pc[h] \notin Before \cup {"registered", "upgraded"}
    /\ done[h] => pc[h] \notin Before
    /\ done[h] /\ pc[h] \in {"registered", "upgraded"} => stopping

\* A connection without a fault is ended by the shutdown only, which has told it.
Quiet(h) ==
    ~fault[h] =>
        /\ socket[h] \in {"none", "open", GoingAway}
        /\ pc[h] = "running" /\ (done[h] \/ todo[h] = Cancel) => socket[h] = GoingAway
        /\ pc[h] \in Ending => socket[h] = GoingAway

Server ==
    /\ shutdown = "returned" => Registered = {}
    /\ ~marketUp => shutdown \in {"returned", "gaveUp"}

Handlers == \A h \in Handler : Shape(h) /\ Collected(h) /\ Quiet(h)

\* The inductive invariant.
CInv == ConnTypeOK /\ Handlers /\ Server

USE DEF NoCloser, Cancel, GoingAway, Normal, Own, Abnormal, Overflow, Codes, Slotted, Before,
        Ending, stopping

LEMMA InitCInv == ConnInit => CInv
BY ConnectionsAssumption DEF ConnInit, CInv, ConnTypeOK, Handlers, Shape, Collected, Quiet, Server, Registered

\* A step of one handler that is not its registration leaves the others alone.
LEMMA HandlerKeeps ==
    ASSUME CInv, NEW h \in Handler,
           Checks(h) \/ HandlerStep(h) \/ UpgradeStep(h) \/ Handles(h) \/ RunEnds(h)
    PROVE  CInv'
<1> USE ConnectionsAssumption DEF CInv, ConnTypeOK, Handlers, Shape, Collected, Quiet, Server, Registered, At
<1>1. CASE Checks(h) BY <1>1 DEF Checks
<1>2. CASE Registers(h)
  <2>1. CASE MayRegister BY <1>2, <2>1 DEF Registers, MayRegister
  <2>2. CASE ~MayRegister BY <1>2, <2>2 DEF Registers
  <2> QED BY <2>1, <2>2
<1>3. CASE Starts(h) BY <1>3 DEF Starts, StoppedMeanwhile
<1>4. CASE TurnsAway(h) BY <1>4 DEF TurnsAway, SocketEnds
<1>5. CASE Judges(h) BY <1>5 DEF Judges
<1>6. CASE ClosesSocket(h) BY <1>6 DEF ClosesSocket, SocketEnds
<1>7. CASE Cancels(h) BY <1>7 DEF Cancels
<1>8. CASE Joins(h) BY <1>8 DEF Joins, GoroutinesDone
<1>9. CASE Leaves(h) BY <1>9 DEF Leaves, SocketEnds
<1>10. CASE RunCancelled(h) BY <1>10 DEF RunCancelled, RunReturns
<1>11. CASE WriteFails(h) BY <1>11 DEF WriteFails, RunReturns, SocketEnds
<1>12. CASE Upgrades(h) BY <1>12 DEF Upgrades
<1>13. CASE UpgradeFails(h) BY <1>13 DEF UpgradeFails, AfterFailedUpgrade
<1>14. CASE Handles(h) BY <1>14 DEF Handles
<1>15. CASE RunEnds(h) BY <1>15 DEF RunEnds, RunReturns, SocketEnds
<1> QED BY <1>1, <1>2, <1>3, <1>4, <1>5, <1>6, <1>7, <1>8, <1>9, <1>10, <1>11, <1>12, <1>13, <1>14,
           <1>15 DEF HandlerStep, UpgradeStep

LEMMA GoroutinesKeep ==
    ASSUME CInv, NEW h \in Handler,
           Reads(h) \/ ReaderStep(h) \/ ReaderOverflows(h) \/ PeerLeaves(h)
           \/ PingerStep(h) \/ PingFails(h) \/ CloserStep(h)
    PROVE  CInv'
<1> USE ConnectionsAssumption DEF CInv, ConnTypeOK, Handlers, Shape, Collected, Quiet, Server, Registered
<1>1. CASE Reads(h) BY <1>1 DEF Reads, ControlFits
<1>2. CASE ReadFails(h) BY <1>2 DEF ReadFails, ReaderDone, SocketEnds
<1>3. CASE ReaderOverflows(h) BY <1>3 DEF ReaderOverflows, ReaderDone, SocketEnds
<1>4. CASE PeerLeaves(h) BY <1>4 DEF PeerLeaves, ReaderDone, SocketEnds
<1>5. CASE PingerStops(h) BY <1>5 DEF PingerStops, PingerDone
<1>6. CASE PingFails(h)
  <2>1. CASE socket[h] = "open" /\ ~done[h]
    <3>1. pc[h] \in {"running"} \cup Ending BY <1>6 DEF PingFails, PingerDone
    <3>2. socket' = [socket EXCEPT ![h] = Abnormal] /\ fault' = [fault EXCEPT ![h] = TRUE]
      BY <1>6, <2>1 DEF PingFails, SocketEnds
    <3>3. ~(pc[h] \in {"cancelling", "joining"}) BY <2>1
    <3>4. ConnTypeOK' /\ Server' BY <1>6, <3>2 DEF PingFails, PingerDone
    <3>5. ASSUME NEW g \in Handler PROVE (Shape(g) /\ Collected(g) /\ Quiet(g))'
      BY <1>6, <3>1, <3>2 DEF PingFails, PingerDone
    <3> QED BY <3>4, <3>5
  <2>2. CASE ~(socket[h] = "open" /\ ~done[h]) BY <1>6, <2>2 DEF PingFails, PingerDone, SocketEnds
  <2> QED BY <2>1, <2>2
<1>7. CASE CloserCloses(h) BY <1>7 DEF CloserCloses, SaysGoodbye, SocketEnds
<1>8. CASE CloserCancels(h)
  <2>1. shutdown \notin {"no", "stopping"} /\ pc[h] \notin Before BY <1>8 DEF CloserCancels
  <2> QED BY <1>8, <2>1 DEF CloserCancels
<1> QED BY <1>1, <1>2, <1>3, <1>4, <1>5, <1>6, <1>7, <1>8 DEF ReaderStep, PingerStep, CloserStep

LEMMA ShutdownKeeps ==
    ASSUME CInv, Stops \/ Collects \/ ServerCloseReturns \/ CloseGivesUp \/ MarketStops
    PROVE  CInv'
<1> USE ConnectionsAssumption
    DEF CInv, ConnTypeOK, Handlers, Shape, Collected, Quiet, Server, Registered, conn
<1>1. CASE Stops BY <1>1 DEF Stops
<1>2. CASE Collects BY <1>2 DEF Collects
<1>3. CASE ServerCloseReturns BY <1>3 DEF ServerCloseReturns
<1>4. CASE CloseGivesUp BY <1>4 DEF CloseGivesUp
<1>5. CASE MarketStops
  <2>1. /\ UNCHANGED <<shutdown, todo, pc, closers, result, reader, pinger, controls, done, socket, fault>>
        /\ marketUp' = FALSE /\ shutdown \in {"returned", "gaveUp"}
    BY <1>5 DEF MarketStops, MayStopMarket
  <2>2. ConnTypeOK'
    BY <2>1
  <2>3. Handlers'
    BY <2>1
  <2>4. Server'
    BY <2>1
  <2> QED BY <2>2, <2>3, <2>4
<1> QED BY <1>1, <1>2, <1>3, <1>4, <1>5

\* Slots, closers, sockets and program counters of the connections fit each other
\* through upgrades, faults and the shutdown (transport/websocket.go, http.go).
THEOREM ConnectionsInvariance == ConnSpec => []CInv
<1>1. CInv /\ [ConnNext]_connVars => CInv'
  <2> SUFFICES ASSUME CInv, [ConnNext]_connVars PROVE CInv'
    OBVIOUS
  <2>1. CASE UNCHANGED connVars
    BY <2>1 DEF connVars, conn, CInv, ConnTypeOK, Handlers, Shape, Collected, Quiet, Server, Registered
  <2>2. CASE ConnNext
    BY <2>2, HandlerKeeps, GoroutinesKeep, ShutdownKeeps DEF ConnNext
  <2> QED BY <2>1, <2>2
<1> QED BY InitCInv, <1>1, PTL DEF ConnSpec

\* Type correctness: the channel of controls never holds more than its size.
THEOREM ConnectionsTypeCorrect == ConnSpec => []ConnTypeOK
<1>1. CInv => ConnTypeOK
  BY DEF CInv
<1> QED BY <1>1, ConnectionsInvariance, PTL

\* A connection that the shutdown ends is told 1001, whatever the number of
\* connections and however far each of them is.
THEOREM ToldOfShutdown == ConnSpec => []ShutdownIsTold
<1>1. CInv => ShutdownIsTold
  BY DEF CInv, Handlers, Quiet, ShutdownIsTold
<1> QED BY <1>1, ConnectionsInvariance, PTL

\* After Close has returned without an error no socket is open and no goroutine
\* of a connection is left.
THEOREM CloseLeavesNothing == ConnSpec => []NothingLeft
<1>1. CInv => NothingLeft
  BY DEF CInv, ConnTypeOK, Handlers, Shape, Server, Registered, NothingLeft
<1> QED BY <1>1, ConnectionsInvariance, PTL

\* Connections never read from a market that App.Close has stopped before the deadline.
THEOREM MarketOutlives == ConnSpec => []MarketOutlivesConnections
<1>1. CInv => MarketOutlivesConnections
  BY DEF CInv, Server, MarketOutlivesConnections
<1> QED BY <1>1, ConnectionsInvariance, PTL

\* Server.Close waits for a group that only shrinks.
THEOREM GroupOnlyShrinks == ConnSpec => NoLateRegistration
<1> DEFINE Shrinks == shutdown \notin {"no", "stopping"} => Registered' \subseteq Registered
<1>1. CInv /\ [ConnNext]_connVars => [Shrinks]_connVars
  <2> SUFFICES ASSUME CInv, ConnNext, shutdown \notin {"no", "stopping"}
               PROVE  Registered' \subseteq Registered
    BY DEF Shrinks, connVars
  <2> USE DEF Registered
  <2>1. CASE UNCHANGED closers
    BY <2>1
  <2>2. ASSUME NEW h \in Handler, Registers(h) \/ Starts(h) \/ Leaves(h)
        PROVE  Registered' \subseteq Registered
    BY <2>2 DEF Registers, Starts, Leaves, MayRegister, At, CInv, ConnTypeOK, Handlers, Shape
  <2> QED
    BY <2>1, <2>2 DEF ConnNext, HandlerStep, UpgradeStep, ReaderStep, PingerStep, CloserStep, conn,
       Checks, TurnsAway, Judges, ClosesSocket, Cancels, Joins, RunCancelled, WriteFails, RunReturns,
       Upgrades, UpgradeFails, Handles, RunEnds, Reads, ReadFails, ReaderDone, ReaderOverflows,
       PeerLeaves, PingerStops, PingerDone, PingFails, CloserCloses, CloserCancels, Stops, Collects,
       ServerCloseReturns, CloseGivesUp, MarketStops
<1> QED BY <1>1, ConnectionsInvariance, PTL DEF ConnSpec, NoLateRegistration

\* The only step that takes a slot is the one that has looked whether there is one.
LEMMA SlotsStep ==
    ASSUME CInv, [ConnNext]_connVars
    PROVE  \/ Registered' \subseteq Registered
           \/ /\ Cardinality(Registered) < MaxConnections
              /\ \E h \in Handler : Registered' = Registered \cup {h}
<1>1. CASE UNCHANGED closers
  BY <1>1 DEF Registered
<1>2. ASSUME NEW h \in Handler, Registers(h) /\ MayRegister
      PROVE  Cardinality(Registered) < MaxConnections /\ Registered' = Registered \cup {h}
  <2>1. Cardinality(Registered) < MaxConnections
    BY <1>2 DEF MayRegister
  <2>2. closers' = [closers EXCEPT ![h] = Cancel] /\ closers \in [Handler -> {NoCloser, Cancel, GoingAway}]
    BY <1>2 DEF Registers, CInv, ConnTypeOK
  <2> QED BY <2>1, <2>2 DEF Registered
<1>3. ASSUME NEW h \in Handler, (Registers(h) /\ ~MayRegister) \/ Starts(h) \/ Leaves(h)
      PROVE  Registered' \subseteq Registered
  BY <1>3 DEF Registers, Starts, Leaves, At, CInv, ConnTypeOK, Handlers, Shape, Registered
<1> QED
  BY <1>1, <1>2, <1>3 DEF ConnNext, HandlerStep, UpgradeStep, ReaderStep, PingerStep, CloserStep, conn,
     connVars, Checks, TurnsAway, Judges, ClosesSocket, Cancels, Joins, RunCancelled, WriteFails, RunReturns,
     Upgrades, UpgradeFails, Handles, RunEnds, Reads, ReadFails, ReaderDone, ReaderOverflows,
     PeerLeaves, PingerStops, PingerDone, PingFails, CloserCloses, CloserCancels, Stops, Collects,
     ServerCloseReturns, CloseGivesUp, MarketStops

\* The limit on connections holds for any number of requests, although a request
\* is examined before its upgrade, and the slots are those of the handlers at work.
THEOREM SlotsKept == ConnSpec => []SlotsAgree
<1> DEFINE Within == Cardinality(Registered) <= MaxConnections
<1>1. Registered \subseteq Handler /\ MaxConnections \in Nat
  BY ConnectionsAssumption DEF Registered
<1>2. IsFiniteSet(Registered) /\ Cardinality(Registered) \in Nat
  BY <1>1, ConnectionsAssumption, FS_Subset, FS_CardinalityType
<1>3. ConnInit => Within
  <2> SUFFICES ASSUME ConnInit PROVE Within
    OBVIOUS
  <2>1. Registered = {}
    BY DEF ConnInit, Registered
  <2> QED BY <1>1, <2>1, FS_EmptySet
<1>4. CInv /\ Within /\ [ConnNext]_connVars => Within'
  <2> SUFFICES ASSUME CInv, Within, [ConnNext]_connVars PROVE Cardinality(Registered') <= MaxConnections
    OBVIOUS
  <2>1. CASE Registered' \subseteq Registered
    <3>1. Cardinality(Registered') <= Cardinality(Registered) /\ IsFiniteSet(Registered')
      BY <1>2, <2>1, FS_Subset
    <3>2. Cardinality(Registered') \in Nat
      BY <3>1, FS_CardinalityType
    <3> QED BY <1>1, <1>2, <3>1, <3>2
  <2>2. ASSUME NEW h \in Handler, Registered' = Registered \cup {h},
               Cardinality(Registered) < MaxConnections
        PROVE  Cardinality(Registered') <= MaxConnections
    <3>1. Cardinality(Registered') <= Cardinality(Registered) + 1
      BY <1>2, <2>2, FS_AddElement
    <3>2. Cardinality(Registered') \in Nat
      BY <1>2, <2>2, FS_AddElement, FS_CardinalityType
    <3> QED BY <1>1, <1>2, <2>2, <3>1, <3>2
  <2> QED BY <2>1, <2>2, SlotsStep
<1>5. CInv /\ Within => SlotsAgree
  BY DEF CInv, Handlers, Shape, SlotsAgree
<1> QED BY <1>3, <1>4, <1>5, ConnectionsInvariance, PTL DEF ConnSpec

=============================================================================
