--------------------------- MODULE TelemetryProofs ---------------------------
(***************************************************************************)
(* Theorems about Telemetry, for any intervals, limits, delays and bounds. *)
(* MInv is inductive: what is on its way on either side of the socket, or   *)
(* waits in the server for its delay, belongs to a probe that telemetry     *)
(* has numbered, and can only be matched with a probe of its own life.      *)
(* PInv follows a prompt page from probe to probe and report to report.     *)
(***************************************************************************)
EXTENDS Telemetry, FiniteSetTheorems, SequenceTheorems, WellFoundedInduction, TLAPS

LEMMA Numbers ==
    /\ Timeout \in Nat /\ SampleAge \in Nat /\ MaxInFlight \in Nat /\ MaxInFlight >= 1
    /\ MaxSuccesses \in Nat /\ PingEvery \in Nat /\ ReportEvery \in Nat
    /\ Delay \in Nat /\ MaxDelayed \in Nat /\ MissingStep \in Nat
    /\ MaxTime \in Nat /\ MaxEpoch \in Nat /\ MaxEpoch >= 1 /\ MaxEnv \in Nat
    /\ MaxSuccesses >= 1
BY TelemetryAssumption

-----------------------------------------------------------------------------
(* Sequences. *)

\* A sequence over a set is one over any larger set.
LEMMA SeqMore ==
    ASSUME NEW A, NEW B, A \subseteq B, NEW s \in Seq(A)
    PROVE  s \in Seq(B)
BY SeqMonotonic

LEMMA SeqAppend ==
    ASSUME NEW A, NEW s \in Seq(A), NEW x \in A
    PROVE  Append(s, x) \in Seq(A) /\ Len(Append(s, x)) = Len(s) + 1
BY AppendProperties

LEMMA SeqTail ==
    ASSUME NEW A, NEW s \in Seq(A), s # <<>>
    PROVE  Head(s) \in A /\ Tail(s) \in Seq(A)
BY HeadTailProperties

LEMMA SeqOf ==
    ASSUME NEW A, NEW n \in Nat, NEW s \in [1 .. n -> A]
    PROVE  s \in Seq(A) /\ Len(s) = n
OBVIOUS

-----------------------------------------------------------------------------
(* Samples. *)

\* A nonempty set of naturals has a least element.
LEMMA LeastNat ==
    ASSUME NEW T \in SUBSET Nat, T # {}
    PROVE  \E n \in T : \A m \in T : n <= m
<1>1. IsWellFoundedOn(OpToRel(<, Nat), Nat)
  BY NatLessThanWellFounded
<1>2. PICK n \in T : \A m \in T : <<m, n>> \notin OpToRel(<, Nat)
  BY <1>1, WFMin, Zenon
<1>3. \A m \in T : ~(m < n)
  BY <1>2 DEF OpToRel
<1> QED BY <1>3

\* What trimSuccesses keeps: young samples, and no more than the limit, because
\* the oldest of them has the others above it.
LEMMA TrimFacts ==
    ASSUME NEW S \in SUBSET Samples, IsFiniteSet(S), UniqueIds(S), now \in Nat
    PROVE  /\ TrimSuccesses(S) \in SUBSET S /\ IsFiniteSet(TrimSuccesses(S))
           /\ UniqueIds(TrimSuccesses(S))
           /\ Cardinality(TrimSuccesses(S)) \in Nat
           /\ Cardinality(TrimSuccesses(S)) <= MaxSuccesses
           /\ \A s \in TrimSuccesses(S) : now - s.sent <= SampleAge
<1> DEFINE Young == {s \in S : now - s.sent <= SampleAge}
           Above(s) == {u \in Young : u.id > s.id}
           K == {s \in Young : Cardinality(Above(s)) < MaxSuccesses}
<1>1. TrimSuccesses(S) = K
  BY DEF TrimSuccesses
<1>2. Young \in SUBSET S /\ K \in SUBSET Young
  OBVIOUS
<1>3. IsFiniteSet(Young)
  BY <1>2, FS_Subset, Zenon
<1>4. IsFiniteSet(K) /\ Cardinality(K) \in Nat
  BY <1>2, <1>3, FS_Subset, FS_CardinalityType, Zenon
<1>5. \A s \in K : now - s.sent <= SampleAge
  OBVIOUS
<1>6. UniqueIds(K)
  BY <1>2 DEF UniqueIds
<1>7. Cardinality(K) <= MaxSuccesses
  <2> SUFFICES ASSUME K # {}, Cardinality(K) > MaxSuccesses PROVE FALSE
    BY <1>4, Numbers, FS_EmptySet
  <2> DEFINE I == {s.id : s \in K}
  <2>1. I \in SUBSET Nat /\ I # {}
    BY <1>2 DEF Samples
  <2>2. PICK i \in I : \A j \in I : i <= j
    BY <2>1, LeastNat
  <2>3. PICK m \in K : m.id = i
    BY <2>2
  <2>4. \A u \in K \ {m} : u \in Above(m)
    <3> TAKE u \in K \ {m}
    <3>1. u.id \in Nat /\ m.id \in Nat /\ m.id <= u.id
      BY <1>2, <2>2, <2>3 DEF Samples
    <3>2. u.id # m.id
      BY <1>6 DEF UniqueIds
    <3> QED BY <1>2, <3>1, <3>2
  <2>5. K \ {m} \in SUBSET Above(m) /\ Above(m) \in SUBSET Young
    BY <2>4
  <2>6. IsFiniteSet(Above(m)) /\ Cardinality(Above(m)) \in Nat
    BY <1>3, <2>5, FS_Subset, FS_CardinalityType, Zenon
  <2>7. Cardinality(K \ {m}) <= Cardinality(Above(m))
    BY <2>5, <2>6, FS_Subset, Zenon
  <2>8. Cardinality(K \ {m}) = Cardinality(K) - 1
    BY <1>4, <2>3, FS_RemoveElement, Zenon
  <2>9. Cardinality(Above(m)) < MaxSuccesses
    BY <2>3
  <2> HIDE DEF K, Above
  <2> QED BY <1>4, <2>6, <2>7, <2>8, <2>9, Numbers
<1> HIDE DEF K, Young
<1>8. K \in SUBSET S
  BY <1>2
<1> QED BY <1>1, <1>4, <1>5, <1>6, <1>7, <1>8

\* The ids of a part of the probes.
LEMMA IdsFacts ==
    /\ \A A, B : A \subseteq B => Ids(A) \subseteq Ids(B)
    /\ \A A, B : Ids(A \cup B) = Ids(A) \cup Ids(B)
    /\ \A A : Ids(A) = {} <=> A = {}
    /\ \A A : \A p \in A : p.id \in Ids(A)
    /\ \A x : Ids({x}) = {x.id}
BY DEF Ids

\* Probes of distinct numbers fall into parts of distinct numbers.
LEMMA IdsApart ==
    ASSUME NEW S, UniqueIds(S), NEW A \in SUBSET S
    PROVE  Ids(S \ A) \cap Ids(A) = {}
BY DEF Ids, UniqueIds

-----------------------------------------------------------------------------
(* The operations of telemetry keep it sound. *)

\* In what a step may change the numbers that are used and waited for, so that
\* what is on its way stays known.
Follows(t, l, u, m) ==
    /\ t.epoch = u.epoch /\ t.high <= u.high
    /\ \A i \in Ids(u.pending) : i \in 1 .. t.high => i \in Ids(t.pending) /\ l = m

LEMMA ResetSound ==
    ASSUME NEW t, NEW l \in Nat, NEW n \in Nat, Sound(t, l, n),
           NEW e \in {t.epoch, t.epoch + 1}, e <= MaxEpoch
    PROVE  /\ Sound(Reset(t, e), l + 1, n) /\ Reset(t, e).epoch = e
           /\ Reset(t, e).pending = {} /\ Reset(t, e).high <= t.high
           /\ e = t.epoch => Follows(t, l, Reset(t, e), l + 1)
           /\ e # t.epoch => Reset(t, e).high = 0
<1> DEFINE r == Reset(t, e)
<1>1. t \in Teles /\ t.high \in Nat
  BY DEF Sound, Teles
<1>2. /\ r.epoch = e /\ r.high = IF e = t.epoch THEN t.high ELSE 0
      /\ r.pending = {} /\ r.successes = {} /\ r.timedOut = {}
  BY <1>1 DEF Reset, Teles
<1>3. e \in 1 .. MaxEpoch
  BY <1>1, Numbers DEF Teles
<1>4. r \in Teles
  BY <1>1, <1>3 DEF Reset, Teles
<1> HIDE DEF r
<1>5. Ids(r.pending) = {} /\ Ids(r.successes) = {}
  BY <1>2, IdsFacts
<1>6. Sound(r, l + 1, n)
  BY <1>2, <1>4, <1>5, FS_EmptySet, Numbers DEF Sound, UniqueIds
<1>7. e = t.epoch => Follows(t, l, r, l + 1)
  BY <1>1, <1>2, <1>5 DEF Follows
<1> QED BY <1>1, <1>2, <1>6, <1>7 DEF r

\* What is taken out of pending and ends as timed out, or as nothing.
Part(t, gone, late, kept) ==
    [t EXCEPT !.pending = @ \ gone, !.timedOut = @ \cup Ids(late), !.successes = kept]

LEMMA PartSound ==
    ASSUME NEW t, NEW l \in Nat, NEW n \in Nat, Sound(t, l, n),
           NEW gone \in SUBSET t.pending, NEW late \in SUBSET gone,
           NEW kept, kept \in SUBSET Samples, IsFiniteSet(kept), UniqueIds(kept),
           Cardinality(kept) <= MaxSuccesses,
           \A s \in kept : \/ s \in t.successes
                           \/ s.id \in Ids(gone \ late) /\ s.life = l
    PROVE  /\ Sound(Part(t, gone, late, kept), l, n) /\ Follows(t, l, Part(t, gone, late, kept), l)
           /\ Part(t, gone, late, kept).epoch = t.epoch
           /\ Part(t, gone, late, kept).high = t.high
<1> DEFINE u == Part(t, gone, late, kept)
<1>1. t \in Teles /\ t.high \in Nat
  BY DEF Sound, Teles
<1>2. /\ u.epoch = t.epoch /\ u.high = t.high
      /\ u.pending = t.pending \ gone /\ u.successes = kept
      /\ u.timedOut = t.timedOut \cup Ids(late)
  BY <1>1 DEF Teles, Part
<1>3. /\ t.pending \in SUBSET Probes /\ UniqueIds(t.pending) /\ IsFiniteSet(t.pending)
      /\ Cardinality(t.pending) <= MaxInFlight
      /\ \A p \in t.pending : p.id \in 1 .. t.high /\ p.sent <= n
      /\ \A s \in t.successes : s.id \in 1 .. t.high /\ s.life = l
      /\ t.timedOut \subseteq 1 .. t.high
      /\ Ids(t.pending) \cap Ids(t.successes) = {} /\ Ids(t.pending) \cap t.timedOut = {}
      /\ Ids(t.successes) \cap t.timedOut = {}
  BY <1>1 DEF Sound, Teles
<1>4. /\ Ids(u.pending) \subseteq Ids(t.pending) /\ Ids(gone) \subseteq Ids(t.pending)
      /\ Ids(late) \subseteq Ids(gone) /\ Ids(gone \ late) \subseteq Ids(gone)
      /\ Ids(u.pending) \cap Ids(gone) = {}
      /\ Ids(gone \ late) \cap Ids(late) = {}
  <2>1. t.pending \ gone \subseteq t.pending /\ gone \subseteq t.pending /\ gone \ late \subseteq gone
    OBVIOUS
  <2>2. UniqueIds(gone)
    BY <1>3 DEF UniqueIds
  <2> QED BY <1>2, <1>3, <2>1, <2>2, IdsFacts, IdsApart
<1>5. Ids(t.pending) \subseteq 1 .. t.high
  BY <1>3 DEF Ids
<1>6. u \in Teles
  <2>1. Ids(late) \subseteq Nat
    BY <1>1, <1>4, <1>5
  <2>2. t.pending \ gone \in SUBSET Probes /\ t.timedOut \cup Ids(late) \in SUBSET Nat
    BY <1>1, <1>3, <2>1
  <2> QED BY <1>1, <2>2 DEF Teles, Part
<1> HIDE DEF u
<1>7. \A i \in Ids(kept) : i \in Ids(t.successes) \/ i \in Ids(gone \ late)
  BY DEF Ids
<1>8. UniqueIds(u.pending) /\ IsFiniteSet(u.pending) /\ Cardinality(u.pending) <= MaxInFlight
  <2>1. u.pending \in SUBSET t.pending
    BY <1>2
  <2>2. IsFiniteSet(u.pending) /\ Cardinality(u.pending) <= Cardinality(t.pending)
    BY <1>3, <2>1, FS_Subset, Zenon
  <2>3. Cardinality(u.pending) \in Nat /\ Cardinality(t.pending) \in Nat
    BY <1>3, <2>2, FS_CardinalityType
  <2> QED BY <1>3, <2>1, <2>2, <2>3, Numbers DEF UniqueIds
<1>9. \A s \in u.successes : s.id \in 1 .. t.high /\ s.life = l
  BY <1>2, <1>3, <1>4, <1>5
<1>10. u.timedOut \subseteq 1 .. t.high
  BY <1>2, <1>3, <1>4, <1>5
<1>11. /\ Ids(u.pending) \cap Ids(u.successes) = {} /\ Ids(u.pending) \cap u.timedOut = {}
       /\ Ids(u.successes) \cap u.timedOut = {}
  BY <1>2, <1>3, <1>4, <1>7
<1>12. \A p \in u.pending : p.id \in 1 .. u.high /\ p.sent <= n
  BY <1>2, <1>3
<1>13. Sound(u, l, n)
  BY <1>2, <1>6, <1>8, <1>9, <1>10, <1>11, <1>12 DEF Sound
<1>14. Follows(t, l, u, l)
  <2>1. t.epoch = u.epoch /\ t.high <= u.high
    BY <1>1, <1>2
  <2>2. \A i \in Ids(u.pending) : i \in Ids(t.pending)
    BY <1>4
  <2> QED BY <2>1, <2>2, Zenon DEF Follows
<1> QED BY <1>2, <1>13, <1>14, Zenon DEF u

LEMMA AdvanceSound ==
    ASSUME NEW t, NEW l \in Nat, now \in Nat, Sound(t, l, now)
    PROVE  /\ Sound(Advance(t), l, now) /\ Follows(t, l, Advance(t), l)
           /\ Advance(t).epoch = t.epoch /\ Advance(t).high = t.high
           /\ \A s \in Advance(t).successes : now - s.sent <= SampleAge
<1> DEFINE expired == {p \in t.pending : now - p.sent >= Timeout}
           u == [t EXCEPT !.pending = @ \ expired, !.timedOut = @ \cup Ids(expired),
                          !.successes = TrimSuccesses(@)]
<1>1. Advance(t) = u
  BY DEF Advance
<1>2. /\ t \in Teles /\ t.successes \in SUBSET Samples
      /\ IsFiniteSet(t.successes) /\ UniqueIds(t.successes)
  BY DEF Sound, Teles
<1>3. expired \in SUBSET t.pending
  OBVIOUS
<1> HIDE DEF expired
<1> DEFINE kept == TrimSuccesses(t.successes)
<1>4. /\ kept \in SUBSET t.successes /\ IsFiniteSet(kept) /\ UniqueIds(kept)
      /\ Cardinality(kept) <= MaxSuccesses
      /\ \A s \in kept : now - s.sent <= SampleAge
  BY <1>2, TrimFacts
<1>5. u = Part(t, expired, expired, kept)
  BY DEF kept, Part
<1>6. kept \in SUBSET Samples /\ \A s \in kept : s \in t.successes
  BY <1>2, <1>4
<1>7. u.successes = kept
  BY <1>2 DEF Teles
<1> HIDE DEF kept, u
<1>8. Sound(u, l, now) /\ Follows(t, l, u, l) /\ u.epoch = t.epoch /\ u.high = t.high
  <2>1. expired \in SUBSET expired
    OBVIOUS
  <2>2. \A s \in kept : \/ s \in t.successes
                        \/ s.id \in Ids(expired \ expired) /\ s.life = l
    BY <1>6
  <2> DEFINE v == Part(t, expired, expired, kept)
  <2>3. Sound(v, l, now) /\ Follows(t, l, v, l) /\ v.epoch = t.epoch /\ v.high = t.high
    BY <1>3, <1>4, <1>6, <2>1, <2>2, PartSound, SMTT(30)
  <2> QED BY <1>5, <2>3
<1> QED BY <1>1, <1>4, <1>7, <1>8

LEMMA SendSound ==
    ASSUME NEW t, NEW l \in Nat, now \in Nat, Sound(t, l, now), NEW id \in Nat, CanSend(t, id)
    PROVE  /\ Sound(PingSent(t, id), l, now) /\ Follows(t, l, PingSent(t, id), l)
           /\ PingSent(t, id).high = id /\ PingSent(t, id).epoch = t.epoch
           /\ Known(PingSent(t, id), l, id, l)
<1> DEFINE q == [id |-> id, sent |-> now]
           u == [t EXCEPT !.pending = @ \cup {q}, !.high = id]
<1>1. PingSent(t, id) = u
  BY DEF PingSent
<1>2. /\ t \in Teles /\ t.high \in Nat
      /\ t.pending \in SUBSET Probes /\ UniqueIds(t.pending) /\ IsFiniteSet(t.pending)
      /\ \A p \in t.pending : p.id \in 1 .. t.high /\ p.sent <= now
      /\ UniqueIds(t.successes) /\ IsFiniteSet(t.successes)
      /\ Cardinality(t.successes) <= MaxSuccesses
      /\ \A s \in t.successes : s.id \in 1 .. t.high /\ s.life = l
      /\ t.timedOut \subseteq 1 .. t.high
      /\ Ids(t.pending) \cap Ids(t.successes) = {} /\ Ids(t.pending) \cap t.timedOut = {}
      /\ Ids(t.successes) \cap t.timedOut = {}
  BY DEF Sound, Teles
<1>3. id > t.high /\ Cardinality(t.pending) < MaxInFlight
  BY DEF CanSend
<1>4. q \in Probes /\ q.id = id /\ q.sent = now
  BY DEF Probes
<1>5. q \notin t.pending
  BY <1>2, <1>3, <1>4
<1>6. /\ u.epoch = t.epoch /\ u.high = id /\ u.pending = t.pending \cup {q}
      /\ u.successes = t.successes /\ u.timedOut = t.timedOut
  BY <1>2 DEF Teles
<1>7. u \in Teles
  BY <1>2, <1>4 DEF Teles
<1> HIDE DEF q, u
<1>8. Ids(u.pending) = Ids(t.pending) \cup {id}
  <2>1. Ids({q}) = {id}
    BY <1>4, IdsFacts
  <2>2. Ids(t.pending \cup {q}) = Ids(t.pending) \cup Ids({q})
    BY IdsFacts, Zenon
  <2> QED BY <1>6, <2>1, <2>2, Zenon
<1>9. Ids(t.pending) \subseteq 1 .. t.high /\ Ids(t.successes) \subseteq 1 .. t.high
  BY <1>2 DEF Ids
<1>10. /\ IsFiniteSet(u.pending) /\ Cardinality(u.pending) <= MaxInFlight
  <2>1. IsFiniteSet(t.pending \cup {q}) /\ Cardinality(t.pending \cup {q}) = Cardinality(t.pending) + 1
    BY <1>2, <1>5, FS_AddElement
  <2>2. Cardinality(t.pending) \in Nat
    BY <1>2, FS_CardinalityType
  <2> QED BY <1>3, <1>6, <2>1, <2>2, Numbers
<1>11. UniqueIds(u.pending)
  BY <1>2, <1>3, <1>4, <1>6 DEF UniqueIds
<1>12. \A p \in u.pending : p.id \in 1 .. u.high /\ p.sent <= now
  BY <1>2, <1>3, <1>4, <1>6
<1>13. \A s \in u.successes : s.id \in 1 .. u.high /\ s.life = l
  BY <1>2, <1>3, <1>6
<1>14. u.timedOut \subseteq 1 .. u.high
  BY <1>2, <1>3, <1>6
<1>15. /\ Ids(u.pending) \cap Ids(u.successes) = {} /\ Ids(u.pending) \cap u.timedOut = {}
       /\ Ids(u.successes) \cap u.timedOut = {}
  <2>1. id \notin Ids(t.successes) /\ id \notin t.timedOut
    BY <1>2, <1>3, <1>9
  <2>2. Ids(u.successes) = Ids(t.successes)
    BY <1>6
  <2> QED BY <1>2, <1>6, <1>8, <2>1, <2>2
<1>16. Sound(u, l, now)
  BY <1>2, <1>6, <1>7, <1>10, <1>11, <1>12, <1>13, <1>14, <1>15 DEF Sound
<1>17. Follows(t, l, u, l)
  BY <1>2, <1>3, <1>6, <1>8, SMTT(30) DEF Follows
<1>18. Known(u, l, id, l)
  BY <1>2, <1>3, <1>6 DEF Known
<1> QED BY <1>1, <1>6, <1>16, <1>17, <1>18


LEMMA PongSound ==
    ASSUME NEW t, NEW l \in Nat, now \in Nat, Sound(t, l, now),
           NEW pong, pong \in [id : Nat, life : Nat, epoch : Nat],
           Known(t, l, pong.id, pong.life)
    PROVE  /\ Sound(PongReceived(t, pong), l, now) /\ Follows(t, l, PongReceived(t, pong), l)
           /\ PongReceived(t, pong).epoch = t.epoch /\ PongReceived(t, pong).high = t.high
<1> DEFINE mine == {p \in t.pending : p.id = pong.id}
           late == {p \in mine : now - p.sent >= Timeout}
           samples == {[id |-> p.id, sent |-> p.sent, life |-> pong.life] : p \in mine \ late}
           kept == IF samples = {} THEN t.successes ELSE TrimSuccesses(t.successes \cup samples)
           u == [t EXCEPT !.pending = @ \ mine, !.timedOut = @ \cup Ids(late),
                          !.successes = IF samples = {} THEN @ ELSE TrimSuccesses(@ \cup samples)]
<1>1. PongReceived(t, pong) = u
  BY DEF PongReceived
<1>2. /\ t \in Teles /\ t.successes \in SUBSET Samples /\ t.pending \in SUBSET Probes
      /\ IsFiniteSet(t.successes) /\ UniqueIds(t.successes) /\ UniqueIds(t.pending)
      /\ Cardinality(t.successes) <= MaxSuccesses
      /\ Ids(t.pending) \cap Ids(t.successes) = {}
  BY DEF Sound, Teles
<1>3. u = Part(t, mine, late, kept)
  BY DEF Part
<1>4. mine \in SUBSET t.pending /\ late \in SUBSET mine
  OBVIOUS
<1>5. \A s \in samples : /\ s \in Samples /\ s.id = pong.id /\ s.life = l
                         /\ s.id \in Ids(mine \ late) /\ s.id \notin Ids(t.successes)
  <2> SUFFICES ASSUME NEW p \in mine \ late
               PROVE  LET s == [id |-> p.id, sent |-> p.sent, life |-> pong.life]
                      IN  /\ s \in Samples /\ s.id = pong.id /\ s.life = l
                          /\ s.id \in Ids(mine \ late) /\ s.id \notin Ids(t.successes)
    OBVIOUS
  <2>1. p \in Probes /\ p.id = pong.id /\ p.id \in Ids(t.pending) /\ p.id \in Ids(mine \ late)
    BY <1>2 DEF Ids
  <2>2. pong.life = l /\ l \in Nat
    BY <2>1 DEF Known
  <2>3. p.id \notin Ids(t.successes)
    BY <1>2, <2>1
  <2> QED BY <2>1, <2>2, <2>3 DEF Samples, Probes
<1>6. samples # {} => \E x : samples = {x}
  <2> SUFFICES ASSUME samples # {} PROVE \E x : samples = {x}
    OBVIOUS
  <2>1. PICK p : p \in mine \ late
    OBVIOUS
  <2>2. mine \ late = {p}
    BY <1>2, <2>1 DEF UniqueIds
  <2>3. samples = {[id |-> p.id, sent |-> p.sent, life |-> pong.life]}
    <3> HIDE DEF mine, late
    <3> QED BY <2>2
  <2> QED BY <2>3
<1> DEFINE all == t.successes \cup samples
<1>7. samples # {} => all \in SUBSET Samples /\ IsFiniteSet(all) /\ UniqueIds(all)
  <2> SUFFICES ASSUME samples # {}
               PROVE  all \in SUBSET Samples /\ IsFiniteSet(all) /\ UniqueIds(all)
    OBVIOUS
  <2>1. PICK x : samples = {x}
    BY <1>6
  <2>2. x \in Samples /\ x.id \notin Ids(t.successes)
    BY <1>5, <2>1
  <2> HIDE DEF samples
  <2>3. IsFiniteSet(all)
    BY <1>2, <2>1, FS_AddElement
  <2>4. \A s \in t.successes : s.id # x.id
    BY <2>2, IdsFacts
  <2> QED BY <1>2, <2>1, <2>2, <2>3, <2>4 DEF UniqueIds
<1>8. samples # {} => /\ TrimSuccesses(all) \in SUBSET all /\ IsFiniteSet(TrimSuccesses(all))
                      /\ UniqueIds(TrimSuccesses(all))
                      /\ Cardinality(TrimSuccesses(all)) <= MaxSuccesses
  <2> HIDE DEF all
  <2> QED BY <1>7, TrimFacts
<1>9. /\ kept \in SUBSET Samples /\ IsFiniteSet(kept) /\ UniqueIds(kept)
      /\ Cardinality(kept) <= MaxSuccesses
  <2> HIDE DEF samples
  <2> QED BY <1>2, <1>7, <1>8
<1>10. \A s \in kept : \/ s \in t.successes
                       \/ s.id \in Ids(mine \ late) /\ s.life = l
  <2>1. \A s \in kept : s \in t.successes \/ s \in samples
    <3> HIDE DEF samples
    <3> QED BY <1>8
  <2> HIDE DEF samples, kept
  <2> QED BY <1>5, <2>1
<1> HIDE DEF mine, late, kept, u
<1>11. Sound(u, l, now) /\ Follows(t, l, u, l) /\ u.epoch = t.epoch /\ u.high = t.high
  <2> DEFINE v == Part(t, mine, late, kept)
  <2>1. Sound(v, l, now) /\ Follows(t, l, v, l) /\ v.epoch = t.epoch /\ v.high = t.high
    BY <1>4, <1>9, <1>10, PartSound, SMTT(30)
  <2> QED BY <1>3, <2>1
<1> QED BY <1>1, <1>11

\* Time only makes probes older.
LEMMA LaterSound ==
    ASSUME NEW t, NEW l \in Nat, NEW n \in Nat, Sound(t, l, n)
    PROVE  Sound(t, l, n + 1)
<1>1. \A p \in t.pending : p.sent \in Nat
  BY DEF Sound, Teles, Probes
<1> QED BY <1>1 DEF Sound

-----------------------------------------------------------------------------
(* What is on its way. *)

LEMMA SelfFollows ==
    ASSUME NEW t, t.high \in Nat, NEW l
    PROVE  Follows(t, l, t, l)
BY DEF Follows

LEMMA FollowsOn ==
    ASSUME NEW t, NEW l, NEW u, NEW m, NEW v, NEW k, Follows(t, l, u, m), Follows(u, m, v, k),
           t.high \in Nat, u.high \in Nat, v.high \in Nat
    PROVE  Follows(t, l, v, k)
BY DEF Follows

LEMMA StillKnown ==
    ASSUME NEW t, NEW l, NEW u, NEW m, Follows(t, l, u, m), t.high \in Nat, u.high \in Nat
    PROVE  /\ Pings(t, l) \subseteq Pings(u, m) /\ Pongs(t, l) \subseteq Pongs(u, m)
           /\ Delayed(t, l) \subseteq Delayed(u, m) /\ Messages(t, l) \subseteq Messages(u, m)
<1>1. \A id, of : Known(t, l, id, of) => Known(u, m, id, of)
  BY DEF Follows, Known
<1>2. Pings(t, l) \subseteq Pings(u, m)
  BY <1>1 DEF Pings
<1>3. Pongs(t, l) \subseteq Pongs(u, m)
  BY <1>1 DEF Pongs, Follows
<1>4. Delayed(t, l) \subseteq Delayed(u, m)
  BY <1>2 DEF Delayed
<1>5. Messages(t, l) \subseteq Messages(u, m)
  BY <1>2 DEF Messages
<1> QED BY <1>2, <1>3, <1>4, <1>5

\* A step of the page that leaves the socket and the server alone.
LEMMA CarriedOver ==
    ASSUME NEW t, NEW l, NEW u, NEW m, Follows(t, l, u, m), t.high \in Nat, u.high \in Nat,
           NEW a \in Seq(Messages(t, l)), NEW b \in Seq(Pongs(t, l)), NEW s \in Servers(t, l)
    PROVE  a \in Seq(Messages(u, m)) /\ b \in Seq(Pongs(u, m)) /\ s \in Servers(u, m)
<1>1. /\ Pongs(t, l) \subseteq Pongs(u, m) /\ Delayed(t, l) \subseteq Delayed(u, m)
      /\ Messages(t, l) \subseteq Messages(u, m)
  BY StillKnown
<1>2. a \in Seq(Messages(u, m)) /\ b \in Seq(Pongs(u, m))
  BY <1>1, SeqMore
<1>3. s.delayed \in Seq(Delayed(t, l))
  BY DEF Servers
<1>4. s.delayed \in Seq(Delayed(u, m))
  BY <1>1, <1>3, SeqMore
<1>5. s \in Servers(u, m)
  BY <1>4 DEF Servers
<1> QED BY <1>2, <1>5

\* The pieces of MInv about telemetry and its numbers.
LEMMA Pieces ==
    ASSUME MInv
    PROVE  /\ now \in Nat /\ now <= MaxTime /\ life \in Nat /\ env \in Nat /\ env <= MaxEnv
           /\ Sound(tele, life, now) /\ tele \in Teles /\ tele.high \in Nat
           /\ tele.epoch \in Nat /\ tele.epoch >= 1 /\ tele.epoch <= MaxEpoch
           /\ page \in Pages /\ page.pingId \in Nat /\ tele.high <= page.pingId
           /\ up \in Seq(Messages(tele, life)) /\ (~page.live => up = <<>>)
           /\ down \in Seq(Pongs(tele, life)) /\ server \in Servers(tele, life)
           /\ server.heard <= now /\ Len(server.delayed) <= MaxDelayed
           /\ server.heard \in Nat /\ server.delayed \in Seq(Delayed(tele, life))
           /\ prompt \in BOOLEAN
<1>1. Sound(tele, life, now) => tele \in Teles
  BY DEF Sound
<1> QED BY <1>1, Numbers, SMTT(30) DEF MInv, Teles, Pages, Servers


-----------------------------------------------------------------------------
(* The steps. *)

\* A step that leaves the messages, the pongs and the server alone.
LEMMA StaysOK ==
    ASSUME MInv, Sound(tele', life', now'), Follows(tele, life, tele', life'),
           now' \in 0 .. MaxTime, life' \in Nat, prompt' \in BOOLEAN, env' \in 0 .. MaxEnv,
           page' \in Pages, tele'.high <= page'.pingId, now <= now',
           up' \in Seq(Messages(tele', life')), ~page'.live => up' = <<>>,
           down' \in Seq(Pongs(tele', life')), UNCHANGED server
    PROVE  MInv'
<1>1. tele.high \in Nat /\ tele'.high \in Nat /\ now \in Nat /\ server.heard \in Nat
  BY Pieces DEF Sound, Teles
<1>2. server \in Servers(tele', life')
  BY <1>1, Pieces, CarriedOver
<1>3. server'.heard <= now'
  BY <1>1, Pieces, SMTT(30)
<1>4. Len(server'.delayed) <= MaxDelayed
  BY Pieces
<1> QED BY <1>2, <1>3, <1>4 DEF MInv

\* probe, from telemetry t that is sound for the life after the step.
LEMMA ProbeOK ==
    ASSUME NEW t, now \in Nat, life' \in Nat, Sound(t, life', now), NEW id \in Nat, t.high <= id,
           NEW out \in Seq(Messages(t, life')), Probe(out, t, id)
    PROVE  /\ Sound(tele', life', now) /\ Follows(t, life', tele', life')
           /\ tele'.high <= id /\ tele'.high \in Nat
           /\ up' \in Seq(Messages(tele', life'))
<1> DEFINE a == Advance(t)
<1>1. /\ Sound(a, life', now) /\ Follows(t, life', a, life')
      /\ a.epoch = t.epoch /\ a.high = t.high
  BY AdvanceSound
<1> HIDE DEF a
<1>2. t.high \in Nat /\ a.high \in Nat
  BY <1>1 DEF Sound, Teles
<1>3. out \in Seq(Messages(a, life'))
  BY <1>1, <1>2, StillKnown, SeqMore
<1>4. CASE CanSend(a, id)
  <2> DEFINE s == PingSent(a, id)
             m == [kind |-> "ping", content |-> [id |-> id, life |-> life']]
  <2>1. tele' = s /\ up' = Append(out, m)
    BY <1>4 DEF Probe, a
  <2>2. /\ Sound(s, life', now) /\ Follows(a, life', s, life')
        /\ s.high = id /\ Known(s, life', id, life')
    BY <1>1, <1>4, SendSound
  <2> HIDE DEF s
  <2>3. Follows(t, life', s, life')
    BY <1>1, <1>2, <2>2, FollowsOn
  <2>4. m \in Messages(s, life')
    <3>1. [id |-> id, life |-> life'] \in Pings(s, life')
      BY <2>2 DEF Pings
    <3> QED BY <3>1 DEF Messages
  <2>5. out \in Seq(Messages(s, life'))
    BY <1>2, <1>3, <2>2, StillKnown, SeqMore
  <2> HIDE DEF m
  <2>6. Append(out, m) \in Seq(Messages(s, life'))
    BY <2>4, <2>5, SeqAppend
  <2> QED BY <2>1, <2>2, <2>3, <2>6
<1>5. CASE ~CanSend(a, id)
  <2>1. tele' = a /\ up' = out
    BY <1>5 DEF Probe, a
  <2> QED BY <1>1, <1>2, <1>3, <2>1
<1> QED BY <1>4, <1>5

LEMMA PingTimerOK == ASSUME MInv, PingTimer PROVE MInv'
<1>1. /\ page.live /\ page.visible /\ page' = [page EXCEPT !.pingId = @ + 1, !.pingAt = now + PingEvery]
      /\ life' = life /\ now' = now /\ down' = down /\ server' = server
      /\ prompt' = prompt /\ env' = env
      /\ Probe(up, tele, page'.pingId)
  BY DEF PingTimer, Measuring
<1>2. page' \in Pages /\ page'.pingId = page.pingId + 1 /\ page'.live
  <2>1. page \in Pages /\ page.pingId + 1 \in Nat /\ now + PingEvery \in Nat
    BY Pieces, Numbers, SMTT(30)
  <2>2. page' \in Pages /\ page'.pingId = page.pingId + 1
    BY <1>1, <2>1 DEF Pages
  <2>3. page'.live = page.live
    BY <1>1, <2>1, Zenon DEF Pages
  <2> QED BY <1>1, <2>2, <2>3
<1>3. /\ Sound(tele', life', now) /\ Follows(tele, life', tele', life')
      /\ tele'.high <= page'.pingId /\ tele'.high \in Nat
      /\ up' \in Seq(Messages(tele', life'))
  <2>1. page'.pingId \in Nat /\ tele.high <= page'.pingId
    BY <1>2, Pieces, SMTT(30)
  <2>2. Sound(tele, life', now) /\ up \in Seq(Messages(tele, life')) /\ life' \in Nat /\ now \in Nat
    BY <1>1, Pieces
  <2> QED BY <1>1, <2>1, <2>2, ProbeOK
<1>4. Follows(tele, life, tele', life') /\ Sound(tele', life', now')
  BY <1>1, <1>3
<1>5. down' \in Seq(Pongs(tele', life'))
  BY <1>1, <1>3, <1>4, Pieces, CarriedOver
<1> QED BY <1>1, <1>2, <1>3, <1>4, <1>5, StaysOK DEF MInv

LEMMA ReportTimerOK == ASSUME MInv, ReportTimer PROVE MInv'
<1> DEFINE a == Advance(tele)
           r == [at |-> now, samples |-> a.successes]
<1>1. /\ page.live /\ page' = [page EXCEPT !.reportAt = now + ReportEvery] /\ tele' = a
      /\ up' = IF Cardinality(a.successes) >= 2
               THEN Append(up, [kind |-> "report", content |-> r]) ELSE up
      /\ now' = now /\ down' = down /\ server' = server
      /\ life' = life /\ prompt' = prompt /\ env' = env
  BY DEF ReportTimer, Measuring, Sends
<1>2. /\ Sound(a, life, now) /\ Follows(tele, life, a, life) /\ a.high = tele.high
      /\ \A s \in a.successes : now - s.sent <= SampleAge
  BY Pieces, AdvanceSound
<1>3. page' \in Pages /\ page'.pingId = page.pingId /\ page'.live
  <2>1. page \in Pages /\ now + ReportEvery \in Nat
    BY Pieces, Numbers, SMTT(30)
  <2>2. page' \in Pages /\ page'.pingId = page.pingId
    BY <1>1, <2>1 DEF Pages
  <2>3. page'.live = page.live
    BY <1>1, <2>1, Zenon DEF Pages
  <2> QED BY <1>1, <2>2, <2>3
<1> HIDE DEF a
<1>4. up \in Seq(Messages(a, life)) /\ down \in Seq(Pongs(a, life))
  BY <1>2, Pieces, CarriedOver
<1>5. Cardinality(a.successes) >= 2 => [kind |-> "report", content |-> r] \in Messages(a, life)
  <2> SUFFICES ASSUME Cardinality(a.successes) >= 2
               PROVE  [kind |-> "report", content |-> r] \in Messages(a, life)
    OBVIOUS
  <2>1. a.successes \in SUBSET Samples
    BY <1>2 DEF Sound, Teles
  <2>2. r \in Reports
    BY <1>2, <2>1, Pieces DEF Reports
  <2> QED BY <2>2 DEF Messages
<1> HIDE DEF r
<1>6. up' \in Seq(Messages(a, life))
  BY <1>1, <1>4, <1>5, SeqAppend
<1>7. /\ Sound(tele', life', now') /\ Follows(tele, life, tele', life')
      /\ tele'.high <= page'.pingId
      /\ up' \in Seq(Messages(tele', life')) /\ down' \in Seq(Pongs(tele', life'))
  BY <1>1, <1>2, <1>3, <1>4, <1>6, Pieces
<1> QED BY <1>1, <1>3, <1>7, StaysOK DEF MInv

LEMMA HealthOK == ASSUME MInv, Health PROVE MInv'
<1> DEFINE a == Advance(tele)
<1>1. /\ tele' = a /\ UNCHANGED <<now, page, up, down, server, life, prompt, env>>
  BY DEF Health
<1>2. Sound(a, life, now) /\ Follows(tele, life, a, life) /\ a.high = tele.high
  BY Pieces, AdvanceSound
<1> HIDE DEF a
<1>3. up \in Seq(Messages(a, life)) /\ down \in Seq(Pongs(a, life))
  BY <1>2, Pieces, CarriedOver
<1>4. /\ Sound(tele', life', now') /\ Follows(tele, life, tele', life')
      /\ up' \in Seq(Messages(tele', life')) /\ down' \in Seq(Pongs(tele', life'))
      /\ tele'.high <= page'.pingId /\ page' \in Pages /\ (~page'.live => up' = <<>>)
  BY <1>1, <1>2, <1>3, Pieces
<1> QED BY <1>1, <1>4, StaysOK DEF MInv

LEMMA ReceivePongOK == ASSUME MInv, ReceivePong PROVE MInv'
<1> DEFINE p == Head(down)
           u == IF IsCurrent(p) THEN PongReceived(tele, p) ELSE tele
<1>1. /\ down # <<>> /\ down' = Tail(down) /\ tele' = u
      /\ UNCHANGED <<now, page, up, server, life, prompt, env>>
  BY DEF ReceivePong
<1>2. p \in Pongs(tele, life) /\ Tail(down) \in Seq(Pongs(tele, life))
  BY <1>1, Pieces, SeqTail
<1>3. Sound(u, life, now) /\ Follows(tele, life, u, life) /\ u.high = tele.high
  <2>1. CASE IsCurrent(p)
    <3>1. p \in [id : Nat, life : Nat, epoch : Nat] /\ Known(tele, life, p.id, p.life)
      BY <1>2, <2>1 DEF Pongs, IsCurrent
    <3> HIDE DEF p
    <3> QED BY <2>1, <3>1, Pieces, PongSound
  <2>2. CASE ~IsCurrent(p)
    BY <2>2, Pieces, SelfFollows
  <2> QED BY <2>1, <2>2
<1> HIDE DEF u, p
<1>4. up \in Seq(Messages(u, life)) /\ Tail(down) \in Seq(Pongs(u, life))
  BY <1>2, <1>3, Pieces, CarriedOver
<1>5. /\ Sound(tele', life', now') /\ Follows(tele, life, tele', life')
      /\ up' \in Seq(Messages(tele', life')) /\ down' \in Seq(Pongs(tele', life'))
      /\ tele'.high <= page'.pingId /\ page' \in Pages /\ (~page'.live => up' = <<>>)
  BY <1>1, <1>3, <1>4, Pieces
<1> QED BY <1>1, <1>5, StaysOK DEF MInv


LEMMA SendsOK ==
    ASSUME MInv, NEW kind, NEW content, [kind |-> kind, content |-> content] \in Messages(tele, life)
    PROVE  /\ Sends(page, kind, content) \in Seq(Messages(tele, life))
           /\ ~page.live => Sends(page, kind, content) = <<>>
<1> DEFINE m == [kind |-> kind, content |-> content]
<1>1. Sends(page, kind, content) = IF page.live THEN Append(up, m) ELSE up
  BY DEF Sends
<1>2. up \in Seq(Messages(tele, life)) /\ (~page.live => up = <<>>)
  BY Pieces
<1>3. m \in Messages(tele, life)
  OBVIOUS
<1> HIDE DEF m
<1>4. Append(up, m) \in Seq(Messages(tele, life))
  BY <1>2, <1>3, SeqAppend
<1> QED BY <1>1, <1>2, <1>4

LEMMA VisibilityMessage ==
    ASSUME NEW t, NEW l, NEW b \in BOOLEAN
    PROVE  [kind |-> "visibility", content |-> b] \in Messages(t, l)
<1>1. [kind |-> "visibility", content |-> b] \in [kind : {"visibility"}, content : BOOLEAN]
  BY Zenon
<1> QED BY <1>1 DEF Messages

LEMMA EnvCounts ==
    ASSUME MInv
    PROVE  /\ env \in 0 .. MaxEnv
           /\ EnvStep => env' \in 0 .. MaxEnv
BY Pieces, Numbers, SMTT(30) DEF EnvStep, MInv

LEMMA HideOK == ASSUME MInv, Hide PROVE MInv'
<1> DEFINE r == Reset(tele, tele.epoch)
           out == Sends(page, "visibility", TRUE)
<1>1. /\ page' = [page EXCEPT !.visible = FALSE] /\ life' = life + 1 /\ tele' = r
      /\ up' = out /\ EnvStep
      /\ UNCHANGED <<now, down, server, prompt>>
  BY DEF Hide
<1>2. page' \in Pages /\ page'.pingId = page.pingId /\ page'.live = page.live
  <2>1. page \in Pages
    BY Pieces
  <2>2. page' \in Pages /\ page'.pingId = page.pingId
    BY <1>1, <2>1 DEF Pages
  <2>3. page'.live = page.live
    BY <1>1, <2>1, Zenon DEF Pages
  <2> QED BY <2>2, <2>3
<1>3. Sound(r, life + 1, now) /\ Follows(tele, life, r, life + 1) /\ r.high <= tele.high
  BY Pieces, ResetSound
<1>4. out \in Seq(Messages(tele, life)) /\ (~page.live => out = <<>>)
  BY VisibilityMessage, SendsOK
<1> HIDE DEF r, out
<1>5. r.high \in Nat /\ life + 1 \in Nat
  BY <1>3, Pieces, SMTT(30) DEF Sound, Teles
<1>6. out \in Seq(Messages(r, life + 1)) /\ down \in Seq(Pongs(r, life + 1))
  BY <1>3, <1>4, <1>5, Pieces, CarriedOver
<1>7. /\ Sound(tele', life', now') /\ Follows(tele, life, tele', life')
      /\ up' \in Seq(Messages(tele', life')) /\ down' \in Seq(Pongs(tele', life'))
      /\ tele'.high <= page'.pingId /\ (~page'.live => up' = <<>>) /\ life' \in Nat
  BY <1>1, <1>2, <1>3, <1>4, <1>5, <1>6, Pieces, SMTT(30)
<1>8. env' \in 0 .. MaxEnv
  BY <1>1, EnvCounts
<1> QED BY <1>1, <1>2, <1>7, <1>8, Pieces, StaysOK DEF MInv

LEMMA ShowOK == ASSUME MInv, Show PROVE MInv'
<1> DEFINE r == Reset(tele, tele.epoch)
           out == Sends(page, "visibility", FALSE)
<1>1. /\ life' = life + 1 /\ EnvStep /\ UNCHANGED <<now, down, server, prompt>>
  BY DEF Show
<1>2. Sound(r, life', now) /\ Follows(tele, life, r, life') /\ r.high <= tele.high /\ life' \in Nat
  BY <1>1, Pieces, ResetSound, SMTT(30)
<1>3. out \in Seq(Messages(tele, life)) /\ (~page.live => out = <<>>)
  BY VisibilityMessage, SendsOK
<1>4. env' \in 0 .. MaxEnv
  BY <1>1, EnvCounts
<1>5. CASE page.live
  <2>1. /\ page' = [page EXCEPT !.visible = TRUE, !.pingId = @ + 1,
                                !.pingAt = now + PingEvery, !.reportAt = now + ReportEvery]
        /\ Probe(out, r, page'.pingId)
    BY <1>5 DEF Show
  <2>2. page' \in Pages /\ page'.pingId = page.pingId + 1 /\ page'.live
    <3>0. page \in Pages /\ page.pingId \in Nat /\ now \in Nat
      BY Pieces
    <3>1. /\ page \in Pages /\ page.pingId + 1 \in Nat
          /\ now + PingEvery \in Nat /\ now + ReportEvery \in Nat
      BY <3>0, Numbers
    <3>2. page' \in Pages /\ page'.pingId = page.pingId + 1
      BY <2>1, <3>1 DEF Pages
    <3>3. page'.live = page.live
      BY <2>1, <3>1, Zenon DEF Pages
    <3> QED BY <1>5, <3>2, <3>3
  <2> HIDE DEF r, out
  <2>3. r.high \in Nat /\ r.high <= page'.pingId /\ page'.pingId \in Nat
    BY <1>2, <2>2, Pieces, SMTT(30) DEF Sound, Teles
  <2>4. out \in Seq(Messages(r, life'))
    BY <1>2, <1>3, <2>3, Pieces, CarriedOver
  <2>5. /\ Sound(tele', life', now) /\ Follows(r, life', tele', life')
        /\ tele'.high <= page'.pingId /\ tele'.high \in Nat
        /\ up' \in Seq(Messages(tele', life'))
    BY <1>2, <2>1, <2>3, <2>4, Pieces, ProbeOK
  <2>6. Follows(tele, life, tele', life')
    BY <1>2, <2>3, <2>5, Pieces, FollowsOn
  <2>7. down \in Seq(Pongs(tele', life'))
    BY <2>5, <2>6, Pieces, CarriedOver
  <2>8. now' = now /\ down' = down /\ server' = server /\ prompt' = prompt
    BY <1>1
  <2>9. Sound(tele', life', now') /\ down' \in Seq(Pongs(tele', life'))
    BY <2>5, <2>7, <2>8
  <2> QED BY <1>2, <1>4, <2>2, <2>5, <2>6, <2>8, <2>9, Pieces, StaysOK DEF MInv
<1>6. CASE ~page.live
  <2>1. page' = [page EXCEPT !.visible = TRUE] /\ tele' = r /\ up' = up
    BY <1>6 DEF Show
  <2>2. page' \in Pages /\ page'.pingId = page.pingId /\ page'.live = page.live
    <3>1. page \in Pages
      BY Pieces
    <3>2. page' \in Pages /\ page'.pingId = page.pingId
      BY <2>1, <3>1 DEF Pages
    <3>3. page'.live = page.live
      BY <2>1, <3>1, Zenon DEF Pages
    <3> QED BY <3>2, <3>3
  <2> HIDE DEF r, out
  <2>3. r.high \in Nat
    BY <1>2 DEF Sound, Teles
  <2>4. up \in Seq(Messages(r, life')) /\ down \in Seq(Pongs(r, life'))
    BY <1>2, <2>3, Pieces, CarriedOver
  <2>5. now' = now /\ down' = down /\ server' = server /\ prompt' = prompt
    BY <1>1
  <2>6. /\ Sound(tele', life', now') /\ Follows(tele, life, tele', life')
        /\ up' \in Seq(Messages(tele', life')) /\ down' \in Seq(Pongs(tele', life'))
        /\ tele'.high <= page'.pingId /\ (~page'.live => up' = <<>>)
    BY <1>2, <2>1, <2>2, <2>3, <2>4, <2>5, Pieces, SMTT(30)
  <2> QED BY <1>2, <1>4, <2>2, <2>5, <2>6, Pieces, StaysOK DEF MInv
<1> QED BY <1>5, <1>6

LEMMA DisconnectOK == ASSUME MInv, Disconnect PROVE MInv'
<1>1. /\ page' = [page EXCEPT !.live = FALSE] /\ up' = <<>> /\ EnvStep
      /\ UNCHANGED <<now, tele, down, server, life, prompt>>
  BY DEF Disconnect, Ends
<1>2. page' \in Pages /\ page'.pingId = page.pingId
  BY <1>1, Pieces DEF Pages
<1>3. env' \in 0 .. MaxEnv
  BY <1>1, EnvCounts
<1>4. up' \in Seq(Messages(tele', life'))
  BY <1>1, EmptySeq
<1>5. /\ Sound(tele', life', now') /\ Follows(tele, life, tele', life')
      /\ down' \in Seq(Pongs(tele', life')) /\ tele'.high <= page'.pingId
  BY <1>1, <1>2, Pieces, SelfFollows
<1> QED BY <1>1, <1>2, <1>3, <1>4, <1>5, Pieces, StaysOK DEF MInv

\* The pongs of an earlier epoch mean nothing to the new connection, and the
\* server and the socket begin empty.
LEMMA ConnectOK == ASSUME MInv, Connect PROVE MInv'
<1> DEFINE r == Reset(tele, tele.epoch + 1)
<1>1. /\ ~page.live /\ tele.epoch < MaxEpoch
      /\ page' = [live |-> TRUE, visible |-> TRUE, pingId |-> 0,
                  pingAt |-> now + PingEvery, reportAt |-> now + ReportEvery]
      /\ tele' = r /\ life' = life + 1 /\ server' = Server0(now) /\ prompt' = TRUE
      /\ UNCHANGED <<now, up, down, env>>
  BY DEF Connect
<1>2. /\ Sound(r, life + 1, now) /\ r.high = 0 /\ r.epoch = tele.epoch + 1
  <2>1. /\ tele.epoch + 1 \in {tele.epoch, tele.epoch + 1} /\ tele.epoch + 1 <= MaxEpoch
        /\ tele.epoch + 1 # tele.epoch
    BY <1>1, Pieces, Numbers, SMTT(30)
  <2> QED BY <2>1, Pieces, ResetSound
<1> HIDE DEF r
<1>3. page' \in Pages /\ page'.pingId = 0
  <2>1. now + PingEvery \in Nat /\ now + ReportEvery \in Nat
    BY Pieces, Numbers, SMTT(30)
  <2> QED BY <1>1, <2>1 DEF Pages
<1>4. page'.live
  BY <1>1
<1>5. up' = <<>> /\ up' \in Seq(Messages(tele', life'))
  BY <1>1, Pieces, EmptySeq
<1>6. Pongs(tele, life) \subseteq Pongs(tele', life')
  <2>1. tele'.epoch = tele.epoch + 1
    BY <1>1, <1>2
  <2> QED BY <2>1, Pieces, SMTT(30) DEF Pongs
<1>7. down' \in Seq(Pongs(tele', life'))
  BY <1>1, <1>6, Pieces, SeqMore
<1>8. /\ server' \in Servers(tele', life') /\ server'.heard = now
      /\ Len(server'.delayed) <= MaxDelayed
  <2>1. <<>> \in Seq(Delayed(tele', life')) /\ Len(<<>>) = 0
    BY EmptySeq
  <2> HIDE DEF Delayed
  <2>2. server' = [hidden |-> FALSE, heard |-> now, delay |-> 0, delayed |-> <<>>]
    BY <1>1 DEF Server0
  <2>3. server' \in Servers(tele', life')
    BY <2>1, <2>2, Pieces DEF Servers
  <2> QED BY <2>1, <2>2, <2>3, Numbers
<1>9. Sound(tele', life', now') /\ tele'.high <= page'.pingId /\ life' \in Nat
  BY <1>1, <1>2, <1>3, Pieces
<1>10. now' \in 0 .. MaxTime /\ env' \in 0 .. MaxEnv /\ server'.heard <= now'
  BY <1>1, <1>8, Pieces DEF MInv
<1> QED BY <1>1, <1>3, <1>4, <1>5, <1>7, <1>8, <1>9, <1>10 DEF MInv

LEMMA SetDelayOK == ASSUME MInv, SetDelay PROVE MInv'
<1>1. PICK d \in {0, Delay} : up' = Sends(page, "delay", d)
  BY DEF SetDelay
<1>2. page.live /\ EnvStep /\ UNCHANGED <<now, tele, page, down, server, life, prompt>>
  BY DEF SetDelay
<1>3. [kind |-> "delay", content |-> d] \in Messages(tele, life)
  <2>1. [kind |-> "delay", content |-> d] \in [kind : {"delay"}, content : {0, Delay}]
    BY Zenon
  <2> QED BY <2>1 DEF Messages
<1>4. up' \in Seq(Messages(tele, life))
  BY <1>1, <1>3, SendsOK
<1>5. env' \in 0 .. MaxEnv
  BY <1>2, EnvCounts
<1>6. /\ Sound(tele', life', now') /\ Follows(tele, life, tele', life')
      /\ up' \in Seq(Messages(tele', life')) /\ down' \in Seq(Pongs(tele', life'))
      /\ tele'.high <= page'.pingId /\ page' \in Pages /\ page'.live
  BY <1>2, <1>4, Pieces, SelfFollows
<1> QED BY <1>2, <1>5, <1>6, Pieces, StaysOK DEF MInv


\* A step of the connection owner, which leaves the measurement alone.
LEMMA OwnerOK ==
    ASSUME MInv, UNCHANGED <<now, tele, life, env>>, prompt' \in BOOLEAN,
           page' \in Pages, page'.pingId = page.pingId,
           up' \in Seq(Messages(tele, life)), ~page'.live => up' = <<>>,
           down' \in Seq(Pongs(tele, life)), server' \in Servers(tele, life),
           server'.heard <= now, Len(server'.delayed) <= MaxDelayed
    PROVE  MInv'
<1>1. /\ Sound(tele', life', now') /\ tele'.high <= page'.pingId
      /\ up' \in Seq(Messages(tele', life')) /\ down' \in Seq(Pongs(tele', life'))
      /\ server' \in Servers(tele', life') /\ server'.heard <= now'
  BY Pieces
<1>2. now' \in 0 .. MaxTime /\ life' \in Nat /\ env' \in 0 .. MaxEnv
  BY DEF MInv
<1> QED BY <1>1, <1>2 DEF MInv

LEMMA EndsOK ==
    ASSUME MInv, Ends
    PROVE  /\ page' \in Pages /\ page'.pingId = page.pingId
           /\ up' = <<>> /\ up' \in Seq(Messages(tele, life))
<1>1. page' = [page EXCEPT !.live = FALSE] /\ up' = <<>>
  BY DEF Ends
<1>2. page' \in Pages /\ page'.pingId = page.pingId
  BY <1>1, Pieces DEF Pages
<1> QED BY <1>1, <1>2, EmptySeq

LEMMA PongOf ==
    ASSUME MInv, NEW ping \in Pings(tele, life)
    PROVE  Pong(ping) \in Pongs(tele, life)
BY Pieces DEF Pong, Pings, Pongs

LEMMA ReceivePingOK ==
    ASSUME MInv, NEW ping \in Pings(tele, life), page.live, up # <<>>, ReceivePing(ping),
           UNCHANGED <<now, tele, life, env, prompt>>
    PROVE  MInv'
<1>1. Tail(up) \in Seq(Messages(tele, life))
  BY Pieces, SeqTail
<1>2. CASE /\ down' = Append(down, Pong(ping)) /\ up' = Tail(up) /\ UNCHANGED <<page, server>>
  <2>1. down' \in Seq(Pongs(tele, life))
    BY <1>2, Pieces, PongOf, SeqAppend
  <2>2. /\ page' \in Pages /\ page'.live /\ page'.pingId = page.pingId
        /\ server' \in Servers(tele, life) /\ server'.heard <= now
        /\ Len(server'.delayed) <= MaxDelayed /\ up' \in Seq(Messages(tele, life))
    BY <1>1, <1>2, Pieces
  <2> QED BY <2>1, <2>2, Pieces, OwnerOK
<1>3. CASE /\ Len(server.delayed) < MaxDelayed
           /\ server' = [server EXCEPT !.delayed = Append(@, [ping |-> ping, due |-> now + server.delay])]
           /\ up' = Tail(up) /\ UNCHANGED <<page, down>>
  <2> DEFINE d == [ping |-> ping, due |-> now + server.delay]
  <2>1. server \in Servers(tele, life) /\ server.delayed \in Seq(Delayed(tele, life))
        /\ server.delay \in Nat
    BY Pieces DEF Servers
  <2>2. d \in Delayed(tele, life)
    BY <2>1, Pieces, SMTT(30) DEF Delayed
  <2> HIDE DEF d
  <2>3. /\ Append(server.delayed, d) \in Seq(Delayed(tele, life))
        /\ Len(Append(server.delayed, d)) = Len(server.delayed) + 1
    BY <2>1, <2>2, SeqAppend
  <2>4. server' = [server EXCEPT !.delayed = Append(server.delayed, d)]
    BY <1>3 DEF d
  <2>5. /\ server' \in Servers(tele, life) /\ server'.heard = server.heard
        /\ server'.delayed = Append(server.delayed, d)
    BY <2>1, <2>3, <2>4 DEF Servers
  <2>6. Len(server'.delayed) <= MaxDelayed
    <3>1. Len(server.delayed) \in Nat
      BY <2>1, LenProperties
    <3> QED BY <1>3, <2>3, <2>5, <3>1, Numbers, SMTT(30)
  <2>7. /\ page' \in Pages /\ page'.live /\ page'.pingId = page.pingId
        /\ server'.heard <= now
        /\ down' \in Seq(Pongs(tele, life)) /\ up' \in Seq(Messages(tele, life))
    BY <1>1, <1>3, <2>5, Pieces
  <2> QED BY <2>5, <2>6, <2>7, Pieces, OwnerOK
<1>4. CASE Ends /\ UNCHANGED <<down, server>>
  <2>1. /\ page' \in Pages /\ page'.pingId = page.pingId
        /\ up' = <<>> /\ up' \in Seq(Messages(tele, life))
    BY <1>4, EndsOK
  <2>2. /\ down' \in Seq(Pongs(tele, life)) /\ server' \in Servers(tele, life)
        /\ server'.heard <= now /\ Len(server'.delayed) <= MaxDelayed
    BY <1>4, Pieces
  <2> QED BY <2>1, <2>2, Pieces, OwnerOK
<1> QED BY <1>2, <1>3, <1>4 DEF ReceivePing

\* The kinds of messages and what they carry.
LEMMA MessageKinds ==
    ASSUME NEW t, NEW l, NEW m \in Messages(t, l)
    PROVE  /\ m.kind = "ping" => m.content \in Pings(t, l)
           /\ m.kind = "report" => m.content \in Reports
           /\ m.kind = "visibility" => m.content \in BOOLEAN
           /\ m.kind = "delay" => m.content \in {0, Delay}
<1>1. CASE m \in [kind : {"ping"}, content : Pings(t, l)]
  <2>1. m.kind = "ping" /\ m.content \in Pings(t, l)
    BY <1>1, Zenon
  <2> QED BY <2>1
<1>2. CASE m \in [kind : {"report"}, content : Reports]
  <2>1. m.kind = "report" /\ m.content \in Reports
    BY <1>2, Zenon
  <2> QED BY <2>1
<1>3. CASE m \in [kind : {"visibility"}, content : BOOLEAN]
  <2>1. m.kind = "visibility" /\ m.content \in BOOLEAN
    BY <1>3, Zenon
  <2> QED BY <2>1
<1>4. CASE m \in [kind : {"delay"}, content : {0, Delay}]
  <2>1. m.kind = "delay" /\ m.content \in {0, Delay}
    BY <1>4, Zenon
  <2> QED BY <2>1
<1> QED BY <1>1, <1>2, <1>3, <1>4 DEF Messages

LEMMA ReceiveControlOK == ASSUME MInv, ReceiveControl PROVE MInv'
<1> DEFINE m == Head(up)
<1>1. /\ page.live /\ up # <<>> /\ UNCHANGED <<now, tele, life, env>>
  BY DEF ReceiveControl
<1>2. m \in Messages(tele, life) /\ Tail(up) \in Seq(Messages(tele, life))
  BY <1>1, Pieces, SeqTail
<1>3. CASE m.kind = "ping" /\ ReceivePing(m.content) /\ UNCHANGED prompt
  <2>1. m.content \in Pings(tele, life)
    BY <1>2, <1>3, MessageKinds
  <2> HIDE DEF m
  <2> QED BY <1>1, <1>3, <2>1, ReceivePingOK
<1>4. CASE /\ m.kind # "ping" /\ up' = Tail(up) /\ UNCHANGED <<page, down>>
           /\ \/ /\ m.kind = "report"
                 /\ server' = IF server.hidden THEN server ELSE [server EXCEPT !.heard = now]
                 /\ UNCHANGED prompt
              \/ /\ m.kind = "visibility"
                 /\ server' = [server EXCEPT !.hidden = m.content,
                                             !.heard = IF server.hidden /\ ~m.content THEN now ELSE @]
                 /\ UNCHANGED prompt
              \/ /\ m.kind = "delay"
                 /\ server' = [server EXCEPT !.delay = m.content]
                 /\ prompt' = FALSE
  <2>1. /\ m.kind = "visibility" => m.content \in BOOLEAN
        /\ m.kind = "delay" => m.content \in Nat
    BY <1>2, MessageKinds, Numbers
  <2> HIDE DEF m
  <2>2. /\ server \in Servers(tele, life) /\ now \in Nat /\ server.heard \in Nat
        /\ server.heard <= now /\ Len(server.delayed) <= MaxDelayed
    BY Pieces
  <2>3. /\ server' \in Servers(tele, life) /\ server'.delayed = server.delayed
        /\ server'.heard \in {server.heard, now}
    <3>1. CASE server' = server
      BY <2>2, <3>1
    <3>2. CASE server' = [server EXCEPT !.heard = now]
      BY <2>2, <3>2 DEF Servers
    <3>3. CASE /\ m.kind = "visibility"
               /\ server' = [server EXCEPT !.hidden = m.content,
                                           !.heard = IF server.hidden /\ ~m.content THEN now ELSE @]
      <4>1. PICK h \in Nat : /\ server' = [server EXCEPT !.hidden = m.content, !.heard = h]
                             /\ h \in {server.heard, now}
        BY <2>2, <3>3
      <4>2. m.content \in BOOLEAN
        BY <2>1, <3>3
      <4>3. server' \in Servers(tele, life)
        BY <2>2, <4>1, <4>2 DEF Servers
      <4>4. server'.delayed = server.delayed /\ server'.heard = h
        BY <2>2, <4>1 DEF Servers
      <4> QED BY <4>1, <4>3, <4>4
    <3>4. CASE m.kind = "delay" /\ server' = [server EXCEPT !.delay = m.content]
      <4>1. m.content \in Nat
        BY <2>1, <3>4
      <4> QED BY <2>2, <3>4, <4>1 DEF Servers
    <3> QED BY <1>4, <3>1, <3>2, <3>3, <3>4
  <2>4. prompt' \in BOOLEAN
    BY <1>4, Pieces
  <2>5. /\ page' \in Pages /\ page'.live /\ page'.pingId = page.pingId
        /\ down' \in Seq(Pongs(tele, life)) /\ up' \in Seq(Messages(tele, life))
    BY <1>1, <1>2, <1>4, Pieces
  <2>6. server'.heard <= now /\ Len(server'.delayed) <= MaxDelayed
    BY <2>2, <2>3
  <2> QED BY <1>1, <2>3, <2>4, <2>5, <2>6, OwnerOK
<1> QED BY <1>3, <1>4 DEF ReceiveControl

LEMMA DuePongsOK == ASSUME MInv, DuePongs PROVE MInv'
<1> DEFINE D == DOMAIN server.delayed
           due == {i \in D : IsDue(server.delayed[i])}
<1>1. page.live /\ UNCHANGED <<now, tele, page, up, life, prompt, env>>
  BY DEF DuePongs
<1>2. PICK f \in InOrder(due), g \in InOrder(D \ due) :
        /\ down' = down \o [k \in DOMAIN f |-> Pong(server.delayed[f[k]].ping)]
        /\ server' = [server EXCEPT !.delayed = [k \in DOMAIN g |-> server.delayed[g[k]]]]
  BY DEF DuePongs
<1>3. /\ server \in Servers(tele, life) /\ server.delayed \in Seq(Delayed(tele, life))
      /\ Len(server.delayed) \in Nat /\ D = 1 .. Len(server.delayed)
      /\ \A i \in D : server.delayed[i] \in Delayed(tele, life)
  BY Pieces, LenProperties, ElementOfSeq
<1>4. IsFiniteSet(D) /\ Cardinality(D) = Len(server.delayed)
  <2>1. /\ 1 \in Int /\ Len(server.delayed) \in Int
        /\ IF 1 > Len(server.delayed) THEN 0 = Len(server.delayed)
           ELSE Len(server.delayed) - 1 + 1 = Len(server.delayed)
    BY <1>3
  <2>2. IsFiniteSet(1 .. Len(server.delayed))
        /\ Cardinality(1 .. Len(server.delayed))
           = IF 1 > Len(server.delayed) THEN 0 ELSE Len(server.delayed) - 1 + 1
    BY <2>1, FS_Interval, Zenon
  <2> HIDE DEF D
  <2> QED BY <1>3, <2>1, <2>2
<1>5. due \in SUBSET D /\ D \ due \in SUBSET D
  OBVIOUS
<1> HIDE DEF due, D
<1>6. /\ Cardinality(due) \in Nat /\ Cardinality(D \ due) \in Nat
      /\ Cardinality(D \ due) <= Len(server.delayed)
  BY <1>4, <1>5, FS_Subset, FS_CardinalityType
<1>7. /\ f \in [1 .. Cardinality(due) -> D] /\ g \in [1 .. Cardinality(D \ due) -> D]
  BY <1>2, <1>5 DEF InOrder
<1> DEFINE pongs == [k \in DOMAIN f |-> Pong(server.delayed[f[k]].ping)]
           rest == [k \in DOMAIN g |-> server.delayed[g[k]]]
<1>8. pongs \in Seq(Pongs(tele, life))
  <2>1. \A i \in D : Pong(server.delayed[i].ping) \in Pongs(tele, life)
    <3> TAKE i \in D
    <3>1. server.delayed[i].ping \in Pings(tele, life)
      BY <1>3 DEF Delayed
    <3> QED BY <3>1, PongOf
  <2>2. pongs \in [1 .. Cardinality(due) -> Pongs(tele, life)]
    BY <1>7, <2>1
  <2> HIDE DEF pongs
  <2> QED BY <1>6, <2>2, SeqOf
<1>9. rest \in Seq(Delayed(tele, life)) /\ Len(rest) = Cardinality(D \ due)
  <2>1. rest \in [1 .. Cardinality(D \ due) -> Delayed(tele, life)]
    BY <1>3, <1>7
  <2> HIDE DEF rest
  <2> QED BY <1>6, <2>1, SeqOf
<1>10. down' = down \o pongs /\ server' = [server EXCEPT !.delayed = rest]
  BY <1>2
<1> HIDE DEF pongs, rest
<1>11. down' \in Seq(Pongs(tele, life))
  BY <1>8, <1>10, Pieces, ConcatProperties
<1>12. /\ server' \in Servers(tele, life) /\ server'.delayed = rest
       /\ server'.heard = server.heard
  BY <1>3, <1>9, <1>10 DEF Servers
<1>13. Len(server'.delayed) <= MaxDelayed
  <2>1. Len(server.delayed) <= MaxDelayed
    BY Pieces
  <2> QED BY <1>3, <1>6, <1>9, <1>12, <2>1, Numbers
<1>14. /\ page' \in Pages /\ page'.live /\ page'.pingId = page.pingId
       /\ up' \in Seq(Messages(tele, life)) /\ server'.heard <= now /\ prompt' \in BOOLEAN
  BY <1>1, <1>12, Pieces
<1> QED BY <1>1, <1>11, <1>12, <1>13, <1>14, OwnerOK

LEMMA TimeOK == ASSUME MInv, Time PROVE MInv'
<1>1. /\ now < MaxTime /\ now' = now + 1
      /\ UNCHANGED <<tele, page, up, down, server, life>>
      /\ env' \in 0 .. MaxEnv /\ prompt' \in BOOLEAN
  BY EnvCounts, Pieces DEF Time
<1>2. Sound(tele', life', now')
  BY <1>1, Pieces, LaterSound
<1>3. /\ Follows(tele, life, tele', life') /\ now' \in 0 .. MaxTime /\ now <= now'
      /\ life' \in Nat /\ page' \in Pages /\ tele'.high <= page'.pingId
      /\ up' \in Seq(Messages(tele', life')) /\ down' \in Seq(Pongs(tele', life'))
      /\ ~page'.live => up' = <<>>
  BY <1>1, Pieces, Numbers, SelfFollows, SMTT(30)
<1> QED BY <1>1, <1>2, <1>3, StaysOK

LEMMA InitOK == Init => MInv
<1> SUFFICES ASSUME Init PROVE MInv
  OBVIOUS
<1>1. /\ now = 0 /\ tele = Tele0 /\ life = 0 /\ prompt = TRUE /\ env = 0
      /\ page = [live |-> TRUE, visible |-> TRUE, pingId |-> 0,
                 pingAt |-> PingEvery, reportAt |-> ReportEvery]
      /\ up = <<>> /\ down = <<>> /\ server = Server0(0)
  BY DEF Init
<1>2. /\ tele.epoch = 1 /\ tele.high = 0 /\ tele.pending = {} /\ tele.successes = {}
      /\ tele.timedOut = {} /\ tele \in Teles
  BY <1>1, Numbers DEF Tele0, Teles
<1>3. Ids({}) = {}
  BY IdsFacts
<1>4. Sound(tele, life, now)
  BY <1>1, <1>2, <1>3, FS_EmptySet, Numbers DEF Sound, UniqueIds
<1>5. page \in Pages /\ page.pingId = 0 /\ page.live
  BY <1>1, Numbers DEF Pages
<1>6. up \in Seq(Messages(tele, life)) /\ down \in Seq(Pongs(tele, life))
  BY <1>1, EmptySeq
<1>7. server \in Servers(tele, life) /\ server.heard = 0 /\ Len(server.delayed) = 0
  <2>1. <<>> \in Seq(Delayed(tele, life)) /\ Len(<<>>) = 0
    BY EmptySeq
  <2>2. server = [hidden |-> FALSE, heard |-> 0, delay |-> 0, delayed |-> <<>>]
    BY <1>1 DEF Server0
  <2> QED BY <2>1, <2>2 DEF Servers
<1> QED BY <1>1, <1>2, <1>4, <1>5, <1>6, <1>7, Numbers DEF MInv

LEMMA NextOK == MInv /\ [Next]_vars => MInv'
<1> SUFFICES ASSUME MInv, [Next]_vars PROVE MInv'
  OBVIOUS
<1>1. CASE UNCHANGED vars
  <2>1. /\ now' = now /\ tele' = tele /\ page' = page /\ up' = up /\ down' = down
        /\ server' = server /\ life' = life /\ prompt' = prompt /\ env' = env
    BY <1>1 DEF vars
  <2>2. Follows(tele, life, tele', life')
    BY <2>1, Pieces, SelfFollows
  <2> QED BY <2>1, <2>2, Pieces, StaysOK DEF MInv
<1> QED BY <1>1, PingTimerOK, ReportTimerOK, HealthOK, ReceivePongOK, HideOK, ShowOK,
           DisconnectOK, ConnectOK, SetDelayOK, ReceiveControlOK, DuePongsOK, TimeOK DEF Next

-----------------------------------------------------------------------------
(* The theorems. *)

\* The inductive invariant of the measurement holds: every number waited for
\* belongs to one probe of this life, and nothing on its way can pass for
\* the answer to another.
THEOREM TelemetryInvariance == Spec => []MInv
<1> QED BY InitOK, NextOK, PTL DEF Spec

\* Samples of distinct numbers are as many as their numbers.
LEMMA AsManyIds ==
    ASSUME NEW S, IsFiniteSet(S), UniqueIds(S)
    PROVE  Cardinality(Ids(S)) = Cardinality(S)
<1> DEFINE f == [s \in S |-> s.id]
<1>1. f \in [S -> Ids(S)] /\ \A a, b \in S : f[a] = f[b] => a = b
  BY DEF Ids, UniqueIds
<1>2. \A i \in Ids(S) : \E s \in S : f[s] = i
  BY DEF Ids
<1> HIDE DEF f
<1>3. f \in Surjection(S, Ids(S)) /\ f \in Injection(S, Ids(S))
  BY <1>1, <1>2 DEF Surjection, Injection, IsInjective
<1> QED BY <1>3, FS_Surjection

\* Samples are the answers to probes of this connection, sent since the page
\* was last shown, whatever the network and the debug delay do to pongs
\* (telemetry.ts: pongReceived, reset).
THEOREM SamplesAlwaysTrue == Spec => []SamplesAreTrue
<1>1. MInv => SamplesAreTrue
  <2> SUFFICES ASSUME MInv PROVE SamplesAreTrue
    OBVIOUS
  <2>1. /\ UniqueIds(tele.successes) /\ IsFiniteSet(tele.successes)
        /\ Cardinality(tele.successes) <= MaxSuccesses /\ Cardinality(tele.pending) <= MaxInFlight
        /\ \A s \in tele.successes : s.life = life
        /\ \A p \in tele.pending : /\ p.id \in 1 .. tele.high /\ p.sent <= now
                                   /\ p.sent \in Nat
        /\ Ids(tele.pending) \cap Ids(tele.successes) = {}
        /\ Ids(tele.pending) \cap tele.timedOut = {}
        /\ Ids(tele.successes) \cap tele.timedOut = {}
    BY Pieces DEF Sound, Teles, Probes
  <2>2. TypeOK
    BY <2>1, Pieces DEF TypeOK, MInv
  <2>3. Ids(tele.pending) \cap (Ids(tele.successes) \cup tele.timedOut) = {}
    BY <2>1
  <2>4. Cardinality(Ids(tele.successes)) = Cardinality(tele.successes)
    BY <2>1, AsManyIds
  <2> QED BY <2>1, <2>2, <2>3, <2>4 DEF SamplesAreTrue
<1> QED BY <1>1, TelemetryInvariance, PTL

\* A report on its way rests on two samples at least, and on none that was too
\* old when it was sent (telemetry.ts: advance before report).
THEOREM ReportsAlwaysFresh == Spec => []ReportsAreFresh
<1>1. MInv => ReportsAreFresh
  <2> SUFFICES ASSUME MInv, NEW i \in DOMAIN up, up[i].kind = "report"
               PROVE  /\ Cardinality(up[i].content.samples) >= 2
                      /\ \A s \in up[i].content.samples : up[i].content.at - s.sent <= SampleAge
    BY DEF ReportsAreFresh
  <2>1. up[i] \in Messages(tele, life)
    BY Pieces, LenProperties, ElementOfSeq
  <2>2. up[i].content \in Reports
    BY <2>1, MessageKinds
  <2> QED BY <2>2 DEF Reports
<1> QED BY <1>1, TelemetryInvariance, PTL

-----------------------------------------------------------------------------
(* Prompt pages: the samples. *)

LEMMA Intervals ==
    /\ PingEvery \in Nat /\ PingEvery >= 1 /\ ReportEvery \in Nat /\ ReportEvery >= 1
    /\ SampleAge \in Nat /\ MaxSuccesses \in Nat /\ MissingStep \in Nat
    /\ Timeout \in Nat /\ Timeout >= 1
    /\ 2 * PingEvery <= ReportEvery /\ 3 * PingEvery <= SampleAge
    /\ MaxSuccesses >= 2 /\ 2 * ReportEvery < MissingStep
BY TelemetryAssumption, IntervalAssumption

\* A young sample is kept while the only newer one is that of number k.
LEMMA TrimKeeps ==
    ASSUME NEW S \in SUBSET Samples, UniqueIds(S), now \in Nat,
           NEW s \in S, now - s.sent <= SampleAge,
           NEW k, \A u \in S : u.id > s.id => u.id = k
    PROVE  s \in TrimSuccesses(S)
<1> DEFINE Young == {u \in S : now - u.sent <= SampleAge}
           Above == {u \in Young : u.id > s.id}
<1>1. Above = {} \/ \E u : Above = {u}
  <2> SUFFICES ASSUME NEW u \in Above PROVE Above = {u}
    OBVIOUS
  <2>1. \A w \in Above : w.id = u.id /\ w \in S /\ u \in S
    OBVIOUS
  <2>2. \A w \in Above : w = u
    BY <2>1 DEF UniqueIds
  <2> QED BY <2>2
<1>2. s \in Young
  OBVIOUS
<1> HIDE DEF Above
<1>3. Cardinality(Above) = 0 \/ Cardinality(Above) = 1
  BY <1>1, FS_EmptySet, FS_Singleton
<1>4. Cardinality(Above) < MaxSuccesses
  BY <1>3, Intervals
<1> QED BY <1>2, <1>4 DEF TrimSuccesses, Above

\* Of the last two probes, and of the last three while the last is waited for,
\* every sample is kept until the next probe is due.
LEMMA TrimAnswered ==
    ASSUME NEW t, NEW l \in Nat, now \in Nat, Sound(t, l, now), NEW a \in Nat, now <= a,
           NEW d \in Nat, d <= 3 * PingEvery, NEW k, Answered(t, a, k, d),
           k = 0 \/ k = 1 \/ (k = 2 /\ \E p \in t.pending : p.id = t.high)
    PROVE  \E s \in TrimSuccesses(t.successes) : s.id + k = t.high /\ s.sent + d = a
<1> DEFINE S == t.successes
<1>1. PICK s \in S : s.id + k = t.high /\ s.sent + d = a
  BY DEF Answered
<1>2. /\ S \in SUBSET Samples /\ UniqueIds(S) /\ t.high \in Nat
      /\ \A u \in S : u.id \in Nat /\ u.id <= t.high /\ u.sent \in Nat
      /\ Ids(t.pending) \cap Ids(S) = {}
  BY DEF Sound, Teles, Samples
<1>3. now - s.sent <= SampleAge
  BY <1>1, <1>2, Intervals
<1>4. k = 2 => \A u \in S : u.id # t.high
  BY <1>2, IdsFacts
<1> HIDE DEF S
<1>5. \A u \in S : u.id > s.id => u.id = IF k = 2 THEN t.high - 1 ELSE t.high
  <2> TAKE u \in S
  <2>1. u.id \in Nat /\ u.id <= t.high /\ s.id \in Nat /\ t.high \in Nat
    BY <1>2
  <2>2. CASE k = 0
    BY <1>1, <2>1, <2>2
  <2>3. CASE k = 1
    BY <1>1, <2>1, <2>3
  <2>4. CASE k = 2
    BY <1>1, <1>4, <2>1, <2>4
  <2> QED BY <2>2, <2>3, <2>4
<1>6. s \in TrimSuccesses(S)
  BY <1>1, <1>2, <1>3, <1>5, TrimKeeps
<1> QED BY <1>1, <1>6 DEF S

\* advance between two probes: nothing expires, and the samples that the next
\* reports rest on are kept.
LEMMA AdvanceKeeps ==
    ASSUME NEW t, NEW l \in Nat, now \in Nat, Sound(t, l, now), NEW a \in Nat, now <= a,
           \A p \in t.pending : p.id = t.high /\ p.sent = now
    PROVE  /\ Advance(t).pending = t.pending /\ Advance(t).high = t.high
           /\ Advance(t).epoch = t.epoch
           /\ Answered(t, a, 0, PingEvery) => Answered(Advance(t), a, 0, PingEvery)
           /\ Answered(t, a, 1, 2 * PingEvery) => Answered(Advance(t), a, 1, 2 * PingEvery)
           /\ t.pending # {} /\ Answered(t, a, 2, 3 * PingEvery)
                => Answered(Advance(t), a, 2, 3 * PingEvery)
<1> DEFINE expired == {p \in t.pending : now - p.sent >= Timeout}
           u == [t EXCEPT !.pending = @ \ expired, !.timedOut = @ \cup Ids(expired),
                          !.successes = TrimSuccesses(@)]
<1>1. Advance(t) = u
  BY DEF Advance
<1>2. expired = {}
  BY Intervals
<1> HIDE DEF expired
<1>3. t \in Teles
  BY DEF Sound
<1>4. /\ u.pending = t.pending /\ u.high = t.high /\ u.epoch = t.epoch
      /\ u.successes = TrimSuccesses(t.successes)
  BY <1>2, <1>3 DEF Teles
<1> HIDE DEF u
<1>5. ASSUME NEW d \in Nat, d <= 3 * PingEvery, NEW k, Answered(t, a, k, d),
             k = 0 \/ k = 1 \/ (k = 2 /\ t.pending # {})
      PROVE  Answered(u, a, k, d)
  <2>1. k = 0 \/ k = 1 \/ (k = 2 /\ \E p \in t.pending : p.id = t.high)
    BY <1>5
  <2>2. \E s \in TrimSuccesses(t.successes) : s.id + k = t.high /\ s.sent + d = a
    BY <1>5, <2>1, TrimAnswered
  <2> QED BY <1>4, <2>2 DEF Answered
<1>6. /\ PingEvery \in Nat /\ 2 * PingEvery \in Nat /\ 3 * PingEvery \in Nat
      /\ PingEvery <= 3 * PingEvery /\ 2 * PingEvery <= 3 * PingEvery
      /\ 3 * PingEvery <= 3 * PingEvery
  BY Intervals
<1>7. Answered(t, a, 0, PingEvery) => Answered(u, a, 0, PingEvery)
  BY <1>5, <1>6
<1>8. Answered(t, a, 1, 2 * PingEvery) => Answered(u, a, 1, 2 * PingEvery)
  BY <1>5, <1>6
<1>9. t.pending # {} /\ Answered(t, a, 2, 3 * PingEvery) => Answered(u, a, 2, 3 * PingEvery)
  BY <1>5, <1>6
<1> QED BY <1>1, <1>4, <1>7, <1>8, <1>9

\* The pong of the probe that is waited for makes it the newest sample, and
\* keeps the one before.
LEMMA PongAnswers ==
    ASSUME NEW t, NEW l \in Nat, now \in Nat, Sound(t, l, now), NEW a \in Nat, a = now + PingEvery,
           NEW p \in t.pending, \A q \in t.pending : q.id = t.high /\ q.sent = now,
           NEW pong, pong.id = p.id, pong.life \in Nat
    PROVE  /\ PongReceived(t, pong).pending = {} /\ PongReceived(t, pong).high = t.high
           /\ PongReceived(t, pong).epoch = t.epoch
           /\ Answered(PongReceived(t, pong), a, 0, PingEvery)
           /\ Answered(t, a, 1, 2 * PingEvery)
                => Answered(PongReceived(t, pong), a, 1, 2 * PingEvery)
<1> DEFINE S == t.successes
           mine == {q \in t.pending : q.id = pong.id}
           late == {q \in mine : now - q.sent >= Timeout}
           x == [id |-> p.id, sent |-> p.sent, life |-> pong.life]
           samples == {[id |-> q.id, sent |-> q.sent, life |-> pong.life] : q \in mine \ late}
           u == [t EXCEPT !.pending = @ \ mine, !.timedOut = @ \cup Ids(late),
                          !.successes = IF samples = {} THEN @ ELSE TrimSuccesses(@ \cup samples)]
<1>1. PongReceived(t, pong) = u
  BY DEF PongReceived
<1>2. /\ t \in Teles /\ S \in SUBSET Samples /\ UniqueIds(S) /\ UniqueIds(t.pending)
      /\ t.high \in Nat /\ \A s \in S : s.id \in Nat /\ s.id <= t.high /\ s.sent \in Nat
      /\ Ids(t.pending) \cap Ids(S) = {}
  BY DEF Sound, Teles, Samples
<1>3. t.pending = {p}
  BY <1>2 DEF UniqueIds
<1>4. mine = {p} /\ late = {} /\ mine \ late = {p}
  BY <1>3, Intervals
<1>5. samples = {x}
  <2> HIDE DEF mine, late
  <2> QED BY <1>4
<1> HIDE DEF mine, late, samples
<1>6. /\ u.pending = {} /\ u.high = t.high /\ u.epoch = t.epoch
      /\ u.successes = TrimSuccesses(S \cup {x})
  BY <1>2, <1>3, <1>4, <1>5 DEF Teles
<1> HIDE DEF u
<1>7. x \in Samples /\ x.id = t.high /\ x.sent = now
  <2>1. p.id = t.high /\ p.sent = now /\ t.high \in Nat
    BY <1>2
  <2> QED BY <2>1 DEF Samples
<1> HIDE DEF x
<1>8. \A s \in S : s.id # t.high
  BY <1>2, <1>3, IdsFacts
<1> DEFINE all == S \cup {x}
<1>9. all \in SUBSET Samples /\ UniqueIds(all)
  BY <1>2, <1>7, <1>8 DEF UniqueIds
<1>10. \A s \in all : s.id \in Nat /\ s.id <= t.high
  BY <1>2, <1>7
<1>11. x \in TrimSuccesses(all)
  <2>1. x \in all /\ now - x.sent <= SampleAge
    BY <1>7, Intervals
  <2>2. \A s \in all : s.id > x.id => s.id = 0
    BY <1>2, <1>7, <1>10
  <2> HIDE DEF all
  <2> QED BY <1>9, <2>1, <2>2, TrimKeeps
<1>12. Answered(u, a, 0, PingEvery)
  BY <1>2, <1>6, <1>7, <1>11 DEF Answered
<1>13. ASSUME Answered(t, a, 1, 2 * PingEvery) PROVE Answered(u, a, 1, 2 * PingEvery)
  <2>1. PICK s \in S : s.id + 1 = t.high /\ s.sent + 2 * PingEvery = a
    BY <1>13 DEF Answered
  <2>2. s \in all /\ s.id \in Nat /\ s.sent \in Nat /\ now - s.sent <= SampleAge
    BY <1>2, <2>1, Intervals
  <2>3. \A w \in all : w.id > s.id => w.id = t.high
    BY <1>2, <1>10, <2>1, <2>2
  <2> HIDE DEF all
  <2>4. s \in TrimSuccesses(all)
    BY <1>9, <2>2, <2>3, TrimKeeps
  <2> QED BY <1>6, <2>1, <2>4 DEF Answered, all
<1> QED BY <1>1, <1>6, <1>12, <1>13

\* The probe that is due goes out: it is the only one that is waited for, and
\* the samples count as one probe older.
LEMMA SendKeeps ==
    ASSUME NEW t, NEW l \in Nat, now \in Nat, Sound(t, l, now), t.pending = {},
           NEW id, id = t.high + 1
    PROVE  LET u == PingSent(Advance(t), id)
           IN  /\ CanSend(Advance(t), id)
               /\ u.pending = {[id |-> id, sent |-> now]} /\ u.high = id /\ u.epoch = t.epoch
               /\ Answered(t, now, 0, PingEvery) => Answered(u, now + PingEvery, 1, 2 * PingEvery)
               /\ Answered(t, now, 1, 2 * PingEvery)
                    => Answered(u, now + PingEvery, 2, 3 * PingEvery)
<1> DEFINE a == Advance(t)
           u == PingSent(a, id)
<1>1. /\ a.pending = {} /\ a.high = t.high /\ a.epoch = t.epoch
      /\ Answered(t, now, 0, PingEvery) => Answered(a, now, 0, PingEvery)
      /\ Answered(t, now, 1, 2 * PingEvery) => Answered(a, now, 1, 2 * PingEvery)
  BY AdvanceKeeps
<1>2. Sound(a, l, now)
  BY AdvanceSound
<1> HIDE DEF a
<1>3. /\ a \in Teles /\ a.high \in Nat
      /\ \A s \in a.successes : s.id \in Nat /\ s.sent \in Nat
  BY <1>2 DEF Sound, Teles, Samples
<1>4. CanSend(a, id)
  BY <1>1, <1>3, FS_EmptySet, Numbers DEF CanSend
<1>5. /\ u.pending = {[id |-> id, sent |-> now]} /\ u.high = id /\ u.epoch = t.epoch
      /\ u.successes = a.successes
  BY <1>1, <1>3 DEF PingSent, Teles
<1> HIDE DEF u
<1>6. ASSUME Answered(a, now, 0, PingEvery)
      PROVE  Answered(u, now + PingEvery, 1, 2 * PingEvery)
  <2>1. PICK s \in a.successes : s.id + 0 = a.high /\ s.sent + PingEvery = now
    BY <1>6 DEF Answered
  <2>2. s.id + 1 = u.high /\ s.sent + 2 * PingEvery = now + PingEvery
    BY <1>1, <1>3, <1>5, <2>1, Intervals
  <2> QED BY <1>5, <2>2 DEF Answered
<1>7. ASSUME Answered(a, now, 1, 2 * PingEvery)
      PROVE  Answered(u, now + PingEvery, 2, 3 * PingEvery)
  <2>1. PICK s \in a.successes : s.id + 1 = a.high /\ s.sent + 2 * PingEvery = now
    BY <1>7 DEF Answered
  <2>2. s.id + 2 = u.high /\ s.sent + 3 * PingEvery = now + PingEvery
    BY <1>1, <1>3, <1>5, <2>1, Intervals
  <2> QED BY <1>5, <2>2 DEF Answered
<1> QED BY <1>1, <1>4, <1>5, <1>6, <1>7 DEF a, u

\* Two samples that the next report rests on are enough for it.
LEMMA EnoughSamples ==
    ASSUME NEW t, NEW l, NEW n, Sound(t, l, n), NEW a, NEW d, NEW e,
           NEW j \in Nat, NEW k \in Nat, j # k, Answered(t, a, j, d), Answered(t, a, k, e)
    PROVE  Cardinality(t.successes) >= 2
<1>1. PICK s \in t.successes, u \in t.successes : s.id + j = t.high /\ u.id + k = t.high
  BY DEF Answered
<1>2. s # u
  BY <1>1 DEF Sound, Teles, Samples
<1>3. {s, u} \in SUBSET t.successes /\ IsFiniteSet(t.successes)
  BY DEF Sound
<1>4. Cardinality({s, u}) = 2
  <2>1. IsFiniteSet({s}) /\ Cardinality({s}) = 1 /\ u \notin {s}
    BY <1>2, FS_Singleton
  <2>2. {s, u} = {s} \cup {u}
    OBVIOUS
  <2> QED BY <2>1, <2>2, FS_AddElement, SMTT(30)
<1>5. Cardinality({s, u}) <= Cardinality(t.successes)
  BY <1>3, FS_Subset, Zenon
<1> QED BY <1>4, <1>5

-----------------------------------------------------------------------------
(* Prompt pages: the messages on their way. *)

LEMMA Appended ==
    ASSUME NEW S, NEW s \in Seq(S), NEW m \in S
    PROVE  /\ Len(s) \in Nat /\ Len(Append(s, m)) = Len(s) + 1
           /\ DOMAIN s = 1 .. Len(s) /\ DOMAIN Append(s, m) = 1 .. Len(s) + 1
           /\ Append(s, m)[Len(s) + 1] = m
           /\ \A i \in 1 .. Len(s) : Append(s, m)[i] = s[i]
BY AppendProperties, LenProperties

LEMMA Shifted ==
    ASSUME NEW S, NEW s \in Seq(S), s # <<>>
    PROVE  /\ Len(s) \in Nat /\ Len(s) >= 1 /\ Len(Tail(s)) = Len(s) - 1
           /\ DOMAIN s = 1 .. Len(s) /\ DOMAIN Tail(s) = 1 .. Len(s) - 1
           /\ Head(s) = s[1]
           /\ \A i \in 1 .. Len(s) - 1 : Tail(s)[i] = s[i + 1]
<1>1. Len(s) \in Nat /\ Len(s) >= 1 /\ DOMAIN s = 1 .. Len(s)
  BY LenProperties, EmptySeq
<1>2. /\ Len(Tail(s)) = Len(s) - 1 /\ Tail(s) \in Seq(S) /\ Head(s) = s[1]
      /\ \A i \in 1 .. Len(s) - 1 : Tail(s)[i] = s[i + 1]
  BY <1>1, HeadTailProperties
<1>3. DOMAIN Tail(s) = 1 .. Len(s) - 1
  BY <1>2, LenProperties
<1> QED BY <1>1, <1>2, <1>3

LEMMA HearsRange ==
    ASSUME NEW s, NEW h \in Nat, NEW n \in Nat, h <= n
    PROVE  Hears(s, h, n) \in Nat /\ h <= Hears(s, h, n) /\ Hears(s, h, n) <= n
BY DEF Hears

\* A message that is sent is heard in its turn; one that is read was.
LEMMA HearsAppended ==
    ASSUME NEW S, NEW s \in Seq(S), NEW m \in S, NEW h, NEW n
    PROVE  /\ IsHeard(m) => Hears(Append(s, m), h, n) = n
           /\ ~IsHeard(m) => Hears(Append(s, m), h, n) = Hears(s, h, n)
<1>1. /\ DOMAIN s = 1 .. Len(s) /\ DOMAIN Append(s, m) = DOMAIN s \cup {Len(s) + 1}
      /\ Append(s, m)[Len(s) + 1] = m /\ \A i \in DOMAIN s : Append(s, m)[i] = s[i]
  BY Appended
<1>2. (\E i \in DOMAIN Append(s, m) : IsHeard(Append(s, m)[i]))
        <=> (\E i \in DOMAIN s : IsHeard(s[i])) \/ IsHeard(m)
  BY <1>1, Zenon
<1> QED BY <1>2 DEF Hears

LEMMA HearsShifted ==
    ASSUME NEW S, NEW s \in Seq(S), s # <<>>, NEW h, NEW n
    PROVE  /\ IsHeard(Head(s)) => Hears(Tail(s), n, n) = Hears(s, h, n)
           /\ ~IsHeard(Head(s)) => Hears(Tail(s), h, n) = Hears(s, h, n)
<1>1. /\ Head(s) = s[1] /\ 1 \in DOMAIN s
      /\ \A i \in DOMAIN Tail(s) : i + 1 \in DOMAIN s /\ Tail(s)[i] = s[i + 1]
      /\ \A i \in DOMAIN s : i = 1 \/ (i - 1 \in DOMAIN Tail(s) /\ Tail(s)[i - 1] = s[i])
  BY Shifted
<1>2. (\E i \in DOMAIN s : IsHeard(s[i]))
        <=> (\E i \in DOMAIN Tail(s) : IsHeard(Tail(s)[i])) \/ IsHeard(Head(s))
  BY <1>1, Zenon
<1> QED BY <1>2 DEF Hears

LEMMA HearsNothing ==
    ASSUME NEW h, NEW n
    PROVE  Hears(<<>>, h, n) = h
BY DEF Hears

\* A probe that is sent is in flight; its pong is, when the probe is read.
LEMMA FlightAppended ==
    ASSUME NEW S, NEW s \in Seq(S), NEW m \in S, NEW t, NEW u, NEW d, u.epoch = t.epoch,
           InFlight(t, s, d),
           \A p \in u.pending : p \in t.pending \/ (m.kind = "ping" /\ m.content.id = p.id)
    PROVE  InFlight(u, Append(s, m), d)
<1>1. /\ DOMAIN Append(s, m) = DOMAIN s \cup {Len(s) + 1}
      /\ Append(s, m)[Len(s) + 1] = m /\ \A i \in DOMAIN s : Append(s, m)[i] = s[i]
  BY Appended
<1> DEFINE w == Append(s, m)
<1> HIDE DEF w
<1> SUFFICES ASSUME NEW p \in u.pending
             PROVE  \/ \E i \in DOMAIN w : w[i].kind = "ping" /\ w[i].content.id = p.id
                    \/ \E i \in DOMAIN d : d[i].epoch = t.epoch /\ d[i].id = p.id
  BY DEF InFlight, w
<1>2. CASE p \in t.pending
  <2>1. CASE \E i \in DOMAIN s : s[i].kind = "ping" /\ s[i].content.id = p.id
    <3>1. PICK i \in DOMAIN s : s[i].kind = "ping" /\ s[i].content.id = p.id
      BY <2>1
    <3>2. i \in DOMAIN w /\ w[i] = s[i]
      BY <1>1 DEF w
    <3> QED BY <3>1, <3>2
  <2> QED BY <1>2, <2>1 DEF InFlight
<1>3. CASE m.kind = "ping" /\ m.content.id = p.id
  <2>1. Len(s) + 1 \in DOMAIN w /\ w[Len(s) + 1] = m
    BY <1>1 DEF w
  <2> QED BY <1>3, <2>1
<1> QED BY <1>2, <1>3

LEMMA FlightShifted ==
    ASSUME NEW S, NEW s \in Seq(S), s # <<>>, NEW t, NEW d, InFlight(t, s, d),
           Head(s).kind # "ping"
    PROVE  InFlight(t, Tail(s), d)
<1>1. /\ Head(s) = s[1]
      /\ \A i \in DOMAIN s : i = 1 \/ (i - 1 \in DOMAIN Tail(s) /\ Tail(s)[i - 1] = s[i])
  BY Shifted
<1> SUFFICES ASSUME NEW p \in t.pending, NEW i \in DOMAIN s, s[i].kind = "ping", s[i].content.id = p.id
             PROVE  \E j \in DOMAIN Tail(s) : Tail(s)[j].kind = "ping" /\ Tail(s)[j].content.id = p.id
  BY DEF InFlight
<1>2. i # 1
  BY <1>1
<1> QED BY <1>1, <1>2

LEMMA FlightAnswered ==
    ASSUME NEW S, NEW s \in Seq(S), s # <<>>, NEW t, NEW D, NEW d \in Seq(D), NEW g \in D,
           InFlight(t, s, d), g.epoch = t.epoch, g.id = Head(s).content.id
    PROVE  InFlight(t, Tail(s), Append(d, g))
<1>1. /\ Head(s) = s[1]
      /\ \A i \in DOMAIN s : i = 1 \/ (i - 1 \in DOMAIN Tail(s) /\ Tail(s)[i - 1] = s[i])
  BY Shifted
<1>2. /\ DOMAIN Append(d, g) = DOMAIN d \cup {Len(d) + 1}
      /\ Append(d, g)[Len(d) + 1] = g /\ \A i \in DOMAIN d : Append(d, g)[i] = d[i]
  BY Appended
<1> SUFFICES ASSUME NEW p \in t.pending
             PROVE  \/ \E i \in DOMAIN Tail(s) : /\ Tail(s)[i].kind = "ping"
                                                 /\ Tail(s)[i].content.id = p.id
                    \/ \E i \in DOMAIN Append(d, g) : /\ Append(d, g)[i].epoch = t.epoch
                                                      /\ Append(d, g)[i].id = p.id
  BY DEF InFlight
<1>3. CASE \E i \in DOMAIN d : d[i].epoch = t.epoch /\ d[i].id = p.id
  BY <1>2, <1>3, Zenon
<1>4. CASE \E i \in DOMAIN s : s[i].kind = "ping" /\ s[i].content.id = p.id
  <2>1. PICK i \in DOMAIN s : s[i].kind = "ping" /\ s[i].content.id = p.id
    BY <1>4
  <2>2. CASE i = 1
    BY <1>1, <1>2, <2>1, <2>2
  <2>3. CASE i # 1
    BY <1>1, <2>1, <2>3
  <2> QED BY <2>2, <2>3
<1> QED BY <1>3, <1>4 DEF InFlight

\* A page that hides says so, one that is shown says so, and only one that is
\* visible reports.
LEMMA TurnsAppended ==
    ASSUME NEW S, NEW s \in Seq(S), NEW m \in S, NEW h, NEW v, NEW w, Turns(h, s, v),
           IsVisibility(m) => (m.content <=> v) /\ (m.content <=> ~w),
           ~IsVisibility(m) => (w <=> v),
           m.kind = "report" => v
    PROVE  Turns(h, Append(s, m), w)
<1> DEFINE L == Len(s)
           q == Append(s, m)
<1>1. /\ L \in Nat /\ Len(q) = L + 1 /\ q[L + 1] = m /\ \A i \in 1 .. L : q[i] = s[i]
  BY Appended
<1> HIDE DEF q, L
<1> SUFFICES ASSUME NEW j \in 0 .. L + 1, NEW i \in 1 .. L + 2, j < i, Silent(q, j, i)
             PROVE  IF i > L + 1 THEN Said(h, q, j) <=> ~w
                    ELSE /\ IsVisibility(q[i]) => (q[i].content <=> ~Said(h, q, j))
                         /\ q[i].kind = "report" => ~Said(h, q, j)
  BY <1>1 DEF Turns, q
<1>2. ASSUME j <= L, NEW k \in 1 .. L + 1, j < k, k <= i
      PROVE  /\ Silent(s, j, k) /\ Said(h, q, j) = Said(h, s, j)
             /\ IF k > L THEN Said(h, s, j) <=> ~v
                ELSE /\ IsVisibility(s[k]) => (s[k].content <=> ~Said(h, s, j))
                     /\ s[k].kind = "report" => ~Said(h, s, j)
  <2>1. j = 0 \/ (j \in 1 .. L /\ q[j] = s[j])
    BY <1>1, <1>2
  <2>2. \A n \in j + 1 .. k - 1 : n \in j + 1 .. i - 1 /\ q[n] = s[n]
    BY <1>1, <1>2
  <2>3. Silent(s, j, k)
    BY <2>1, <2>2 DEF Silent
  <2>4. Said(h, q, j) = Said(h, s, j)
    BY <2>1 DEF Said
  <2>5. j \in 0 .. Len(s) /\ k \in 1 .. Len(s) + 1 /\ Len(s) = L
    BY <1>1, <1>2 DEF L
  <2>6. IF k > Len(s) THEN Said(h, s, j) <=> ~v
        ELSE /\ IsVisibility(s[k]) => (s[k].content <=> ~Said(h, s, j))
             /\ s[k].kind = "report" => ~Said(h, s, j)
    BY <1>2, <2>3, <2>5 DEF Turns
  <2> QED BY <2>3, <2>4, <2>5, <2>6
<1>3. CASE i <= L
  <2>1. j <= L /\ i \in 1 .. L + 1 /\ i <= i /\ ~(i > L) /\ ~(i > L + 1) /\ q[i] = s[i]
    BY <1>1, <1>3
  <2> QED BY <1>2, <2>1
<1>4. CASE i = L + 1
  <2>1. j <= L /\ i \in 1 .. L + 1 /\ i <= i /\ i > L /\ ~(i > L + 1) /\ q[i] = m
    BY <1>1, <1>4
  <2>2. Said(h, q, j) <=> ~v
    BY <1>2, <2>1
  <2> QED BY <2>1, <2>2
<1>5. CASE i = L + 2
  <2>1. i > L + 1 /\ L + 1 \in 1 .. L + 1 /\ L + 1 > L /\ L + 1 <= i
    BY <1>1, <1>5
  <2>2. CASE IsVisibility(m)
    <3>1. j = L + 1
      <4>1. j <= L => L + 1 \in j + 1 .. i - 1
        BY <1>1, <1>5
      <4>2. ~(j <= L)
        BY <1>1, <2>2, <4>1 DEF Silent
      <4> QED BY <1>1, <4>2
    <3>2. Said(h, q, j) = m.content
      BY <1>1, <3>1 DEF Said
    <3> QED BY <2>1, <2>2, <3>2
  <2>3. CASE ~IsVisibility(m)
    <3>1. j # L + 1
      BY <1>1, <2>3 DEF Silent
    <3>2. j <= L /\ j < L + 1
      BY <1>1, <3>1
    <3>3. Said(h, q, j) <=> ~v
      BY <1>2, <2>1, <3>2
    <3> QED BY <2>1, <2>3, <3>3
  <2> QED BY <2>2, <2>3
<1> QED BY <1>1, <1>3, <1>4, <1>5

\* The server reads the first message: a report finds the tab visible, and a
\* change of visibility is one.
LEMMA TurnsShifted ==
    ASSUME NEW S, NEW s \in Seq(S), s # <<>>, NEW h, NEW g, NEW v, Turns(h, s, v),
           IF IsVisibility(Head(s)) THEN g = Head(s).content ELSE g = h
    PROVE  /\ Turns(g, Tail(s), v)
           /\ IsVisibility(Head(s)) => (Head(s).content <=> ~h)
           /\ Head(s).kind = "report" => ~h
<1> DEFINE L == Len(s)
           q == Tail(s)
<1>1. /\ L \in Nat /\ L >= 1 /\ Len(q) = L - 1 /\ Head(s) = s[1] /\ \A i \in 1 .. L - 1 : q[i] = s[i + 1]
  BY Shifted
<1> HIDE DEF q
<1>2. Silent(s, 0, 1) /\ Said(h, s, 0) = h /\ ~(1 > L) /\ 0 \in 0 .. L /\ 1 \in 1 .. L + 1
  BY <1>1 DEF Silent, Said
<1>3. (IsVisibility(s[1]) => (s[1].content <=> ~h)) /\ (s[1].kind = "report" => ~h)
  BY <1>2 DEF Turns
<1>4. ASSUME NEW j \in 0 .. L - 1, NEW i \in 1 .. L, j < i, Silent(q, j, i)
      PROVE  IF i > L - 1 THEN Said(g, q, j) <=> ~v
             ELSE /\ IsVisibility(q[i]) => (q[i].content <=> ~Said(g, q, j))
                  /\ q[i].kind = "report" => ~Said(g, q, j)
  <2> DEFINE o == IF j = 0 /\ ~IsVisibility(s[1]) THEN 0 ELSE j + 1
  <2>1. o \in 0 .. L /\ i + 1 \in 1 .. L + 1 /\ o < i + 1
    BY <1>1, <1>4
  <2>2. Said(h, s, o) = Said(g, q, j)
    <3>1. CASE j = 0
      BY <1>1, <3>1 DEF Said
    <3>2. CASE j # 0
      <4>1. j \in 1 .. L - 1 /\ j + 1 # 0
        BY <1>1, <3>2
      <4> QED BY <1>1, <3>2, <4>1 DEF Said
    <3> QED BY <3>1, <3>2
  <2>3. Silent(s, o, i + 1)
    <3>1. o = 0 \/ IsVisibility(s[o])
      <4>1. CASE j = 0
        BY <4>1
      <4>2. CASE j # 0
        <5>1. j \in 1 .. L - 1 /\ o = j + 1 /\ IsVisibility(q[j])
          BY <1>1, <1>4, <4>2 DEF Silent
        <5> QED BY <1>1, <5>1
      <4> QED BY <4>1, <4>2
    <3>2. ASSUME NEW k \in o + 1 .. i PROVE ~IsVisibility(s[k])
      <4>1. k = 1 \/ (k - 1 \in j + 1 .. i - 1 /\ k - 1 \in 1 .. L - 1)
        BY <1>1, <1>4, <2>1
      <4>2. CASE k = 1
        BY <1>1, <2>1, <4>2
      <4>3. CASE k - 1 \in j + 1 .. i - 1 /\ k - 1 \in 1 .. L - 1
        <5>1. ~IsVisibility(q[k - 1]) /\ q[k - 1] = s[(k - 1) + 1] /\ (k - 1) + 1 = k
          BY <1>1, <1>4, <4>3 DEF Silent
        <5> QED BY <5>1
      <4> QED BY <4>1, <4>2, <4>3
    <3>3. (i + 1) - 1 = i
      BY <1>1
    <3> QED BY <3>1, <3>2, <3>3 DEF Silent
  <2> HIDE DEF o
  <2>4. IF i + 1 > L THEN Said(h, s, o) <=> ~v
        ELSE /\ IsVisibility(s[i + 1]) => (s[i + 1].content <=> ~Said(h, s, o))
             /\ s[i + 1].kind = "report" => ~Said(h, s, o)
    BY <2>1, <2>3 DEF Turns
  <2>5. (i + 1 > L <=> i > L - 1) /\ (~(i > L - 1) => q[i] = s[i + 1])
    BY <1>1, <1>4
  <2> QED BY <2>2, <2>4, <2>5
<1>5. Turns(g, q, v)
  BY <1>1, <1>4 DEF Turns
<1> QED BY <1>1, <1>3, <1>5 DEF q

\* With no message on its way the server knows whether the page is visible.
LEMMA TurnsNothing ==
    ASSUME NEW h, NEW v
    PROVE  Turns(h, <<>>, v) <=> (h <=> ~v)
<1>1. Len(<<>>) = 0
  OBVIOUS
<1>2. Silent(<<>>, 0, 1) /\ Said(h, <<>>, 0) = h
  BY DEF Silent, Said
<1>3. \A j \in 0 .. 0, i \in 1 .. 0 + 1 : j = 0 /\ i = 1 /\ i > 0
  OBVIOUS
<1> QED BY <1>1, <1>2, <1>3 DEF Turns

-----------------------------------------------------------------------------
(* Prompt pages: the schedule. *)

\* What is heard later leaves more time.
LEMMA ScheduleHeard ==
    ASSUME NEW t, NEW a \in Nat, NEW r \in Nat, NEW n \in Nat,
           NEW h \in Nat, NEW k \in Nat, h <= k, Schedule(t, a, r, h, n)
    PROVE  Schedule(t, a, r, k, n)
<1>1. r <= h + ReportEvery => r <= k + ReportEvery
  BY Intervals
<1>2. r <= h + 2 * ReportEvery => r <= k + 2 * ReportEvery
  BY Intervals
<1>3. Evidence(t, a, r, h, n) => Evidence(t, a, r, k, n)
  BY <1>1, <1>2, Zenon DEF Evidence, Within
<1> QED BY <1>3 DEF Schedule

\* The probes are a step older when one is sent.
LEMMA ScheduleSent ==
    ASSUME NEW t, NEW u, NEW r \in Nat, NEW h \in Nat, NEW n \in Nat,
           t.pending = {}, NEW p, u.pending = {p}, p.id = u.high, p.sent = n,
           Answered(t, n, 0, PingEvery) => Answered(u, n + PingEvery, 1, 2 * PingEvery),
           Answered(t, n, 1, 2 * PingEvery) => Answered(u, n + PingEvery, 2, 3 * PingEvery),
           Schedule(t, n, r, h, n)
    PROVE  Schedule(u, n + PingEvery, r, h, n)
<1> DEFINE b == n + PingEvery
<1>1. u.pending # {} /\ \A q \in u.pending : q.id = u.high /\ q.sent = n
  OBVIOUS
<1>2. b \in Nat /\ n <= b /\ b <= n + PingEvery /\ n <= r /\ r <= n + ReportEvery
  BY Intervals DEF Schedule
<1>3. /\ Answered(t, n, 0, PingEvery) => Answered(u, b, 1, 2 * PingEvery)
      /\ Answered(t, n, 1, 2 * PingEvery) => Answered(u, b, 2, 3 * PingEvery)
  OBVIOUS
<1> SUFFICES Evidence(u, b, r, h, n)
  BY <1>1, <1>2 DEF Schedule
<1> HIDE DEF b
<1>4. CASE /\ r <= h + 2 * ReportEvery
           /\ Answered(t, n, 0, PingEvery) /\ Answered(t, n, 1, 2 * PingEvery)
  BY <1>1, <1>3, <1>4, Zenon DEF Evidence
<1>5. CASE Answered(t, n, 0, PingEvery) /\ n <= r /\ Within(r, h, n)
  BY <1>1, <1>3, <1>5, Zenon DEF Evidence
<1>6. CASE n + PingEvery <= r /\ r <= h + ReportEvery
  <2>1. b <= r /\ Within(r, h, b)
    BY <1>6 DEF Within, b
  <2> QED BY <1>1, <2>1, Zenon DEF Evidence
<1> QED BY <1>4, <1>5, <1>6, Zenon DEF Schedule, Evidence

\* A report that is due is sent, or is the first one and the next will be.
LEMMA ScheduleReported ==
    ASSUME NEW t, NEW u, NEW a \in Nat, NEW h \in Nat, NEW k \in Nat, NEW n \in Nat, h <= k, k <= n,
           u.pending = t.pending, u.high = t.high,
           Answered(t, a, 0, PingEvery) => Answered(u, a, 0, PingEvery),
           Answered(t, a, 1, 2 * PingEvery) => Answered(u, a, 1, 2 * PingEvery),
           t.pending # {} /\ Answered(t, a, 2, 3 * PingEvery) => Answered(u, a, 2, 3 * PingEvery),
           Answered(u, a, 0, PingEvery) /\ Answered(u, a, 1, 2 * PingEvery) => k = n,
           Answered(u, a, 1, 2 * PingEvery) /\ Answered(u, a, 2, 3 * PingEvery) => k = n,
           Schedule(t, a, n, h, n)
    PROVE  Schedule(u, a, n + ReportEvery, k, n)
<1> DEFINE r == n + ReportEvery
<1>1. /\ n <= a /\ a <= n + PingEvery
      /\ \A p \in u.pending : p.id = u.high /\ p.sent = n /\ a = n + PingEvery
      /\ u.pending # {} => a = n + PingEvery
  BY DEF Schedule
<1>2. r \in Nat /\ n < r /\ r <= n + ReportEvery /\ a <= r
  BY <1>1, Intervals
<1>3. k = n => r <= k + 2 * ReportEvery
  BY Intervals
<1>4. n <= h + ReportEvery => r <= k + 2 * ReportEvery
  BY Intervals
<1> SUFFICES Evidence(u, a, r, k, n)
  BY <1>1, <1>2 DEF Schedule
<1> HIDE DEF r
<1>5. CASE /\ t.pending = {}
           /\ Answered(t, a, 0, PingEvery) /\ Answered(t, a, 1, 2 * PingEvery)
  BY <1>3, <1>5, Zenon DEF Evidence
<1>6. CASE /\ t.pending # {}
           /\ Answered(t, a, 1, 2 * PingEvery) /\ Answered(t, a, 2, 3 * PingEvery)
  BY <1>3, <1>6, Zenon DEF Evidence
<1>7. CASE t.pending # {} /\ Answered(t, a, 1, 2 * PingEvery) /\ Within(n, h, n)
  <2>1. Within(r, k, n)
    BY <1>2, <1>4, <1>7 DEF Within
  <2> QED BY <1>7, <2>1, Zenon DEF Evidence
<1>8. CASE (t.pending # {} \/ Answered(t, a, 0, PingEvery)) /\ a <= n /\ Within(n, h, a)
  <2>1. a = n /\ n <= h + ReportEvery
    BY <1>1, <1>8 DEF Within
  <2>2. Within(r, k, a)
    BY <1>2, <1>4, <2>1 DEF Within
  <2> QED BY <1>2, <1>8, <2>2, Zenon DEF Evidence
<1>9. ~(a + PingEvery <= n)
  BY <1>1, Intervals
<1> QED BY <1>5, <1>6, <1>7, <1>8, <1>9, Zenon DEF Schedule, Evidence

\* The samples that count are the same after advance.
LEMMA ScheduleAdvanced ==
    ASSUME NEW t, NEW u, NEW a, NEW r, NEW h, NEW n, u.pending = t.pending, u.high = t.high,
           Answered(t, a, 0, PingEvery) => Answered(u, a, 0, PingEvery),
           Answered(t, a, 1, 2 * PingEvery) => Answered(u, a, 1, 2 * PingEvery),
           t.pending # {} /\ Answered(t, a, 2, 3 * PingEvery) => Answered(u, a, 2, 3 * PingEvery),
           Schedule(t, a, r, h, n)
    PROVE  Schedule(u, a, r, h, n)
<1>1. Evidence(u, a, r, h, n)
  BY Zenon DEF Schedule, Evidence
<1> QED BY <1>1, Zenon DEF Schedule

LEMMA SchedulePonged ==
    ASSUME NEW t, NEW u, NEW a \in Nat, NEW r \in Nat, NEW h \in Nat, NEW n \in Nat,
           t.pending # {}, u.pending = {}, Answered(u, a, 0, PingEvery),
           Answered(t, a, 1, 2 * PingEvery) => Answered(u, a, 1, 2 * PingEvery),
           Schedule(t, a, r, h, n)
    PROVE  Schedule(u, a, r, h, n)
<1>1. Within(r, h, n) => r <= h + 2 * ReportEvery
  BY Intervals DEF Within
<1>2. Evidence(u, a, r, h, n)
  BY <1>1, Zenon DEF Schedule, Evidence
<1> QED BY <1>2, Zenon DEF Schedule

\* A second in which nothing is due brings the page no nearer to being silent
\* than its next report is.
LEMMA ScheduleWaits ==
    ASSUME NEW t, NEW a \in Nat, NEW r \in Nat, NEW h \in Nat, NEW n \in Nat,
           t.pending = {}, n < a, n < r, Schedule(t, a, r, h, n)
    PROVE  Schedule(t, a, r, h, n + 1) /\ n + 1 <= h + 2 * ReportEvery
<1>1. Evidence(t, a, r, h, n + 1)
  BY Zenon DEF Schedule, Evidence
<1>2. n + 1 <= a /\ a <= (n + 1) + PingEvery /\ n + 1 <= r /\ r <= (n + 1) + ReportEvery
  BY Intervals DEF Schedule
<1>3. r <= h + 2 * ReportEvery
  BY Intervals DEF Schedule, Evidence, Within
<1>4. Schedule(t, a, r, h, n + 1)
  BY <1>1, <1>2 DEF Schedule
<1> QED BY <1>2, <1>3, <1>4, Intervals

-----------------------------------------------------------------------------
(* Prompt pages: the steps. *)

LEMMA PageNumbers ==
    ASSUME MInv
    PROVE  /\ now \in Nat /\ page.pingAt \in Nat /\ page.reportAt \in Nat /\ page.pingId \in Nat
           /\ server.heard \in Nat /\ server.heard <= now
           /\ Hears(up, server.heard, now) \in Nat
           /\ server.heard <= Hears(up, server.heard, now) /\ Hears(up, server.heard, now) <= now
           /\ up \in Seq(Messages(tele, life)) /\ down \in Seq(Pongs(tele, life))
           /\ life \in Nat /\ Sound(tele, life, now) /\ page \in Pages
           /\ server \in Servers(tele, life)
BY Pieces, HearsRange DEF Pages

LEMMA PingTimerPunctual ==
    ASSUME MInv, Punctual, page.live, PingTimer
    PROVE  Punctual'
<1> DEFINE id == page.pingId + 1
           u == PingSent(Advance(tele), id)
           m == [kind |-> "ping", content |-> [id |-> id, life |-> life]]
           h == Hears(up, server.heard, now)
<1>1. /\ page.visible /\ now >= page.pingAt
      /\ page' = [page EXCEPT !.pingId = @ + 1, !.pingAt = now + PingEvery]
      /\ life' = life /\ now' = now /\ down' = down /\ server' = server
      /\ Probe(up, tele, page'.pingId)
  BY DEF PingTimer, Measuring
<1>2. /\ server.delay = 0 /\ server.delayed = <<>> /\ tele.high = page.pingId
      /\ InFlight(tele, up, down) /\ Turns(server.hidden, up, page.visible)
      /\ ~server.hidden => now <= server.heard + 2 * ReportEvery
      /\ Schedule(tele, page.pingAt, page.reportAt, h, now)
  BY <1>1 DEF Punctual
<1>3. /\ page'.pingId = id /\ page'.pingAt = now + PingEvery /\ page'.reportAt = page.reportAt
  BY <1>1, PageNumbers DEF Pages
<1>4. page'.visible = page.visible
  BY <1>1, PageNumbers, Zenon DEF Pages
<1>5. page.pingAt = now /\ tele.pending = {}
  <2>1. now <= page.pingAt /\ \A p \in tele.pending : page.pingAt = now + PingEvery
    BY <1>2 DEF Schedule
  <2>2. page.pingAt = now
    BY <1>1, <2>1, PageNumbers
  <2>3. now # now + PingEvery
    BY PageNumbers, Intervals
  <2> QED BY <2>1, <2>2, <2>3
<1>6. /\ CanSend(Advance(tele), id) /\ u.pending = {[id |-> id, sent |-> now]}
      /\ u.high = id /\ u.epoch = tele.epoch
      /\ Answered(tele, now, 0, PingEvery) => Answered(u, now + PingEvery, 1, 2 * PingEvery)
      /\ Answered(tele, now, 1, 2 * PingEvery) => Answered(u, now + PingEvery, 2, 3 * PingEvery)
  BY <1>2, <1>5, PageNumbers, SendKeeps, SMTT(30)
<1>7. tele' = u /\ up' = Append(up, m)
  BY <1>1, <1>3, <1>6 DEF Probe
<1>8. ~IsVisibility(m) /\ ~IsHeard(m) /\ m.kind = "ping" /\ m.content.id = id
  BY DEF IsVisibility, IsHeard
<1> DEFINE all == Messages(tele, life) \cup {m}
<1>9. up \in Seq(all) /\ m \in all
  BY PageNumbers, SeqMore
<1>10. \A p \in u.pending : p.id = id
  BY <1>6
<1> HIDE DEF u, m, all, id
<1>11. InFlight(u, Append(up, m), down)
  BY <1>2, <1>5, <1>6, <1>8, <1>9, <1>10, FlightAppended
<1>12. Turns(server.hidden, Append(up, m), page.visible)
  BY <1>2, <1>8, <1>9, TurnsAppended
<1>13. Hears(Append(up, m), server.heard, now) = h
  BY <1>8, <1>9, HearsAppended
<1>14. Schedule(u, now + PingEvery, page.reportAt, h, now)
  <2>1. h \in Nat /\ page.reportAt \in Nat /\ now \in Nat
    BY PageNumbers
  <2> DEFINE p == [id |-> id, sent |-> now]
  <2>2. u.pending = {p} /\ p.id = u.high /\ p.sent = now
    BY <1>6
  <2>3. Schedule(tele, now, page.reportAt, h, now)
    BY <1>2, <1>5
  <2> HIDE DEF p, h
  <2> QED BY <1>5, <1>6, <2>1, <2>2, <2>3, ScheduleSent
<1>15. /\ server'.delay = 0 /\ server'.delayed = <<>> /\ tele'.high = page'.pingId
       /\ ~server'.hidden => now' <= server'.heard + 2 * ReportEvery
  BY <1>1, <1>2, <1>3, <1>6, <1>7
<1>16. InFlight(tele', up', down') /\ Turns(server'.hidden, up', page'.visible)
  BY <1>1, <1>4, <1>7, <1>11, <1>12
<1>17. Schedule(tele', page'.pingAt, page'.reportAt, Hears(up', server'.heard, now'), now')
  BY <1>1, <1>3, <1>7, <1>13, <1>14
<1> QED BY <1>15, <1>16, <1>17 DEF Punctual

LEMMA ReportTimerPunctual ==
    ASSUME MInv, Punctual, page.live, ReportTimer
    PROVE  Punctual'
<1> DEFINE u == Advance(tele)
           m == [kind |-> "report", content |-> [at |-> now, samples |-> u.successes]]
           h == Hears(up, server.heard, now)
           k == Hears(up', server.heard, now)
           a == page.pingAt
<1>1. /\ page.visible /\ now >= page.reportAt
      /\ page' = [page EXCEPT !.reportAt = now + ReportEvery] /\ tele' = u
      /\ up' = IF Cardinality(u.successes) >= 2 THEN Append(up, m) ELSE up
      /\ life' = life /\ now' = now /\ down' = down /\ server' = server
  BY DEF ReportTimer, Measuring, Sends
<1>2. /\ server.delay = 0 /\ server.delayed = <<>> /\ tele.high = page.pingId
      /\ InFlight(tele, up, down) /\ Turns(server.hidden, up, page.visible)
      /\ ~server.hidden => now <= server.heard + 2 * ReportEvery
      /\ Schedule(tele, a, page.reportAt, h, now)
  BY <1>1 DEF Punctual
<1>3. page'.pingId = page.pingId /\ page'.pingAt = a /\ page'.reportAt = now + ReportEvery
  BY <1>1, PageNumbers DEF Pages
<1>4. page'.visible = page.visible
  BY <1>1, PageNumbers, Zenon DEF Pages
<1>5. /\ page.reportAt = now /\ now <= a
      /\ \A p \in tele.pending : p.id = tele.high /\ p.sent = now
  BY <1>1, <1>2, PageNumbers DEF Schedule
<1>6. /\ u.pending = tele.pending /\ u.high = tele.high /\ u.epoch = tele.epoch
      /\ Answered(tele, a, 0, PingEvery) => Answered(u, a, 0, PingEvery)
      /\ Answered(tele, a, 1, 2 * PingEvery) => Answered(u, a, 1, 2 * PingEvery)
      /\ tele.pending # {} /\ Answered(tele, a, 2, 3 * PingEvery)
           => Answered(u, a, 2, 3 * PingEvery)
  BY <1>5, PageNumbers, AdvanceKeeps
<1>7. Sound(u, life, now)
  BY PageNumbers, AdvanceSound
<1>8. /\ Answered(u, a, 0, PingEvery) /\ Answered(u, a, 1, 2 * PingEvery)
           => Cardinality(u.successes) >= 2
      /\ Answered(u, a, 1, 2 * PingEvery) /\ Answered(u, a, 2, 3 * PingEvery)
           => Cardinality(u.successes) >= 2
  <2> HIDE DEF u, a
  <2>1. 0 \in Nat /\ 1 \in Nat /\ 2 \in Nat /\ 0 # 1 /\ 1 # 2
    OBVIOUS
  <2> QED BY <1>7, <2>1, EnoughSamples, Zenon
<1>9. ~IsVisibility(m) /\ IsHeard(m) /\ m.kind = "report"
  BY DEF IsVisibility, IsHeard
<1> DEFINE all == Messages(tele, life) \cup {m}
<1>10. up \in Seq(all) /\ m \in all
  BY PageNumbers, SeqMore
<1> HIDE DEF u, m, all
<1>11. /\ InFlight(u, up', down) /\ Turns(server.hidden, up', page.visible)
       /\ k \in Nat /\ h <= k /\ k <= now
       /\ Cardinality(u.successes) >= 2 => k = now
  <2>0. h \in Nat /\ h <= now /\ now \in Nat
    BY PageNumbers
  <2>1. CASE Cardinality(u.successes) >= 2
    <3>1. up' = Append(up, m)
      BY <1>1, <2>1
    <3>2. InFlight(u, Append(up, m), down)
      BY <1>2, <1>6, <1>10, FlightAppended
    <3>3. Turns(server.hidden, Append(up, m), page.visible)
      BY <1>1, <1>2, <1>9, <1>10, TurnsAppended
    <3>4. Hears(Append(up, m), server.heard, now) = now
      BY <1>9, <1>10, HearsAppended
    <3> QED BY <2>0, <3>1, <3>2, <3>3, <3>4
  <2>2. CASE ~(Cardinality(u.successes) >= 2)
    <3>1. up' = up
      BY <1>1, <2>2
    <3>2. InFlight(u, up, down)
      BY <1>2, <1>6 DEF InFlight
    <3> QED BY <1>2, <2>0, <2>2, <3>1, <3>2
  <2> QED BY <2>1, <2>2
<1>12. Schedule(u, a, now + ReportEvery, k, now)
  <2>1. h \in Nat /\ a \in Nat /\ now \in Nat
    BY PageNumbers
  <2>2. Schedule(tele, a, now, h, now)
    BY <1>2, <1>5
  <2> HIDE DEF a, h, k
  <2> QED BY <1>6, <1>8, <1>11, <2>1, <2>2, ScheduleReported
<1>13. /\ server'.delay = 0 /\ server'.delayed = <<>> /\ tele'.high = page'.pingId
       /\ ~server'.hidden => now' <= server'.heard + 2 * ReportEvery
  BY <1>1, <1>2, <1>3, <1>6
<1>14. InFlight(tele', up', down') /\ Turns(server'.hidden, up', page'.visible)
  BY <1>1, <1>4, <1>11
<1>15. Schedule(tele', page'.pingAt, page'.reportAt, Hears(up', server'.heard, now'), now')
  BY <1>1, <1>3, <1>12
<1> QED BY <1>13, <1>14, <1>15 DEF Punctual

LEMMA HealthPunctual ==
    ASSUME MInv, Punctual, page.live, Health
    PROVE  Punctual'
<1> DEFINE u == Advance(tele)
           a == page.pingAt
           h == Hears(up, server.heard, now)
<1>1. /\ page.visible /\ tele' = u
      /\ UNCHANGED <<now, page, up, down, server, life, prompt, env>>
  BY DEF Health, Measuring
<1>2. /\ server.delay = 0 /\ server.delayed = <<>> /\ tele.high = page.pingId
      /\ InFlight(tele, up, down) /\ Turns(server.hidden, up, page.visible)
      /\ ~server.hidden => now <= server.heard + 2 * ReportEvery
      /\ Schedule(tele, a, page.reportAt, h, now)
  BY <1>1 DEF Punctual
<1>3. now <= a /\ \A p \in tele.pending : p.id = tele.high /\ p.sent = now
  BY <1>2 DEF Schedule
<1>4. /\ u.pending = tele.pending /\ u.high = tele.high /\ u.epoch = tele.epoch
      /\ Answered(tele, a, 0, PingEvery) => Answered(u, a, 0, PingEvery)
      /\ Answered(tele, a, 1, 2 * PingEvery) => Answered(u, a, 1, 2 * PingEvery)
      /\ tele.pending # {} /\ Answered(tele, a, 2, 3 * PingEvery)
           => Answered(u, a, 2, 3 * PingEvery)
  BY <1>3, PageNumbers, AdvanceKeeps
<1> HIDE DEF u
<1>5. Schedule(u, a, page.reportAt, h, now)
  <2> HIDE DEF a, h
  <2> QED BY <1>2, <1>4, ScheduleAdvanced
<1>6. InFlight(u, up, down)
  BY <1>2, <1>4 DEF InFlight
<1>7. /\ server'.delay = 0 /\ server'.delayed = <<>> /\ tele'.high = page'.pingId
      /\ ~server'.hidden => now' <= server'.heard + 2 * ReportEvery
  BY <1>1, <1>2, <1>4
<1>8. InFlight(tele', up', down') /\ Turns(server'.hidden, up', page'.visible)
  BY <1>1, <1>2, <1>6
<1>9. Schedule(tele', page'.pingAt, page'.reportAt, Hears(up', server'.heard, now'), now')
  BY <1>1, <1>5
<1> QED BY <1>7, <1>8, <1>9 DEF Punctual

\* The pong that is read answers no probe that is still waited for.
LEMMA FlightPonged ==
    ASSUME NEW D, NEW d \in Seq(D), d # <<>>, NEW s, NEW t, NEW u, InFlight(t, s, d),
           u.epoch = t.epoch, u.pending \subseteq t.pending,
           Head(d).epoch = t.epoch => \A p \in u.pending : p.id # Head(d).id
    PROVE  InFlight(u, s, Tail(d))
<1>1. /\ Head(d) = d[1]
      /\ \A i \in DOMAIN d : i = 1 \/ (i - 1 \in DOMAIN Tail(d) /\ Tail(d)[i - 1] = d[i])
  BY Shifted
<1> SUFFICES ASSUME NEW p \in u.pending, NEW i \in DOMAIN d, d[i].epoch = t.epoch, d[i].id = p.id
             PROVE  \E j \in DOMAIN Tail(d) : Tail(d)[j].epoch = t.epoch /\ Tail(d)[j].id = p.id
  BY DEF InFlight
<1>2. i # 1
  BY <1>1
<1> QED BY <1>1, <1>2

\* A pong takes its probe out of those that are waited for, or changes nothing.
LEMMA PongTakes ==
    ASSUME NEW t, NEW l, NEW n, Sound(t, l, n), NEW pong
    PROVE  LET u == PongReceived(t, pong)
           IN  /\ u.high = t.high /\ u.epoch = t.epoch
               /\ u.pending \subseteq t.pending /\ \A p \in u.pending : p.id # pong.id
               /\ (\A p \in t.pending : p.id # pong.id)
                    => u.pending = t.pending /\ u.successes = t.successes
<1> DEFINE mine == {p \in t.pending : p.id = pong.id}
           late == {p \in mine : now - p.sent >= Timeout}
           samples == {[id |-> p.id, sent |-> p.sent, life |-> pong.life] : p \in mine \ late}
           kept == IF samples = {} THEN t.successes ELSE TrimSuccesses(t.successes \cup samples)
           u == [t EXCEPT !.pending = @ \ mine, !.timedOut = @ \cup Ids(late),
                          !.successes = IF samples = {} THEN @ ELSE TrimSuccesses(@ \cup samples)]
<1>1. PongReceived(t, pong) = u
  BY DEF PongReceived
<1>2. t \in Teles
  BY DEF Sound
<1>3. (\A p \in t.pending : p.id # pong.id) => mine = {} /\ mine \ late = {}
  OBVIOUS
<1>4. mine \ late = {} => samples = {}
  <2> HIDE DEF mine, late
  <2> QED OBVIOUS
<1>5. u.high = t.high /\ u.epoch = t.epoch /\ u.pending = t.pending \ mine /\ u.successes = kept
  <2> HIDE DEF samples, mine
  <2> QED BY <1>2 DEF Teles
<1> HIDE DEF u, samples, late
<1>6. (\A p \in t.pending : p.id # pong.id) => kept = t.successes
  BY <1>3, <1>4
<1> HIDE DEF kept
<1> QED BY <1>1, <1>3, <1>5, <1>6

LEMMA ReceivePongPunctual ==
    ASSUME MInv, Punctual, page.live, ReceivePong
    PROVE  Punctual'
<1> DEFINE g == Head(down)
           u == IF IsCurrent(g) THEN PongReceived(tele, g) ELSE tele
           a == page.pingAt
           h == Hears(up, server.heard, now)
<1>1. /\ down # <<>> /\ down' = Tail(down) /\ tele' = u
      /\ UNCHANGED <<now, page, up, server, life, prompt, env>>
  BY DEF ReceivePong
<1>2. /\ server.delay = 0 /\ server.delayed = <<>> /\ tele.high = page.pingId
      /\ InFlight(tele, up, down) /\ Turns(server.hidden, up, page.visible)
      /\ ~server.hidden => now <= server.heard + 2 * ReportEvery
      /\ page.visible => Schedule(tele, a, page.reportAt, h, now)
  BY DEF Punctual
<1>3. /\ u.high = tele.high /\ u.epoch = tele.epoch /\ u.pending \subseteq tele.pending
      /\ g.epoch = tele.epoch => \A p \in u.pending : p.id # g.id
      /\ (\A p \in tele.pending : p.id # g.id) \/ ~IsCurrent(g)
           => u.pending = tele.pending /\ u.successes = tele.successes
  <2>1. CASE IsCurrent(g)
    BY <2>1, PageNumbers, PongTakes, SMTT(30)
  <2>2. CASE ~IsCurrent(g)
    <3>1. g.epoch # tele.epoch
      BY <2>2 DEF IsCurrent
    <3> QED BY <2>2, <3>1
  <2> QED BY <2>1, <2>2
<1>4. InFlight(u, up, Tail(down))
  <2> HIDE DEF u
  <2> QED BY <1>1, <1>2, <1>3, PageNumbers, FlightPonged
<1>5. ASSUME page.visible PROVE Schedule(u, a, page.reportAt, h, now)
  <2>1. Schedule(tele, a, page.reportAt, h, now)
    BY <1>2, <1>5
  <2>2. CASE (\A p \in tele.pending : p.id # g.id) \/ ~IsCurrent(g)
    <3>1. u.pending = tele.pending /\ u.high = tele.high /\ u.successes = tele.successes
      BY <1>3, <2>2
    <3> HIDE DEF u, a, h
    <3>2. \A k, d : Answered(tele, a, k, d) => Answered(u, a, k, d)
      BY <3>1 DEF Answered
    <3> QED BY <2>1, <3>1, <3>2, ScheduleAdvanced
  <2>3. CASE IsCurrent(g) /\ \E p \in tele.pending : p.id = g.id
    <3>1. PICK p \in tele.pending : p.id = g.id
      BY <2>3
    <3>2. a = now + PingEvery /\ \A q \in tele.pending : q.id = tele.high /\ q.sent = now
      BY <2>1, <3>1 DEF Schedule
    <3>3. g \in Pongs(tele, life) /\ g.life \in Nat
      <4>1. g \in Pongs(tele, life)
        BY <1>1, PageNumbers, SeqTail
      <4> QED BY <4>1 DEF Pongs
    <3>4. u = PongReceived(tele, g)
      BY <2>3
    <3>5. a \in Nat /\ page.reportAt \in Nat /\ h \in Nat /\ now \in Nat
      BY PageNumbers
    <3> HIDE DEF g, u, a, h
    <3>6. /\ u.pending = {} /\ Answered(u, a, 0, PingEvery)
          /\ Answered(tele, a, 1, 2 * PingEvery) => Answered(u, a, 1, 2 * PingEvery)
      BY <3>1, <3>2, <3>3, <3>4, <3>5, PageNumbers, PongAnswers
    <3>7. tele.pending # {}
      BY <3>1
    <3> QED BY <2>1, <3>5, <3>6, <3>7, SchedulePonged
  <2> QED BY <2>2, <2>3
<1> HIDE DEF u
<1>6. /\ server'.delay = 0 /\ server'.delayed = <<>> /\ tele'.high = page'.pingId
      /\ ~server'.hidden => now' <= server'.heard + 2 * ReportEvery
  BY <1>1, <1>2, <1>3
<1>7. InFlight(tele', up', down') /\ Turns(server'.hidden, up', page'.visible)
  BY <1>1, <1>2, <1>4
<1>8. page'.visible =>
        Schedule(tele', page'.pingAt, page'.reportAt, Hears(up', server'.heard, now'), now')
  BY <1>1, <1>5
<1> QED BY <1>6, <1>7, <1>8 DEF Punctual

LEMMA ResetFacts ==
    ASSUME NEW t, t \in Teles, NEW e
    PROVE  /\ Reset(t, e).pending = {} /\ Reset(t, e).successes = {} /\ Reset(t, e).epoch = e
           /\ Reset(t, e).high = IF e = t.epoch THEN t.high ELSE 0
BY DEF Reset, Teles

LEMMA HidePunctual ==
    ASSUME MInv, Punctual, page.live, Hide
    PROVE  Punctual'
<1> DEFINE u == Reset(tele, tele.epoch)
           m == [kind |-> "visibility", content |-> TRUE]
<1>1. /\ page.visible /\ page' = [page EXCEPT !.visible = FALSE] /\ tele' = u
      /\ up' = Append(up, m) /\ now' = now /\ down' = down /\ server' = server
  BY DEF Hide, Sends
<1>2. /\ server.delay = 0 /\ server.delayed = <<>> /\ tele.high = page.pingId
      /\ Turns(server.hidden, up, page.visible)
      /\ ~server.hidden => now <= server.heard + 2 * ReportEvery
  BY DEF Punctual
<1>3. page'.pingId = page.pingId
  BY <1>1, PageNumbers DEF Pages
<1>4. ~page'.visible
  BY <1>1, PageNumbers, Zenon DEF Pages
<1>5. u.pending = {} /\ u.high = tele.high
  BY PageNumbers, ResetFacts DEF Sound
<1>6. IsVisibility(m) /\ m.content /\ m.kind # "report"
  BY DEF IsVisibility
<1> DEFINE all == Messages(tele, life) \cup {m}
<1>7. up \in Seq(all) /\ m \in all
  BY PageNumbers, SeqMore
<1> HIDE DEF u, m, all
<1>8. Turns(server.hidden, Append(up, m), page'.visible)
  BY <1>1, <1>2, <1>4, <1>6, <1>7, TurnsAppended
<1>9. InFlight(u, up', down')
  BY <1>5 DEF InFlight
<1>10. /\ server'.delay = 0 /\ server'.delayed = <<>> /\ tele'.high = page'.pingId
       /\ ~server'.hidden => now' <= server'.heard + 2 * ReportEvery
  BY <1>1, <1>2, <1>3, <1>5
<1>11. InFlight(tele', up', down') /\ Turns(server'.hidden, up', page'.visible)
  BY <1>1, <1>8, <1>9
<1> QED BY <1>4, <1>10, <1>11 DEF Punctual

\* On a return the probe is sent at once, and its answer is there before the
\* second report of the return is due.
LEMMA ScheduleShown ==
    ASSUME NEW u, NEW n \in Nat, NEW p, u.pending = {p}, p.id = u.high, p.sent = n
    PROVE  Schedule(u, n + PingEvery, n + ReportEvery, n, n)
<1> DEFINE a == n + PingEvery
           r == n + ReportEvery
<1>1. n <= a /\ a <= n + PingEvery /\ n <= r /\ r <= n + ReportEvery /\ a <= r
  BY Intervals
<1>2. u.pending # {} /\ \A q \in u.pending : q.id = u.high /\ q.sent = n /\ a = n + PingEvery
  OBVIOUS
<1> HIDE DEF a, r
<1>3. Evidence(u, a, r, n, n)
  BY <1>1, <1>2, Zenon DEF Evidence, Within
<1> QED BY <1>1, <1>2, <1>3 DEF Schedule, a, r

LEMMA ShowPunctual ==
    ASSUME MInv, Punctual, page.live, Show
    PROVE  Punctual'
<1> DEFINE t == Reset(tele, tele.epoch)
           id == page.pingId + 1
           u == PingSent(Advance(t), id)
           v == [kind |-> "visibility", content |-> FALSE]
           m == [kind |-> "ping", content |-> [id |-> id, life |-> life']]
           out == Append(up, v)
<1>1. /\ ~page.visible /\ life' = life + 1
      /\ page' = [page EXCEPT !.visible = TRUE, !.pingId = @ + 1,
                              !.pingAt = now + PingEvery, !.reportAt = now + ReportEvery]
      /\ Probe(out, t, page'.pingId)
      /\ UNCHANGED <<now, down, server, prompt>>
  BY DEF Show, Sends
<1>2. /\ server.delay = 0 /\ server.delayed = <<>> /\ tele.high = page.pingId
      /\ Turns(server.hidden, up, page.visible)
      /\ ~server.hidden => now <= server.heard + 2 * ReportEvery
  BY DEF Punctual
<1>3. /\ page'.pingId = id /\ page'.pingAt = now + PingEvery /\ page'.reportAt = now + ReportEvery
  BY <1>1, PageNumbers DEF Pages
<1>4. page'.visible
  BY <1>1, PageNumbers, Zenon DEF Pages
<1>5. /\ Sound(t, life', now) /\ t.pending = {} /\ t.high = tele.high /\ t.epoch = tele.epoch
      /\ life' \in Nat
  <2>1. tele \in Teles /\ tele.epoch <= MaxEpoch
    BY Pieces
  <2>2. Sound(t, life + 1, now)
    BY <2>1, PageNumbers, ResetSound
  <2> QED BY <1>1, <2>1, <2>2, PageNumbers, ResetFacts, SMTT(30)
<1> HIDE DEF t, out
<1>6. /\ CanSend(Advance(t), id) /\ u.pending = {[id |-> id, sent |-> now]} /\ u.high = id
  BY <1>2, <1>5, PageNumbers, SendKeeps, SMTT(30)
<1>7. tele' = u /\ up' = Append(out, m)
  BY <1>1, <1>3, <1>6 DEF Probe
<1>8. /\ IsVisibility(v) /\ ~v.content /\ IsHeard(v) /\ v.kind # "report"
      /\ ~IsVisibility(m) /\ ~IsHeard(m) /\ m.kind = "ping" /\ m.content.id = id
  BY DEF IsVisibility, IsHeard
<1> DEFINE all == Messages(tele, life) \cup {v, m}
<1>9. up \in Seq(all) /\ v \in all /\ m \in all
  BY PageNumbers, SeqMore
<1> HIDE DEF u, m, v, all
<1>10. out \in Seq(all)
  BY <1>9, SeqAppend DEF out
<1>11. Turns(server.hidden, Append(out, m), TRUE)
  <2>1. Turns(server.hidden, out, TRUE)
    BY <1>1, <1>2, <1>8, <1>9, TurnsAppended DEF out
  <2> QED BY <1>8, <1>9, <1>10, <2>1, TurnsAppended
<1>12. Hears(Append(out, m), server.heard, now) = now
  <2>1. Hears(out, server.heard, now) = now
    BY <1>8, <1>9, HearsAppended DEF out
  <2> QED BY <1>8, <1>9, <1>10, <2>1, HearsAppended
<1>13. InFlight(u, Append(out, m), down)
  <2>1. InFlight(t, out, down)
    BY <1>5 DEF InFlight
  <2>2. \A p \in u.pending : p.id = id
    BY <1>6
  <2>3. u.epoch = t.epoch
    BY <1>5, <1>2, PageNumbers, SendKeeps, SMTT(30) DEF u
  <2> QED BY <1>8, <1>9, <1>10, <2>1, <2>2, <2>3, FlightAppended
<1>14. Schedule(u, now + PingEvery, now + ReportEvery, now, now)
  <2> DEFINE p == [id |-> id, sent |-> now]
  <2>1. u.pending = {p} /\ p.id = u.high /\ p.sent = now /\ now \in Nat
    BY <1>6, PageNumbers
  <2> HIDE DEF p
  <2> QED BY <2>1, ScheduleShown
<1>15. /\ server'.delay = 0 /\ server'.delayed = <<>> /\ tele'.high = page'.pingId
       /\ ~server'.hidden => now' <= server'.heard + 2 * ReportEvery
  BY <1>1, <1>2, <1>3, <1>6, <1>7
<1>16. InFlight(tele', up', down') /\ Turns(server'.hidden, up', TRUE)
  BY <1>1, <1>7, <1>11, <1>13
<1>17. Turns(server'.hidden, up', page'.visible)
  BY <1>4, <1>16 DEF Turns
<1>18. Schedule(tele', page'.pingAt, page'.reportAt, Hears(up', server'.heard, now'), now')
  BY <1>1, <1>3, <1>7, <1>12, <1>14
<1> QED BY <1>15, <1>16, <1>17, <1>18 DEF Punctual

\* A new connection: an interval before the first probe, and two before the
\* first report.
LEMMA ScheduleFirst ==
    ASSUME NEW u, NEW n \in Nat, u.pending = {}
    PROVE  Schedule(u, n + PingEvery, n + ReportEvery, n, n)
<1> DEFINE a == n + PingEvery
           r == n + ReportEvery
<1>1. n <= a /\ a <= n + PingEvery /\ n <= r /\ r <= n + ReportEvery /\ a + PingEvery <= r
  BY Intervals
<1> HIDE DEF a, r
<1>2. Evidence(u, a, r, n, n)
  BY <1>1, Zenon DEF Evidence
<1> QED BY <1>1, <1>2 DEF Schedule, a, r

LEMMA FirstPunctual ==
    ASSUME now \in Nat, up = <<>>, tele.pending = {}, tele.high = page.pingId,
           server.delay = 0, server.delayed = <<>>, ~server.hidden, server.heard = now,
           page.visible, page.pingAt = now + PingEvery, page.reportAt = now + ReportEvery
    PROVE  Punctual
<1>1. Turns(server.hidden, up, page.visible)
  <2>1. PICK h : h = server.hidden
    OBVIOUS
  <2>2. PICK v : v = page.visible
    OBVIOUS
  <2>3. ~h /\ v
    BY <2>1, <2>2
  <2>4. Turns(h, <<>>, v)
    <3>1. Turns(h, <<>>, v) <=> (h <=> ~v)
      BY TurnsNothing
    <3> QED BY <2>3, <3>1
  <2> QED BY <2>1, <2>2, <2>4
<1>2. InFlight(tele, up, down)
  BY DEF InFlight
<1>3. Hears(up, server.heard, now) = now
  BY HearsNothing
<1>4. Schedule(tele, page.pingAt, page.reportAt, Hears(up, server.heard, now), now)
  BY <1>3, ScheduleFirst
<1>5. now <= server.heard + 2 * ReportEvery
  BY Intervals
<1> QED BY <1>1, <1>2, <1>4, <1>5 DEF Punctual

LEMMA ConnectPunctual ==
    ASSUME MInv, Connect
    PROVE  Punctual'
<1>1. /\ ~page.live
      /\ page' = [live |-> TRUE, visible |-> TRUE, pingId |-> 0,
                  pingAt |-> now + PingEvery, reportAt |-> now + ReportEvery]
      /\ tele' = Reset(tele, tele.epoch + 1) /\ server' = Server0(now)
      /\ now' = now /\ up' = up /\ down' = down
  BY DEF Connect
<1>2. up = <<>> /\ tele \in Teles /\ tele.epoch + 1 # tele.epoch
  BY <1>1, Pieces
<1>3. tele'.pending = {} /\ tele'.high = 0
  BY <1>1, <1>2, ResetFacts
<1>4. server'.delay = 0 /\ server'.delayed = <<>> /\ ~server'.hidden /\ server'.heard = now'
  BY <1>1 DEF Server0
<1>5. Turns(server'.hidden, up', page'.visible)
  <2>1. Turns(server'.hidden, <<>>, page'.visible) <=> (server'.hidden <=> ~page'.visible)
    BY TurnsNothing
  <2>2. page'.visible
    BY <1>1
  <2> QED BY <1>1, <1>2, <1>4, <2>1, <2>2
<1>6. InFlight(tele', up', down')
  BY <1>3 DEF InFlight
<1>7. now' \in Nat /\ Hears(up', server'.heard, now') = now'
  BY <1>1, <1>2, <1>4, PageNumbers, HearsNothing
<1>8. Schedule(tele', now' + PingEvery, now' + ReportEvery, now', now')
  BY <1>3, <1>7, ScheduleFirst
<1>9. now' <= server'.heard + 2 * ReportEvery
  <2>1. server'.heard = now'
    BY <1>4
  <2>2. now <= now + 2 * ReportEvery
    BY PageNumbers, Intervals
  <2> QED BY <1>1, <2>1, <2>2
<1>10. /\ page'.visible = TRUE /\ page'.pingId = 0
       /\ page'.pingAt = now' + PingEvery /\ page'.reportAt = now' + ReportEvery
  BY <1>1
<1> QED BY <1>3, <1>4, <1>5, <1>6, <1>7, <1>8, <1>9, <1>10 DEF Punctual

LEMMA SetDelayPunctual ==
    ASSUME MInv, Punctual, page.live, SetDelay
    PROVE  Punctual'
<1>1. PICK c \in {0, Delay} : up' = Append(up, [kind |-> "delay", content |-> c])
  BY DEF SetDelay, Sends
<1>2. UNCHANGED <<now, tele, page, down, server, life, prompt>>
  BY DEF SetDelay
<1> DEFINE m == [kind |-> "delay", content |-> c]
           all == Messages(tele, life) \cup {m}
<1>3. ~IsVisibility(m) /\ ~IsHeard(m) /\ m.kind # "report"
  BY DEF IsVisibility, IsHeard
<1>4. up \in Seq(all) /\ m \in all /\ up' = Append(up, m)
  BY <1>1, PageNumbers, SeqMore
<1> HIDE DEF m, all
<1>5. InFlight(tele, up, down) /\ Turns(server.hidden, up, page.visible)
  BY DEF Punctual
<1>6. InFlight(tele, Append(up, m), down)
  BY <1>4, <1>5, FlightAppended
<1>7. Turns(server.hidden, Append(up, m), page.visible)
  BY <1>3, <1>4, <1>5, TurnsAppended
<1>8. Hears(Append(up, m), server.heard, now) = Hears(up, server.heard, now)
  BY <1>3, <1>4, HearsAppended
<1> QED BY <1>2, <1>4, <1>6, <1>7, <1>8 DEF Punctual

\* Turns of equivalent states of the server.
LEMMA TurnsSame ==
    ASSUME NEW h, NEW g, NEW s, NEW v, g <=> h, Turns(h, s, v)
    PROVE  Turns(g, s, v)
<1>1. \A j \in 0 .. Len(s) : Said(g, s, j) <=> Said(h, s, j)
  BY DEF Said
<1> QED BY <1>1 DEF Turns

LEMMA ReceivePingPunctual ==
    ASSUME MInv, Punctual, page.live, up # <<>>, Head(up).kind = "ping",
           ReceivePing(Head(up).content), UNCHANGED <<now, tele, life, env>>
    PROVE  Punctual'
<1> DEFINE m == Head(up)
           g == Pong(m.content)
<1>1. /\ server.delay = 0 /\ server.delayed = <<>> /\ tele.high = page.pingId
      /\ InFlight(tele, up, down) /\ Turns(server.hidden, up, page.visible)
      /\ ~server.hidden => now <= server.heard + 2 * ReportEvery
      /\ page.visible =>
           Schedule(tele, page.pingAt, page.reportAt, Hears(up, server.heard, now), now)
  BY DEF Punctual
<1>2. /\ down' = Append(down, g) /\ up' = Tail(up) /\ page' = page /\ server' = server
      /\ now' = now /\ tele' = tele
  BY <1>1 DEF ReceivePing
<1>3. g.epoch = tele.epoch /\ g.id = m.content.id
  BY DEF Pong
<1> DEFINE all == Pongs(tele, life) \cup {g}
<1>4. down \in Seq(all) /\ g \in all
  BY PageNumbers, SeqMore
<1> HIDE DEF g, all
<1>5. InFlight(tele, Tail(up), Append(down, g))
  BY <1>1, <1>3, <1>4, PageNumbers, FlightAnswered
<1>6. ~IsVisibility(m) /\ ~IsHeard(m)
  BY DEF IsVisibility, IsHeard
<1> HIDE DEF m
<1>7. Turns(server.hidden, Tail(up), page.visible)
  BY <1>1, <1>6, PageNumbers, TurnsShifted DEF m
<1>8. Hears(Tail(up), server.heard, now) = Hears(up, server.heard, now)
  BY <1>6, PageNumbers, HearsShifted DEF m
<1> QED BY <1>1, <1>2, <1>5, <1>7, <1>8 DEF Punctual

\* The server reads a report, or that the tab is hidden or shown.
LEMMA ReceiveHeardPunctual ==
    ASSUME MInv, Punctual, page.live, up # <<>>, up' = Tail(up),
           UNCHANGED <<now, tele, life, env, page, down>>,
           \/ /\ Head(up).kind = "report"
              /\ server' = IF server.hidden THEN server ELSE [server EXCEPT !.heard = now]
           \/ /\ Head(up).kind = "visibility"
              /\ server' = [server EXCEPT !.hidden = Head(up).content,
                                          !.heard = IF server.hidden /\ ~Head(up).content
                                                    THEN now ELSE @]
    PROVE  Punctual'
<1> DEFINE m == Head(up)
           h == Hears(up, server.heard, now)
<1>1. /\ server.delay = 0 /\ server.delayed = <<>> /\ tele.high = page.pingId
      /\ InFlight(tele, up, down) /\ Turns(server.hidden, up, page.visible)
      /\ ~server.hidden => now <= server.heard + 2 * ReportEvery
      /\ page.visible => Schedule(tele, page.pingAt, page.reportAt, h, now)
  BY DEF Punctual
<1>2. m.kind # "ping" /\ (m.kind = "report" \/ m.kind = "visibility")
  OBVIOUS
<1>3. InFlight(tele, Tail(up), down)
  BY <1>1, <1>2, PageNumbers, FlightShifted
<1>4. server \in Servers(tele, life) /\ now \in Nat
  BY PageNumbers
<1>5. /\ server'.delay = 0 /\ server'.delayed = <<>>
      /\ Turns(server'.hidden, Tail(up), page.visible)
      /\ Hears(Tail(up), server'.heard, now) = h
      /\ ~server'.hidden => now <= server'.heard + 2 * ReportEvery
  <2>1. CASE m.kind = "report"
    <3>1. ~IsVisibility(m) /\ IsHeard(m)
      BY <2>1 DEF IsVisibility, IsHeard
    <3> HIDE DEF m
    <3>2. Turns(server.hidden, Tail(up), page.visible) /\ ~server.hidden
      BY <1>1, <2>1, <3>1, PageNumbers, TurnsShifted DEF m
    <3>3. server' = [server EXCEPT !.heard = now]
      BY <2>1, <3>2 DEF m
    <3>4. server'.delay = server.delay /\ server'.delayed = server.delayed /\ server'.heard = now
      BY <1>4, <3>3 DEF Servers
    <3>5. server'.hidden <=> server.hidden
      BY <1>4, <3>3, Zenon DEF Servers
    <3>6. Turns(server'.hidden, Tail(up), page.visible)
      BY <3>2, <3>5, TurnsSame
    <3>7. Hears(Tail(up), now, now) = h
      BY <3>1, PageNumbers, HearsShifted DEF m
    <3>8. now <= now + 2 * ReportEvery
      BY <1>4, Intervals
    <3> QED BY <1>1, <3>4, <3>6, <3>7, <3>8
  <2>2. CASE m.kind = "visibility"
    <3>1. IsVisibility(m)
      BY <2>2 DEF IsVisibility
    <3>2. m \in Messages(tele, life)
      BY PageNumbers, SeqTail
    <3>3. m.content \in BOOLEAN
      BY <2>2, <3>2, MessageKinds
    <3>4. /\ server' = [server EXCEPT !.hidden = m.content,
                                      !.heard = IF server.hidden /\ ~m.content THEN now ELSE @]
      BY <2>2
    <3> HIDE DEF m
    <3>5. Turns(m.content, Tail(up), page.visible) /\ (m.content <=> ~server.hidden)
      BY <1>1, <3>1, PageNumbers, TurnsShifted DEF m
    <3>6. PICK k : k = IF server.hidden /\ ~m.content THEN now ELSE server.heard
      OBVIOUS
    <3>7. server' = [server EXCEPT !.hidden = m.content, !.heard = k]
      BY <3>4, <3>6
    <3>8. server'.delay = server.delay /\ server'.delayed = server.delayed /\ server'.heard = k
      BY <1>4, <3>7 DEF Servers
    <3>9. server'.hidden = m.content
      BY <1>4, <3>7, Zenon DEF Servers
    <3>10. Turns(server'.hidden, Tail(up), page.visible)
      BY <3>5, <3>9, Zenon
    <3>11. Hears(Tail(up), k, now) = h
      <4>1. CASE m.content
        <5>1. ~IsHeard(m) /\ k = server.heard
          BY <2>2, <3>6, <4>1 DEF IsHeard
        <5> QED BY <5>1, PageNumbers, HearsShifted DEF m
      <4>2. CASE ~m.content
        <5>1. IsHeard(m) /\ k = now
          BY <2>2, <3>5, <3>6, <4>2 DEF IsHeard
        <5> QED BY <5>1, PageNumbers, HearsShifted DEF m
      <4> QED BY <4>1, <4>2
    <3>12. ~m.content => now <= k + 2 * ReportEvery
      <4>1. now <= now + 2 * ReportEvery
        BY <1>4, Intervals
      <4> QED BY <3>5, <3>6, <4>1
    <3>13. ~server'.hidden => now <= server'.heard + 2 * ReportEvery
      BY <3>8, <3>9, <3>12, Zenon
    <3> QED BY <1>1, <3>8, <3>10, <3>11, <3>13
  <2> QED BY <1>2, <2>1, <2>2
<1> QED BY <1>1, <1>3, <1>5 DEF Punctual

LEMMA ReceiveControlPunctual ==
    ASSUME MInv, Punctual, page.live, ReceiveControl, prompt'
    PROVE  Punctual'
<1>1. up # <<>> /\ UNCHANGED <<now, tele, life, env>>
  BY DEF ReceiveControl
<1>2. CASE Head(up).kind = "ping" /\ ReceivePing(Head(up).content)
  BY <1>1, <1>2, ReceivePingPunctual
<1>3. CASE /\ up' = Tail(up) /\ UNCHANGED <<page, down>>
           /\ \/ /\ Head(up).kind = "report"
                 /\ server' = IF server.hidden THEN server ELSE [server EXCEPT !.heard = now]
              \/ /\ Head(up).kind = "visibility"
                 /\ server' = [server EXCEPT !.hidden = Head(up).content,
                                             !.heard = IF server.hidden /\ ~Head(up).content
                                                       THEN now ELSE @]
  BY <1>1, <1>3, ReceiveHeardPunctual
<1> QED BY <1>2, <1>3 DEF ReceiveControl

\* Nothing waits for its delay on a prompt connection.
LEMMA DuePongsPunctual ==
    ASSUME MInv, Punctual, DuePongs
    PROVE  FALSE
<1>1. server.delayed = <<>>
  BY DEF Punctual
<1>2. \E i \in DOMAIN server.delayed : IsDue(server.delayed[i])
  BY DEF DuePongs
<1> QED BY <1>1, <1>2

\* A second passes in which nothing is due: no message is on its way, so no
\* probe is waited for, and the next report is still to come.
LEMMA TimePunctual ==
    ASSUME MInv, Punctual, page.live, Time, prompt'
    PROVE  Punctual'
<1>1. /\ now' = now + 1 /\ ~SomethingDue
      /\ UNCHANGED <<tele, page, up, down, server, life>>
  BY DEF Time
<1>2. /\ server.delay = 0 /\ server.delayed = <<>> /\ tele.high = page.pingId
      /\ InFlight(tele, up, down) /\ Turns(server.hidden, up, page.visible)
      /\ page.visible =>
           Schedule(tele, page.pingAt, page.reportAt, Hears(up, server.heard, now), now)
  BY DEF Punctual
<1>3. up = <<>> /\ down = <<>>
  BY <1>1 DEF SomethingDue
<1>4. tele.pending = {}
  <2>1. DOMAIN up = {} /\ DOMAIN down = {}
    BY <1>3
  <2> QED BY <1>2, <2>1 DEF InFlight
<1>5. server.hidden <=> ~page.visible
  <2>1. Turns(server.hidden, <<>>, page.visible)
    BY <1>2, <1>3
  <2> QED BY <2>1, TurnsNothing
<1>6. Hears(up, server.heard, now) = server.heard /\ Hears(up, server.heard, now') = server.heard
  BY <1>3, HearsNothing
<1>7. ASSUME page.visible
      PROVE  /\ Schedule(tele, page.pingAt, page.reportAt, server.heard, now + 1)
             /\ now + 1 <= server.heard + 2 * ReportEvery
  <2>1. now < page.pingAt /\ now < page.reportAt
    BY <1>1, <1>7, PageNumbers DEF SomethingDue, Measuring
  <2>2. Schedule(tele, page.pingAt, page.reportAt, server.heard, now)
    BY <1>2, <1>6, <1>7
  <2> QED BY <1>4, <2>1, <2>2, PageNumbers, ScheduleWaits
<1>8. ~server'.hidden => now' <= server'.heard + 2 * ReportEvery
  BY <1>1, <1>5, <1>7
<1>9. page'.visible =>
        Schedule(tele', page'.pingAt, page'.reportAt, Hears(up', server'.heard, now'), now')
  BY <1>1, <1>6, <1>7
<1> QED BY <1>1, <1>2, <1>8, <1>9 DEF Punctual

-----------------------------------------------------------------------------

LEMMA PromptInit == Init => PInv
<1> SUFFICES ASSUME Init PROVE PInv
  OBVIOUS
<1>1. /\ now = 0 /\ now \in Nat /\ up = <<>> /\ tele = Tele0 /\ server = Server0(0)
      /\ page = [live |-> TRUE, visible |-> TRUE, pingId |-> 0,
                 pingAt |-> PingEvery, reportAt |-> ReportEvery]
  BY DEF Init
<1>2. tele.pending = {} /\ tele.high = 0
  BY <1>1 DEF Tele0
<1>3. server.delay = 0 /\ server.delayed = <<>> /\ ~server.hidden /\ server.heard = now
  BY <1>1 DEF Server0
<1>4. /\ page.visible /\ page.pingId = 0
      /\ page.pingAt = now + PingEvery /\ page.reportAt = now + ReportEvery
  BY <1>1, Intervals
<1>5. Punctual
  BY <1>1, <1>2, <1>3, <1>4, FirstPunctual
<1> QED BY <1>5 DEF PInv

\* Whatever a step leaves alone stays prompt.
LEMMA PromptStep ==
    ASSUME MInv, PInv, [Next]_vars
    PROVE  PInv'
<1> SUFFICES ASSUME prompt', page'.live PROVE Punctual'
  BY DEF PInv
<1>1. CASE UNCHANGED vars
  BY <1>1 DEF vars, PInv, Punctual
<1>2. CASE Connect
  BY <1>2, ConnectPunctual
<1>3. ASSUME Next, ~Connect PROVE prompt /\ page.live
  <2>1. page.live \/ page'.live = page.live
    <3>1. page \in Pages
      BY PageNumbers
    <3>2. CASE Hide
      <4>1. page' = [page EXCEPT !.visible = FALSE]
        BY <3>2 DEF Hide
      <4> QED BY <3>1, <4>1, Zenon DEF Pages
    <3>3. CASE Show
      <4>1. page.live \/ page' = [page EXCEPT !.visible = TRUE]
        BY <3>3 DEF Show
      <4> QED BY <3>1, <4>1, Zenon DEF Pages
    <3>4. CASE ~Hide /\ ~Show
      <4>1. page.live \/ page' = page
        BY <1>3, <3>4 DEF Next, PingTimer, ReportTimer, Health, Measuring, ReceivePong,
              Disconnect, SetDelay, ReceiveControl, DuePongs, Time
      <4> QED BY <4>1
    <3> QED BY <3>2, <3>3, <3>4
  <2>2. prompt
    BY <1>3 DEF Next, PingTimer, ReportTimer, Health, ReceivePong, Hide, Show,
       Disconnect, SetDelay, ReceiveControl, DuePongs, Time
  <2> QED BY <2>1, <2>2
<1>4. CASE Next /\ ~Connect
  <2>1. prompt /\ page.live /\ Punctual
    BY <1>3, <1>4 DEF PInv
  <2>2. ~Disconnect
    <3>1. page \in Pages
      BY PageNumbers
    <3>2. [page EXCEPT !.live = FALSE].live = FALSE
      BY <3>1, Zenon DEF Pages
    <3> QED BY <3>2 DEF Disconnect, Ends
  <2> QED BY <1>4, <2>1, <2>2, PingTimerPunctual, ReportTimerPunctual, HealthPunctual,
             ReceivePongPunctual, HidePunctual, ShowPunctual, SetDelayPunctual,
             ReceiveControlPunctual, DuePongsPunctual, TimePunctual DEF Next
<1> QED BY <1>1, <1>2, <1>4

\* A visible page on a prompt link is never silent for as long as a tier costs,
\* whatever it does with its tab and whenever its timers fire in their second
\* (runtime.ts: the probe and report intervals; tier_machine.go: the silence).
THEOREM PromptPageAlwaysHeard == Spec => []PromptPageIsHeard
<1>1. PInv /\ MInv => PromptPageIsHeard
  <2> SUFFICES ASSUME PInv, MInv, prompt, page.live, ~server.hidden
               PROVE  now - server.heard < MissingStep
    BY DEF PromptPageIsHeard
  <2>1. now <= server.heard + 2 * ReportEvery
    BY DEF PInv, Punctual
  <2> QED BY <2>1, PageNumbers, Intervals
<1>2. PInv /\ MInv /\ [Next]_vars => PInv'
  BY PromptStep
<1> QED BY <1>1, <1>2, PromptInit, TelemetryInvariance, PTL DEF Spec

=============================================================================
