----------------------- MODULE CandleDeliveryProofs -------------------------
(***************************************************************************)
(* Theorems about CandleDelivery, for every set of intervals, delivery     *)
(* view, number of attempts and bound: CInv is inductive, and from it      *)
(* follow the properties.  Each action has its lemma.                      *)
(***************************************************************************)
EXTENDS CandleDelivery, FiniteSetTheorems, SequenceTheorems, TLAPS

-----------------------------------------------------------------------------
(* Sequences and batches. *)

LEMMA AppendFacts ==
    ASSUME NEW S, NEW q \in Seq(S), NEW e \in S
    PROVE  LET n == Append(q, e)
           IN  /\ n \in Seq(S) /\ Len(q) \in Nat
               /\ DOMAIN q = 1 .. Len(q) /\ DOMAIN n = 1 .. Len(q) + 1
               /\ \A i \in DOMAIN q : n[i] = q[i]
               /\ n[Len(q) + 1] = e
               /\ \A i \in DOMAIN n : (i = Len(q) + 1 /\ n[i] = e) \/ (i \in DOMAIN q /\ n[i] = q[i])
<1> DEFINE n == Append(q, e)
<1>1. /\ n \in Seq(S) /\ Len(q) \in Nat
      /\ DOMAIN q = 1 .. Len(q) /\ DOMAIN n = 1 .. Len(q) + 1
      /\ \A i \in DOMAIN q : n[i] = q[i]
      /\ n[Len(q) + 1] = e
  BY AppendProperties, LenProperties
<1> HIDE DEF n
<1>2. \A i \in DOMAIN n : (i = Len(q) + 1 /\ n[i] = e) \/ (i \in DOMAIN q /\ n[i] = q[i])
  BY <1>1
<1> QED BY <1>1, <1>2 DEF n

LEMMA TailFacts ==
    ASSUME NEW S, NEW q \in Seq(S), q # <<>>
    PROVE  LET n == Tail(q)
           IN  /\ n \in Seq(S) /\ Len(q) \in Nat /\ 1 \in DOMAIN q /\ Head(q) = q[1]
               /\ Head(q) \in S
               /\ DOMAIN q = 1 .. Len(q) /\ DOMAIN n = 1 .. Len(q) - 1
               /\ \A i \in DOMAIN n : i + 1 \in DOMAIN q /\ n[i] = q[i + 1]
               /\ \A i \in DOMAIN q : i # 1 => i - 1 \in DOMAIN n /\ n[i - 1] = q[i]
<1> DEFINE n == Tail(q)
<1>1. /\ n \in Seq(S) /\ Len(q) \in Nat /\ Len(q) # 0 /\ Len(n) = Len(q) - 1
      /\ DOMAIN q = 1 .. Len(q) /\ DOMAIN n = 1 .. Len(q) - 1
      /\ Head(q) = q[1] /\ Head(q) \in S
      /\ \A i \in 1 .. Len(n) : n[i] = q[i + 1]
  BY HeadTailProperties, EmptySeq, LenProperties
<1> HIDE DEF n
<1>2. 1 \in DOMAIN q /\ \A i \in DOMAIN n : i + 1 \in DOMAIN q /\ n[i] = q[i + 1]
  BY <1>1
<1>3. ASSUME NEW i \in DOMAIN q, i # 1 PROVE i - 1 \in DOMAIN n /\ n[i - 1] = q[i]
  <2>1. i - 1 \in DOMAIN n /\ (i - 1) + 1 = i
    BY <1>1, <1>3
  <2> QED BY <1>2, <2>1
<1> QED BY <1>1, <1>2, <1>3 DEF n

LEMMA BatchIs ==
    ASSUME NEW b \in Batch
    PROVE  DOMAIN b \subseteq Bucket /\ \A k \in DOMAIN b : b[k] \in 1 .. MaxRev
BY DEF Batch

LEMMA IsBatch ==
    ASSUME NEW S \in SUBSET Bucket, NEW b \in [S -> 1 .. MaxRev]
    PROVE  b \in Batch
BY DEF Batch

LEMMA NoCandlesIsBatch == NoCandles \in Batch /\ DOMAIN NoCandles = {}
<1>1. NoCandles \in [{} -> 1 .. MaxRev] /\ DOMAIN NoCandles = {}
  BY DEF NoCandles
<1> QED BY <1>1, IsBatch

\* A merge keeps every candle, takes every new one and invents none.
LEMMA MergeStep ==
    ASSUME NEW held \in Batch, NEW items, DOMAIN items \subseteq Bucket,
           \A k \in DOMAIN items : items[k] \in 1 .. MaxRev
    PROVE  LET n == MergeInto(held, items)
           IN  /\ n \in Batch
               /\ DOMAIN n = DOMAIN held \cup DOMAIN items
               /\ \A k \in DOMAIN held : n[k] >= held[k]
               /\ \A k \in DOMAIN items : n[k] >= items[k]
               /\ \A k \in DOMAIN n : \/ k \in DOMAIN held /\ n[k] = held[k]
                                      \/ k \in DOMAIN items /\ n[k] = items[k]
<1> DEFINE n == MergeInto(held, items)
           D == DOMAIN held \cup DOMAIN items
<1>1. DOMAIN held \subseteq Bucket /\ \A k \in DOMAIN held : held[k] \in 1 .. MaxRev
  BY BatchIs
<1>2. n = [k \in D |-> IF k \notin DOMAIN held \/ (k \in DOMAIN items /\ items[k] > held[k])
                       THEN items[k] ELSE held[k]]
  BY DEF MergeInto
<1> HIDE DEF n
<1>3. DOMAIN n = D
  BY <1>2
<1>4. ASSUME NEW k \in D
      PROVE  /\ n[k] \in 1 .. MaxRev
             /\ k \in DOMAIN held => n[k] >= held[k]
             /\ k \in DOMAIN items => n[k] >= items[k]
             /\ \/ k \in DOMAIN held /\ n[k] = held[k]
                \/ k \in DOMAIN items /\ n[k] = items[k]
  <2>1. n[k] = IF k \notin DOMAIN held \/ (k \in DOMAIN items /\ items[k] > held[k])
               THEN items[k] ELSE held[k]
    BY <1>2
  <2> QED BY <1>1, <2>1
<1>5. n \in [D -> 1 .. MaxRev]
  BY <1>2, <1>4
<1>6. D \in SUBSET Bucket
  BY <1>1
<1>7. n \in Batch
  BY <1>5, <1>6, IsBatch
<1> QED BY <1>3, <1>4, <1>7 DEF n

-----------------------------------------------------------------------------
(* The market. *)

\* An event leaves closed candles alone and only raises revisions.
LEMMA AggregatedStep ==
    ASSUME NEW r \in 1 .. MaxRev, NEW s \in Seq(1 .. MaxRev), Len(s) < r,
           \A k \in DOMAIN s : s[k] < r, NEW trade, NEW ended
    PROVE  LET n == Aggregated(s, r, trade, ended)
           IN  /\ n \in Seq(1 .. MaxRev) /\ Len(n) <= r /\ Len(s) <= Len(n)
               /\ DOMAIN s \subseteq DOMAIN n
               /\ \A k \in DOMAIN n : n[k] <= r
               /\ \A k \in DOMAIN s : s[k] <= n[k]
               /\ \A k \in 1 .. Len(s) - 1 : n[k] = s[k]
<1> DEFINE n == Aggregated(s, r, trade, ended)
           t == [s EXCEPT ![Len(s)] = r]
           L == Len(s)
           Good(x) == /\ x \in Seq(1 .. MaxRev) /\ Len(x) <= r /\ L <= Len(x)
                      /\ DOMAIN x = 1 .. Len(x)
                      /\ \A k \in 1 .. Len(x) : x[k] <= r
                      /\ \A k \in 1 .. L : s[k] <= x[k]
                      /\ \A k \in 1 .. L - 1 : x[k] = s[k]
<1>0. /\ MaxRev \in Nat /\ L \in Nat /\ DOMAIN s = 1 .. L /\ r \in Nat /\ r >= 1 /\ L < r
      /\ \A k \in 1 .. L : s[k] \in Nat /\ s[k] < r
  BY CandleAssumption, LenProperties, ElementOfSeq
<1>1. CASE s = <<>>
  <2>1. L = 0
    BY <1>1
  <2>2. n = <<>> \/ n = <<r>>
    BY <1>1 DEF Aggregated
  <2>3. ASSUME NEW x, x = <<>> PROVE x \in Seq(1 .. MaxRev) /\ Len(x) = 0 /\ DOMAIN x = 1 .. Len(x)
    <3>1. <<>> \in Seq(1 .. MaxRev) /\ Len(<<>>) = 0
      OBVIOUS
    <3> QED BY <2>3, <3>1, LenProperties
  <2>4. ASSUME NEW x, x = <<r>>
        PROVE x \in Seq(1 .. MaxRev) /\ Len(x) = 1 /\ DOMAIN x = 1 .. Len(x) /\ x[1] = r
    <3>1. <<r>> \in Seq(1 .. MaxRev) /\ Len(<<r>>) = 1 /\ <<r>>[1] = r
      OBVIOUS
    <3> QED BY <2>4, <3>1, LenProperties
  <2> HIDE DEF L
  <2>5. ASSUME NEW x, x = <<>> \/ x = <<r>> PROVE Good(x)
    <3>1. /\ x \in Seq(1 .. MaxRev) /\ DOMAIN x = 1 .. Len(x)
          /\ Len(x) = 0 \/ (Len(x) = 1 /\ x[1] = r)
      BY <2>3, <2>4, <2>5
    <3> QED BY <1>0, <2>1, <3>1
  <2> HIDE DEF n, Good
  <2>6. Good(n)
    BY <2>2, <2>5
  <2> QED BY <1>0, <2>6 DEF n, Good, L
<1>2. CASE s # <<>>
  <2>1. L \in 1 .. L
    BY <1>0, <1>2, EmptySeq
  <2>2. /\ t \in Seq(1 .. MaxRev) /\ Len(t) = L
        /\ t[L] = r /\ \A k \in 1 .. L : k # L => t[k] = s[k]
    BY <2>1, ExceptSeq
  <2>3. DOMAIN t = 1 .. L
    BY <2>2, LenProperties
  <2>4. n = s \/ n = t \/ n = Append(t, r)
    BY <1>2 DEF Aggregated
  <2>5. Len(s) = L
    OBVIOUS
  <2> HIDE DEF t, L
  <2>6. Good(s)
    BY <1>0, <2>5
  <2>7. Good(t)
    BY <1>0, <2>1, <2>2, <2>3
  <2>8. Good(Append(t, r))
    <3> DEFINE x == Append(t, r)
    <3>1. /\ x \in Seq(1 .. MaxRev) /\ Len(x) = L + 1 /\ DOMAIN x = 1 .. L + 1
          /\ \A k \in 1 .. L : x[k] = t[k]
          /\ x[L + 1] = r
      BY <2>2, <2>3, AppendProperties, LenProperties
    <3> HIDE DEF x
    <3>2. ASSUME NEW k \in 1 .. L PROVE x[k] <= r /\ s[k] <= x[k]
      <4>1. x[k] = r \/ x[k] = s[k]
        BY <2>2, <3>1
      <4> QED BY <1>0, <4>1
    <3>3. ASSUME NEW k \in 1 .. L - 1 PROVE x[k] = s[k]
      <4>1. k \in 1 .. L /\ k # L
        BY <1>0
      <4> QED BY <2>2, <3>1, <4>1
    <3>4. ASSUME NEW k \in 1 .. L + 1 PROVE x[k] <= r
      <4>1. k \in 1 .. L \/ k = L + 1
        BY <1>0
      <4> QED BY <1>0, <3>1, <3>2, <4>1
    <3>5. Good(x)
      <4>1. Len(x) <= r /\ L <= Len(x) /\ Len(x) = L + 1
        BY <1>0, <3>1
      <4> QED BY <3>1, <3>2, <3>3, <3>4, <4>1
    <3> QED BY <3>5 DEF x
  <2> HIDE DEF n, Good
  <2>9. Good(n)
    BY <2>4, <2>6, <2>7, <2>8
  <2> QED BY <1>0, <2>9 DEF n, Good, L
<1> QED BY <1>1, <1>2

LEMMA MarketGrows ==
    ASSUME TypeOK, MarketOK, NEW trade, NEW ended, MarketEvent(trade, ended)
    PROVE  /\ rev \in Nat /\ rev' = rev + 1 /\ rev' \in 0 .. MaxRev
           /\ revs' \in [Interval -> Seq(1 .. MaxRev)]
           /\ MarketOK'
           /\ \A i \in Interval :
                /\ DOMAIN revs[i] = 1 .. Len(revs[i]) /\ Len(revs[i]) \in Nat
                /\ DOMAIN revs[i] \subseteq DOMAIN revs'[i]
                /\ \A k \in DOMAIN revs[i] : /\ revs[i][k] \in Nat /\ revs'[i][k] \in Nat
                                             /\ revs[i][k] <= revs'[i][k]
                /\ \A k \in 1 .. Len(revs[i]) - 1 : revs'[i][k] = revs[i][k]
<1>0. rev \in Nat /\ rev' = rev + 1 /\ rev' \in 1 .. MaxRev /\ rev' \in 0 .. MaxRev
  BY CandleAssumption DEF TypeOK, MarketEvent
<1>1. revs' = [i \in Interval |-> Aggregated(revs[i], rev', trade, i \in ended)]
      /\ revs \in [Interval -> Seq(1 .. MaxRev)]
  BY DEF MarketEvent, TypeOK
<1>2. ASSUME NEW i \in Interval
      PROVE  /\ revs'[i] \in Seq(1 .. MaxRev) /\ Len(revs'[i]) <= rev'
             /\ \A k \in DOMAIN revs'[i] : revs'[i][k] <= rev'
             /\ DOMAIN revs[i] = 1 .. Len(revs[i]) /\ Len(revs[i]) \in Nat
             /\ DOMAIN revs[i] \subseteq DOMAIN revs'[i]
             /\ \A k \in DOMAIN revs[i] : revs[i][k] <= revs'[i][k] /\ revs[i][k] \in Nat
             /\ \A k \in 1 .. Len(revs[i]) - 1 : revs'[i][k] = revs[i][k]
  <2> DEFINE s == revs[i]
             r == rev'
             b == i \in ended
  <2>1. /\ s \in Seq(1 .. MaxRev) /\ Len(s) <= rev /\ Len(s) \in Nat /\ DOMAIN s = 1 .. Len(s)
        /\ \A k \in DOMAIN s : s[k] <= rev /\ s[k] \in 1 .. MaxRev
    BY <1>1, LenProperties, ElementOfSeq DEF MarketOK
  <2>2. r \in 1 .. MaxRev /\ Len(s) < r /\ \A k \in DOMAIN s : s[k] < r
    BY <1>0, <2>1
  <2>3. revs'[i] = Aggregated(s, r, trade, b)
    BY <1>1
  <2> HIDE DEF s, r, b
  <2>4. /\ revs'[i] \in Seq(1 .. MaxRev) /\ Len(revs'[i]) <= r
        /\ DOMAIN s \subseteq DOMAIN revs'[i]
        /\ \A k \in DOMAIN revs'[i] : revs'[i][k] <= r
        /\ \A k \in DOMAIN s : s[k] <= revs'[i][k]
        /\ \A k \in 1 .. Len(s) - 1 : revs'[i][k] = s[k]
    BY <2>1, <2>2, <2>3, AggregatedStep
  <2> QED BY <2>1, <2>4 DEF s, r
<1>3. revs' \in [Interval -> Seq(1 .. MaxRev)]
  <2>1. revs' = [i \in Interval |-> revs'[i]]
    BY <1>1
  <2> QED BY <1>2, <2>1
<1>4. MarketOK'
  BY <1>2 DEF MarketOK
<1>5. ASSUME NEW i \in Interval, NEW k \in DOMAIN revs[i] PROVE revs'[i][k] \in Nat
  <2>1. k \in DOMAIN revs'[i] /\ DOMAIN revs'[i] = 1 .. Len(revs'[i])
    BY <1>2, LenProperties
  <2>2. revs'[i][k] \in 1 .. MaxRev
    BY <1>2, <2>1, ElementOfSeq
  <2> QED BY <2>2
<1> QED BY <1>0, <1>2, <1>3, <1>4, <1>5

-----------------------------------------------------------------------------
(* What the invariant says of the state, spelled out for the provers. *)

LEMMA Numbers == {MaxAttempts, MaxRev, MaxWire} \subseteq Nat /\ DeliveryClosed \in Nat /\ MaxEnv \in Nat
                 /\ NewCursor.interval \in Interval
BY CandleAssumption DEF NewCursor

LEMMA FrameFacts ==
    ASSUME TypeOK, NEW i \in DOMAIN wire
    PROVE  /\ wire[i] \in WireFrame /\ wire[i].req \in Nat /\ wire[i].interval \in Interval
           /\ wire[i].kind \in {"update", "candles_reset"}
           /\ wire[i].items \in Batch
           /\ DOMAIN wire[i].items \subseteq Bucket
           /\ \A k \in DOMAIN wire[i].items : wire[i].items[k] \in 1 .. MaxRev
           /\ wire[i].req <= cursor.req
<1>1. wire[i] \in WireFrame /\ wire[i].req <= cursor.req
  BY ElementOfSeq DEF TypeOK
<1> QED BY <1>1, BatchIs DEF WireFrame

LEMMA ControlFacts ==
    ASSUME TypeOK, NEW i \in DOMAIN controls
    PROVE  /\ controls[i] \in Control /\ controls[i].req \in Nat /\ controls[i].interval \in Interval
           /\ cursor.req < controls[i].req /\ controls[i].req <= feed.req
<1>1. controls[i] \in Control /\ cursor.req < controls[i].req /\ controls[i].req <= feed.req
  BY ElementOfSeq DEF TypeOK
<1> QED BY <1>1 DEF Control

LEMMA StateFacts ==
    ASSUME TypeOK, MarketOK
    PROVE  /\ rev \in Nat /\ rev <= MaxRev
           /\ cursor.req \in Nat /\ cursor.interval \in Interval /\ cursor.start \in Nat /\ cursor.rev \in Nat
           /\ feed.req \in Nat /\ feed.interval \in Interval /\ feed.candles \in Batch
           /\ DOMAIN feed.candles \subseteq Bucket
           /\ \A k \in DOMAIN feed.candles : feed.candles[k] \in 1 .. MaxRev
           /\ hist.snap \in Seq(1 .. MaxRev)
           /\ \A k \in DOMAIN hist.snap : hist.snap[k] \in 1 .. MaxRev
           /\ \A i \in Interval :
                /\ revs[i] \in Seq(1 .. MaxRev) /\ Len(revs[i]) \in Nat
                /\ DOMAIN revs[i] = 1 .. Len(revs[i]) /\ DOMAIN revs[i] \subseteq Bucket
                /\ \A k \in DOMAIN revs[i] : revs[i][k] \in 1 .. rev /\ revs[i][k] \in 1 .. MaxRev
<1>1. rev \in Nat /\ rev <= MaxRev /\ MaxRev \in Nat
  BY Numbers DEF TypeOK
<1>2. /\ cursor.req \in Nat /\ cursor.interval \in Interval /\ cursor.start \in Nat /\ cursor.rev \in Nat
      /\ feed.req \in Nat /\ feed.interval \in Interval /\ feed.candles \in Batch
      /\ hist.snap \in Seq(1 .. MaxRev)
  BY Numbers DEF TypeOK, HistoryRequest
<1>3. /\ DOMAIN feed.candles \subseteq Bucket
      /\ \A k \in DOMAIN feed.candles : feed.candles[k] \in 1 .. MaxRev
  BY <1>2, BatchIs
<1>4. \A k \in DOMAIN hist.snap : hist.snap[k] \in 1 .. MaxRev
  BY <1>2, ElementOfSeq, LenProperties
<1>5. ASSUME NEW i \in Interval
      PROVE  /\ revs[i] \in Seq(1 .. MaxRev) /\ Len(revs[i]) \in Nat
             /\ DOMAIN revs[i] = 1 .. Len(revs[i]) /\ DOMAIN revs[i] \subseteq Bucket
             /\ \A k \in DOMAIN revs[i] : revs[i][k] \in 1 .. rev /\ revs[i][k] \in 1 .. MaxRev
  <2>1. revs[i] \in Seq(1 .. MaxRev)
    BY DEF TypeOK
  <2>2. Len(revs[i]) \in Nat /\ DOMAIN revs[i] = 1 .. Len(revs[i])
    BY <2>1, LenProperties
  <2>3. Len(revs[i]) <= rev /\ \A k \in DOMAIN revs[i] : revs[i][k] <= rev
    BY DEF MarketOK
  <2>4. \A k \in DOMAIN revs[i] : revs[i][k] \in 1 .. MaxRev
    BY <2>1, <2>2, ElementOfSeq
  <2>5. DOMAIN revs[i] \subseteq Bucket
    BY <1>1, <2>2, <2>3 DEF Bucket
  <2>6. \A k \in DOMAIN revs[i] : revs[i][k] \in 1 .. rev
    BY <1>1, <2>3, <2>4
  <2> QED BY <2>1, <2>2, <2>4, <2>5, <2>6
<1> QED BY <1>1, <1>2, <1>3, <1>4, <1>5

-----------------------------------------------------------------------------
(* One lemma for each action. *)

LEMMA MarketEventKeeps ==
    ASSUME CInv, NEW trade, NEW ended, MarketEvent(trade, ended) PROVE CInv'
<1>0. TypeOK /\ MarketOK /\ InFlightOK /\ SelectionsOK /\ NothingLost
  BY DEF CInv
<1>1. UNCHANGED <<cursor, controls, wire, feed, hist, attempts, env>>
  BY DEF MarketEvent
<1>2. /\ rev \in Nat /\ rev' = rev + 1 /\ rev' \in 0 .. MaxRev
      /\ revs' \in [Interval -> Seq(1 .. MaxRev)]
      /\ MarketOK'
      /\ \A i \in Interval :
           /\ DOMAIN revs[i] = 1 .. Len(revs[i]) /\ Len(revs[i]) \in Nat
           /\ DOMAIN revs[i] \subseteq DOMAIN revs'[i]
           /\ \A k \in DOMAIN revs[i] : /\ revs[i][k] \in Nat /\ revs'[i][k] \in Nat
                                        /\ revs[i][k] <= revs'[i][k]
           /\ \A k \in 1 .. Len(revs[i]) - 1 : revs'[i][k] = revs[i][k]
  BY <1>0, MarketGrows
<1>3. /\ cursor.interval \in Interval /\ cursor.start \in Nat /\ cursor.rev \in Nat
      /\ feed.interval \in Interval
  BY <1>0, StateFacts
<1>4. TypeOK'
  <2>1. cursor.rev # 0 => cursor.start \in DOMAIN View' /\ cursor.rev <= View'[cursor.start]
    <3> SUFFICES ASSUME cursor.rev # 0
                 PROVE  cursor.start \in DOMAIN View' /\ cursor.rev <= View'[cursor.start]
      OBVIOUS
    <3>1. cursor.start \in DOMAIN View /\ cursor.rev <= View[cursor.start]
      BY <1>0 DEF TypeOK
    <3> QED BY <1>1, <1>2, <1>3, <3>1 DEF View
  <2> QED BY <1>0, <1>1, <1>2, <2>1 DEF TypeOK
<1>5. ASSUME NEW c, NEW i \in Interval, \A k \in DOMAIN c : c[k] \in 1 .. MaxRev,
             TrueCandles(c, revs[i])
      PROVE  TrueCandles(c, revs'[i])
  <2> SUFFICES ASSUME NEW k \in DOMAIN c PROVE k \in DOMAIN revs'[i] /\ c[k] <= revs'[i][k]
    BY DEF TrueCandles
  <2>1. k \in DOMAIN revs[i] /\ c[k] <= revs[i][k] /\ c[k] \in Nat
    BY <1>5, Numbers DEF TrueCandles
  <2> QED BY <1>2, <2>1
<1>6. InFlightOK'
  <2>1. ASSUME NEW i \in DOMAIN wire, wire[i].kind = "update"
        PROVE  ValidBatch(wire[i].items)' /\ TrueCandles(wire[i].items, revs[wire[i].interval])'
    <3>1. ValidBatch(wire[i].items) /\ TrueCandles(wire[i].items, revs[wire[i].interval])
      BY <1>0, <2>1 DEF InFlightOK
    <3>2. wire[i].interval \in Interval /\ \A k \in DOMAIN wire[i].items : wire[i].items[k] \in 1 .. MaxRev
      BY <1>0, FrameFacts
    <3>3. ValidBatch(wire[i].items)'
      BY <1>1, <1>2, <3>1 DEF ValidBatch
    <3>4. TrueCandles(wire[i].items, revs'[wire[i].interval])
      BY <1>5, <3>1, <3>2
    <3> QED BY <1>1, <3>3, <3>4 DEF TrueCandles
  <2>2. hist.st = "answered" => TrueCandles(hist.snap, Selected')
    <3>1. \A k \in DOMAIN hist.snap : hist.snap[k] \in 1 .. MaxRev
      BY <1>0, StateFacts
    <3> QED BY <1>0, <1>1, <1>3, <1>5, <3>1 DEF InFlightOK, Selected
  <2>3. TrueCandles(feed.candles, Selected')
    <3>1. \A k \in DOMAIN feed.candles : feed.candles[k] \in 1 .. MaxRev
      BY <1>0, StateFacts
    <3> QED BY <1>0, <1>1, <1>3, <1>5, <3>1 DEF InFlightOK, Selected
  <2> QED BY <1>1, <2>1, <2>2, <2>3 DEF InFlightOK, TrueCandles, Selected
<1>7. SelectionsOK'
  BY <1>0, <1>1 DEF SelectionsOK
<1>8. NothingLost'
  <2> SUFFICES ASSUME Followed(feed, hist), ~ResetIn(feed, wire)
               PROVE  /\ cursor.req = feed.req /\ cursor.rev # 0
                      /\ \A k \in 1 .. cursor.start - 1 : HeldIn(feed, hist, wire, k, View'[k])
                      /\ HeldIn(feed, hist, wire, cursor.start, cursor.rev)
    <3>1. Followed(feed, hist) => cursor.req = feed.req /\ cursor.rev # 0
      BY <1>0 DEF NothingLost
    <3> QED BY <1>1, <3>1 DEF NothingLost
  <2>1. /\ cursor.req = feed.req /\ cursor.rev # 0
        /\ \A k \in 1 .. cursor.start - 1 : HeldIn(feed, hist, wire, k, View[k])
        /\ HeldIn(feed, hist, wire, cursor.start, cursor.rev)
    BY <1>0 DEF NothingLost
  <2>2. cursor.start \in DOMAIN View
    BY <1>0, <2>1 DEF TypeOK
  <2>3. ASSUME NEW k \in 1 .. cursor.start - 1 PROVE View'[k] = View[k]
    <3> DEFINE i == cursor.interval
    <3>1. i \in Interval /\ cursor.start \in 1 .. Len(revs[i])
      BY <1>2, <1>3, <2>2 DEF View
    <3>2. View = revs[i] /\ View' = revs'[i]
      BY <1>1 DEF View
    <3> HIDE DEF i
    <3>3. Len(revs[i]) \in Nat /\ \A m \in 1 .. Len(revs[i]) - 1 : revs'[i][m] = revs[i][m]
      BY <1>2, <3>1
    <3>4. k \in 1 .. Len(revs[i]) - 1
      BY <1>3, <3>1, <3>3
    <3> QED BY <3>2, <3>3, <3>4
  <2> QED BY <2>1, <2>3
<1> QED BY <1>2, <1>4, <1>6, <1>7, <1>8 DEF CInv

\* A batch or a reset goes out on the wire behind what is there.
LEMMA SendKeeps ==
    ASSUME TypeOK, NEW f \in WireFrame, NEW q \in Nat, cursor.req <= q, f.req <= q
    PROVE  LET w == Append(wire, f)
           IN  /\ w \in Seq(WireFrame)
               /\ \A i \in DOMAIN w : w[i].req <= q
               /\ \A i \in DOMAIN w : (i = Len(wire) + 1 /\ w[i] = f) \/ (i \in DOMAIN wire /\ w[i] = wire[i])
               /\ \A i \in DOMAIN wire : i \in DOMAIN w /\ w[i] = wire[i]
               /\ Len(wire) + 1 \in DOMAIN w /\ w[Len(wire) + 1] = f
<1> DEFINE w == Append(wire, f)
<1>1. /\ w \in Seq(WireFrame) /\ Len(wire) \in Nat
      /\ DOMAIN wire = 1 .. Len(wire) /\ DOMAIN w = 1 .. Len(wire) + 1
      /\ \A i \in DOMAIN wire : w[i] = wire[i]
      /\ w[Len(wire) + 1] = f
      /\ \A i \in DOMAIN w : (i = Len(wire) + 1 /\ w[i] = f) \/ (i \in DOMAIN wire /\ w[i] = wire[i])
  BY AppendFacts DEF TypeOK
<1> HIDE DEF w
<1>2. \A i \in DOMAIN wire : wire[i].req \in Nat /\ wire[i].req <= cursor.req
  BY FrameFacts
<1>3. cursor.req \in Nat
  BY DEF TypeOK
<1>4. ASSUME NEW i \in DOMAIN w PROVE w[i].req <= q
  BY <1>1, <1>2, <1>3
<1>5. \A i \in DOMAIN wire : i \in DOMAIN w /\ w[i] = wire[i]
  BY <1>1
<1>6. Len(wire) + 1 \in DOMAIN w
  BY <1>1
<1> QED BY <1>1, <1>4, <1>5, <1>6 DEF w

\* What is held stays held when a frame is added, and a reset stays one.
LEMMA SendHolds ==
    ASSUME TypeOK, NEW w, \A i \in DOMAIN wire : i \in DOMAIN w /\ w[i] = wire[i], NEW f, NEW h
    PROVE  /\ \A k, r : HeldIn(f, h, wire, k, r) => HeldIn(f, h, w, k, r)
           /\ ResetIn(f, wire) => ResetIn(f, w)
BY Zenon DEF HeldIn, ResetIn

LEMMA ProcessSubscribeKeeps ==
    ASSUME CInv, ProcessSubscribe PROVE CInv'
<1>0. TypeOK /\ MarketOK /\ InFlightOK /\ SelectionsOK /\ NothingLost
  BY DEF CInv
<1> DEFINE c == Head(controls)
           s == revs[c.interval]
           n == Len(s)
           f == [kind |-> "update", interval |-> c.interval, req |-> c.req,
                 items |-> [k \in {n} |-> s[n]]]
<1>1. UNCHANGED <<rev, revs, feed, hist, attempts, env>> /\ controls # <<>> /\ controls' = Tail(controls)
  BY DEF ProcessSubscribe
<1>2. /\ 1 \in DOMAIN controls /\ c = controls[1]
      /\ controls' \in Seq(Control)
      /\ Len(controls) \in Nat /\ DOMAIN controls = 1 .. Len(controls)
      /\ DOMAIN controls' = 1 .. Len(controls) - 1
      /\ \A i \in DOMAIN controls' : i + 1 \in DOMAIN controls /\ controls'[i] = controls[i + 1]
  BY <1>0, <1>1, TailFacts DEF TypeOK
<1>3. /\ c.req \in Nat /\ c.interval \in Interval /\ cursor.req < c.req /\ c.req <= feed.req
      /\ cursor.req \in Nat /\ feed.req \in Nat
      /\ c.req = feed.req => c.interval = feed.interval
  BY <1>0, <1>2, ControlFacts, StateFacts DEF SelectionsOK
<1>4. /\ cursor' = Seeded(c.interval, c.req)
      /\ wire' = IF n = 0 THEN wire ELSE Append(wire, Frame("update", [k \in {n} |-> s[n]]))
  BY <1>3 DEF ProcessSubscribe
<1>5. /\ s \in Seq(1 .. MaxRev) /\ n \in Nat /\ DOMAIN s = 1 .. n /\ DOMAIN s \subseteq Bucket
      /\ \A k \in DOMAIN s : s[k] \in 1 .. rev /\ s[k] \in 1 .. MaxRev
      /\ MaxRev \in Nat /\ rev \in Nat
  BY <1>0, <1>3, StateFacts, Numbers
<1>6. /\ cursor' \in [interval : Interval, req : Nat, start : Nat, rev : 0 .. MaxRev]
      /\ cursor'.interval = c.interval /\ cursor'.req = c.req
      /\ cursor'.rev = 0 => cursor'.start = 0
      /\ cursor'.rev # 0 => cursor'.start \in DOMAIN s /\ cursor'.rev <= s[cursor'.start]
  <2>1. cursor' = [interval |-> c.interval, req |-> c.req, start |-> n, rev |-> IF n = 0 THEN 0 ELSE s[n]]
    BY <1>4 DEF Seeded
  <2>2. n # 0 => n \in DOMAIN s /\ s[n] \in 1 .. MaxRev
    BY <1>5
  <2> HIDE DEF n, s, c
  <2> QED BY <1>3, <1>5, <2>1, <2>2
<1>7. wire' = wire \/ (n # 0 /\ wire' = Append(wire, f))
  BY <1>4, <1>6 DEF Frame
<1>8. ASSUME n # 0
      PROVE f \in WireFrame /\ ValidBatch(f.items) /\ TrueCandles(f.items, revs[f.interval])
  <2>1. n \in DOMAIN s /\ s[n] \in 1 .. rev /\ s[n] \in 1 .. MaxRev /\ n \in Bucket
    BY <1>5, <1>8
  <2> DEFINE b == [k \in {n} |-> s[n]]
  <2>2. b \in Batch /\ DOMAIN b = {n} /\ b[n] = s[n]
    BY <2>1, IsBatch, {n} \in SUBSET Bucket
  <2>3. Cardinality({n}) = 1
    BY FS_Singleton
  <2>4. f = [kind |-> "update", interval |-> c.interval, req |-> c.req, items |-> b]
    OBVIOUS
  <2> HIDE DEF b, f, n, c
  <2>5. f \in WireFrame /\ f.items = b /\ f.interval = c.interval
    BY <1>3, <2>2, <2>4 DEF WireFrame
  <2>6. ValidBatch(b)
    BY <2>1, <2>2, <2>3, Numbers DEF ValidBatch
  <2>7. TrueCandles(b, s)
    BY <1>5, <2>1, <2>2 DEF TrueCandles
  <2> QED BY <2>5, <2>6, <2>7
<1> HIDE DEF n, f
<1>9. /\ wire' \in Seq(WireFrame)
      /\ \A i \in DOMAIN wire' : wire'[i].req <= c.req
      /\ \A i \in DOMAIN wire' : (i \in DOMAIN wire /\ wire'[i] = wire[i]) \/ (n # 0 /\ wire'[i] = f)
  <2>1. CASE wire' = wire
    <3>1. \A i \in DOMAIN wire : wire[i].req <= c.req
      BY <1>0, <1>3, FrameFacts
    <3> QED BY <1>0, <2>1, <3>1 DEF TypeOK
  <2>2. CASE n # 0 /\ wire' = Append(wire, f)
    <3>1. f \in WireFrame /\ f.req <= c.req /\ cursor.req <= c.req
      BY <1>3, <1>8, <2>2 DEF f
    <3> HIDE DEF c
    <3> QED BY <1>0, <1>3, <2>2, <3>1, SendKeeps
  <2> QED BY <1>7, <2>1, <2>2
<1>10. TypeOK'
  <2>1. \A i \in DOMAIN controls' : c.req < controls'[i].req /\ controls'[i].req <= feed.req
    <3> SUFFICES ASSUME NEW i \in DOMAIN controls'
                 PROVE  c.req < controls'[i].req /\ controls'[i].req <= feed.req
      OBVIOUS
    <3>1. i + 1 \in DOMAIN controls /\ controls'[i] = controls[i + 1] /\ 1 < i + 1
      BY <1>2
    <3>2. controls[1].req < controls[i + 1].req
      BY <1>0, <1>2, <3>1 DEF SelectionsOK
    <3> QED BY <1>0, <1>2, <3>1, <3>2, ControlFacts
  <2>2. cursor'.rev # 0 => cursor'.start \in DOMAIN View' /\ cursor'.rev <= View'[cursor'.start]
    BY <1>1, <1>6 DEF View
  <2> HIDE DEF c, s
  <2> QED BY <1>0, <1>1, <1>2, <1>3, <1>6, <1>9, <2>1, <2>2 DEF TypeOK
<1>11. MarketOK'
  BY <1>0, <1>1 DEF MarketOK
<1>12. InFlightOK'
  <2>1. ASSUME NEW i \in DOMAIN wire', wire'[i].kind = "update"
        PROVE  ValidBatch(wire'[i].items) /\ TrueCandles(wire'[i].items, revs[wire'[i].interval])
    BY <1>0, <1>8, <1>9, <2>1 DEF InFlightOK
  <2>2. /\ hist.st = "answered" => TrueCandles(hist.snap, Selected)
        /\ TrueCandles(feed.candles, Selected)
    BY <1>0 DEF InFlightOK
  <2> QED BY <1>1, <2>1, <2>2 DEF InFlightOK, ValidBatch, TrueCandles, Selected
<1>13. SelectionsOK'
  <2>1. ASSUME NEW i \in DOMAIN controls', NEW j \in DOMAIN controls', i < j
        PROVE  controls'[i].req < controls'[j].req
    <3>1. /\ i + 1 \in DOMAIN controls /\ controls'[i] = controls[i + 1]
          /\ j + 1 \in DOMAIN controls /\ controls'[j] = controls[j + 1]
          /\ i + 1 < j + 1
      BY <1>2, <2>1
    <3> QED BY <1>0, <3>1 DEF SelectionsOK
  <2>2. ASSUME NEW i \in DOMAIN controls', controls'[i].req = feed.req
        PROVE  controls'[i].interval = feed.interval
    BY <1>0, <1>2, <2>2 DEF SelectionsOK
  <2>3. cursor'.req = feed.req => cursor'.interval = feed.interval
    BY <1>3, <1>6
  <2>4. ASSUME NEW i \in DOMAIN wire', wire'[i].req = feed.req
        PROVE  wire'[i].interval = feed.interval
    <3>1. CASE i \in DOMAIN wire /\ wire'[i] = wire[i]
      BY <1>0, <2>4, <3>1 DEF SelectionsOK
    <3>2. CASE wire'[i] = f
      BY <1>3, <2>4, <3>2 DEF f
    <3> QED BY <1>9, <3>1, <3>2
  <2> QED BY <1>1, <2>1, <2>2, <2>3, <2>4 DEF SelectionsOK
<1>14. NothingLost'
  <2>1. ~Followed(feed, hist)
    BY <1>0, <1>3 DEF NothingLost
  <2> QED BY <1>1, <2>1 DEF NothingLost, Followed
<1> QED BY <1>10, <1>11, <1>12, <1>13, <1>14 DEF CInv

\* The delivery view: the active candle and DeliveryClosed closed ones at most.
LEMMA ViewBounds ==
    ASSUME TypeOK, MarketOK, View # <<>>
    PROVE  /\ FirstInView \in 1 .. Len(View)
           /\ Len(View) \in DOMAIN View /\ DOMAIN View = 1 .. Len(View) /\ Len(View) \in Nat
           /\ \A S \in SUBSET (FirstInView .. Len(View)) :
                S # {} => Cardinality(S) \in 1 .. DeliveryClosed + 1
<1>1. /\ View \in Seq(1 .. MaxRev) /\ Len(View) \in Nat /\ DOMAIN View = 1 .. Len(View)
  BY StateFacts DEF View
<1>2. Len(View) # 0
  BY <1>1, EmptySeq
<1>3. FirstInView \in 1 .. Len(View) /\ Len(View) - FirstInView <= DeliveryClosed
  BY <1>1, <1>2, Numbers DEF FirstInView
<1>4. ASSUME NEW S \in SUBSET (FirstInView .. Len(View)), S # {}
      PROVE  Cardinality(S) \in 1 .. DeliveryClosed + 1
  <2> DEFINE T == FirstInView .. Len(View)
  <2>1. IsFiniteSet(T) /\ Cardinality(T) = Len(View) - FirstInView + 1
    BY <1>1, <1>3, FS_Interval
  <2>2. IsFiniteSet(S) /\ Cardinality(S) <= Cardinality(T)
    BY <2>1, FS_Subset
  <2>3. Cardinality(S) \in Nat /\ Cardinality(S) # 0
    BY <1>4, <2>2, FS_CardinalityType, FS_EmptySet
  <2> HIDE DEF T
  <2> QED BY <1>1, <1>3, <2>1, <2>2, <2>3, Numbers
<1> QED BY <1>1, <1>2, <1>3, <1>4

LEMMA FlushKeeps ==
    ASSUME CInv, Flush PROVE CInv'
<1>0. TypeOK /\ MarketOK /\ InFlightOK /\ SelectionsOK /\ NothingLost
  BY DEF CInv
<1> DEFINE n == Len(View)
           expired == cursor.rev # 0 /\ cursor.start < FirstInView
           C == ChangedCandles
           b == [k \in C |-> View[k]]
           f == [kind |-> IF expired THEN "candles_reset" ELSE "update",
                 interval |-> cursor.interval, req |-> cursor.req,
                 items |-> IF expired THEN NoCandles ELSE b]
<1>1. /\ UNCHANGED <<rev, revs, controls, feed, hist, attempts, env>>
      /\ cursor.req # 0 /\ View # <<>> /\ (expired \/ C # {})
      /\ cursor' = [cursor EXCEPT !.start = n, !.rev = View[n]]
  BY DEF Flush
<1>2. /\ cursor.req \in Nat /\ cursor.interval \in Interval /\ cursor.start \in Nat /\ cursor.rev \in Nat
      /\ feed.req \in Nat
      /\ View \in Seq(1 .. MaxRev) /\ DOMAIN View \subseteq Bucket
      /\ \A k \in DOMAIN View : View[k] \in 1 .. rev /\ View[k] \in 1 .. MaxRev
      /\ MaxRev \in Nat /\ rev \in Nat
  BY <1>0, StateFacts, Numbers DEF View
<1>3. /\ FirstInView \in 1 .. n /\ n \in DOMAIN View /\ DOMAIN View = 1 .. n /\ n \in Nat
      /\ \A S \in SUBSET (FirstInView .. n) : S # {} => Cardinality(S) \in 1 .. DeliveryClosed + 1
  BY <1>0, <1>1, ViewBounds
<1>4. /\ cursor' \in [interval : Interval, req : Nat, start : Nat, rev : 0 .. MaxRev]
      /\ cursor'.interval = cursor.interval /\ cursor'.req = cursor.req
      /\ cursor'.start = n /\ cursor'.rev = View[n] /\ View[n] \in 1 .. MaxRev
  <2>1. cursor \in [interval : Interval, req : Nat, start : Nat, rev : 0 .. MaxRev]
    BY <1>0 DEF TypeOK
  <2>2. View[n] \in 1 .. MaxRev
    BY <1>2, <1>3
  <2> DEFINE v == View[n]
  <2>3. n \in Nat /\ v \in 0 .. MaxRev /\ v \in 1 .. MaxRev
    BY <1>2, <1>3, <2>2
  <2>4. cursor' = [cursor EXCEPT !.start = n, !.rev = v]
    BY <1>1
  <2> HIDE DEF n, v
  <2>5. /\ cursor' \in [interval : Interval, req : Nat, start : Nat, rev : 0 .. MaxRev]
        /\ cursor'.interval = cursor.interval /\ cursor'.req = cursor.req
        /\ cursor'.start = n /\ cursor'.rev = v
    BY <2>1, <2>3, <2>4
  <2> QED BY <2>3, <2>5 DEF v
<1>5. wire' = Append(wire, f)
  BY <1>4 DEF Flush, Frame
<1>6. C \subseteq FirstInView .. n /\ C \subseteq DOMAIN View
  BY <1>2, <1>3 DEF ChangedCandles
<1>7. C \in SUBSET Bucket /\ b \in Batch /\ DOMAIN b = C /\ \A k \in C : b[k] = View[k]
  <2>1. C \in SUBSET Bucket /\ b \in [C -> 1 .. MaxRev] /\ DOMAIN b = C /\ \A k \in C : b[k] = View[k]
    BY <1>2, <1>6
  <2> QED BY <2>1, IsBatch
<1> HIDE DEF b
<1>8. f \in WireFrame
  <2>1. (IF expired THEN NoCandles ELSE b) \in Batch
    BY <1>7, NoCandlesIsBatch
  <2> HIDE DEF expired
  <2> QED BY <1>2, <2>1 DEF WireFrame
<1>9. /\ f.req = cursor.req /\ f.interval = cursor.interval
      /\ f.kind = "update" => ~expired /\ f.items = b
      /\ f.kind = "candles_reset" => expired
      /\ ~expired => f.kind = "update"
  OBVIOUS
<1> HIDE DEF f
<1>10. /\ wire' \in Seq(WireFrame)
       /\ \A i \in DOMAIN wire' : wire'[i].req <= cursor.req
       /\ \A i \in DOMAIN wire' : wire'[i] = f \/ (i \in DOMAIN wire /\ wire'[i] = wire[i])
       /\ \A i \in DOMAIN wire : i \in DOMAIN wire' /\ wire'[i] = wire[i]
       /\ Len(wire) + 1 \in DOMAIN wire' /\ wire'[Len(wire) + 1] = f
  <2>1. f.req <= cursor.req /\ cursor.req <= cursor.req
    BY <1>2, <1>9
  <2> QED BY <1>0, <1>2, <1>5, <1>8, <2>1, SendKeeps
<1>11. TypeOK'
  <2>1. cursor'.rev # 0 => cursor'.start \in DOMAIN View' /\ cursor'.rev <= View'[cursor'.start]
    <3> HIDE DEF n
    <3>1. View' = View
      BY <1>1, <1>4 DEF View
    <3> QED BY <1>2, <1>3, <1>4, <3>1
  <2>2. cursor'.rev # 0
    BY <1>4
  <2> HIDE DEF n
  <2> QED BY <1>0, <1>1, <1>4, <1>10, <2>1, <2>2 DEF TypeOK
<1>12. MarketOK'
  BY <1>0, <1>1 DEF MarketOK
<1>13. InFlightOK'
  <2>1. ASSUME NEW i \in DOMAIN wire', wire'[i].kind = "update"
        PROVE  ValidBatch(wire'[i].items) /\ TrueCandles(wire'[i].items, revs[wire'[i].interval])
    <3>1. CASE i \in DOMAIN wire /\ wire'[i] = wire[i]
      BY <1>0, <2>1, <3>1 DEF InFlightOK
    <3>2. CASE wire'[i] = f
      <4>1. f.items = b /\ f.interval = cursor.interval /\ ~expired
        BY <1>9, <2>1, <3>2
      <4>2. Cardinality(DOMAIN b) \in 1 .. DeliveryClosed + 1
        BY <1>1, <1>3, <1>6, <1>7, <4>1
      <4>3. ValidBatch(b)
        BY <1>2, <1>6, <1>7, <4>2 DEF ValidBatch
      <4>4. TrueCandles(b, View)
        BY <1>2, <1>6, <1>7 DEF TrueCandles
      <4> QED BY <3>2, <4>1, <4>3, <4>4 DEF View
    <3> QED BY <1>10, <3>1, <3>2
  <2>2. /\ hist.st = "answered" => TrueCandles(hist.snap, Selected)
        /\ TrueCandles(feed.candles, Selected)
    BY <1>0 DEF InFlightOK
  <2> QED BY <1>1, <2>1, <2>2 DEF InFlightOK, ValidBatch, TrueCandles, Selected
<1>14. SelectionsOK'
  <2>1. ASSUME NEW i \in DOMAIN wire', wire'[i].req = feed.req
        PROVE  wire'[i].interval = feed.interval
    BY <1>0, <1>9, <1>10, <2>1 DEF SelectionsOK
  <2>2. cursor'.req = feed.req => cursor'.interval = feed.interval
    BY <1>0, <1>4 DEF SelectionsOK
  <2> QED BY <1>0, <1>1, <2>1, <2>2 DEF SelectionsOK
<1>15. NothingLost'
  <2> SUFFICES ASSUME Followed(feed, hist), ~ResetIn(feed, wire')
               PROVE  /\ cursor.req = feed.req
                      /\ \A k \in 1 .. n : HeldIn(feed, hist, wire', k, View[k])
    <3>1. Followed(feed, hist) => cursor.req = feed.req
      BY <1>0 DEF NothingLost
    <3>2. View' = View /\ feed' = feed /\ hist' = hist
      BY <1>1, <1>4 DEF View
    <3>3. n \in 1 .. n /\ 1 .. n - 1 \subseteq 1 .. n
      BY <1>3
    <3>4. cursor'.req = cursor.req /\ cursor'.rev # 0 /\ cursor'.start = n /\ cursor'.rev = View[n]
      BY <1>4
    <3> HIDE DEF n
    <3> QED BY <3>1, <3>2, <3>3, <3>4, Zenon DEF NothingLost
  <2>1. \A k, r : HeldIn(feed, hist, wire, k, r) => HeldIn(feed, hist, wire', k, r)
    BY <1>0, <1>10, SendHolds
  <2>2. ~ResetIn(feed, wire)
    BY <1>0, <1>10, SendHolds
  <2>3. /\ cursor.req = feed.req /\ cursor.rev # 0
        /\ \A k \in 1 .. cursor.start - 1 : HeldIn(feed, hist, wire, k, View[k])
        /\ HeldIn(feed, hist, wire, cursor.start, cursor.rev)
    BY <1>0, <2>2 DEF NothingLost
  <2>4. f.kind = "update" /\ ~expired
    <3>1. f.kind \in {"update", "candles_reset"}
      BY <1>8 DEF WireFrame
    <3>2. f.kind # "candles_reset"
      BY <1>9, <1>10, <2>3 DEF ResetIn
    <3> QED BY <1>9, <3>1, <3>2
  <2>5. cursor.start >= FirstInView /\ cursor.start \in DOMAIN View
    BY <1>0, <1>2, <1>3, <2>3, <2>4 DEF TypeOK
  <2>6. ASSUME NEW k \in C PROVE HeldIn(feed, hist, wire', k, View[k])
    <3> DEFINE i == Len(wire) + 1
    <3>1. /\ i \in DOMAIN wire' /\ wire'[i] = f /\ f.kind = "update" /\ f.req = feed.req
          /\ f.items = b /\ k \in DOMAIN b /\ b[k] = View[k] /\ View[k] \in Nat
      BY <1>2, <1>6, <1>7, <1>9, <1>10, <2>3, <2>4, <2>6
    <3>2. f.items[k] >= View[k]
      BY <3>1
    <3> HIDE DEF i
    <3> QED BY <3>1, <3>2 DEF HeldIn
  <2>7. HeldIn(feed, hist, wire', cursor.start, View[cursor.start])
    <3>1. CASE View[cursor.start] > cursor.rev
      <4>1. cursor.start \in C
        BY <1>2, <1>3, <2>3, <2>5, <3>1 DEF ChangedCandles
      <4> QED BY <2>6, <4>1
    <3>2. CASE View[cursor.start] <= cursor.rev
      <4>1. cursor.rev <= View[cursor.start] /\ View[cursor.start] \in Nat
        BY <1>0, <1>2, <2>3, <2>5 DEF TypeOK
      <4>2. View[cursor.start] = cursor.rev
        BY <1>2, <3>2, <4>1
      <4> QED BY <2>1, <2>3, <4>2
    <3> QED BY <1>2, <2>5, <3>1, <3>2
  <2>8. ASSUME NEW k \in 1 .. n PROVE HeldIn(feed, hist, wire', k, View[k])
    <3>1. CASE k < cursor.start
      <4>1. k \in 1 .. cursor.start - 1
        BY <1>2, <3>1
      <4> QED BY <2>1, <2>3, <4>1
    <3>2. CASE k = cursor.start
      BY <2>7, <3>2
    <3>3. CASE k > cursor.start
      <4>1. k \in C
        BY <1>2, <1>3, <2>3, <2>5, <3>3 DEF ChangedCandles
      <4> QED BY <2>6, <4>1
    <3> QED BY <1>2, <1>3, <3>1, <3>2, <3>3
  <2> QED BY <2>3, <2>8
<1> QED BY <1>11, <1>12, <1>13, <1>14, <1>15 DEF CInv

LEMMA CaptureHistoryKeeps ==
    ASSUME CInv, CaptureHistory PROVE CInv'
<1>0. TypeOK /\ MarketOK /\ InFlightOK /\ SelectionsOK /\ NothingLost
  BY DEF CInv
<1>1. /\ UNCHANGED <<rev, revs, cursor, controls, wire, feed, attempts, env>>
      /\ hist' = [st |-> "answered", snap |-> revs[feed.interval],
                  early |-> cursor.req # feed.req \/ cursor.rev = 0]
  BY DEF CaptureHistory
<1>2. /\ feed.interval \in Interval /\ cursor.rev \in Nat /\ cursor.start \in Nat
      /\ Selected \in Seq(1 .. MaxRev) /\ DOMAIN Selected = 1 .. Len(Selected) /\ Len(Selected) \in Nat
      /\ \A k \in DOMAIN Selected : Selected[k] \in Nat
  BY <1>0, StateFacts, Numbers DEF Selected
<1>3. /\ hist'.st = "answered" /\ hist'.snap = Selected
      /\ hist'.early = (cursor.req # feed.req \/ cursor.rev = 0)
      /\ hist' \in HistoryRequest
  <2> DEFINE e == cursor.req # feed.req \/ cursor.rev = 0
  <2>1. e \in BOOLEAN
    OBVIOUS
  <2>2. hist' = [st |-> "answered", snap |-> Selected, early |-> e]
    BY <1>1 DEF Selected
  <2> HIDE DEF e
  <2>3. /\ hist'.st = "answered" /\ hist'.snap = Selected /\ hist'.early = e
        /\ hist' \in HistoryRequest
    BY <1>2, <2>1, <2>2, Zenon DEF HistoryRequest
  <2> QED BY <2>3 DEF e
<1>4. TypeOK'
  BY <1>0, <1>1, <1>3 DEF TypeOK, View
<1>5. MarketOK' /\ SelectionsOK'
  BY <1>0, <1>1 DEF MarketOK, SelectionsOK
<1>6. InFlightOK'
  <2>1. TrueCandles(Selected, Selected)
    BY <1>2 DEF TrueCandles
  <2> QED BY <1>0, <1>1, <1>3, <2>1 DEF InFlightOK, ValidBatch, TrueCandles, Selected
<1>7. NothingLost'
  <2> SUFFICES ASSUME cursor.req = feed.req /\ cursor.rev # 0
               PROVE  /\ \A k \in 1 .. cursor.start - 1 : HeldIn(feed, hist', wire, k, View[k])
                      /\ HeldIn(feed, hist', wire, cursor.start, cursor.rev)
    <3>1. Followed(feed', hist') => cursor.req = feed.req /\ cursor.rev # 0
      BY <1>3 DEF Followed
    <3>2. View' = View
      BY <1>1 DEF View
    <3> QED BY <1>1, <3>1, <3>2 DEF NothingLost
  <2>1. View = Selected
    BY <1>0 DEF View, Selected, SelectionsOK
  <2>2. cursor.start \in DOMAIN Selected /\ cursor.rev <= Selected[cursor.start]
    BY <1>0, <2>1 DEF TypeOK
  <2>3. ASSUME NEW k \in DOMAIN Selected, NEW r \in Nat, r <= Selected[k]
        PROVE  HeldIn(feed, hist', wire, k, r)
    BY <1>2, <1>3, <2>3 DEF HeldIn
  <2>4. HeldIn(feed, hist', wire, cursor.start, cursor.rev)
    BY <1>2, <2>2, <2>3
  <2>5. ASSUME NEW k \in 1 .. cursor.start - 1 PROVE HeldIn(feed, hist', wire, k, View[k])
    <3>1. k \in DOMAIN Selected
      BY <1>2, <2>2
    <3>2. Selected[k] \in Nat /\ Selected[k] <= Selected[k]
      BY <1>2, <3>1
    <3> QED BY <2>1, <2>3, <3>1, <3>2
  <2> QED BY <2>4, <2>5
<1> QED BY <1>4, <1>5, <1>6, <1>7 DEF CInv

\* The head of the wire is taken: what is left was there.
LEMMA TakeFacts ==
    ASSUME TypeOK, wire # <<>>
    PROVE  LET w == Tail(wire)
           IN  /\ w \in Seq(WireFrame) /\ 1 \in DOMAIN wire /\ Head(wire) = wire[1]
               /\ \A i \in DOMAIN w : i + 1 \in DOMAIN wire /\ w[i] = wire[i + 1]
               /\ \A i \in DOMAIN w : w[i].req <= cursor.req
               /\ \A i \in DOMAIN wire : i # 1 => i - 1 \in DOMAIN w /\ w[i - 1] = wire[i]
<1> DEFINE w == Tail(wire)
<1>1. /\ w \in Seq(WireFrame) /\ 1 \in DOMAIN wire /\ Head(wire) = wire[1]
      /\ \A i \in DOMAIN w : i + 1 \in DOMAIN wire /\ w[i] = wire[i + 1]
      /\ \A i \in DOMAIN wire : i # 1 => i - 1 \in DOMAIN w /\ w[i - 1] = wire[i]
  BY TailFacts DEF TypeOK
<1> HIDE DEF w
<1>2. \A i \in DOMAIN w : w[i].req <= cursor.req
  BY <1>1, FrameFacts
<1> QED BY <1>1, <1>2 DEF w

\* What is held otherwise than by the head alone stays held, and a reset behind it stays.
LEMMA TakeHolds ==
    ASSUME TypeOK, wire # <<>>, NEW f, NEW h
    PROVE  /\ \A k, r : HeldIn(f, h, wire, k, r) =>
                \/ HeldIn(f, h, Tail(wire), k, r)
                \/ /\ Head(wire).kind = "update" /\ Head(wire).req = f.req
                   /\ k \in DOMAIN Head(wire).items /\ Head(wire).items[k] >= r
           /\ ResetIn(f, wire) =>
                \/ ResetIn(f, Tail(wire))
                \/ Head(wire).kind = "candles_reset" /\ Head(wire).req = f.req
<1> DEFINE w == Tail(wire)
           g == Head(wire)
<1>1. /\ g = wire[1]
      /\ \A i \in DOMAIN wire : i = 1 \/ (i - 1 \in DOMAIN w /\ w[i - 1] = wire[i])
  BY TakeFacts
<1> HIDE DEF w, g
<1>2. ASSUME NEW k, NEW r, HeldIn(f, h, wire, k, r)
      PROVE  \/ HeldIn(f, h, w, k, r)
             \/ g.kind = "update" /\ g.req = f.req /\ k \in DOMAIN g.items /\ g.items[k] >= r
  <2>1. CASE \E i \in DOMAIN wire : /\ wire[i].kind = "update" /\ wire[i].req = f.req
                                    /\ k \in DOMAIN wire[i].items /\ wire[i].items[k] >= r
    <3> PICK i \in DOMAIN wire : /\ wire[i].kind = "update" /\ wire[i].req = f.req
                                 /\ k \in DOMAIN wire[i].items /\ wire[i].items[k] >= r
      BY <2>1
    <3>1. CASE i = 1
      BY <1>1, <3>1
    <3>2. CASE i - 1 \in DOMAIN w /\ w[i - 1] = wire[i]
      BY <3>2 DEF HeldIn
    <3> QED BY <1>1, <3>1, <3>2
  <2>2. CASE ~\E i \in DOMAIN wire : /\ wire[i].kind = "update" /\ wire[i].req = f.req
                                     /\ k \in DOMAIN wire[i].items /\ wire[i].items[k] >= r
    BY <1>2, <2>2, Zenon DEF HeldIn
  <2> QED BY <2>1, <2>2
<1>3. ResetIn(f, wire) => ResetIn(f, w) \/ (g.kind = "candles_reset" /\ g.req = f.req)
  BY <1>1 DEF ResetIn
<1> QED BY <1>2, <1>3 DEF w, g

\* A merge keeps what is held.
LEMMA MergeHolds ==
    ASSUME NEW f, NEW g, NEW h, NEW w, NEW items,
           f.candles \in Batch, DOMAIN items \subseteq Bucket,
           \A k \in DOMAIN items : items[k] \in 1 .. MaxRev,
           g.candles = MergeInto(f.candles, items), g.req = f.req
    PROVE  /\ \A k, r \in Nat : HeldIn(f, h, w, k, r) => HeldIn(g, h, w, k, r)
           /\ \A k, r \in Nat : k \in DOMAIN items /\ items[k] >= r => HeldIn(g, h, w, k, r)
<1>1. /\ DOMAIN g.candles = DOMAIN f.candles \cup DOMAIN items
      /\ \A k \in DOMAIN f.candles : g.candles[k] >= f.candles[k]
      /\ \A k \in DOMAIN items : g.candles[k] >= items[k]
      /\ g.candles \in Batch
  BY MergeStep
<1>2. /\ \A k \in DOMAIN f.candles : f.candles[k] \in Nat
      /\ \A k \in DOMAIN g.candles : g.candles[k] \in Nat
      /\ \A k \in DOMAIN items : items[k] \in Nat
  BY <1>1, BatchIs, Numbers
<1>3. ASSUME NEW k \in Nat, NEW r \in Nat, k \in DOMAIN items, items[k] >= r PROVE HeldIn(g, h, w, k, r)
  BY <1>1, <1>2, <1>3 DEF HeldIn
<1>4. ASSUME NEW k \in Nat, NEW r \in Nat, HeldIn(f, h, w, k, r) PROVE HeldIn(g, h, w, k, r)
  <2>1. CASE k \in DOMAIN f.candles /\ f.candles[k] >= r
    BY <1>1, <1>2, <2>1 DEF HeldIn
  <2>2. CASE ~(k \in DOMAIN f.candles /\ f.candles[k] >= r)
    BY <1>4, <2>2 DEF HeldIn
  <2> QED BY <2>1, <2>2
<1> QED BY <1>3, <1>4

LEMMA MergeTrue ==
    ASSUME NEW held \in Batch, NEW items, NEW m, DOMAIN items \subseteq Bucket,
           \A k \in DOMAIN items : items[k] \in 1 .. MaxRev,
           TrueCandles(held, m), TrueCandles(items, m)
    PROVE  TrueCandles(MergeInto(held, items), m)
<1> DEFINE n == MergeInto(held, items)
<1>1. \A k \in DOMAIN n : \/ k \in DOMAIN held /\ n[k] = held[k]
                          \/ k \in DOMAIN items /\ n[k] = items[k]
  BY MergeStep
<1> HIDE DEF n
<1>2. TrueCandles(n, m)
  BY <1>1 DEF TrueCandles
<1> QED BY <1>2 DEF n

LEMMA ReceiveUpdateKeeps ==
    ASSUME CInv, ReceiveUpdate PROVE CInv'
<1>0. TypeOK /\ MarketOK /\ InFlightOK /\ SelectionsOK /\ NothingLost
  BY DEF CInv
<1> DEFINE g == Head(wire)
<1>1. /\ UNCHANGED <<rev, revs, cursor, controls, hist, attempts, env>>
      /\ wire # <<>> /\ g.kind = "update" /\ wire' = Tail(wire)
      /\ feed' = IF Accepts(g) THEN [feed EXCEPT !.candles = MergeInto(@, g.items)] ELSE feed
  BY DEF ReceiveUpdate
<1>2. /\ wire' \in Seq(WireFrame) /\ 1 \in DOMAIN wire /\ g = wire[1]
      /\ \A i \in DOMAIN wire' : i + 1 \in DOMAIN wire /\ wire'[i] = wire[i + 1]
      /\ \A i \in DOMAIN wire' : wire'[i].req <= cursor.req
  BY <1>0, <1>1, TakeFacts
<1>3. /\ DOMAIN g.items \subseteq Bucket /\ \A k \in DOMAIN g.items : g.items[k] \in 1 .. MaxRev
      /\ feed.candles \in Batch /\ feed.interval \in Interval
      /\ ValidBatch(g.items) /\ TrueCandles(g.items, revs[g.interval])
      /\ cursor.start \in Nat /\ cursor.rev \in Nat
  BY <1>0, <1>1, <1>2, FrameFacts, StateFacts DEF InFlightOK
<1>4. /\ feed' \in [interval : Interval, req : Nat, candles : Batch, early : BOOLEAN]
      /\ feed'.interval = feed.interval /\ feed'.req = feed.req /\ feed'.early = feed.early
      /\ Accepts(g) => feed'.candles = MergeInto(feed.candles, g.items)
      /\ ~Accepts(g) => feed' = feed
  <2>1. feed \in [interval : Interval, req : Nat, candles : Batch, early : BOOLEAN]
    BY <1>0 DEF TypeOK
  <2> DEFINE c == MergeInto(feed.candles, g.items)
  <2>2. c \in Batch
    BY <1>3, MergeStep
  <2>3. feed' = IF Accepts(g) THEN [feed EXCEPT !.candles = c] ELSE feed
    BY <1>1
  <2> HIDE DEF c, g
  <2>4. CASE Accepts(g)
    <3>1. feed' = [feed EXCEPT !.candles = c]
      BY <2>3, <2>4
    <3>2. /\ feed' \in [interval : Interval, req : Nat, candles : Batch, early : BOOLEAN]
          /\ feed'.interval = feed.interval /\ feed'.req = feed.req
          /\ feed'.candles = c
      BY <2>1, <2>2, <3>1
    <3>3. feed'.early = feed.early
      BY <2>1, <3>1, Zenon
    <3> QED BY <2>4, <3>2, <3>3 DEF c
  <2>5. CASE ~Accepts(g)
    BY <2>1, <2>3, <2>5
  <2> QED BY <2>4, <2>5
<1> HIDE DEF g
<1>5. TypeOK'
  BY <1>0, <1>1, <1>2, <1>4 DEF TypeOK, View
<1>6. MarketOK'
  BY <1>0, <1>1 DEF MarketOK
<1>7. InFlightOK'
  <2>1. Selected' = Selected
    BY <1>1, <1>4 DEF Selected
  <2>2. TrueCandles(feed'.candles, Selected)
    <3>1. TrueCandles(feed.candles, Selected)
      BY <1>0 DEF InFlightOK
    <3>2. CASE Accepts(g)
      <4>1. TrueCandles(g.items, Selected)
        BY <1>3, <3>2 DEF Accepts, Selected
      <4> QED BY <1>3, <1>4, <3>1, <3>2, <4>1, MergeTrue
    <3>3. CASE ~Accepts(g)
      BY <1>4, <3>1, <3>3
    <3> QED BY <3>2, <3>3
  <2>3. ASSUME NEW i \in DOMAIN wire', wire'[i].kind = "update"
        PROVE  ValidBatch(wire'[i].items) /\ TrueCandles(wire'[i].items, revs[wire'[i].interval])
    BY <1>0, <1>2, <2>3 DEF InFlightOK
  <2>4. hist.st = "answered" => TrueCandles(hist.snap, Selected)
    BY <1>0 DEF InFlightOK
  <2> QED BY <1>1, <2>1, <2>2, <2>3, <2>4 DEF InFlightOK, ValidBatch, TrueCandles
<1>8. SelectionsOK'
  BY <1>0, <1>1, <1>2, <1>4 DEF SelectionsOK
<1>9. NothingLost'
  <2> SUFFICES ASSUME Followed(feed, hist), ~ResetIn(feed, wire')
               PROVE  /\ cursor.req = feed.req /\ cursor.rev # 0
                      /\ \A k \in 1 .. cursor.start - 1 : HeldIn(feed', hist, wire', k, View[k])
                      /\ HeldIn(feed', hist, wire', cursor.start, cursor.rev)
    <3>1. Followed(feed, hist) => cursor.req = feed.req /\ cursor.rev # 0
      BY <1>0 DEF NothingLost
    <3>2. View' = View
      BY <1>1 DEF View
    <3>3. Followed(feed', hist') = Followed(feed, hist)
      BY <1>1, <1>4, Zenon DEF Followed
    <3>4. ResetIn(feed', wire') = ResetIn(feed, wire')
      BY <1>4 DEF ResetIn
    <3> QED BY <1>1, <1>4, <3>1, <3>2, <3>3, <3>4 DEF NothingLost
  <2>1. ~ResetIn(feed, wire)
    BY <1>0, <1>1, TakeHolds DEF g
  <2>2. /\ cursor.req = feed.req /\ cursor.rev # 0
        /\ \A k \in 1 .. cursor.start - 1 : HeldIn(feed, hist, wire, k, View[k])
        /\ HeldIn(feed, hist, wire, cursor.start, cursor.rev)
    BY <1>0, <2>1 DEF NothingLost
  <2>3. ASSUME NEW k \in Nat, NEW r \in Nat, HeldIn(feed, hist, wire, k, r)
        PROVE  HeldIn(feed', hist, wire', k, r)
    <3>1. \/ HeldIn(feed, hist, wire', k, r)
          \/ g.req = feed.req /\ k \in DOMAIN g.items /\ g.items[k] >= r
      BY <1>0, <1>1, <2>3, TakeHolds DEF g
    <3>2. CASE HeldIn(feed, hist, wire', k, r)
      <4>1. CASE Accepts(g)
        BY <1>3, <1>4, <3>2, <4>1, MergeHolds
      <4>2. CASE ~Accepts(g)
        BY <1>4, <3>2, <4>2
      <4> QED BY <4>1, <4>2
    <3>3. CASE g.req = feed.req /\ k \in DOMAIN g.items /\ g.items[k] >= r
      <4>1. Accepts(g)
        BY <1>0, <1>1, <1>2, <3>3 DEF Accepts, SelectionsOK
      <4> QED BY <1>3, <1>4, <3>3, <4>1, MergeHolds
    <3> QED BY <3>1, <3>2, <3>3
  <2>4. \A k \in 1 .. cursor.start - 1 : k \in Nat /\ View[k] \in Nat
    <3>1. cursor.start \in DOMAIN View
      BY <1>0, <2>2 DEF TypeOK
    <3>2. DOMAIN View = 1 .. Len(View) /\ Len(View) \in Nat /\ \A k \in DOMAIN View : View[k] \in Nat
      BY <1>0, StateFacts, Numbers DEF View
    <3> QED BY <3>1, <3>2
  <2> QED BY <1>3, <2>2, <2>3, <2>4
<1> QED BY <1>5, <1>6, <1>7, <1>8, <1>9 DEF CInv

LEMMA HistoryArrivesKeeps ==
    ASSUME CInv, HistoryArrives PROVE CInv'
<1>0. TypeOK /\ MarketOK /\ InFlightOK /\ SelectionsOK /\ NothingLost
  BY DEF CInv
<1>1. /\ UNCHANGED <<rev, revs, cursor, controls, wire, env>>
      /\ hist.st = "answered" /\ attempts' = 0
      /\ hist' = [st |-> "ready", snap |-> <<>>, early |-> FALSE]
      /\ feed' = [feed EXCEPT !.early = hist.early, !.candles = MergeInto(feed.candles, hist.snap)]
  BY DEF HistoryArrives, Request
<1>2. /\ hist.snap \in Seq(1 .. MaxRev) /\ \A k \in DOMAIN hist.snap : hist.snap[k] \in 1 .. MaxRev
      /\ feed.candles \in Batch /\ feed.interval \in Interval
      /\ TrueCandles(hist.snap, Selected) /\ TrueCandles(feed.candles, Selected)
      /\ cursor.start \in Nat /\ cursor.rev \in Nat
      /\ Selected \in Seq(1 .. MaxRev) /\ DOMAIN Selected \subseteq Bucket
  BY <1>0, <1>1, StateFacts DEF InFlightOK, Selected
<1>3. DOMAIN hist.snap \subseteq Bucket
  BY <1>2 DEF TrueCandles
<1>4. /\ hist' \in HistoryRequest /\ hist'.st = "ready"
      /\ feed' \in [interval : Interval, req : Nat, candles : Batch, early : BOOLEAN]
      /\ feed'.interval = feed.interval /\ feed'.req = feed.req /\ feed'.early = hist.early
      /\ feed'.candles = MergeInto(feed.candles, hist.snap)
  <2>1. feed \in [interval : Interval, req : Nat, candles : Batch, early : BOOLEAN]
        /\ hist \in HistoryRequest
    BY <1>0 DEF TypeOK
  <2> DEFINE c == MergeInto(feed.candles, hist.snap)
             e == hist.early
  <2>2. c \in Batch
    BY <1>2, <1>3, MergeStep
  <2>3. e \in BOOLEAN
    BY <2>1, Zenon DEF HistoryRequest
  <2>4. feed' = [feed EXCEPT !.early = e, !.candles = c]
    BY <1>1
  <2> HIDE DEF c, e
  <2>5. feed' \in [interval : Interval, req : Nat, candles : Batch, early : BOOLEAN]
    BY <2>1, <2>2, <2>3, <2>4
  <2>6. feed'.interval = feed.interval /\ feed'.req = feed.req /\ feed'.candles = c
    BY <2>1, <2>4
  <2>7. feed'.early = e
    BY <2>1, <2>4, Zenon
  <2>8. hist' \in HistoryRequest /\ hist'.st = "ready"
    <3>1. <<>> \in Seq(1 .. MaxRev)
      OBVIOUS
    <3> QED BY <1>1, <3>1 DEF HistoryRequest
  <2> QED BY <2>5, <2>6, <2>7, <2>8 DEF c, e
<1>5. TypeOK'
  BY <1>0, <1>1, <1>4, Numbers DEF TypeOK, View
<1>6. MarketOK' /\ SelectionsOK'
  BY <1>0, <1>1, <1>4 DEF MarketOK, SelectionsOK
<1>7. InFlightOK'
  <2>1. TrueCandles(feed'.candles, Selected)
    BY <1>2, <1>3, <1>4, MergeTrue
  <2>2. Selected' = Selected
    BY <1>1, <1>4 DEF Selected
  <2> QED BY <1>0, <1>1, <1>4, <2>1, <2>2 DEF InFlightOK, ValidBatch, TrueCandles
<1>8. NothingLost'
  <2> SUFFICES ASSUME Followed(feed, hist), ~ResetIn(feed, wire)
               PROVE  /\ cursor.req = feed.req /\ cursor.rev # 0
                      /\ \A k \in 1 .. cursor.start - 1 : HeldIn(feed', hist', wire, k, View[k])
                      /\ HeldIn(feed', hist', wire, cursor.start, cursor.rev)
    <3>1. Followed(feed, hist) => cursor.req = feed.req /\ cursor.rev # 0
      BY <1>0 DEF NothingLost
    <3>2. View' = View
      BY <1>1 DEF View
    <3>3. Followed(feed', hist') => Followed(feed, hist)
      BY <1>1, <1>4, Zenon DEF Followed
    <3>4. ResetIn(feed', wire') = ResetIn(feed, wire)
      BY <1>1, <1>4 DEF ResetIn
    <3> QED BY <1>1, <1>4, <3>1, <3>2, <3>3, <3>4 DEF NothingLost
  <2>1. /\ cursor.req = feed.req /\ cursor.rev # 0
        /\ \A k \in 1 .. cursor.start - 1 : HeldIn(feed, hist, wire, k, View[k])
        /\ HeldIn(feed, hist, wire, cursor.start, cursor.rev)
    BY <1>0 DEF NothingLost
  <2>2. ASSUME NEW k \in Nat, NEW r \in Nat, HeldIn(feed, hist, wire, k, r)
        PROVE  HeldIn(feed', hist', wire, k, r)
    <3>1. CASE k \in DOMAIN hist.snap /\ hist.snap[k] >= r
      BY <1>2, <1>3, <1>4, <3>1, MergeHolds
    <3>2. CASE ~(k \in DOMAIN hist.snap /\ hist.snap[k] >= r)
      <4>1. HeldIn(feed, hist', wire, k, r)
        BY <2>2, <3>2 DEF HeldIn
      <4> QED BY <1>2, <1>3, <1>4, <4>1, MergeHolds
    <3> QED BY <3>1, <3>2
  <2>3. \A k \in 1 .. cursor.start - 1 : k \in Nat /\ View[k] \in Nat
    <3>1. cursor.start \in DOMAIN View
      BY <1>0, <2>1 DEF TypeOK
    <3>2. DOMAIN View = 1 .. Len(View) /\ Len(View) \in Nat /\ \A k \in DOMAIN View : View[k] \in Nat
      BY <1>0, StateFacts, Numbers DEF View
    <3> QED BY <3>1, <3>2
  <2> QED BY <1>2, <2>1, <2>2, <2>3
<1> QED BY <1>5, <1>6, <1>7, <1>8 DEF CInv

\* A new selection, on the connection as it is or on a new one: nothing in
\* flight is for it, and its history is yet to come.
LEMMA SelectKeeps ==
    ASSUME CInv, NEW i \in Interval, NEW used \in 0 .. MaxAttempts, Select(i, used),
           UNCHANGED <<rev, revs>>, env' \in 0 .. MaxEnv,
           \/ /\ cursor' = cursor
              /\ wire' = wire \/ (wire # <<>> /\ wire' = Tail(wire))
              /\ controls' = Append(controls, Subscription)
           \/ /\ cursor' = NewCursor
              /\ wire' = <<>>
              /\ controls' = <<Subscription>>
    PROVE  CInv'
<1>0. TypeOK /\ MarketOK /\ InFlightOK /\ SelectionsOK /\ NothingLost
  BY DEF CInv
<1> DEFINE q == feed.req + 1
           c == [interval |-> i, req |-> q]
<1>1. /\ feed' = [interval |-> i, req |-> q, candles |-> NoCandles, early |-> FALSE]
      /\ hist' = NextRequest(used) /\ attempts' = NextAttempts(used)
      /\ Subscription = c
  BY DEF Select, Subscription
<1>2. /\ cursor.req \in Nat /\ feed.req \in Nat /\ cursor.req <= feed.req
      /\ q \in Nat /\ feed.req < q /\ cursor.req < q
      /\ NewCursor \in [interval : Interval, req : Nat, start : Nat, rev : 0 .. MaxRev]
      /\ NewCursor.req = 0 /\ NewCursor.rev = 0 /\ NewCursor.start = 0
  <2>1. cursor.req \in Nat /\ feed.req \in Nat /\ cursor.req <= feed.req
    <3>1. cursor.req \in Nat /\ feed.req \in Nat
      BY <1>0, StateFacts
    <3>2. cursor.req <= feed.req
      BY <1>0 DEF TypeOK
    <3> QED BY <3>1, <3>2
  <2>2. q \in Nat /\ feed.req < q /\ cursor.req < q
    BY <2>1
  <2>3. /\ NewCursor \in [interval : Interval, req : Nat, start : Nat, rev : 0 .. MaxRev]
        /\ NewCursor.req = 0 /\ NewCursor.rev = 0 /\ NewCursor.start = 0
    BY Numbers DEF NewCursor
  <2> QED BY <2>1, <2>2, <2>3
<1>3. c \in Control /\ c.req = q /\ c.interval = i
  BY <1>2 DEF Control
<1> HIDE DEF c, q
<1>4. /\ feed' \in [interval : Interval, req : Nat, candles : Batch, early : BOOLEAN]
      /\ feed'.req = q /\ feed'.interval = i /\ feed'.candles = NoCandles
  BY <1>1, <1>2, NoCandlesIsBatch
<1>5. /\ hist' \in HistoryRequest /\ hist'.st \in {"pending", "failed"}
      /\ attempts' \in 0 .. MaxAttempts
  <2>1. <<>> \in Seq(1 .. MaxRev)
    OBVIOUS
  <2>2. \A st \in {"pending", "failed"} : Request(st) \in HistoryRequest /\ Request(st).st = st
    BY <2>1 DEF Request, HistoryRequest
  <2>3. attempts' \in 0 .. MaxAttempts
    BY <1>1, Numbers DEF NextAttempts
  <2> QED BY <1>1, <2>2, <2>3 DEF NextRequest
<1>6. /\ cursor' \in [interval : Interval, req : Nat, start : Nat, rev : 0 .. MaxRev]
      /\ cursor'.req < q
      /\ cursor'.rev = 0 => cursor'.start = 0
      /\ cursor'.rev # 0 => cursor'.start \in DOMAIN View' /\ cursor'.rev <= View'[cursor'.start]
      /\ cursor'.req = cursor.req \/ cursor'.req = 0
  <2>1. CASE cursor' = cursor
    BY <1>0, <1>2, <2>1 DEF TypeOK, View
  <2>2. CASE cursor' = NewCursor
    BY <1>2, <2>2
  <2> QED BY <2>1, <2>2
<1>7. /\ wire' \in Seq(WireFrame)
      /\ \A k \in DOMAIN wire' : wire'[k].req <= cursor'.req /\ wire'[k].req # q
      /\ \A k \in DOMAIN wire' : \E j \in DOMAIN wire : wire'[k] = wire[j]
  <2>1. CASE wire' = <<>>
    BY <2>1
  <2>2. CASE cursor' = cursor /\ (wire' = wire \/ (wire # <<>> /\ wire' = Tail(wire)))
    <3>1. \A k \in DOMAIN wire : wire[k].req <= cursor.req /\ wire[k].req \in Nat
      BY <1>0, FrameFacts
    <3>2. CASE wire' = wire
      <4>1. wire \in Seq(WireFrame) /\ cursor.req < q /\ cursor.req \in Nat /\ q \in Nat
        BY <1>0, <1>2 DEF TypeOK
      <4>2. \A k \in DOMAIN wire : wire[k].req <= cursor.req /\ wire[k].req # q
        BY <3>1, <4>1
      <4> QED BY <2>2, <3>2, <4>1, <4>2
    <3>3. CASE wire # <<>> /\ wire' = Tail(wire)
      <4>1. /\ wire' \in Seq(WireFrame)
            /\ \A k \in DOMAIN wire' : k + 1 \in DOMAIN wire /\ wire'[k] = wire[k + 1]
        BY <1>0, <3>3, TakeFacts
      <4> QED BY <1>2, <2>2, <3>1, <4>1
    <3> QED BY <2>2, <3>2, <3>3
  <2> QED BY <2>1, <2>2
<1>8. /\ controls' \in Seq(Control)
      /\ \A k \in DOMAIN controls' : cursor'.req < controls'[k].req /\ controls'[k].req <= q
      /\ \A k, j \in DOMAIN controls' : k < j => controls'[k].req < controls'[j].req
      /\ \A k \in DOMAIN controls' : controls'[k].req = q => controls'[k].interval = i
  <2>1. CASE controls' = <<Subscription>>
    <3>1. controls' = <<c>>
      BY <1>1, <2>1
    <3>2. controls' \in Seq(Control) /\ DOMAIN controls' = {1} /\ controls'[1] = c
      BY <1>3, <3>1
    <3> QED BY <1>2, <1>3, <1>6, <3>2
  <2>2. CASE cursor' = cursor /\ controls' = Append(controls, Subscription)
    <3>1. controls' = Append(controls, c)
      BY <1>1, <2>2
    <3>2. /\ controls' \in Seq(Control) /\ Len(controls) \in Nat
          /\ DOMAIN controls = 1 .. Len(controls) /\ DOMAIN controls' = 1 .. Len(controls) + 1
          /\ \A k \in DOMAIN controls' : \/ k = Len(controls) + 1 /\ controls'[k] = c
                                         \/ k \in DOMAIN controls /\ controls'[k] = controls[k]
      BY <1>0, <1>3, <3>1, AppendFacts DEF TypeOK
    <3>3. \A k \in DOMAIN controls : /\ controls[k].req \in Nat /\ cursor.req < controls[k].req
                                     /\ controls[k].req <= feed.req
      BY <1>0, ControlFacts
    <3>4. \A k, j \in DOMAIN controls : k < j => controls[k].req < controls[j].req
      BY <1>0 DEF SelectionsOK
    <3>5. \A k \in DOMAIN controls' : cursor'.req < controls'[k].req /\ controls'[k].req <= q
      BY <1>2, <1>3, <2>2, <3>2, <3>3
    <3>6. ASSUME NEW k \in DOMAIN controls', NEW j \in DOMAIN controls', k < j
          PROVE  controls'[k].req < controls'[j].req
      <4>1. k \in DOMAIN controls /\ controls'[k] = controls[k]
        BY <3>2, <3>6
      <4> QED BY <1>2, <1>3, <3>2, <3>3, <3>4, <3>6, <4>1
    <3>7. \A k \in DOMAIN controls' : controls'[k].req = q => controls'[k].interval = i
      BY <1>2, <1>3, <3>2, <3>3
    <3> QED BY <3>2, <3>5, <3>6, <3>7
  <2> QED BY <2>1, <2>2
<1>9. TypeOK'
  <2>1. rev' \in 0 .. MaxRev /\ revs' \in [Interval -> Seq(1 .. MaxRev)] /\ env' \in 0 .. MaxEnv
    BY <1>0 DEF TypeOK
  <2>2. cursor'.req \in Nat /\ cursor'.req <= q
    BY <1>2, <1>6
  <2>3. \A k \in DOMAIN wire' : wire'[k].req <= cursor'.req
    BY <1>7
  <2> QED BY <1>4, <1>5, <1>6, <1>7, <1>8, <2>1, <2>2, <2>3 DEF TypeOK
<1>10. MarketOK'
  BY <1>0 DEF MarketOK
<1>11. InFlightOK'
  <2>1. ASSUME NEW k \in DOMAIN wire', wire'[k].kind = "update"
        PROVE  ValidBatch(wire'[k].items) /\ TrueCandles(wire'[k].items, revs[wire'[k].interval])
    BY <1>0, <1>7, <2>1 DEF InFlightOK
  <2>2. TrueCandles(feed'.candles, Selected')
    BY <1>4, NoCandlesIsBatch DEF TrueCandles
  <2> QED BY <1>5, <2>1, <2>2 DEF InFlightOK, ValidBatch, TrueCandles
<1>12. SelectionsOK'
  BY <1>2, <1>4, <1>6, <1>7, <1>8 DEF SelectionsOK
<1>13. NothingLost'
  BY <1>5 DEF NothingLost, Followed
<1> QED BY <1>9, <1>10, <1>11, <1>12, <1>13 DEF CInv

LEMMA ReceiveResetKeeps ==
    ASSUME CInv, ReceiveReset PROVE CInv'
<1>0. TypeOK /\ MarketOK /\ InFlightOK /\ SelectionsOK /\ NothingLost
  BY DEF CInv
<1> DEFINE g == Head(wire)
<1>1. /\ UNCHANGED <<rev, revs, cursor, env>>
      /\ wire # <<>> /\ g.kind = "candles_reset" /\ wire' = Tail(wire)
  BY DEF ReceiveReset
<1>2. CASE g.interval = feed.interval /\ g.req = feed.req
  <2>1. Select(feed.interval, attempts) /\ controls' = Append(controls, Subscription)
    BY <1>2 DEF ReceiveReset
  <2>2. feed.interval \in Interval /\ attempts \in 0 .. MaxAttempts /\ env' \in 0 .. MaxEnv
    BY <1>0, <1>1 DEF TypeOK
  <2> QED BY <1>1, <2>1, <2>2, SelectKeeps
<1>3. CASE ~(g.interval = feed.interval /\ g.req = feed.req)
  <2>1. UNCHANGED <<feed, hist, attempts, controls>>
    BY <1>3 DEF ReceiveReset
  <2>2. /\ wire' \in Seq(WireFrame) /\ 1 \in DOMAIN wire /\ g = wire[1]
        /\ \A i \in DOMAIN wire' : i + 1 \in DOMAIN wire /\ wire'[i] = wire[i + 1]
        /\ \A i \in DOMAIN wire' : wire'[i].req <= cursor.req
    BY <1>0, <1>1, TakeFacts
  <2> HIDE DEF g
  <2>3. g.req # feed.req
    BY <1>0, <1>3, <2>2 DEF SelectionsOK
  <2>4. TypeOK'
    BY <1>0, <1>1, <2>1, <2>2 DEF TypeOK, View
  <2>5. MarketOK' /\ SelectionsOK'
    BY <1>0, <1>1, <2>1, <2>2 DEF MarketOK, SelectionsOK
  <2>6. InFlightOK'
    <3>1. ASSUME NEW i \in DOMAIN wire', wire'[i].kind = "update"
          PROVE  ValidBatch(wire'[i].items) /\ TrueCandles(wire'[i].items, revs[wire'[i].interval])
      BY <1>0, <2>2, <3>1 DEF InFlightOK
    <3> QED BY <1>0, <1>1, <2>1, <3>1 DEF InFlightOK, ValidBatch, TrueCandles, Selected
  <2>7. NothingLost'
    <3>1. /\ \A k, r : HeldIn(feed, hist, wire, k, r) => HeldIn(feed, hist, wire', k, r)
          /\ ResetIn(feed, wire) => ResetIn(feed, wire')
      BY <1>0, <1>1, <2>3, TakeHolds DEF g
    <3>2. View' = View
      BY <1>1 DEF View
    <3> QED BY <1>0, <1>1, <2>1, <3>1, <3>2 DEF NothingLost
  <2> QED BY <2>4, <2>5, <2>6, <2>7 DEF CInv
<1> QED BY <1>2, <1>3

LEMMA HistoryFailsKeeps ==
    ASSUME CInv, HistoryFails PROVE CInv'
<1>0. TypeOK /\ MarketOK /\ InFlightOK /\ SelectionsOK /\ NothingLost
  BY DEF CInv
<1>1. /\ UNCHANGED <<rev, revs, cursor, controls, wire, feed>>
      /\ hist' = NextRequest(attempts) /\ attempts' = NextAttempts(attempts)
      /\ env' \in 0 .. MaxEnv
  BY <1>0, Numbers DEF HistoryFails, EnvMove, TypeOK
<1>2. /\ hist' \in HistoryRequest /\ hist'.st \in {"pending", "failed"}
      /\ attempts' \in 0 .. MaxAttempts
  <2>1. <<>> \in Seq(1 .. MaxRev)
    OBVIOUS
  <2>2. \A st \in {"pending", "failed"} : Request(st) \in HistoryRequest /\ Request(st).st = st
    BY <2>1 DEF Request, HistoryRequest
  <2>3. attempts' \in 0 .. MaxAttempts
    BY <1>0, <1>1, Numbers DEF NextAttempts, TypeOK
  <2> QED BY <1>1, <2>2, <2>3 DEF NextRequest
<1>3. TypeOK'
  BY <1>0, <1>1, <1>2 DEF TypeOK, View
<1>4. MarketOK' /\ SelectionsOK'
  BY <1>0, <1>1 DEF MarketOK, SelectionsOK
<1>5. InFlightOK'
  BY <1>0, <1>1, <1>2 DEF InFlightOK, ValidBatch, TrueCandles, Selected
<1>6. NothingLost'
  BY <1>2 DEF NothingLost, Followed
<1> QED BY <1>3, <1>4, <1>5, <1>6 DEF CInv

LEMMA SelectIntervalKeeps ==
    ASSUME CInv, NEW i \in Interval, SelectInterval(i) PROVE CInv'
<1>1. TypeOK
  BY DEF CInv
<1>2. /\ UNCHANGED <<rev, revs, cursor, wire>> /\ Select(i, 0)
      /\ controls' = Append(controls, Subscription)
      /\ env' \in 0 .. MaxEnv /\ 0 \in 0 .. MaxAttempts
  BY <1>1, Numbers DEF SelectInterval, EnvMove, TypeOK
<1> QED BY <1>2, SelectKeeps

LEMMA ReconnectKeeps ==
    ASSUME CInv, Reconnect PROVE CInv'
<1>1. TypeOK
  BY DEF CInv
<1>2. /\ UNCHANGED <<rev, revs>> /\ Select(feed.interval, attempts)
      /\ cursor' = NewCursor /\ wire' = <<>> /\ controls' = <<Subscription>>
      /\ env' \in 0 .. MaxEnv /\ feed.interval \in Interval /\ attempts \in 0 .. MaxAttempts
  BY <1>1, Numbers DEF Reconnect, EnvMove, TypeOK
<1> QED BY <1>2, SelectKeeps

LEMMA InitHolds ==
    ASSUME Init PROVE CInv
<1> DEFINE c == [interval |-> NewCursor.interval, req |-> 1]
<1>1. /\ rev = 0 /\ revs = [i \in Interval |-> <<>>] /\ cursor = NewCursor
      /\ feed = [interval |-> NewCursor.interval, req |-> 1, candles |-> NoCandles, early |-> FALSE]
      /\ controls = <<c>> /\ wire = <<>> /\ attempts = 1 /\ env = MaxEnv
      /\ hist = [st |-> "pending", snap |-> <<>>, early |-> FALSE]
  BY DEF Init, Request
<1>2. /\ NewCursor \in [interval : Interval, req : Nat, start : Nat, rev : 0 .. MaxRev]
      /\ NewCursor.req = 0 /\ NewCursor.rev = 0 /\ NewCursor.start = 0
      /\ NewCursor.interval \in Interval
  BY Numbers DEF NewCursor
<1>3. c \in Control /\ c.req = 1 /\ c.interval = NewCursor.interval
  BY <1>2 DEF Control
<1> HIDE DEF c
<1>4. controls \in Seq(Control) /\ DOMAIN controls = {1} /\ controls[1] = c
  BY <1>1, <1>3
<1>5. <<>> \in Seq(1 .. MaxRev) /\ <<>> \in Seq(WireFrame) /\ Len(<<>>) = 0 /\ DOMAIN <<>> = {}
  OBVIOUS
<1>6. revs \in [Interval -> Seq(1 .. MaxRev)]
  BY <1>1, <1>5
<1>7. hist \in HistoryRequest /\ hist.st = "pending"
  BY <1>1, <1>5 DEF HistoryRequest
<1>8. /\ feed \in [interval : Interval, req : Nat, candles : Batch, early : BOOLEAN]
      /\ feed.req = 1 /\ feed.interval = NewCursor.interval /\ feed.candles = NoCandles
  BY <1>1, <1>2, NoCandlesIsBatch
<1>9. DOMAIN wire = {} /\ wire \in Seq(WireFrame)
  BY <1>1, <1>5
<1>10. TypeOK
  <2>1. rev \in 0 .. MaxRev /\ attempts \in 0 .. MaxAttempts /\ env \in 0 .. MaxEnv
    BY <1>1, CandleAssumption
  <2>2. cursor.req <= feed.req /\ cursor.rev = 0 /\ cursor.start = 0
    BY <1>1, <1>2, <1>8
  <2>3. \A i \in DOMAIN controls : cursor.req < controls[i].req /\ controls[i].req <= feed.req
    BY <1>1, <1>2, <1>3, <1>4, <1>8
  <2> QED BY <1>1, <1>2, <1>4, <1>6, <1>7, <1>8, <1>9, <2>1, <2>2, <2>3 DEF TypeOK
<1>11. MarketOK
  BY <1>1, <1>5 DEF MarketOK
<1>12. InFlightOK
  BY <1>7, <1>8, <1>9, NoCandlesIsBatch DEF InFlightOK, TrueCandles
<1>13. SelectionsOK
  BY <1>1, <1>2, <1>3, <1>4, <1>8, <1>9 DEF SelectionsOK
<1>14. NothingLost
  BY <1>7 DEF NothingLost, Followed
<1> QED BY <1>10, <1>11, <1>12, <1>13, <1>14 DEF CInv

-----------------------------------------------------------------------------
(* The theorems. *)

LEMMA StepKeeps ==
    ASSUME CInv, [Next]_vars PROVE CInv'
<1>1. CASE \E trade \in BOOLEAN, ended \in Boundaries : MarketEvent(trade, ended)
  BY <1>1, MarketEventKeeps
<1>2. CASE ProcessSubscribe
  BY <1>2, ProcessSubscribeKeeps
<1>3. CASE Flush
  BY <1>3, FlushKeeps
<1>4. CASE CaptureHistory
  BY <1>4, CaptureHistoryKeeps
<1>5. CASE ReceiveUpdate
  BY <1>5, ReceiveUpdateKeeps
<1>6. CASE ReceiveReset
  BY <1>6, ReceiveResetKeeps
<1>7. CASE HistoryArrives
  BY <1>7, HistoryArrivesKeeps
<1>8. CASE HistoryFails
  BY <1>8, HistoryFailsKeeps
<1>9. CASE \E i \in Interval : SelectInterval(i)
  BY <1>9, SelectIntervalKeeps
<1>10. CASE Reconnect
  BY <1>10, ReconnectKeeps
<1>11. CASE UNCHANGED vars
  BY <1>11 DEF vars, CInv, TypeOK, View, MarketOK, InFlightOK, ValidBatch, TrueCandles, Selected,
               SelectionsOK, NothingLost
<1> QED BY <1>1, <1>2, <1>3, <1>4, <1>5, <1>6, <1>7, <1>8, <1>9, <1>10, <1>11 DEF Next

\* Every reachable state satisfies the inductive invariant: subscriptions are
\* in order, what travels is true, and nothing the connection's cursor takes for
\* sent is missing from the chart once its history is in.
THEOREM CandleInvariance == Spec => []CInv
<1>1. Init => CInv
  BY InitHolds
<1>2. CInv /\ [Next]_vars => CInv'
  BY StepKeeps
<1> QED BY <1>1, <1>2, PTL DEF Spec

\* The chart shows candles of the selected interval only, none newer than the
\* market's, and no batch is lost because the browser's decoder refuses it
\* (accepts, mergeInto, validateCandleBatch).
THEOREM ShownAreSelected == Spec => []ShownFromSelection
<1>1. CInv => ShownFromSelection
  <2> SUFFICES ASSUME CInv PROVE ShownFromSelection
    OBVIOUS
  <2>1. TypeOK /\ MarketOK /\ InFlightOK
    BY DEF CInv
  <2>2. DOMAIN Selected = 1 .. Len(Selected)
    BY <2>1, StateFacts DEF Selected
  <2> QED BY <2>1, <2>2 DEF ShownFromSelection, InFlightOK, TrueCandles
<1> QED BY <1>1, CandleInvariance, PTL

\* A settled chart whose history was captured once its subscription was seeded
\* shows every candle of the market at its latest revision.
THEOREM SettledAgrees == Spec => []SettledCandlesAgree
<1>1. CInv => SettledCandlesAgree
  <2> SUFFICES ASSUME CInv, Settled, ~feed.early PROVE Agree
    BY DEF SettledCandlesAgree
  <2>0. TypeOK /\ MarketOK /\ InFlightOK /\ SelectionsOK /\ NothingLost
    BY DEF CInv
  <2>1. cursor.req = feed.req /\ wire = <<>> /\ hist.st = "ready"
    BY DEF Settled
  <2>2. Followed(feed, hist) /\ ~ResetIn(feed, wire)
    BY <2>1 DEF Followed, ResetIn
  <2>3. /\ cursor.rev # 0
        /\ \A k \in 1 .. cursor.start - 1 : HeldIn(feed, hist, wire, k, View[k])
        /\ HeldIn(feed, hist, wire, cursor.start, cursor.rev)
    BY <2>0, <2>2 DEF NothingLost
  <2>4. View = Selected
    BY <2>0, <2>1 DEF View, Selected, SelectionsOK
  <2>5. /\ DOMAIN Selected = 1 .. Len(Selected) /\ Len(Selected) \in Nat
        /\ \A k \in DOMAIN Selected : Selected[k] \in Nat
        /\ feed.candles \in Batch /\ \A k \in DOMAIN feed.candles : feed.candles[k] \in Nat
        /\ cursor.start \in Nat /\ cursor.rev \in Nat
    BY <2>0, StateFacts, Numbers DEF Selected
  <2>6. cursor.start \in DOMAIN Selected
    BY <2>0, <2>3, <2>4 DEF TypeOK
  <2>7. cursor.start = Len(Selected) /\ cursor.rev = Selected[cursor.start]
    <3>1. Selected # <<>>
      BY <2>6
    <3> QED BY <3>1 DEF Settled
  <2>8. ASSUME NEW k \in 1 .. Len(Selected)
        PROVE  k \in DOMAIN feed.candles /\ feed.candles[k] >= Selected[k]
    <3>1. HeldIn(feed, hist, wire, k, Selected[k])
      <4>1. CASE k = cursor.start
        BY <2>3, <2>7, <4>1
      <4>2. CASE k # cursor.start
        <5>1. k \in 1 .. cursor.start - 1
          BY <2>5, <2>7, <4>2
        <5> QED BY <2>3, <2>4, <5>1
      <4> QED BY <4>1, <4>2
    <3> QED BY <2>1, <3>1 DEF HeldIn
  <2>9. \A k \in DOMAIN feed.candles : k \in 1 .. Len(Selected) /\ feed.candles[k] <= Selected[k]
    BY <2>0, <2>5 DEF InFlightOK, TrueCandles
  <2>10. DOMAIN feed.candles = 1 .. Len(Selected)
    BY <2>8, <2>9
  <2>11. \A k \in 1 .. Len(Selected) : feed.candles[k] = Selected[k]
    BY <2>5, <2>8, <2>9
  <2>12. feed.candles = [k \in DOMAIN feed.candles |-> feed.candles[k]]
    BY <2>5 DEF Batch
  <2> QED BY <2>10, <2>11, <2>12 DEF Agree
<1> QED BY <1>1, CandleInvariance, PTL

\* Within a selection no candle goes back to an earlier revision or disappears,
\* however history and live batches are interleaved.
THEOREM NeverRewinds == Spec => CandlesNeverRewind
<1> DEFINE Kept == feed'.req = feed.req =>
                     \A k \in DOMAIN feed.candles :
                        k \in DOMAIN feed'.candles /\ feed'.candles[k] >= feed.candles[k]
<1>1. CInv /\ [Next]_vars => [Kept]_vars
  <2> SUFFICES ASSUME CInv, Next, feed'.req = feed.req, NEW k \in DOMAIN feed.candles
               PROVE  k \in DOMAIN feed'.candles /\ feed'.candles[k] >= feed.candles[k]
    OBVIOUS
  <2>0. TypeOK /\ MarketOK /\ InFlightOK
    BY DEF CInv
  <2>1. /\ feed.candles \in Batch /\ feed.candles[k] \in Nat /\ feed.req \in Nat /\ feed.interval \in Interval
        /\ feed \in [interval : Interval, req : Nat, candles : Batch, early : BOOLEAN]
    BY <2>0, StateFacts, Numbers DEF TypeOK
  <2>2. ASSUME NEW i, NEW used, Select(i, used) PROVE FALSE
    BY <2>1, <2>2 DEF Select
  <2>3. CASE feed' = feed
    BY <2>1, <2>3
  <2>4. ASSUME NEW items, DOMAIN items \subseteq Bucket,
               \A j \in DOMAIN items : items[j] \in 1 .. MaxRev,
               feed'.candles = MergeInto(feed.candles, items)
        PROVE  k \in DOMAIN feed'.candles /\ feed'.candles[k] >= feed.candles[k]
    <3> DEFINE n == MergeInto(feed.candles, items)
    <3>1. DOMAIN n = DOMAIN feed.candles \cup DOMAIN items /\ n[k] >= feed.candles[k]
      BY <2>1, <2>4, MergeStep
    <3> HIDE DEF n
    <3>2. feed'.candles = n
      BY <2>4 DEF n
    <3> QED BY <3>1, <3>2
  <2>5. CASE ReceiveUpdate
    <3> DEFINE g == Head(wire)
               c == MergeInto(feed.candles, g.items)
    <3>1. /\ 1 \in DOMAIN wire /\ g = wire[1]
          /\ feed' = IF Accepts(g) THEN [feed EXCEPT !.candles = c] ELSE feed
      BY <2>0, <2>5, TakeFacts DEF ReceiveUpdate
    <3>2. DOMAIN g.items \subseteq Bucket /\ \A j \in DOMAIN g.items : g.items[j] \in 1 .. MaxRev
      BY <2>0, <3>1, FrameFacts
    <3>3. feed' = feed \/ feed'.candles = c
      <4> HIDE DEF c, g
      <4> QED BY <2>1, <3>1
    <3> QED BY <2>3, <2>4, <3>2, <3>3
  <2>6. CASE HistoryArrives
    <3> DEFINE c == MergeInto(feed.candles, hist.snap)
               e == hist.early
    <3>1. feed' = [feed EXCEPT !.early = e, !.candles = c] /\ hist.st = "answered"
      BY <2>6 DEF HistoryArrives
    <3>2. feed'.candles = c
      <4> HIDE DEF c, e
      <4> QED BY <2>1, <3>1
    <3>3. /\ \A j \in DOMAIN hist.snap : hist.snap[j] \in 1 .. MaxRev
          /\ DOMAIN hist.snap \subseteq DOMAIN Selected /\ DOMAIN Selected \subseteq Bucket
      BY <2>0, <2>1, <3>1, StateFacts DEF InFlightOK, TrueCandles, Selected
    <3> QED BY <2>4, <3>2, <3>3
  <2>7. CASE ReceiveReset
    BY <2>2, <2>3, <2>7 DEF ReceiveReset
  <2>8. CASE \E i \in Interval : SelectInterval(i)
    BY <2>2, <2>8 DEF SelectInterval
  <2>9. CASE Reconnect
    BY <2>2, <2>9 DEF Reconnect
  <2>10. CASE (\E trade \in BOOLEAN, ended \in Boundaries : MarketEvent(trade, ended))
              \/ ProcessSubscribe \/ Flush \/ CaptureHistory \/ HistoryFails
    BY <2>3, <2>10 DEF MarketEvent, ProcessSubscribe, Flush, CaptureHistory, HistoryFails
  <2> QED BY <2>5, <2>6, <2>7, <2>8, <2>9, <2>10 DEF Next
<1>2. Spec => [][Next]_vars
  BY PTL DEF Spec
<1> QED BY <1>1, <1>2, CandleInvariance, PTL DEF CandlesNeverRewind

=============================================================================
