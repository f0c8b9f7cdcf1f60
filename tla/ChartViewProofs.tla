--------------------------- MODULE ChartViewProofs ---------------------------
(***************************************************************************)
(* Theorems about ChartView, for any limits and any warm-up: the chart     *)
(* draws the candles of the feed, says truly whether it follows the market *)
(* but for drags it ignored, and keeps the candle that a drag it noticed   *)
(* left at its edge.                                                       *)
(*                                                                         *)
(* The adapter comes first: what each of its functions leaves of a state   *)
(* that is in order.  It redraws a single candle when nothing else seems   *)
(* to have changed, which is right only for candles of the same times.     *)
(* That the feed never gives it others is most of the proof: the second    *)
(* part relates the candles held to the candles on show.                   *)
(***************************************************************************)
EXTENDS ChartView, FiniteSetTheorems, SequenceTheorems, WellFoundedInduction, TLAPS

-----------------------------------------------------------------------------
(* Candles on show. *)

Candle == [of : Nat \X (Interval \cup {"none"}), t : Nat, rev : Nat]

Rising(candles) ==
    \A i \in DOMAIN candles, j \in DOMAIN candles : i < j => candles[i].t < candles[j].t

LEMMA CandleTimes ==
    \A s \in Seq(Candle) : \A i \in 1 .. Len(s) : s[i] \in Candle /\ s[i].t \in Nat
<1>1. \A c \in Candle : c.t \in Nat
  BY DEF Candle
<1>2. \A s \in Seq(Candle) : \A i \in 1 .. Len(s) : s[i] \in Candle
  OBVIOUS
<1> QED BY <1>1, <1>2

\* A set of numbers has a least one.
LEMMA LeastNumber ==
    ASSUME NEW T \in SUBSET Nat, T # {}
    PROVE  \E n \in T : \A m \in T : n <= m
<1>1. IsWellFoundedOn(OpToRel(<, Nat), Nat)
  BY NatLessThanWellFounded
<1>2. PICK n \in T : \A m \in T : <<m, n>> \notin OpToRel(<, Nat)
  BY <1>1, WFMin, Zenon
<1>3. \A m \in T : ~(m < n)
  BY <1>2 DEF OpToRel
<1> QED BY <1>3

\* Where a candle is.
LEMMA IndexOfIs ==
    ASSUME NEW s \in Seq(Candle), NEW time \in Nat
    PROVE  /\ IndexOf(s, time) \in 0 .. Len(s)
           /\ IndexOf(s, time) # 0 => s[IndexOf(s, time)].t = time
           /\ IndexOf(s, time) = 0 => \A i \in 1 .. Len(s) : s[i].t # time
<1> DEFINE I == {i \in 1 .. Len(s) : s[i].t = time}
<1>1. IndexOf(s, time) = IF I # {} THEN Min(I) ELSE 0
  BY DEF IndexOf, SelectInSeq
<1>2. I # {} => Min(I) \in I
  <2> SUFFICES ASSUME I # {} PROVE Min(I) \in I
    OBVIOUS
  <2>1. I \in SUBSET Nat
    OBVIOUS
  <2>2. PICK n \in I : \A m \in I : n <= m
    BY <2>1, LeastNumber
  <2> QED BY <2>2 DEF Min
<1>3. \A i \in I : i \in 1 .. Len(s) /\ i # 0 /\ s[i].t = time
  OBVIOUS
<1>4. \A i \in 1 .. Len(s) : s[i].t = time => i \in I
  OBVIOUS
<1> HIDE DEF I
<1> QED BY <1>1, <1>2, <1>3, <1>4

\* Rising candles have no time twice.
LEMMA TimesDiffer ==
    ASSUME NEW s \in Seq(Candle), Rising(s), NEW i \in 1 .. Len(s), NEW j \in 1 .. Len(s),
           s[i].t = s[j].t
    PROVE  i = j
<1>1. \A k \in 1 .. Len(s) : s[k].t \in Nat
  BY CandleTimes
<1>2. i < j => s[i].t < s[j].t
  BY DEF Rising
<1>3. j < i => s[j].t < s[i].t
  BY DEF Rising
<1> QED BY <1>1, <1>2, <1>3

-----------------------------------------------------------------------------
(* The adapter. *)

Anchor == [t : Nat, index : Int, to : Int]

Adapter ==
    [generation : Nat, prev : Seq(Candle), drawn : Seq(Candle), right : Int, seen : Int,
     following : BOOLEAN, anchored : BOOLEAN, waiting : BOOLEAN,
     wasFollowing : BOOLEAN, offset : Int, anchor : Anchor]

\* A view that follows the market shows the newest candle, unless an ignored drag
\* has it away from there; one put aside shows it.
Truthful(a, away) ==
    /\ a \in Adapter
    /\ a.following /\ a.right < 0 => away
    /\ a.wasFollowing => a.offset >= 0

\* At least one of the candles drawn is in view.
InView(a) == a.drawn # <<>> => a.right >= 1 - Len(a.drawn)

\* A move of the view leaves this alone.
SameBut(a, b) ==
    /\ b.generation = a.generation /\ b.prev = a.prev /\ b.drawn = a.drawn
    /\ b.anchored = a.anchored /\ b.waiting = a.waiting
    /\ b.wasFollowing = a.wasFollowing /\ b.offset = a.offset /\ b.anchor = a.anchor

LEMMA ToType == \A a \in Adapter : To(a) \in Int
  BY DEF Adapter, To, nowhere

\* A report of the range: followed is only a view at the last candle.
LEMMA Reports ==
    ASSUME NEW a \in Adapter
    PROVE  /\ Report(a) \in Adapter /\ SameBut(a, Report(a)) /\ Report(a).right = a.right
           /\ (a.waiting \/ a.prev = <<>> \/ a.drawn = <<>>) => Report(a) = a
           /\ ~(a.waiting \/ a.prev = <<>> \/ a.drawn = <<>>) /\ Report(a).following => a.right >= 0
<1>1. CASE a.waiting \/ a.prev = <<>> \/ a.drawn = <<>>
  BY <1>1 DEF Report, SameBut
<1>2. CASE ~(a.waiting \/ a.prev = <<>> \/ a.drawn = <<>>)
  <2> DEFINE h == ~Historical(a, To(a))
  <2>1. Report(a) = [a EXCEPT !.seen = To(a), !.following = h]
    BY <1>2 DEF Report
  <2>2. h \in BOOLEAN /\ To(a) \in Int /\ (h => a.right >= 0)
    BY ToType DEF Historical, Adapter
  <2> HIDE DEF h
  <2>3. Report(a) \in Adapter
    BY <2>1, <2>2 DEF Adapter
  <2>4. SameBut(a, Report(a)) /\ Report(a).right = a.right /\ Report(a).following = h
    BY <2>1 DEF SameBut, Adapter
  <2> QED BY <1>2, <2>2, <2>3, <2>4
<1> QED BY <1>1, <1>2

\* So does a move that is reported.
LEMMA Moved ==
    ASSUME NEW away \in BOOLEAN, NEW a, Truthful(a, away), NEW right \in Int,
           right < 0 => ~a.waiting /\ a.prev # <<>> /\ a.drawn # <<>>
    PROVE  /\ Truthful(MovedTo(a, right), away) /\ SameBut(a, MovedTo(a, right))
           /\ MovedTo(a, right).right = right
<1>1. CASE right = a.right
  BY <1>1 DEF MovedTo, SameBut, Truthful, Adapter
<1>2. CASE right # a.right
  <2> DEFINE b == [a EXCEPT !.right = right]
  <2>1. MovedTo(a, right) = Report(b)
    BY <1>2 DEF MovedTo
  <2>2. b \in Adapter /\ SameBut(a, b) /\ b.right = right
    BY DEF Truthful, Adapter, SameBut
  <2> HIDE DEF b
  <2>3. /\ Report(b) \in Adapter /\ SameBut(b, Report(b)) /\ Report(b).right = right
        /\ ~(b.waiting \/ b.prev = <<>> \/ b.drawn = <<>>) /\ Report(b).following => right >= 0
    BY <2>2, Reports
  <2>4. SameBut(a, Report(b))
    BY <2>2, <2>3 DEF SameBut
  <2>5. Report(b).following => right >= 0
    BY <2>2, <2>3 DEF SameBut
  <2>6. Truthful(Report(b), away)
    BY <2>3, <2>4, <2>5 DEF Truthful, SameBut
  <2> QED BY <2>1, <2>3, <2>4, <2>5, <2>6
<1> QED BY <1>1, <1>2

\* What the view keeps for a user who reads the candle of time r: its place among
\* the candles drawn, or, while a history loads, the range put aside.
Keeps(a, r) ==
    r # 0 => /\ a.anchored
             /\ a.waiting => /\ ~a.wasFollowing
                             /\ a.anchor.t = r /\ a.anchor.index = a.anchor.to
             /\ ~a.waiting /\ IndexOf(a.drawn, r) # 0 =>
                    /\ a.right = IndexOf(a.drawn, r) - Len(a.drawn)
                    /\ a.right < 0

\* The user still sees it.
Reads(a, r) ==
    /\ Keeps(a, r)
    /\ r # 0 /\ ~a.waiting => IndexOf(a.drawn, r) # 0

LEMMA AtLeastIs ==
    ASSUME NEW s \in Seq(Candle), NEW right \in Int
    PROVE  /\ AtLeast(s, right) \in Int /\ AtLeast(s, right) >= 1 - Len(s)
           /\ right >= 1 - Len(s) => AtLeast(s, right) = right
  BY DEF AtLeast

\* series.setData keeps a candle in view and a live view live.
LEMMA DataSet ==
    ASSUME NEW away \in BOOLEAN, NEW a, Truthful(a, away), NEW candles \in Seq(Candle), NEW rest \in Int
    PROVE  LET b == SetData(a, candles, rest)
           IN  /\ Truthful(b, away) /\ InView(b)
               /\ b.drawn = candles /\ b.prev = a.prev /\ b.generation = a.generation
               /\ b.following = a.following /\ b.anchored = a.anchored /\ b.waiting = a.waiting
               /\ b.wasFollowing = a.wasFollowing /\ b.offset = a.offset /\ b.anchor = a.anchor
<1> DEFINE right == IF a.right < 0 /\ candles # <<>> THEN AtLeast(candles, rest) ELSE a.right
           b == [a EXCEPT !.drawn = candles, !.right = right]
<1>1. SetData(a, candles, rest) = b
  BY DEF SetData, Truthful, Adapter
<1>6. a.right \in Int
  BY DEF Truthful, Adapter
<1>7. AtLeast(candles, rest) \in Int /\ AtLeast(candles, rest) >= 1 - Len(candles)
  BY AtLeastIs
<1>2. right \in Int /\ (a.right >= 0 => right = a.right)
  BY <1>6, <1>7
<1>3. candles # <<>> => right >= 1 - Len(candles)
  <2>1. candles # <<>> => Len(candles) \in Nat \ {0}
    OBVIOUS
  <2> QED BY <1>6, <1>7, <2>1
<1> HIDE DEF right
<1>4. /\ b \in Adapter
      /\ b.drawn = candles /\ b.prev = a.prev /\ b.generation = a.generation
      /\ b.following = a.following /\ b.anchored = a.anchored /\ b.waiting = a.waiting
      /\ b.wasFollowing = a.wasFollowing /\ b.offset = a.offset /\ b.anchor = a.anchor
      /\ b.right = right
  BY <1>2 DEF Truthful, Adapter
<1> HIDE DEF b
<1>5. Truthful(b, away) /\ InView(b)
  BY <1>2, <1>3, <1>4, <1>6 DEF Truthful, InView
<1> QED BY <1>1, <1>4, <1>5

LEMMA AnchorIs ==
    ASSUME NEW s \in Seq(Candle), s # <<>>, NEW to \in Int
    PROVE  /\ AnchorAt(s, to) \in Anchor
           /\ to \in 1 .. Len(s) =>
                AnchorAt(s, to).t = s[to].t /\ AnchorAt(s, to).index = to
           /\ AnchorAt(s, to).to = to
<1>1. EdgeIndex(s, to) \in 1 .. Len(s) /\ (to \in 1 .. Len(s) => EdgeIndex(s, to) = to)
  BY DEF EdgeIndex
<1>2. s[EdgeIndex(s, to)].t \in Nat
  BY <1>1, CandleTimes
<1> QED BY <1>1, <1>2 DEF AnchorAt, Anchor

\* A view put aside remembers the candle of the user, or that it followed.
LEMMA RecoveryBegins ==
    ASSUME NEW away \in BOOLEAN, NEW a, Truthful(a, away), InView(a), a.prev = a.drawn, NEW r \in Nat, Reads(a, r), ~a.waiting
    PROVE  LET b == BeginRecovery(a)
           IN  /\ Truthful(b, away) /\ InView(b) /\ Reads(b, r)
               /\ b.prev = a.prev /\ b.drawn = a.drawn /\ b.generation = a.generation
               /\ b.waiting
<1> DEFINE live == a.following /\ ~Historical(a, To(a))
           offset == IF live THEN a.right ELSE LiveOffset
           anchor == IF ~live /\ a.prev # <<>> THEN AnchorAt(a.prev, To(a)) ELSE noAnchor
           b == [a EXCEPT !.waiting = TRUE, !.wasFollowing = live, !.offset = offset, !.anchor = anchor]
<1>1. BeginRecovery(a) = b
  BY DEF BeginRecovery
<1>2. live \in BOOLEAN /\ (live => a.right >= 0) /\ To(a) \in Int
  BY ToType DEF Truthful, Adapter, Historical
<1>3. offset \in Int /\ (live => offset >= 0)
  BY <1>2, LiveOffsetAssumption DEF Truthful, Adapter
<1>4. anchor \in Anchor
  <2>1. a.prev # <<>> => AnchorAt(a.prev, To(a)) \in Anchor
    BY <1>2, AnchorIs DEF Truthful, Adapter
  <2> QED BY <2>1 DEF Anchor, noAnchor
<1>5. r # 0 => ~live /\ anchor.t = r /\ anchor.index = anchor.to
  <2> SUFFICES ASSUME r # 0 PROVE ~live /\ anchor.t = r /\ anchor.index = anchor.to
    OBVIOUS
  <2>1. a.drawn \in Seq(Candle) /\ a.right \in Int
    BY DEF Truthful, Adapter
  <2>2. /\ IndexOf(a.drawn, r) # 0 /\ a.right < 0
        /\ a.right = IndexOf(a.drawn, r) - Len(a.drawn)
    BY DEF Reads, Keeps
  <2>6. /\ IndexOf(a.drawn, r) \in 0 .. Len(a.drawn)
        /\ IndexOf(a.drawn, r) # 0 => a.drawn[IndexOf(a.drawn, r)].t = r
    BY <2>1, IndexOfIs
  <2>3. /\ IndexOf(a.drawn, r) \in 1 .. Len(a.drawn) /\ a.drawn[IndexOf(a.drawn, r)].t = r
    BY <2>1, <2>2, <2>6
  <2>4. a.drawn # <<>> /\ To(a) = IndexOf(a.drawn, r)
    BY <2>1, <2>2, <2>3 DEF To
  <2>5. ~live /\ anchor = AnchorAt(a.drawn, To(a))
    BY <1>2, <2>2, <2>4
  <2> HIDE DEF live, anchor
  <2> QED BY <2>1, <2>3, <2>4, <2>5, AnchorIs
<1> HIDE DEF live, offset, anchor
<1>6. /\ b \in Adapter /\ b.prev = a.prev /\ b.drawn = a.drawn /\ b.generation = a.generation
      /\ b.waiting /\ b.wasFollowing = live /\ b.offset = offset /\ b.anchor = anchor
      /\ b.right = a.right /\ b.following = a.following /\ b.anchored = a.anchored
  BY <1>2, <1>3, <1>4 DEF Truthful, Adapter
<1> HIDE DEF b
<1>7. Truthful(b, away) /\ InView(b) /\ Reads(b, r)
  BY <1>3, <1>5, <1>6 DEF Truthful, InView, Reads, Keeps
<1> QED BY <1>1, <1>6, <1>7

\* A candle with a later one is not the last.
LEMMA NotLast ==
    ASSUME NEW s \in Seq(Candle), Rising(s), NEW r \in Nat,
           \E i \in 1 .. Len(s) : s[i].t > r,
           IndexOf(s, r) # 0
    PROVE  IndexOf(s, r) \in 1 .. Len(s) /\ IndexOf(s, r) < Len(s)
<1> DEFINE j == IndexOf(s, r)
<1>1. j \in 0 .. Len(s) /\ s[j].t = r
  BY IndexOfIs
<1> HIDE DEF j
<1>2. j \in 1 .. Len(s)
  BY <1>1 DEF j
<1>3. PICK i \in 1 .. Len(s) : s[i].t > r
  OBVIOUS
<1>4. s[i].t \in Nat /\ s[j].t \in Nat
  BY <1>2, CandleTimes
<1>5. i # j
  BY <1>1, <1>3, <1>4
<1>6. i < j => s[i].t < s[j].t
  BY <1>2 DEF Rising
<1>7. j < i
  BY <1>1, <1>2, <1>3, <1>4, <1>5, <1>6
<1> QED BY <1>2, <1>7 DEF j

\* b is a with the view at the place of the user, if a history is there.
Restored(a, candles, ready, r, b, away) ==
    /\ Truthful(b, away) /\ InView(b) /\ b.prev = candles /\ b.drawn = candles
    /\ b.generation = a.generation
    /\ ~ready => b.waiting = a.waiting
    /\ Reads(b, IF b.waiting \/ IndexOf(candles, r) # 0 THEN r ELSE 0)

\* applyHistoryViewport puts the view back where the user left it.
LEMMA ViewRestored ==
    ASSUME NEW away \in BOOLEAN, NEW a, Truthful(a, away), InView(a), NEW candles \in Seq(Candle), Rising(candles),
           a.prev = candles, a.drawn = candles, NEW r \in Nat, Keeps(a, r),
           r # 0 /\ candles # <<>> => \E i \in 1 .. Len(candles) : candles[i].t > r,
           NEW ready \in BOOLEAN
    PROVE  Restored(a, candles, ready, r, Viewport(a, candles, ready), away)
<1> DEFINE done == [a EXCEPT !.waiting = FALSE, !.anchor = noAnchor,
                            !.wasFollowing = TRUE, !.offset = LiveOffset]
           live == [done EXCEPT !.anchored = TRUE]
           Good(b) == /\ Truthful(b, away) /\ InView(b) /\ b.prev = candles /\ b.drawn = candles
                      /\ b.generation = a.generation
                      /\ ~ready => b.waiting = a.waiting
                      /\ Reads(b, IF b.waiting \/ IndexOf(candles, r) # 0 THEN r ELSE 0)
<1> SUFFICES Good(Viewport(a, candles, ready))
  BY DEF Restored
<1>1. Good(a) \/ (ready /\ candles = <<>>) \/ (r # 0 /\ ready /\ a.waiting)
  <2>1. a.waiting => Reads(a, r)
    BY DEF Reads
  <2>2. ~a.waiting /\ IndexOf(candles, r) # 0 => Reads(a, r)
    BY DEF Reads
  <2>3. Reads(a, 0)
    BY DEF Reads, Keeps
  <2> QED BY <2>1, <2>2, <2>3
<1>2. /\ Truthful(done, away) /\ done.prev = candles /\ done.drawn = candles
      /\ done.generation = a.generation /\ done.anchored = a.anchored /\ ~done.waiting
      /\ done.right = a.right
  <2>1. noAnchor \in Anchor
    BY DEF noAnchor, Anchor
  <2>2. done \in Adapter
    <3>1. a \in Adapter /\ LiveOffset \in Int /\ TRUE \in BOOLEAN /\ FALSE \in BOOLEAN
      BY LiveOffsetAssumption DEF Truthful
    <3> QED BY <2>1, <3>1 DEF Adapter
  <2>3. /\ done.prev = candles /\ done.drawn = candles
        /\ done.generation = a.generation /\ done.anchored = a.anchored /\ done.waiting = FALSE
        /\ done.right = a.right /\ done.following = a.following /\ done.offset = LiveOffset
    BY DEF Truthful, Adapter
  <2> HIDE DEF done
  <2> QED BY <2>2, <2>3, LiveOffsetAssumption DEF Truthful
<1>3. /\ Truthful(live, away) /\ live.prev = candles /\ live.drawn = candles
      /\ live.generation = a.generation /\ ~live.waiting
  <2> HIDE DEF done
  <2> QED BY <1>2 DEF Truthful, Adapter
<1>4. \A b : Reads(b, 0)
  BY DEF Reads, Keeps
<1>5. LiveOffset \in Nat
  BY LiveOffsetAssumption
<1>6. \A n \in Nat : candles # <<>> /\ r = 0 /\ ready => Good(ScrollTo(live, n))
  <2> SUFFICES ASSUME NEW n \in Nat, candles # <<>>, r = 0, ready PROVE Good(ScrollTo(live, n))
    OBVIOUS
  <2> HIDE DEF live, done
  <2>1. /\ Truthful(MovedTo(live, n), away) /\ SameBut(live, MovedTo(live, n))
        /\ MovedTo(live, n).right = n
    BY <1>3, Moved
  <2>2. Len(candles) \in Nat /\ Len(candles) >= 1
    OBVIOUS
  <2>3. InView(MovedTo(live, n))
    BY <1>3, <2>1, <2>2 DEF InView, SameBut
  <2> QED BY <1>3, <1>4, <2>1, <2>3 DEF ScrollTo, SameBut
<1>7. CASE ~ready
  <2>1. Viewport(a, candles, ready) = a
    BY <1>7 DEF Viewport
  <2> HIDE DEF Good
  <2> QED BY <1>1, <1>7, <2>1
<1>8. CASE ready /\ candles = <<>>
  <2>1. Viewport(a, candles, ready) = done
    BY <1>8 DEF Viewport
  <2>2. IndexOf(candles, r) = 0
    <3>1. IndexOf(candles, r) \in 0 .. Len(candles) /\ Len(candles) = 0
      BY <1>8, IndexOfIs
    <3> QED BY <3>1
  <2> HIDE DEF done
  <2> QED BY <1>2, <1>4, <1>8, <2>1, <2>2 DEF InView
<1>9. CASE ready /\ candles # <<>> /\ a.waiting /\ ~a.wasFollowing /\ a.anchor # noAnchor
  <2> DEFINE j == IndexOf(candles, r)
             to == RangeFrom(a.anchor, candles)
             right == AtLeast(candles, to - Len(candles))
  <2>1. Viewport(a, candles, ready) = MovedTo(done, right)
    BY <1>2, <1>9 DEF Viewport, SetRange
  <2>2. a.anchor \in Anchor /\ Len(candles) \in Nat
    BY DEF Truthful, Adapter
  <2>3. j \in Int /\ IndexOf(candles, a.anchor.t) \in Int
    <3>1. a.anchor.t \in Nat
      BY <2>2 DEF Anchor
    <3>2. j \in 0 .. Len(candles) /\ IndexOf(candles, a.anchor.t) \in 0 .. Len(candles)
      BY <3>1, IndexOfIs
    <3> QED BY <2>2, <3>2
  <2>4. to \in Int
    BY <2>2, <2>3 DEF RangeFrom, Anchor
  <2>5. r # 0 /\ j # 0 => right = j - Len(candles) /\ j < Len(candles)
    <3> SUFFICES ASSUME r # 0, j # 0 PROVE right = j - Len(candles) /\ j < Len(candles)
      OBVIOUS
    <3>1. j \in 1 .. Len(candles) /\ j < Len(candles)
      BY <1>9, NotLast
    <3>2. a.anchor.t = r /\ a.anchor.index = a.anchor.to
      BY <1>9 DEF Keeps
    <3>3. to = j
      BY <2>2, <3>1, <3>2 DEF RangeFrom, Anchor
    <3>4. AtLeast(candles, j - Len(candles)) = j - Len(candles)
      BY <2>2, <3>1, AtLeastIs
    <3> QED BY <3>1, <3>3, <3>4
  <2>6. right \in Int /\ right >= 1 - Len(candles)
    <3> HIDE DEF to
    <3>1. to - Len(candles) \in Int
      BY <2>2, <2>4
    <3> QED BY <3>1, AtLeastIs
  <2> HIDE DEF done, to, right
  <2>7. /\ Truthful(MovedTo(done, right), away) /\ SameBut(done, MovedTo(done, right))
        /\ MovedTo(done, right).right = right
    BY <1>2, <1>9, <2>6, Moved
  <2> DEFINE b == MovedTo(done, right)
  <2> HIDE DEF b
  <2>8. /\ b.drawn = candles /\ b.prev = candles /\ b.generation = a.generation
        /\ b.anchored = a.anchored /\ ~b.waiting /\ b.right = right
    BY <1>2, <2>7 DEF SameBut, b
  <2>9. InView(b)
    BY <2>6, <2>8 DEF InView
  <2>10. r # 0 /\ j # 0 => Reads(b, r)
    <3> HIDE DEF j
    <3>1. r # 0 => a.anchored
      BY DEF Keeps
    <3>2. r # 0 /\ j # 0 => right < 0
      BY <2>2, <2>3, <2>5
    <3> QED BY <2>5, <2>8, <3>1, <3>2 DEF Reads, Keeps, j
  <2>11. Reads(b, IF b.waiting \/ IndexOf(candles, r) # 0 THEN r ELSE 0)
    BY <1>4, <2>8, <2>10
  <2> QED BY <1>9, <2>1, <2>7, <2>8, <2>9, <2>11 DEF b
<1>10. CASE ready /\ candles # <<>> /\ a.waiting /\ ~(~a.wasFollowing /\ a.anchor # noAnchor)
  <2>1. Viewport(a, candles, ready) = ScrollTo(live, IF a.wasFollowing THEN a.offset ELSE LiveOffset)
    BY <1>10 DEF Viewport
  <2>2. (IF a.wasFollowing THEN a.offset ELSE LiveOffset) \in Nat
    BY <1>5 DEF Truthful, Adapter
  <2>3. r = 0
    BY <1>10 DEF Keeps, noAnchor
  <2> HIDE DEF Good, live, done
  <2> QED BY <1>6, <1>10, <2>1, <2>2, <2>3
<1>11. CASE ready /\ candles # <<>> /\ ~a.waiting
  <2>1. CASE a.anchored
    <3>1. Viewport(a, candles, ready) = a
      BY <1>11, <2>1 DEF Viewport
    <3> HIDE DEF Good
    <3> QED BY <1>1, <1>11, <3>1
  <2>2. CASE ~a.anchored
    <3>1. Viewport(a, candles, ready) = ScrollTo(live, LiveOffset)
      BY <1>11, <2>2 DEF Viewport
    <3>2. r = 0
      BY <2>2 DEF Keeps
    <3> HIDE DEF Good, live, done
    <3> QED BY <1>5, <1>6, <1>11, <3>1, <3>2
  <2> QED BY <2>1, <2>2
<1> QED BY <1>7, <1>8, <1>9, <1>10, <1>11

\* b is a with the candles drawn.
Redrawn(a, b, candles, away) ==
    /\ Truthful(b, away) /\ InView(b) /\ b.drawn = candles
    /\ b.generation = a.generation /\ b.anchored = a.anchored /\ b.waiting = a.waiting
    /\ b.wasFollowing = a.wasFollowing /\ b.offset = a.offset /\ b.anchor = a.anchor

\* To stop following leaves a view in order.
LEMMA Followed ==
    ASSUME NEW away \in BOOLEAN, NEW a, Truthful(a, away), InView(a), NEW keep \in BOOLEAN, keep => a.following
    PROVE  LET b == [a EXCEPT !.following = keep]
           IN  /\ Redrawn(a, b, a.drawn, away) /\ b.right = a.right /\ b.prev = a.prev /\ b.following = keep
<1> DEFINE b == [a EXCEPT !.following = keep]
<1>1. b \in Adapter
  BY DEF Truthful, Adapter
<1>2. /\ b.drawn = a.drawn /\ b.prev = a.prev /\ b.generation = a.generation
      /\ b.following = keep /\ b.anchored = a.anchored /\ b.waiting = a.waiting
      /\ b.wasFollowing = a.wasFollowing /\ b.offset = a.offset /\ b.anchor = a.anchor
      /\ b.right = a.right
  BY DEF Truthful, Adapter
<1> HIDE DEF b
<1>3. Truthful(b, away) /\ InView(b)
  BY <1>1, <1>2 DEF Truthful, InView
<1> QED BY <1>2, <1>3 DEF b, Redrawn

\* One more candle: nothing moves among the others.
LEMMA Longer ==
    ASSUME NEW s \in Seq(Candle), NEW candles \in Seq(Candle), Rising(candles),
           Len(candles) = Len(s) + 1, IsPrefix(s, candles)
    PROVE  /\ Append(s, Last(candles)) = candles
           /\ \A r \in Nat : IndexOf(s, r) # 0 => IndexOf(candles, r) = IndexOf(s, r)
<1> DEFINE n == Len(s)
<1>1. n \in Nat /\ Len(candles) = n + 1
  OBVIOUS
<1>2. \A i \in 1 .. n : s[i] = candles[i]
  <2>1. SubSeq(s, 1, n) = SubSeq(candles, 1, n)
    BY DEF IsPrefix
  <2>2. \A i \in 1 .. n : SubSeq(s, 1, n)[i] = s[i] /\ SubSeq(candles, 1, n)[i] = candles[i]
    BY <1>1
  <2> QED BY <2>1, <2>2
<1>3. Append(s, Last(candles)) = candles
  <2>1. candles[n + 1] \in Candle /\ Last(candles) = candles[n + 1]
    BY <1>1 DEF Last
  <2> DEFINE t == Append(s, Last(candles))
  <2>2. t \in Seq(Candle) /\ Len(t) = n + 1
    BY <2>1
  <2>3. \A i \in 1 .. n + 1 : t[i] = IF i = n + 1 THEN Last(candles) ELSE s[i]
    BY <1>1, <2>1
  <2> HIDE DEF t
  <2>4. \A i \in 1 .. n + 1 : t[i] = candles[i]
    BY <1>1, <1>2, <2>1, <2>3
  <2> QED BY <1>1, <2>2, <2>4, SeqEqual DEF t
<1>4. ASSUME NEW r \in Nat, IndexOf(s, r) # 0 PROVE IndexOf(candles, r) = IndexOf(s, r)
  <2> DEFINE i == IndexOf(s, r)
             j == IndexOf(candles, r)
  <2>1. i \in 0 .. n /\ i # 0 /\ s[i].t = r
    BY <1>4, IndexOfIs
  <2>2. /\ j \in 0 .. Len(candles) /\ (j # 0 => candles[j].t = r)
        /\ (j = 0 => \A k \in 1 .. Len(candles) : candles[k].t # r)
    BY IndexOfIs
  <2> HIDE DEF i, j
  <2>3. i \in 1 .. Len(candles) /\ candles[i].t = r
    BY <1>1, <1>2, <2>1
  <2>4. j \in 1 .. Len(candles) /\ candles[j].t = r
    BY <1>1, <2>2, <2>3
  <2> QED BY <2>3, <2>4, TimesDiffer DEF i, j
<1> QED BY <1>3, <1>4

\* One candle more: it is drawn, and the view stays on its candle.
LEMMA Appends ==
    ASSUME NEW away \in BOOLEAN, NEW a, Truthful(a, away), InView(a), a.prev = a.drawn, a.drawn # <<>>,
           NEW candles \in Seq(Candle), Rising(candles),
           Len(candles) = Len(a.prev) + 1, IsPrefix(a.prev, candles),
           NEW r \in Nat, Reads(a, r)
    PROVE  /\ Redrawn(a, AppendCandle(a, candles), candles, away)
           /\ Keeps(AppendCandle(a, candles), r)
<1> DEFINE to == IF a.seen # nowhere THEN a.seen ELSE To(a)
           keep == a.following /\ ~Historical(a, to)
           a1 == [a EXCEPT !.following = keep]
           b == Added(a1, Last(candles))
           right == IF a1.right < 0 THEN a1.right - 1 ELSE a1.right
           c == [a1 EXCEPT !.drawn = Append(@, Last(candles)), !.right = right]
<1>0. a.drawn \in Seq(Candle) /\ a.right \in Int /\ a.following \in BOOLEAN
  BY DEF Truthful, Adapter
<1>1. AppendCandle(a, candles) = IF keep THEN ScrollTo(b, a.right) ELSE b
  BY DEF AppendCandle
<1>2. b = IF a1.right < 0 THEN c ELSE Report(c)
  BY DEF Added
<1>3. /\ Append(a.drawn, Last(candles)) = candles
      /\ \A q \in Nat : IndexOf(a.drawn, q) # 0 => IndexOf(candles, q) = IndexOf(a.drawn, q)
  BY <1>0, Longer
<1>4. keep \in BOOLEAN /\ (keep => a.following /\ a.right >= 0)
  BY <1>0 DEF Historical
<1> HIDE DEF keep
<1>5. Redrawn(a, a1, a.drawn, away) /\ a1.right = a.right /\ a1.prev = a.prev /\ a1.following = keep
  BY <1>4, Followed
<1> HIDE DEF a1
<1>6. right \in Int /\ right = IF a.right < 0 THEN a.right - 1 ELSE a.right
  BY <1>0, <1>5
<1> HIDE DEF right
<1>7. c \in Adapter
  <2>1. a1 \in Adapter /\ Append(a1.drawn, Last(candles)) = candles
    BY <1>3, <1>5 DEF Redrawn, Truthful
  <2> QED BY <1>6, <2>1 DEF Adapter
<1>8. /\ c.drawn = candles /\ c.prev = a.prev /\ c.right = right /\ c.following = keep
      /\ c.generation = a.generation /\ c.anchored = a.anchored /\ c.waiting = a.waiting
      /\ c.wasFollowing = a.wasFollowing /\ c.offset = a.offset /\ c.anchor = a.anchor
  <2>1. a1 \in Adapter /\ Append(a1.drawn, Last(candles)) = candles
    BY <1>3, <1>5 DEF Redrawn, Truthful
  <2>2. /\ c.drawn = candles /\ c.prev = a1.prev /\ c.right = right /\ c.following = a1.following
        /\ c.generation = a1.generation /\ c.anchored = a1.anchored /\ c.waiting = a1.waiting
        /\ c.wasFollowing = a1.wasFollowing /\ c.offset = a1.offset /\ c.anchor = a1.anchor
    BY <2>1 DEF Adapter
  <2> QED BY <1>5, <2>2 DEF Redrawn
<1> HIDE DEF c
<1>9. Len(candles) = Len(a.drawn) + 1 /\ Len(a.drawn) \in Nat /\ Len(a.drawn) >= 1
  BY <1>0
<1>10. keep => right >= 0
  BY <1>0, <1>4, <1>6
<1>11. Redrawn(a, c, candles, away)
  <2>1. Truthful(c, away)
    <3>1. ~(keep /\ right < 0)
      BY <1>6, <1>10
    <3> QED BY <1>7, <1>8, <3>1 DEF Truthful
  <2>2. InView(c)
    <3>1. a.right >= 1 - Len(a.drawn)
      BY DEF InView
    <3> QED BY <1>0, <1>6, <1>8, <1>9, <3>1 DEF InView
  <2> QED BY <1>8, <2>1, <2>2 DEF Redrawn
<1>12. Redrawn(a, b, candles, away) /\ b.right = right
  <2>1. CASE a1.right < 0
    BY <1>2, <1>8, <1>11, <2>1
  <2>2. CASE ~(a1.right < 0)
    <3>1. /\ Report(c) \in Adapter /\ SameBut(c, Report(c)) /\ Report(c).right = c.right
      BY <1>7, Reports
    <3>2. right >= 0
      BY <1>0, <1>5, <1>6, <2>2
    <3>4. ~(Report(c).right < 0)
      BY <1>6, <1>8, <3>1, <3>2
    <3>3. Truthful(Report(c), away) /\ InView(Report(c))
      BY <1>8, <1>11, <3>1, <3>4 DEF Redrawn, Truthful, InView, SameBut
    <3> QED BY <1>2, <1>8, <2>2, <3>1, <3>3 DEF Redrawn, SameBut
  <2> QED BY <2>1, <2>2
<1> HIDE DEF b
<1>13. AppendCandle(a, candles) = b
  <2>1. keep => a.right = b.right
    BY <1>0, <1>4, <1>6, <1>12
  <2> QED BY <1>1, <2>1 DEF ScrollTo, MovedTo
<1>14. Keeps(b, r)
  <2> SUFFICES ASSUME r # 0 PROVE Keeps(b, r)
    BY DEF Keeps
  <2>1. /\ a.anchored
        /\ a.waiting => ~a.wasFollowing /\ a.anchor.t = r /\ a.anchor.index = a.anchor.to
    BY DEF Reads, Keeps
  <2>2. ~a.waiting => /\ IndexOf(candles, r) = IndexOf(a.drawn, r)
                      /\ a.right = IndexOf(a.drawn, r) - Len(a.drawn) /\ a.right < 0
    BY <1>3 DEF Reads, Keeps
  <2>3. ~a.waiting => /\ right = IndexOf(candles, r) - Len(candles) /\ right < 0
    <3>1. IndexOf(a.drawn, r) \in Int
      BY <1>0, IndexOfIs
    <3> QED BY <1>0, <1>6, <1>9, <2>2, <3>1
  <2>4. /\ b.drawn = candles /\ b.waiting = a.waiting /\ b.anchored = a.anchored
        /\ b.wasFollowing = a.wasFollowing /\ b.anchor = a.anchor
    BY <1>12, Zenon DEF Redrawn
  <2>5. b.right = right
    BY <1>12
  <2> QED BY <2>1, <2>3, <2>4, <2>5 DEF Keeps
<1> QED BY <1>12, <1>13, <1>14

\* One candle changes, at the same time.
LEMMA Updates ==
    ASSUME NEW away \in BOOLEAN, NEW a, Truthful(a, away), InView(a), a.prev = a.drawn, Rising(a.drawn),
           NEW candles \in Seq(Candle), Rising(candles), Len(candles) = Len(a.prev),
           NEW i \in 1 .. Len(a.prev), ChangedIndexes(a.prev, candles) = {i},
           candles[i].t = a.prev[i].t,
           NEW r \in Nat, Reads(a, r)
    PROVE  /\ Redrawn(a, UpdateCandle(a, candles[i]), candles, away)
           /\ Keeps(UpdateCandle(a, candles[i]), r)
<1> DEFINE s == a.drawn
           c == candles[i]
           u == [k \in DOMAIN s |-> IF s[k].t = c.t THEN c ELSE s[k]]
           b == [a EXCEPT !.drawn = u]
<1>1. s \in Seq(Candle) /\ Len(s) = Len(candles) /\ Len(s) \in Nat /\ DOMAIN s = 1 .. Len(s)
  BY DEF Truthful, Adapter
<1>2. UpdateCandle(a, c) = b
  BY DEF UpdateCandle, Truthful, Adapter
<1>3. \A k \in 1 .. Len(s) : k # i => s[k] = candles[k]
  BY <1>1 DEF ChangedIndexes
<1>4. \A k \in 1 .. Len(s) : u[k] = candles[k]
  <2> TAKE k \in 1 .. Len(s)
  <2>1. s[k].t = c.t <=> k = i
    BY <1>1, TimesDiffer
  <2> QED BY <1>1, <1>3, <2>1
<1>5. u = candles
  <2>1. u = [k \in 1 .. Len(s) |-> candles[k]]
    BY <1>1, <1>4
  <2>2. candles = [k \in 1 .. Len(s) |-> candles[k]]
    BY <1>1
  <2> QED BY <2>1, <2>2
<1>6. \A k \in 1 .. Len(s) : s[k].t = candles[k].t
  BY <1>3
<1> HIDE DEF u
<1>7. /\ b \in Adapter /\ b.drawn = candles /\ b.right = a.right /\ b.following = a.following
      /\ b.generation = a.generation /\ b.anchored = a.anchored /\ b.waiting = a.waiting
      /\ b.wasFollowing = a.wasFollowing /\ b.offset = a.offset /\ b.anchor = a.anchor
  BY <1>5 DEF Truthful, Adapter
<1> HIDE DEF b
<1>8. Truthful(b, away)
  BY <1>7 DEF Truthful
<1>9. InView(b)
  <2>1. candles # <<>> => s # <<>>
    BY <1>1
  <2> QED BY <1>1, <1>7, <2>1 DEF InView
<1>10. IndexOf(s, r) # 0 => IndexOf(candles, r) = IndexOf(s, r)
  <2> SUFFICES ASSUME IndexOf(s, r) # 0 PROVE IndexOf(candles, r) = IndexOf(s, r)
    OBVIOUS
  <2> DEFINE k == IndexOf(s, r)
             j == IndexOf(candles, r)
  <2>1. k \in 0 .. Len(s) /\ k # 0 /\ s[k].t = r
    BY <1>1, IndexOfIs
  <2>2. /\ j \in 0 .. Len(candles) /\ (j # 0 => candles[j].t = r)
        /\ (j = 0 => \A m \in 1 .. Len(candles) : candles[m].t # r)
    BY IndexOfIs
  <2> HIDE DEF k, j
  <2>3. k \in 1 .. Len(candles) /\ candles[k].t = r
    BY <1>1, <1>6, <2>1
  <2>4. j \in 1 .. Len(candles) /\ candles[j].t = r
    BY <1>1, <2>2, <2>3
  <2> QED BY <2>3, <2>4, TimesDiffer DEF k, j
<1>11. Keeps(b, r)
  <2>1. r # 0 /\ ~a.waiting => IndexOf(s, r) # 0
    BY DEF Reads
  <2> HIDE DEF s
  <2>2. a.drawn = s
    BY DEF s
  <2> QED BY <1>1, <1>7, <1>10, <2>1, <2>2 DEF Keeps, Reads
<1> QED BY <1>2, <1>7, <1>8, <1>9, <1>11 DEF Redrawn

\* All candles are replaced; the view stays with the candle at its edge.
LEMMA Replaces ==
    ASSUME NEW away \in BOOLEAN, NEW a, Truthful(a, away), InView(a), a.prev = a.drawn, a.drawn # <<>>,
           NEW candles \in Seq(Candle), Rising(candles), candles # <<>>,
           NEW rest \in Int, NEW r \in Nat, Reads(a, r),
           r # 0 => \E i \in 1 .. Len(candles) : candles[i].t > r
    PROVE  /\ Redrawn(a, ReplaceData(a, candles, rest), candles, away)
           /\ Keeps(ReplaceData(a, candles, rest), r)
<1> DEFINE s == a.drawn
           j == IndexOf(candles, r)
           to == IF a.waiting THEN nowhere ELSE To(a)
           keep == a.following /\ ~Historical(a, to)
           a1 == [a EXCEPT !.following = keep]
           b == SetData(a1, candles, rest)
           right == AtLeast(candles, RangeFrom(AnchorAt(a.prev, to), candles) - Len(candles))
           c == [b EXCEPT !.right = right]
<1>0. s \in Seq(Candle) /\ a.right \in Int /\ a.following \in BOOLEAN
  BY DEF Truthful, Adapter
<1>1. ReplaceData(a, candles, rest) = IF keep \/ to = nowhere THEN b ELSE c
  BY DEF ReplaceData
<1>2. keep \in BOOLEAN /\ (keep => a.following /\ a.right >= 0)
  BY <1>0 DEF Historical
<1>3. to \in Int
  BY ToType DEF Truthful, nowhere
<1>4. a.waiting => to = nowhere
  OBVIOUS
<1>5. r # 0 /\ ~a.waiting => ~keep /\ to # nowhere /\ to \in 1 .. Len(s) /\ s[to].t = r
  <2> SUFFICES ASSUME r # 0, ~a.waiting
               PROVE  ~keep /\ to # nowhere /\ to \in 1 .. Len(s) /\ s[to].t = r
    OBVIOUS
  <2>1. /\ IndexOf(s, r) # 0 /\ a.right = IndexOf(s, r) - Len(s) /\ a.right < 0
    BY DEF Reads, Keeps
  <2>2. IndexOf(s, r) \in 0 .. Len(s) /\ s[IndexOf(s, r)].t = r
    BY <1>0, <2>1, IndexOfIs
  <2>3. to = IndexOf(s, r)
    BY <1>0, <2>1, <2>2 DEF To
  <2>4. ~keep
    BY <1>0, <1>2, <2>1
  <2> QED BY <1>0, <2>1, <2>2, <2>3, <2>4 DEF nowhere
<1>6. right \in Int /\ right >= 1 - Len(candles)
  <2>1. AnchorAt(a.prev, to) \in Anchor
    BY <1>0, <1>3, AnchorIs
  <2> DEFINE time == AnchorAt(a.prev, to).t
  <2>2. time \in Nat /\ Len(candles) \in Nat
    BY <2>1 DEF Anchor
  <2>3. IndexOf(candles, AnchorAt(a.prev, to).t) \in 0 .. Len(candles) /\ Len(candles) \in Nat
    <3> HIDE DEF time
    <3>1. IndexOf(candles, time) \in 0 .. Len(candles)
      BY <2>2, IndexOfIs
    <3> QED BY <2>2, <3>1 DEF time
  <2>4. RangeFrom(AnchorAt(a.prev, to), candles) \in Int
    BY <2>1, <2>3 DEF RangeFrom, Anchor
  <2>5. RangeFrom(AnchorAt(a.prev, to), candles) - Len(candles) \in Int
    BY <2>3, <2>4
  <2> QED BY <2>5, AtLeastIs
<1>7. r # 0 /\ ~a.waiting /\ j # 0 => right = j - Len(candles) /\ right < 0
  <2> SUFFICES ASSUME r # 0, ~a.waiting, j # 0 PROVE right = j - Len(candles) /\ right < 0
    OBVIOUS
  <2>1. j \in 1 .. Len(candles) /\ j < Len(candles) /\ Len(candles) \in Nat
    BY NotLast
  <2>2. AnchorAt(a.prev, to).t = r /\ AnchorAt(a.prev, to).index = to /\ AnchorAt(a.prev, to).to = to
    BY <1>0, <1>3, <1>5, AnchorIs
  <2>3. RangeFrom(AnchorAt(a.prev, to), candles) = to + j - to
    BY <2>2 DEF RangeFrom
  <2> HIDE DEF to, j
  <2>4. RangeFrom(AnchorAt(a.prev, to), candles) - Len(candles) = j - Len(candles)
    BY <1>3, <2>1, <2>3
  <2>5. j - Len(candles) \in Int /\ j - Len(candles) >= 1 - Len(candles) /\ j - Len(candles) < 0
    BY <2>1
  <2>6. AtLeast(candles, j - Len(candles)) = j - Len(candles)
    BY <2>5, AtLeastIs
  <2> QED BY <2>4, <2>5, <2>6
<1> HIDE DEF keep, to, right, j
<1>8. Redrawn(a, a1, a.drawn, away) /\ a1.right = a.right /\ a1.prev = a.prev /\ a1.following = keep
  BY <1>2, Followed
<1> HIDE DEF a1
<1>9. Redrawn(a, b, candles, away) /\ b.following = keep
  <2>1. Truthful(a1, away)
    BY <1>8 DEF Redrawn
  <2>2. /\ Truthful(b, away) /\ InView(b)
        /\ b.drawn = candles /\ b.prev = a1.prev /\ b.generation = a1.generation
        /\ b.following = a1.following /\ b.anchored = a1.anchored /\ b.waiting = a1.waiting
        /\ b.wasFollowing = a1.wasFollowing /\ b.offset = a1.offset /\ b.anchor = a1.anchor
    BY <2>1, DataSet
  <2> QED BY <1>8, <2>2 DEF Redrawn
<1> HIDE DEF b
<1>10. ~keep => Redrawn(a, c, candles, away) /\ c.right = right
  <2> SUFFICES ASSUME ~keep PROVE Redrawn(a, c, candles, away) /\ c.right = right
    OBVIOUS
  <2>1. b \in Adapter
    BY <1>9 DEF Redrawn, Truthful
  <2>2. /\ c \in Adapter /\ c.drawn = b.drawn /\ c.right = right /\ c.following = b.following
        /\ c.generation = b.generation /\ c.anchored = b.anchored /\ c.waiting = b.waiting
        /\ c.wasFollowing = b.wasFollowing /\ c.offset = b.offset /\ c.anchor = b.anchor
    BY <1>6, <2>1 DEF Adapter
  <2> HIDE DEF c
  <2>3. Truthful(c, away) /\ InView(c)
    BY <1>6, <1>9, <2>2 DEF Redrawn, Truthful, InView
  <2> QED BY <1>9, <2>2, <2>3 DEF Redrawn
<1> HIDE DEF c
<1> DEFINE d == IF keep \/ to = nowhere THEN b ELSE c
<1>11. Redrawn(a, d, candles, away)
  BY <1>9, <1>10
<1>12. r # 0 /\ ~a.waiting => d.right = right
  BY <1>5, <1>10
<1> HIDE DEF d
<1>13. Keeps(d, r)
  <2>1. /\ d.drawn = candles /\ d.waiting = a.waiting /\ d.anchored = a.anchored
        /\ d.wasFollowing = a.wasFollowing /\ d.anchor = a.anchor
    BY <1>11 DEF Redrawn
  <2> QED BY <1>7, <1>12, <2>1 DEF Keeps, Reads, j
<1> QED BY <1>1, <1>11, <1>13 DEF d

\* Where a single candle differs between lists of one length that end at one time,
\* its time is the same: then an update in place is enough.
InPlace(s, candles) ==
    s # <<>> /\ Len(candles) = Len(s) /\ Last(candles).t = Last(s).t =>
        \A i \in 1 .. Len(s) : ChangedIndexes(s, candles) = {i} => candles[i].t = s[i].t

\* What setCandles does to an adapter in order.
SetRight(a, candles, loading, r, b, away) ==
    /\ Truthful(b, away) /\ InView(b) /\ b.prev = candles /\ b.drawn = candles
    /\ b.generation = a.generation
    /\ loading => b.waiting
    /\ Reads(b, IF b.waiting \/ IndexOf(candles, r) # 0 THEN r ELSE 0)

\* Whichever redraw is chosen, the candles are drawn and the place is kept.
LEMMA Changes ==
    ASSUME NEW away \in BOOLEAN, NEW a, Truthful(a, away), InView(a), a.prev = a.drawn, a.drawn # <<>>, Rising(a.drawn),
           NEW candles \in Seq(Candle), Rising(candles), candles # <<>>, InPlace(a.prev, candles),
           NEW rest \in Int, NEW r \in Nat, Reads(a, r),
           r # 0 => \E i \in 1 .. Len(candles) : candles[i].t > r
    PROVE  /\ Redrawn(a, Changed(a, candles, rest), candles, away)
           /\ Keeps(Changed(a, candles, rest), r)
<1> DEFINE n == Len(a.prev)
           One(i) == ChangedIndexes(a.prev, candles) = {i}
           appended == Len(candles) = n + 1 /\ IsPrefix(a.prev, candles)
           updated == /\ Len(candles) = n /\ Last(candles).t = Last(a.prev).t
                      /\ \E i \in 1 .. n : One(i)
<1>0. n \in Nat
  BY DEF Truthful, Adapter
<1>1. CASE appended
  <2>1. ~updated
    BY <1>0, <1>1
  <2>2. Changed(a, candles, rest) = AppendCandle(a, candles)
    BY <1>1, <2>1 DEF Changed
  <2> QED BY <1>1, <2>2, Appends
<1>2. CASE updated
  <2>1. ~appended
    BY <1>0, <1>2
  <2> DEFINE i == CHOOSE k \in 1 .. n : One(k)
  <2>2. i \in 1 .. n /\ One(i)
    BY <1>2
  <2>3. Changed(a, candles, rest) = UpdateCandle(a, candles[i])
    BY <1>2, <2>1 DEF Changed
  <2> HIDE DEF i
  <2>4. candles[i].t = a.prev[i].t
    BY <1>2, <2>2 DEF InPlace
  <2>5. Len(candles) = Len(a.prev)
    BY <1>2
  <2> QED BY <2>2, <2>3, <2>4, <2>5, Updates
<1>3. CASE ~appended /\ ~updated
  <2>1. Changed(a, candles, rest) = ReplaceData(a, candles, rest)
    BY <1>3 DEF Changed
  <2> QED BY <2>1, Replaces
<1> QED BY <1>1, <1>2, <1>3

LEMMA Previous ==
    ASSUME NEW away \in BOOLEAN, NEW a, NEW b, NEW candles \in Seq(Candle), Redrawn(a, b, candles, away), NEW r \in Nat, Keeps(b, r)
    PROVE  LET c == [b EXCEPT !.prev = candles]
           IN  Redrawn(a, c, candles, away) /\ Keeps(c, r) /\ c.prev = candles
<1> DEFINE c == [b EXCEPT !.prev = candles]
<1>1. b \in Adapter
  BY DEF Redrawn, Truthful
<1>2. /\ c \in Adapter /\ c.prev = candles /\ c.drawn = b.drawn /\ c.right = b.right
      /\ c.following = b.following
      /\ c.generation = b.generation /\ c.anchored = b.anchored /\ c.waiting = b.waiting
      /\ c.wasFollowing = b.wasFollowing /\ c.offset = b.offset /\ c.anchor = b.anchor
  BY <1>1 DEF Adapter
<1> HIDE DEF c
<1>3. Truthful(c, away) /\ InView(c)
  BY <1>2 DEF Redrawn, Truthful, InView
<1> QED BY <1>2, <1>3 DEF Redrawn, Keeps, c

\* setCandles as a whole, between two histories, during one, and when it is there.
LEMMA CandlesSet ==
    ASSUME NEW away \in BOOLEAN, NEW a, Truthful(a, away), InView(a), a.prev = a.drawn, Rising(a.drawn),
           NEW candles \in Seq(Candle), Rising(candles), InPlace(a.prev, candles),
           NEW loading \in BOOLEAN, NEW ready \in BOOLEAN, ~(loading /\ ready),
           NEW rest \in Int, NEW r \in Nat, Reads(a, r),
           r # 0 /\ candles # <<>> => \E i \in 1 .. Len(candles) : candles[i].t > r
    PROVE  SetRight(a, candles, loading, r, SetCandles(a, candles, loading, ready, rest), away)
<1> DEFINE b == IF loading /\ ~a.waiting THEN BeginRecovery(a) ELSE a
<1>1. /\ Truthful(b, away) /\ InView(b) /\ Reads(b, r)
      /\ b.prev = a.prev /\ b.drawn = a.drawn /\ b.generation = a.generation
      /\ loading => b.waiting
  <2>1. CASE loading /\ ~a.waiting
    BY <2>1, RecoveryBegins
  <2>2. CASE ~(loading /\ ~a.waiting)
    BY <2>2
  <2> QED BY <2>1, <2>2
<1> DEFINE result == SetCandles(a, candles, loading, ready, rest)
<1>2. CASE b.prev = candles
  <2>1. result = Viewport(b, candles, ready)
    BY <1>2 DEF SetCandles
  <2> HIDE DEF b
  <2>2. Keeps(b, r) /\ b.drawn = candles /\ b.prev = candles /\ Truthful(b, away) /\ InView(b)
    BY <1>1, <1>2 DEF Reads
  <2>3. Restored(b, candles, ready, r, Viewport(b, candles, ready), away)
    BY <2>2, ViewRestored
  <2>4. SetRight(a, candles, loading, r, Viewport(b, candles, ready), away)
    BY <1>1, <2>3 DEF SetRight, Restored
  <2> QED BY <2>1, <2>4
<1> DEFINE After(d) == Redrawn(b, d, candles, away) /\ Keeps(d, r)
<1>3. ASSUME NEW d, After(d)
      PROVE  SetRight(a, candles, loading, r, Viewport([d EXCEPT !.prev = candles], candles, ready), away)
  <2> DEFINE c == [d EXCEPT !.prev = candles]
  <2>1. Redrawn(b, c, candles, away) /\ Keeps(c, r) /\ c.prev = candles
    <3> HIDE DEF b
    <3>1. Redrawn(b, d, candles, away) /\ Keeps(d, r)
      BY <1>3
    <3> QED BY <3>1, Previous
  <2> HIDE DEF b, c
  <2>2. Truthful(c, away) /\ InView(c) /\ c.drawn = candles
    BY <2>1 DEF Redrawn
  <2>3. Restored(c, candles, ready, r, Viewport(c, candles, ready), away)
    BY <2>1, <2>2, ViewRestored
  <2>4. c.generation = a.generation /\ (loading => c.waiting)
    BY <1>1, <2>1 DEF Redrawn
  <2>5. SetRight(a, candles, loading, r, Viewport(c, candles, ready), away)
    BY <2>3, <2>4 DEF SetRight, Restored
  <2> QED BY <2>5 DEF c
<1>4. CASE b.prev # candles /\ (candles = <<>> \/ b.prev = <<>> \/ loading)
  <2> DEFINE d == SetData(b, candles, rest)
  <2>1. result = Viewport([d EXCEPT !.prev = candles], candles, ready)
    BY <1>4 DEF SetCandles
  <2> HIDE DEF b
  <2>2. /\ Truthful(d, away) /\ InView(d)
        /\ d.drawn = candles /\ d.prev = b.prev /\ d.generation = b.generation
        /\ d.following = b.following /\ d.anchored = b.anchored /\ d.waiting = b.waiting
        /\ d.wasFollowing = b.wasFollowing /\ d.offset = b.offset /\ d.anchor = b.anchor
    BY <1>1, DataSet
  <2> HIDE DEF d
  <2>3. r # 0 /\ ~b.waiting => IndexOf(candles, r) = 0
    <3> SUFFICES ASSUME r # 0, ~b.waiting PROVE IndexOf(candles, r) = 0
      OBVIOUS
    <3>1. IndexOf(b.drawn, r) # 0 /\ b.drawn \in Seq(Candle)
      BY <1>1 DEF Reads, Truthful, Adapter
    <3>2. IndexOf(b.drawn, r) \in 0 .. Len(b.drawn)
      BY <3>1, IndexOfIs
    <3>3. b.drawn # <<>>
      BY <3>1, <3>2
    <3>4. candles = <<>>
      BY <1>1, <1>4, <3>3
    <3>5. IndexOf(candles, r) \in 0 .. Len(candles) /\ Len(candles) = 0
      BY <3>4, IndexOfIs
    <3> QED BY <3>5
  <2>4. Keeps(d, r)
    BY <1>1, <2>2, <2>3 DEF Keeps, Reads
  <2>5. After(d)
    BY <2>2, <2>4 DEF Redrawn
  <2> HIDE DEF After
  <2> QED BY <1>3, <2>1, <2>5
<1>5. CASE b.prev # candles /\ ~(candles = <<>> \/ b.prev = <<>> \/ loading)
  <2> DEFINE d == Changed(b, candles, rest)
  <2>1. result = Viewport([d EXCEPT !.prev = candles], candles, ready)
    BY <1>5 DEF SetCandles
  <2> HIDE DEF b
  <2>2. After(d)
    BY <1>1, <1>5, Changes
  <2> HIDE DEF d, After
  <2> QED BY <1>3, <2>1, <2>2
<1> QED BY <1>2, <1>4, <1>5

-----------------------------------------------------------------------------
(* Times held: the newest of a set, and its order. *)

Above(S, t) == {u \in S : u > t}

\* The times a trim keeps
Top(S) == {u \in S : Cardinality(Above(S, u)) < MaxCandles}

\* No time is missing.
Contiguous(S) == \A t \in S, u \in S : t .. u \subseteq S

LEMMA NumbersContiguous ==
    ASSUME NEW a \in Int, NEW b \in Int
    PROVE  Contiguous(a .. b)
<1> SUFFICES ASSUME NEW t \in a .. b, NEW u \in a .. b, NEW v \in t .. u PROVE v \in a .. b
  BY DEF Contiguous
<1>1. t \in Int /\ u \in Int /\ v \in Int /\ t <= v /\ v <= u
  OBVIOUS
<1> QED BY <1>1

LEMMA Limits ==
    /\ MaxCandles \in Nat /\ HistoryLimit \in Nat \ {0} /\ HistoryLimit < MaxCandles
    /\ Warm \in Nat \ {0}
  BY ChartAssumption

LEMMA BoundedSets ==
    ASSUME NEW m \in Nat, NEW S \in SUBSET Nat, \A u \in S : u <= m
    PROVE  /\ IsFiniteSet(S) /\ Cardinality(S) \in Nat
           /\ \A R \in SUBSET S : /\ IsFiniteSet(R) /\ Cardinality(R) \in Nat
                                 /\ Cardinality(R) <= Cardinality(S)
<1>1. IsFiniteSet(0 .. m) /\ S \in SUBSET (0 .. m)
  BY FS_Interval
<1>2. IsFiniteSet(S)
  BY <1>1, FS_Subset
<1>3. \A R \in SUBSET S : IsFiniteSet(R) /\ Cardinality(R) <= Cardinality(S)
  BY <1>2, FS_Subset
<1> QED BY <1>2, <1>3, FS_CardinalityType

LEMMA Greatest ==
    ASSUME NEW m \in Nat, NEW S \in SUBSET Nat, \A u \in S : u <= m, S # {}
    PROVE  \E g \in S : \A u \in S : u <= g
<1> DEFINE T == {m - u : u \in S}
<1>5. \A u \in S : u \in Int /\ u <= m /\ m - u \in Nat
  OBVIOUS
<1>1. T \in SUBSET Nat /\ T # {}
  BY <1>5
<1>2. PICK n \in T : \A k \in T : n <= k
  BY <1>1, LeastNumber
<1>3. PICK g \in S : n = m - g
  BY <1>2
<1>4. \A u \in S : m - g <= m - u
  BY <1>2, <1>3
<1> QED BY <1>4, <1>5

\* A trim leaves out the oldest times, and none as long as there is room.
LEMMA TopIs ==
    ASSUME NEW m \in Nat, NEW S \in SUBSET Nat, \A u \in S : u <= m
    PROVE  /\ Top(S) \in SUBSET S
           /\ \A u \in Top(S) : \A v \in S : v >= u => v \in Top(S)
           /\ \A u \in S \ Top(S) : \A v \in Top(S) : u < v
           /\ \A u \in S : m - u < MaxCandles => u \in Top(S)
           /\ \A g \in S : (\A u \in S : u <= g) => g \in Top(S)
           /\ S # {} => Top(S) # {}
           /\ \A n \in 0 .. MaxCandles : Cardinality(S) >= n => Cardinality(Top(S)) >= n
           /\ Contiguous(S) => Contiguous(Top(S))
<1>0. \A u \in S : u \in Nat /\ u <= m
  OBVIOUS
<1>1. Top(S) \in SUBSET S
  BY DEF Top
<1>10. \A u \in Top(S) : u \in S /\ u \in Nat /\ u <= m
  BY <1>0, <1>1
<1>2. \A u \in S : /\ Above(S, u) \in SUBSET S /\ IsFiniteSet(Above(S, u))
                   /\ Cardinality(Above(S, u)) \in Nat
  BY BoundedSets DEF Above
<1>3. \A u \in Top(S) : \A v \in S : v >= u => v \in Top(S)
  <2> SUFFICES ASSUME NEW u \in Top(S), NEW v \in S, v >= u PROVE v \in Top(S)
    OBVIOUS
  <2>3. \A w \in Above(S, v) : w \in Above(S, u)
    BY <1>0, <1>10 DEF Above
  <2>1. Above(S, v) \in SUBSET Above(S, u)
    BY <2>3
  <2>2. Cardinality(Above(S, v)) <= Cardinality(Above(S, u))
    BY <1>1, <1>2, <2>1, FS_Subset
  <2> QED BY <1>1, <1>2, <2>2, Limits DEF Top
<1>4. \A u \in S \ Top(S) : \A v \in Top(S) : u < v
  <2> SUFFICES ASSUME NEW u \in S \ Top(S), NEW v \in Top(S) PROVE u < v
    OBVIOUS
  <2>1. ~(u >= v)
    BY <1>3
  <2> QED BY <1>0, <1>10, <2>1
<1>5. \A u \in S : m - u < MaxCandles => u \in Top(S)
  <2> SUFFICES ASSUME NEW u \in S, m - u < MaxCandles PROVE u \in Top(S)
    OBVIOUS
  <2>6. \A w \in Above(S, u) : w \in u + 1 .. m
    BY <1>0 DEF Above
  <2>1. Above(S, u) \in SUBSET (u + 1 .. m)
    BY <2>6
  <2>2. /\ IsFiniteSet(u + 1 .. m)
        /\ Cardinality(u + 1 .. m) = IF u + 1 > m THEN 0 ELSE m - (u + 1) + 1
    BY FS_Interval
  <2>3. Cardinality(Above(S, u)) <= Cardinality(u + 1 .. m)
    BY <2>1, <2>2, FS_Subset
  <2>4. Cardinality(u + 1 .. m) < MaxCandles
    BY <2>2, Limits
  <2>5. Cardinality(u + 1 .. m) \in Nat
    BY <2>2
  <2> QED BY <1>2, <2>3, <2>4, <2>5, Limits DEF Top
<1>6. \A g \in S : (\A u \in S : u <= g) => g \in Top(S)
  <2> SUFFICES ASSUME NEW g \in S, \A u \in S : u <= g PROVE g \in Top(S)
    OBVIOUS
  <2>3. \A w \in Above(S, g) : FALSE
    BY <1>0 DEF Above
  <2>1. Above(S, g) = {}
    BY <2>3
  <2>2. Cardinality(Above(S, g)) = 0
    BY <2>1, FS_EmptySet
  <2> QED BY <2>2, Limits DEF Top
<1>7. S # {} => Top(S) # {}
  BY <1>6, Greatest
<1>8. \A n \in 0 .. MaxCandles : Cardinality(S) >= n => Cardinality(Top(S)) >= n
  <2>1. CASE Top(S) = S
    BY <2>1
  <2>2. CASE Top(S) # S
    <3> DEFINE R == S \ Top(S)
    <3>1. R # {} /\ R \in SUBSET Nat /\ \A u \in R : u <= m
      BY <1>1, <2>2
    <3>2. PICK g \in R : \A u \in R : u <= g
      BY <3>1, Greatest
    <3>3. g \in S /\ ~(Cardinality(Above(S, g)) < MaxCandles)
      BY <3>2 DEF Top
    <3>4. Above(S, g) \in SUBSET Top(S)
      <4> SUFFICES ASSUME NEW u \in Above(S, g), u \notin Top(S) PROVE FALSE
        OBVIOUS
      <4>1. u \in R /\ u > g
        BY DEF Above
      <4> QED BY <3>1, <3>2, <4>1
    <3>5. /\ IsFiniteSet(Top(S)) /\ Cardinality(Top(S)) \in Nat
          /\ Cardinality(Above(S, g)) <= Cardinality(Top(S))
      BY <1>1, <3>4, BoundedSets, FS_Subset
    <3> HIDE DEF R
    <3> QED BY <1>2, <3>3, <3>5, Limits
  <2> QED BY <2>1, <2>2
<1>9. Contiguous(S) => Contiguous(Top(S))
  <2> SUFFICES ASSUME Contiguous(S), NEW t \in Top(S), NEW u \in Top(S), NEW v \in t .. u
               PROVE  v \in Top(S)
    BY DEF Contiguous
  <2>1. v \in S /\ v >= t
    BY <1>0, <1>10 DEF Contiguous
  <2> QED BY <1>3, <2>1
<1> QED BY <1>1, <1>3, <1>4, <1>5, <1>6, <1>7, <1>8, <1>9

\* Few times are all kept.
LEMMA TopAll ==
    ASSUME NEW m \in Nat, NEW S \in SUBSET Nat, \A u \in S : u <= m,
           Cardinality(S) <= HistoryLimit
    PROVE  Top(S) = S
<1> SUFFICES ASSUME NEW u \in S PROVE Cardinality(Above(S, u)) < MaxCandles
  BY DEF Top
<1>1. Above(S, u) \in SUBSET S
  BY DEF Above
<1>2. /\ Cardinality(S) \in Nat /\ Cardinality(Above(S, u)) \in Nat
      /\ Cardinality(Above(S, u)) <= Cardinality(S)
  BY <1>1, BoundedSets
<1> QED BY <1>2, Limits

Rank(S, t) == Cardinality({u \in S : u <= t})

\* Each time has a place in the order, and each place a time.
LEMMA Ranks ==
    ASSUME NEW m \in Nat, NEW S \in SUBSET Nat, \A u \in S : u <= m
    PROVE  /\ \A t \in S : Rank(S, t) \in 1 .. Cardinality(S)
           /\ \A t \in S, u \in S : t < u => Rank(S, t) < Rank(S, u)
           /\ \A i \in 1 .. Cardinality(S) : \E t \in S : Rank(S, t) = i
<1> DEFINE Upto(t) == {u \in S : u <= t}
           n == Cardinality(S)
<1>1. /\ IsFiniteSet(S) /\ n \in Nat
      /\ \A R \in SUBSET S : IsFiniteSet(R) /\ Cardinality(R) \in Nat /\ Cardinality(R) <= n
  BY BoundedSets
<1>2. \A t \in S : /\ Upto(t) \in SUBSET S /\ t \in Upto(t) /\ Rank(S, t) = Cardinality(Upto(t))
  BY DEF Rank
<1>3. \A t \in S : Rank(S, t) \in 1 .. n
  <2> TAKE t \in S
  <2> HIDE DEF Upto
  <2>1. IsFiniteSet(Upto(t)) /\ Cardinality(Upto(t)) \in Nat /\ Cardinality(Upto(t)) <= n
    BY <1>1, <1>2
  <2>2. Cardinality(Upto(t)) # 0
    BY <1>2, <2>1, FS_EmptySet
  <2> QED BY <1>1, <1>2, <2>1, <2>2
<1>4. ASSUME NEW t \in S, NEW u \in S, t < u PROVE Rank(S, t) < Rank(S, u)
  <2>1. \A w \in Upto(t) : w \in Upto(u) /\ w # u
    BY <1>4
  <2>2. Upto(t) \cup {u} \in SUBSET Upto(u) /\ u \notin Upto(t)
    BY <1>2, <2>1
  <2> HIDE DEF Upto
  <2>3. /\ IsFiniteSet(Upto(t)) /\ Cardinality(Upto(t)) \in Nat
        /\ IsFiniteSet(Upto(u)) /\ Cardinality(Upto(u)) \in Nat
    BY <1>1, <1>2
  <2>4. Cardinality(Upto(t) \cup {u}) = Cardinality(Upto(t)) + 1
    BY <2>2, <2>3, FS_AddElement
  <2>5. Cardinality(Upto(t) \cup {u}) <= Cardinality(Upto(u))
    BY <2>2, <2>3, FS_Subset
  <2>6. Rank(S, t) = Cardinality(Upto(t)) /\ Rank(S, u) = Cardinality(Upto(u))
    BY <1>2
  <2> QED BY <2>3, <2>4, <2>5, <2>6
<1>5. \A i \in 1 .. n : \E t \in S : Rank(S, t) = i
  <2> DEFINE f == [t \in S |-> Rank(S, t)]
  <2>1. f \in [S -> 1 .. n]
    BY <1>3
  <2>2. ASSUME NEW t \in S, NEW u \in S, t # u PROVE f[t] # f[u]
    <3>1. t < u \/ u < t
      BY <2>2
    <3>2. Rank(S, t) \in Nat /\ Rank(S, u) \in Nat
      BY <1>1, <1>3
    <3> QED BY <1>4, <3>1, <3>2
  <2>3. f \in Injection(S, 1 .. n)
    BY <2>1, <2>2 DEF Injection, IsInjective
  <2>4. IsFiniteSet(1 .. n) /\ Cardinality(1 .. n) = n
    BY <1>1, FS_Interval
  <2> HIDE DEF f
  <2>5. f \in Surjection(S, 1 .. n)
    BY <2>3, <2>4, FS_Injection
  <2>6. \A i \in 1 .. n : \E t \in S : f[t] = i
    BY <2>5 DEF Surjection
  <2> QED BY <2>6 DEF f
<1> QED BY <1>3, <1>4, <1>5

-----------------------------------------------------------------------------
(* Candles held. *)

\* Candles by time, each with its revision
History == UNION {[S -> Nat] : S \in SUBSET Nat}

Times(candles) == {candles[i].t : i \in DOMAIN candles}

LEMMA HistoryIs ==
    \A c : c \in History <=> DOMAIN c \in SUBSET Nat /\ c \in [DOMAIN c -> Nat]
  BY DEF History

\* sortedCandles
LEMMA SortedIs ==
    ASSUME NEW f, f.candles \in History, f.of \in Nat \X (Interval \cup {"none"}),
           NEW m \in Nat, \A u \in DOMAIN f.candles : u <= m
    PROVE  /\ Sorted(f) \in Seq(Candle) /\ Rising(Sorted(f))
           /\ Len(Sorted(f)) = Cardinality(DOMAIN f.candles)
           /\ Times(Sorted(f)) = DOMAIN f.candles
           /\ \A i \in DOMAIN Sorted(f) : Sorted(f)[i].of = f.of
<1> DEFINE S == DOMAIN f.candles
           n == Cardinality(S)
           Nth(i) == CHOOSE t \in S : Rank(S, t) = i
           At(t) == [of |-> f.of, t |-> t, rev |-> f.candles[t]]
           s == [i \in 1 .. n |-> At(Nth(i))]
<1>1. Sorted(f) = s
  BY DEF Sorted, Rank
<1>2. S \in SUBSET Nat /\ f.candles \in [S -> Nat]
  BY HistoryIs
<1>3. /\ \A t \in S : Rank(S, t) \in 1 .. n
      /\ \A t \in S, u \in S : t < u => Rank(S, t) < Rank(S, u)
      /\ \A i \in 1 .. n : \E t \in S : Rank(S, t) = i
  BY <1>2, Ranks
<1>4. n \in Nat
  BY <1>2, BoundedSets
<1>5. \A i \in 1 .. n : Nth(i) \in S /\ Rank(S, Nth(i)) = i
  BY <1>3
<1>6. \A t \in S : At(t) \in Candle /\ At(t).t = t /\ At(t).of = f.of
  BY <1>2 DEF Candle
<1> HIDE DEF S, n, Nth, At
<1>7. s \in Seq(Candle) /\ Len(s) = n /\ DOMAIN s = 1 .. n
  <2>1. s \in [1 .. n -> Candle]
    BY <1>5, <1>6
  <2> QED BY <1>4, <2>1
<1>8. \A i \in 1 .. n : s[i].t = Nth(i) /\ s[i].of = f.of
  BY <1>5, <1>6
<1> HIDE DEF s
<1>9. Rising(s)
  <2> SUFFICES ASSUME NEW i \in 1 .. n, NEW j \in 1 .. n, i < j PROVE Nth(i) < Nth(j)
    BY <1>7, <1>8 DEF Rising
  <2>3. /\ Nth(i) \in S /\ Rank(S, Nth(i)) = i
        /\ Nth(j) \in S /\ Rank(S, Nth(j)) = j
    BY <1>5
  <2>4. i # j
    BY <1>4
  <2>1. Nth(i) \in Nat /\ Nth(j) \in Nat /\ Nth(i) # Nth(j)
    BY <1>2, <2>3, <2>4
  <2>2. Nth(j) < Nth(i) => j < i
    BY <1>3, <2>3
  <2> QED BY <1>4, <2>1, <2>2
<1>10. Times(s) = S
  <2>1. \A t \in S : \E i \in 1 .. n : Nth(i) = t
    <3> TAKE t \in S
    <3> DEFINE i == Rank(S, t)
    <3>1. i \in 1 .. n /\ Nth(i) \in S /\ Rank(S, Nth(i)) = i
      BY <1>3, <1>5
    <3>2. t \in Nat /\ Nth(i) \in Nat
      BY <1>2, <3>1
    <3>3. ~(t < Nth(i)) /\ ~(Nth(i) < t)
      BY <1>3, <1>4, <3>1
    <3> HIDE DEF i
    <3>4. Nth(i) = t
      BY <3>2, <3>3
    <3> QED BY <3>1, <3>4
  <2>2. Times(s) = {s[i].t : i \in 1 .. n}
    BY <1>7 DEF Times
  <2>3. \A t \in Times(s) : t \in S
    BY <1>5, <1>8, <2>2
  <2>4. \A t \in S : t \in Times(s)
    BY <1>8, <2>1, <2>2
  <2> QED BY <2>3, <2>4
<1> QED BY <1>1, <1>7, <1>8, <1>9, <1>10 DEF S, n

Held(f) == DOMAIN f.candles

Mark == [last : Nat, rev : Nat]

Feed ==
    [connected : BOOLEAN, session : Nat, selected : Interval,
     of : Nat \X (Interval \cup {"none"}), candles : History,
     status : {"idle", "loading", "ready", "failed"}, since : Mark, sent : Mark]

\* Times that start with those of the first two candles of the market
Rooted(S) == 1 \in S /\ 2 \in S /\ \A u \in S : 1 <= u

\* No gap, more than a history, or the start of the market before the gap
Shape(S) == Contiguous(S) \/ Cardinality(S) > HistoryLimit \/ Rooted(S)

\* The candles held while a history loads are live ones: they start soon after it
\* was asked for, and none is missing.  Together with a history they are one run,
\* or more than the history alone, or the market is younger than a history and
\* they start with it.
FeedInOrder(f, m) ==
    /\ f \in Feed /\ m \in Mark /\ m # unsent /\ m.last >= Warm
    /\ \A u \in Held(f) : 1 <= u /\ u <= m.last
    /\ f.connected <=> f.status # "idle"
    /\ f.connected => f.of = <<f.session, f.selected>>
    /\ ~f.connected => f.sent = unsent
    /\ f.sent # unsent =>
         /\ f.sent.last \in Held(f)
         /\ \A u \in Held(f) : f.sent.last .. u \subseteq Held(f)
    /\ f.status \in {"loading", "failed"} =>
         /\ Contiguous(Held(f))
         /\ Held(f) # {} => f.sent # unsent
         /\ \A v \in Held(f) : v <= f.sent.last
    /\ f.status = "loading" =>
         /\ f.since.last >= Warm /\ f.since.last <= m.last
         /\ \A v \in Held(f) : v >= f.since.last
         /\ \/ Held(f) = {} \/ Cardinality(Held(f)) > HistoryLimit
            \/ \E v \in Held(f) : v <= f.since.last + Warm
    /\ f.status = "ready" /\ f.sent = unsent =>
         /\ Contiguous(Held(f))
         /\ \/ Cardinality(Held(f)) >= HistoryLimit
            \/ /\ f.since.last >= Warm /\ f.since.last <= m.last
               /\ 1 \in Held(f) /\ f.since.last \in Held(f)
    /\ Shape(Held(f))

\* Candles of the times A were shown since the feed last forgot its candles: one
\* that it no longer holds was trimmed, and a new one is later.
Same(f, A, loading) ==
    /\ A # {} => Held(f) # {}
    /\ \A u \in A : u \notin Held(f) =>
         /\ \A v \in Held(f) : u < v
         /\ f.status = "loading" =>
                f.sent.last - MaxCandles + 1 .. f.sent.last \subseteq Held(f)
    /\ f.status = "loading" => loading
    /\ (\A v \in Held(f) : v \notin A => \A u \in A : u < v) \/ Contiguous(A)

\* The candle of time u was shown before that: the market has reached it.
Before(f, m, u) ==
    /\ u <= m.last
    /\ f.status = "loading" => u <= f.since.last
    /\ f.sent # unsent => u <= f.sent.last
    /\ Held(f) # {} => \E v \in Held(f) : u <= v
    /\ (\A v \in Held(f) : v <= u) =>
            Contiguous(Held(f)) /\ Cardinality(Held(f)) <= HistoryLimit

Related(f, m, A, loading) == Same(f, A, loading) \/ \A u \in A : Before(f, m, u)

\* A candle later than the one the user reads is or will be there.
Place(f, m, r) ==
    /\ r < m.last
    /\ f.status = "loading" => r < f.since.last
    /\ Held(f) # {} => \E v \in Held(f) : r < v

Preserves(f, m, g, n) ==
    /\ FeedInOrder(g, n)
    /\ \A A \in SUBSET Nat, loading \in BOOLEAN :
            Related(f, m, A, loading) => Related(g, n, A, loading)
    /\ \A r \in Nat : Place(f, m, r) => Place(g, n, r)

\* The times of f, as sets and numbers.
LEMMA FeedNumbers ==
    ASSUME NEW f, NEW m, FeedInOrder(f, m)
    PROVE  /\ m.last \in Nat /\ f.since.last \in Nat /\ f.sent.last \in Nat
           /\ Held(f) \in SUBSET Nat /\ \A u \in Held(f) : u \in Nat /\ 1 <= u /\ u <= m.last
           /\ f.candles \in History
<1>1. m.last \in Nat /\ f.since.last \in Nat /\ f.sent.last \in Nat /\ f.candles \in History
  BY DEF FeedInOrder, Feed, Mark
<1>2. Held(f) \in SUBSET Nat
  BY <1>1, HistoryIs DEF Held
<1>3. \A u \in Held(f) : u \in Nat /\ 1 <= u /\ u <= m.last
  BY <1>2 DEF FeedInOrder
<1> QED BY <1>1, <1>2, <1>3

\* A history is merged.
LEMMA AfterHistory ==
    ASSUME NEW f, NEW m, FeedInOrder(f, m), f.status = "loading",
           NEW last \in Nat, f.since.last <= last, last <= m.last, last < f.since.last + HistoryLimit,
           NEW g, g \in Feed,
           Held(g) = Top(Held(f) \cup {u \in 1 .. last : u > last - HistoryLimit}),
           g.status = "ready", g.sent = f.sent, f.sent = unsent => g.since = f.since,
           g.connected, g.of = <<g.session, g.selected>>
    PROVE  Preserves(f, m, g, m)
<1> DEFINE h == Held(f)
           first == IF last > HistoryLimit THEN last - HistoryLimit + 1 ELSE 1
           H == first .. last
           D == h \cup H
           k == Held(g)
           since == f.since.last
           sent == f.sent.last
<1>1. /\ m.last \in Nat /\ since \in Nat /\ sent \in Nat /\ h \in SUBSET Nat
      /\ \A u \in h : u \in Nat /\ 1 <= u /\ u <= m.last
  BY FeedNumbers
<1>2. /\ since >= Warm /\ since <= m.last /\ m.last >= Warm /\ m \in Mark /\ m # unsent
      /\ \A v \in h : since <= v /\ v <= sent
      /\ h # {} => f.sent # unsent
      /\ Contiguous(h)
      /\ f.sent # unsent => sent \in h
  BY DEF FeedInOrder
<1>3. /\ first \in Nat /\ first >= 1 /\ first <= since /\ last \in Nat /\ since <= last
      /\ first <= last /\ last >= 1 /\ since >= 1
  BY <1>1, <1>2, Limits
<1>4. k = Top(D)
  <2>1. \A u : u \in {v \in 1 .. last : v > last - HistoryLimit} <=> u \in H
    BY <1>3, Limits
  <2>2. {v \in 1 .. last : v > last - HistoryLimit} = H
    BY <2>1
  <2> QED BY <2>2
<1> HIDE DEF first, since, sent, h, k
<1>5. /\ \A u : u \in H <=> u \in Nat /\ first <= u /\ u <= last
      /\ IsFiniteSet(H) /\ Cardinality(H) \in Nat /\ Cardinality(H) <= HistoryLimit
      /\ Cardinality(H) = HistoryLimit \/ first = 1
  <2>1. \A u : u \in H <=> u \in Nat /\ first <= u /\ u <= last
    BY <1>3
  <2>2. IsFiniteSet(H) /\ Cardinality(H) = IF first > last THEN 0 ELSE last - first + 1
    BY <1>3, FS_Interval
  <2>3. ~(first > last) /\ last - first + 1 \in Nat
    BY <1>3
  <2>4. last - first + 1 <= HistoryLimit /\ (last - first + 1 = HistoryLimit \/ first = 1)
    BY <1>3, Limits DEF first
  <2> QED BY <2>1, <2>2, <2>3, <2>4
<1>18. Contiguous(H)
  BY <1>3, NumbersContiguous
<1> HIDE DEF H
<1>6. D \in SUBSET Nat /\ \A u \in D : u \in Nat /\ 1 <= u /\ u <= m.last
  <2>1. \A u \in H : u \in Nat /\ 1 <= u /\ u <= m.last
    BY <1>1, <1>3, <1>5
  <2>2. \A u \in D : u \in Nat /\ 1 <= u /\ u <= m.last
    BY <1>1, <2>1
  <2> QED BY <2>2
<1>7. last \in H /\ H \in SUBSET D /\ h \in SUBSET D /\ \A u \in D : u \in h \/ u \in H
  BY <1>3, <1>5
<1> HIDE DEF D
<1>8. /\ k \in SUBSET D
      /\ \A u \in k : \A v \in D : v >= u => v \in k
      /\ \A u \in D : u \notin k => \A v \in k : u < v
      /\ D # {} => k # {}
      /\ \A n \in 0 .. MaxCandles : Cardinality(D) >= n => Cardinality(k) >= n
      /\ Contiguous(D) => Contiguous(k)
  BY <1>1, <1>4, <1>6, TopIs
<1>9. IsFiniteSet(D) /\ Cardinality(D) \in Nat /\ IsFiniteSet(k) /\ Cardinality(k) \in Nat
  BY <1>1, <1>6, <1>8, BoundedSets
<1>10. first # 1 => Cardinality(k) >= HistoryLimit
  <2> SUFFICES ASSUME first # 1 PROVE Cardinality(k) >= HistoryLimit
    OBVIOUS
  <2>1. Cardinality(D) >= HistoryLimit
    BY <1>5, <1>7, <1>9, FS_Subset
  <2> QED BY <1>8, <2>1, Limits
<1>19. Cardinality(D) <= HistoryLimit => k = D
  BY <1>1, <1>4, <1>6, TopAll
<1>20. Cardinality(D) > HistoryLimit => Cardinality(k) > HistoryLimit
  <2> SUFFICES ASSUME Cardinality(D) > HistoryLimit PROVE Cardinality(k) > HistoryLimit
    OBVIOUS
  <2>1. HistoryLimit + 1 \in 0 .. MaxCandles /\ Cardinality(D) >= HistoryLimit + 1
    BY <1>9, Limits
  <2>2. Cardinality(k) >= HistoryLimit + 1
    BY <1>8, <2>1
  <2> QED BY <1>9, <2>2, Limits
<1>11. Shape(k)
  <2>1. CASE h \subseteq H
    <3>1. D = H
      BY <1>7, <2>1
    <3>2. Contiguous(D)
      BY <1>18, <3>1
    <3> QED BY <1>8, <3>2 DEF Shape
  <2>2. CASE ~(h \subseteq H) /\ Cardinality(H) = HistoryLimit
    <3>1. PICK x \in h : x \notin H
      BY <2>2
    <3>2. H \cup {x} \in SUBSET D
      BY <1>7, <3>1
    <3>3. Cardinality(H \cup {x}) = HistoryLimit + 1
      BY <1>5, <2>2, <3>1, FS_AddElement
    <3>4. Cardinality(D) >= HistoryLimit + 1
      BY <1>9, <3>2, <3>3, FS_Subset
    <3>5. Cardinality(D) > HistoryLimit
      BY <1>9, <3>4, Limits
    <3> QED BY <1>20, <3>5 DEF Shape
  <2>3. CASE first = 1 /\ last >= 2
    <3>1. 1 \in D /\ 2 \in D
      BY <1>3, <1>5, <1>7, <2>3
    <3>2. Cardinality(D) <= HistoryLimit \/ Cardinality(D) > HistoryLimit
      BY <1>9, Limits
    <3>3. k = D => Rooted(k)
      BY <1>6, <3>1 DEF Rooted
    <3> QED BY <1>19, <1>20, <3>2, <3>3 DEF Shape
  <2>4. CASE ~(h \subseteq H) /\ last = 1
    <3>1. since = 1 /\ Warm = 1
      BY <1>1, <1>2, <1>3, <2>4, Limits
    <3>2. Cardinality(h) > HistoryLimit \/ \E v \in h : v <= 2
      <4>1. h # {}
        BY <2>4
      <4>2. h = {} \/ Cardinality(h) > HistoryLimit \/ \E v \in h : v <= since + Warm
        BY DEF FeedInOrder, h, since
      <4>3. since + Warm = 2
        BY <3>1
      <4> QED BY <4>1, <4>2, <4>3
    <3>3. CASE Cardinality(h) > HistoryLimit
      <4>1. Cardinality(h) <= Cardinality(D) /\ IsFiniteSet(h) /\ Cardinality(h) \in Nat
        BY <1>7, <1>9, FS_Subset, FS_CardinalityType
      <4>2. Cardinality(D) > HistoryLimit
        BY <1>9, <3>3, <4>1, Limits
      <4> QED BY <1>20, <4>2 DEF Shape
    <3>4. CASE \E v \in h : v <= 2
      <4>1. PICK v \in h : v <= 2
        BY <3>4
      <4>2. \A u \in D : u \in h \/ u = 1
        BY <1>3, <1>5, <1>7, <2>4
      <4>3. v \in Nat /\ 1 <= v
        BY <1>1
      <4> SUFFICES ASSUME NEW t \in D, NEW u \in D, NEW w \in t .. u PROVE w \in D
        BY <1>8 DEF Shape, Contiguous
      <4>4. t \in Nat /\ u \in Nat /\ 1 <= t /\ 1 <= u /\ w \in Int /\ t <= w /\ w <= u
        BY <1>6
      <4>5. CASE w = 1
        BY <1>3, <1>5, <1>7, <2>4, <4>5
      <4>6. CASE w # 1
        <5>1. w >= 2 /\ u >= 2 /\ u \in h
          BY <4>2, <4>4, <4>6
        <5>2. w \in v .. u
          BY <4>1, <4>3, <4>4, <5>1
        <5>3. w \in h
          BY <1>2, <4>1, <5>1, <5>2 DEF Contiguous
        <5> QED BY <1>7, <5>3
      <4> QED BY <4>5, <4>6
    <3> QED BY <3>2, <3>3, <3>4
  <2>5. last = 1 \/ last >= 2
    BY <1>3
  <2> QED BY <1>5, <2>1, <2>2, <2>3, <2>4, <2>5
<1>21. f.sent = unsent =>
         /\ Contiguous(k)
         /\ Cardinality(k) >= HistoryLimit \/ (1 \in k /\ since \in k)
  <2> SUFFICES ASSUME f.sent = unsent
               PROVE  /\ Contiguous(k)
                      /\ Cardinality(k) >= HistoryLimit \/ (1 \in k /\ since \in k)
    OBVIOUS
  <2>1. h = {}
    BY <1>2
  <2>2. D = H
    BY <1>7, <2>1
  <2>3. k = H
    BY <1>5, <1>19, <2>2
  <2>4. first = 1 => 1 \in H /\ since \in H
    BY <1>1, <1>3, <1>5
  <2> QED BY <1>10, <1>18, <2>3, <2>4
<1>12. f.sent # unsent => sent \in k /\ \A u \in k : sent .. u \subseteq k
  <2> SUFFICES ASSUME f.sent # unsent PROVE sent \in k /\ \A u \in k : sent .. u \subseteq k
    OBVIOUS
  <2>1. sent \in h /\ sent \in D
    BY <1>2, <1>7
  <2>2. \A u \in Above(D, sent) : u \in H
    BY <1>2, <1>6, <1>7, <2>1 DEF Above
  <2>3. Above(D, sent) \in SUBSET H
    BY <2>2
  <2>7. IsFiniteSet(Above(D, sent)) /\ Cardinality(Above(D, sent)) <= Cardinality(H)
    BY <1>5, <2>3, FS_Subset
  <2>4. Cardinality(Above(D, sent)) <= HistoryLimit /\ Cardinality(Above(D, sent)) \in Nat
    BY <1>5, <2>7, FS_CardinalityType, Limits
  <2>5. sent \in k
    BY <1>4, <2>1, <2>4, Limits DEF Top
  <2>6. ASSUME NEW u \in k, NEW w \in sent .. u PROVE w \in k
    <3>1. u \in D /\ u \in Nat /\ w \in Nat /\ sent <= w /\ w <= u
      BY <1>1, <1>6, <1>8
    <3>2. CASE u \in h
      <4>1. w = sent
        BY <1>1, <1>2, <3>1, <3>2
      <4> QED BY <2>5, <4>1
    <3>3. CASE u \in H
      <4>1. since <= sent
        BY <1>2, <2>1
      <4>2. w \in H
        BY <1>1, <1>3, <1>5, <3>1, <3>3, <4>1
      <4> QED BY <1>7, <1>8, <2>5, <3>1, <4>2
    <3> QED BY <1>7, <3>1, <3>2, <3>3
  <2> QED BY <2>5, <2>6
<1>13. FeedInOrder(g, m)
  <2>1. \A u \in k : 1 <= u /\ u <= m.last
    BY <1>6, <1>8
  <2>2. g.sent.last = sent
    BY DEF sent
  <2>3. g.sent = unsent =>
          /\ Contiguous(k)
          /\ \/ Cardinality(k) >= HistoryLimit
             \/ /\ g.since.last >= Warm /\ g.since.last <= m.last
                /\ 1 \in k /\ g.since.last \in k
    BY <1>2, <1>21 DEF since
  <2> QED BY <1>2, <1>11, <1>12, <2>1, <2>2, <2>3 DEF FeedInOrder, k
<1>14. \E v \in k : v \in Nat /\ last <= v
  <2>1. PICK v \in k : TRUE
    BY <1>7, <1>8
  <2>2. v \in Nat
    BY <1>6, <1>8
  <2>3. CASE last <= v
    BY <2>2, <2>3
  <2>4. CASE ~(last <= v)
    <3>1. last \in k
      BY <1>3, <1>7, <1>8, <2>2, <2>4
    <3> QED BY <1>3, <3>1
  <2> QED BY <2>3, <2>4
<1>15. ASSUME NEW r \in Nat, Place(f, m, r) PROVE Place(g, m, r)
  <2>1. r < m.last /\ r < since
    BY <1>15 DEF Place, since
  <2>2. PICK v \in k : v \in Nat /\ last <= v
    BY <1>14
  <2>3. since <= last
    BY DEF since
  <2>4. r < v
    BY <1>1, <1>3, <2>1, <2>2, <2>3
  <2> QED BY <2>1, <2>2, <2>4 DEF Place, k
<1>16. ASSUME NEW A \in SUBSET Nat, \A u \in A : Before(f, m, u), NEW u \in A
       PROVE  Before(g, m, u)
  <2>0. u \in Nat /\ since <= last
    BY DEF since
  <2>1. u <= m.last /\ u <= since /\ (f.sent # unsent => u <= sent)
    BY <1>16 DEF Before, since, sent
  <2>2. PICK v \in k : v \in Nat /\ last <= v
    BY <1>14
  <2>3. u <= v
    BY <1>1, <1>3, <2>0, <2>1, <2>2
  <2>4. ASSUME \A w \in k : w <= u
        PROVE  Contiguous(k) /\ Cardinality(k) <= HistoryLimit
    <3>1. v <= u
      BY <2>2, <2>4
    <3>2. u = last /\ since = last /\ last \in k
      BY <1>1, <1>3, <2>0, <2>1, <2>2, <3>1
    <3>3. \A w \in D : w <= last
      <4> TAKE w \in D
      <4>1. w \in k => w <= last
        BY <2>4, <3>2
      <4>2. w \notin k => w < last
        BY <1>8, <3>2
      <4>3. w \in Nat
        BY <1>6
      <4> QED BY <1>3, <4>1, <4>2, <4>3
    <3>4. \A w \in h : w \in H
      BY <1>1, <1>2, <1>3, <1>5, <1>7, <3>2, <3>3
    <3>5. D = H
      BY <1>7, <3>4
    <3>6. Contiguous(D)
      BY <1>18, <3>5
    <3>7. Cardinality(k) <= HistoryLimit
      <4>1. Cardinality(k) <= Cardinality(H)
        BY <1>5, <1>8, <3>5, FS_Subset
      <4> QED BY <1>5, <1>9, <4>1, Limits
    <3> QED BY <1>8, <3>6, <3>7
  <2> QED BY <2>1, <2>2, <2>3, <2>4 DEF Before, k, sent
<1>17. ASSUME NEW A \in SUBSET Nat, NEW loading \in BOOLEAN, Same(f, A, loading)
       PROVE  Same(g, A, loading)
  <2>1. /\ A # {} => h # {}
        /\ \A u \in A : u \notin h =>
             /\ \A v \in h : u < v
             /\ sent - MaxCandles + 1 .. sent \subseteq h
        /\ (\A v \in h : v \notin A => \A u \in A : u < v) \/ Contiguous(A)
    BY <1>17 DEF Same, h, sent
  <2>2. A # {} => k # {}
    BY <1>7, <1>8
  <2>3. ASSUME NEW u \in A, u \notin h, NEW v \in D, v \in k
        PROVE  v \in h \/ v > sent
    <3>1. sent - MaxCandles + 1 .. sent \subseteq h
      BY <2>1, <2>3
    <3>2. v \in Nat
      BY <1>6
    <3>3. CASE v < sent - MaxCandles + 1
      <4> DEFINE I == sent - MaxCandles + 1 .. sent
      <4>1. IsFiniteSet(I) /\ Cardinality(I) = MaxCandles
        <5>1. sent - MaxCandles + 1 \in Int /\ ~(sent - MaxCandles + 1 > sent)
          BY <1>1, Limits
        <5>2. IsFiniteSet(I) /\ Cardinality(I) = sent - (sent - MaxCandles + 1) + 1
          BY <1>1, <5>1, FS_Interval
        <5> QED BY <1>1, <5>2, Limits
      <4>2. \A w \in I : w \in Above(D, v)
        BY <1>1, <1>7, <3>1, <3>2, <3>3, Limits DEF Above
      <4>3. I \in SUBSET Above(D, v) /\ Above(D, v) \in SUBSET D
        BY <4>2 DEF Above
      <4>4. IsFiniteSet(Above(D, v)) /\ Cardinality(Above(D, v)) \in Nat
        BY <1>9, <4>3, FS_Subset, FS_CardinalityType
      <4> HIDE DEF I
      <4>5. MaxCandles <= Cardinality(Above(D, v))
        BY <4>1, <4>3, <4>4, FS_Subset
      <4>6. Cardinality(Above(D, v)) < MaxCandles
        BY <1>4, <2>3 DEF Top
      <4> QED BY <4>4, <4>5, <4>6, Limits
    <3>4. CASE ~(v < sent - MaxCandles + 1) /\ v <= sent
      <4>1. v \in sent - MaxCandles + 1 .. sent
        BY <1>1, <3>2, <3>4, Limits
      <4> QED BY <3>1, <4>1
    <3> QED BY <1>1, <3>2, <3>3, <3>4
  <2>4. ASSUME NEW u \in A, u \notin h, NEW v \in k PROVE u < v
    <3>1. v \in D /\ v \in Nat /\ u \in Nat
      BY <1>6, <1>8
    <3>2. v \in h => u < v
      BY <2>1, <2>4
    <3>3. PICK w \in h : TRUE
      BY <2>1, <2>4
    <3>4. u < w /\ w <= sent /\ w \in Nat
      BY <1>1, <1>2, <2>1, <2>4, <3>3
    <3>5. v > sent => u < v
      BY <1>1, <3>1, <3>4
    <3> QED BY <2>3, <2>4, <3>1, <3>2, <3>5
  <2>5. \A u \in A : u \notin k => \A v \in k : u < v
    <3> TAKE u \in A
    <3>1. u \in h => u \in D
      BY <1>7
    <3> QED BY <1>8, <2>4, <3>1
  <2>6. (\A v \in k : v \notin A => \A u \in A : u < v) \/ Contiguous(A)
    <3>1. CASE Contiguous(A)
      BY <3>1
    <3>2. CASE ~Contiguous(A)
      <4>1. \A v \in h : v \notin A => \A u \in A : u < v
        BY <2>1, <3>2
      <4>2. PICK x \in A : x \notin h
        <5> SUFFICES ASSUME \A x \in A : x \in h PROVE Contiguous(A)
          BY <3>2
        <5> SUFFICES ASSUME NEW t \in A, NEW w \in A, NEW z \in t .. w PROVE z \in A
          BY DEF Contiguous
        <5>1. z \in h
          BY <1>2 DEF Contiguous
        <5>2. z \in Nat /\ w \in Nat /\ z <= w
          BY <1>1, <5>1
        <5>3. z \notin A => w < z
          BY <4>1, <5>1
        <5> QED BY <5>2, <5>3
      <4>3. ASSUME NEW v \in k, v \notin A, NEW u \in A PROVE u < v
        <5>1. v \in D
          BY <1>8
        <5>2. CASE v \in h
          BY <4>1, <4>3, <5>2
        <5>3. CASE v > sent
          <6>1. CASE u \notin h
            BY <2>4, <6>1
          <6>2. CASE u \in h
            <7>1. u \in Nat /\ u <= sent /\ v \in Nat
              BY <1>1, <1>2, <1>6, <5>1, <6>2
            <7> QED BY <1>1, <5>3, <7>1
          <6> QED BY <6>1, <6>2
        <5> QED BY <2>3, <4>2, <5>1, <5>2, <5>3
      <4> QED BY <4>3
    <3> QED BY <3>1, <3>2
  <2> QED BY <2>2, <2>5, <2>6 DEF Same, k
<1> QED BY <1>13, <1>15, <1>16, <1>17 DEF Preserves, Related

\* A live batch is merged.
LEMMA AfterBatch ==
    ASSUME NEW f, NEW m, FeedInOrder(f, m), f.connected,
           f.sent = unsent /\ f.since # unsent => m.last <= f.since.last + Warm,
           NEW first, f.sent = unsent => first = m.last, f.sent # unsent => first = f.sent.last,
           NEW g, g \in Feed, Held(g) = Top(Held(f) \cup (first .. m.last)),
           g.status = f.status, f.status = "loading" => g.since = f.since, g.sent = m,
           g.connected, g.of = <<g.session, g.selected>>
    PROVE  Preserves(f, m, g, m)
<1> DEFINE h == Held(f)
           B == first .. m.last
           D == h \cup B
           k == Held(g)
           sent == f.sent.last
           fresh == f.sent = unsent
<1>1. /\ m.last \in Nat /\ f.since.last \in Nat /\ sent \in Nat /\ h \in SUBSET Nat
      /\ \A u \in h : u \in Nat /\ 1 <= u /\ u <= m.last
  BY FeedNumbers
<1>2. /\ m.last >= Warm /\ m \in Mark /\ m # unsent /\ f.status # "idle"
      /\ ~fresh => sent \in h /\ \A u \in h : sent .. u \subseteq h
      /\ f.status \in {"loading", "failed"} =>
           Contiguous(h) /\ (h # {} => ~fresh) /\ \A v \in h : v <= sent
      /\ f.status = "loading" =>
           /\ f.since.last >= Warm /\ f.since.last <= m.last
           /\ \A v \in h : f.since.last <= v
           /\ h = {} \/ Cardinality(h) > HistoryLimit \/ \E v \in h : v <= f.since.last + Warm
      /\ f.status = "ready" /\ fresh =>
           /\ Contiguous(h)
           /\ \/ Cardinality(h) >= HistoryLimit
              \/ f.since.last >= Warm /\ 1 \in h /\ f.since.last \in h
      /\ Contiguous(h) \/ Cardinality(h) > HistoryLimit \/ Rooted(h)
      /\ f.status \in {"idle", "loading", "ready", "failed"}
  BY DEF FeedInOrder, Feed, Shape
<1>27. fresh /\ f.since.last >= Warm => m.last <= f.since.last + Warm
  BY Limits DEF unsent
<1>3. /\ m.last >= 1
      /\ fresh => first = m.last
      /\ ~fresh => first = sent
  BY <1>1, <1>2, Limits
<1>4. k = Top(D)
  OBVIOUS
<1> HIDE DEF sent, h, k, fresh
<1>5. first \in Nat /\ 1 <= first /\ first <= m.last
  BY <1>1, <1>2, <1>3
<1>6. /\ \A u : u \in B <=> u \in Nat /\ first <= u /\ u <= m.last
      /\ m.last \in B /\ Contiguous(B)
  <2>1. Contiguous(B)
    BY <1>1, <1>5, NumbersContiguous
  <2> QED BY <1>1, <1>5, <2>1
<1>7. fresh => B = {m.last}
  BY <1>1, <1>3
<1> HIDE DEF B
<1>8. D \in SUBSET Nat /\ \A u \in D : u \in Nat /\ 1 <= u /\ u <= m.last
  <2>1. \A u \in B : u \in Nat /\ 1 <= u /\ u <= m.last
    BY <1>1, <1>5, <1>6
  <2>2. \A u \in D : u \in Nat /\ 1 <= u /\ u <= m.last
    BY <1>1, <2>1
  <2> QED BY <2>2
<1>9. m.last \in D /\ B \in SUBSET D /\ h \in SUBSET D /\ \A u \in D : u \in h \/ u \in B
  BY <1>6
<1>10. h = {} => D = B
  OBVIOUS
<1>11. fresh /\ m.last \in h => D = h
  BY <1>7
<1>12. fresh => D = h \cup {m.last}
  BY <1>7
<1> HIDE DEF D
<1>13. /\ k \in SUBSET D
       /\ \A u \in k : \A v \in D : v >= u => v \in k
       /\ \A u \in D : u \notin k => \A v \in k : u < v
       /\ \A u \in D : m.last - u < MaxCandles => u \in k
       /\ \A n \in 0 .. MaxCandles : Cardinality(D) >= n => Cardinality(k) >= n
       /\ Contiguous(D) => Contiguous(k)
  BY <1>1, <1>4, <1>8, TopIs
<1>14. /\ IsFiniteSet(D) /\ Cardinality(D) \in Nat /\ IsFiniteSet(k) /\ Cardinality(k) \in Nat
       /\ IsFiniteSet(h) /\ Cardinality(h) \in Nat
       /\ Cardinality(h) <= Cardinality(D) /\ Cardinality(k) <= Cardinality(D)
  BY <1>1, <1>8, <1>9, <1>13, BoundedSets
<1>15. m.last \in k
  <2>1. m.last - m.last < MaxCandles
    BY <1>1, Limits
  <2> QED BY <1>9, <1>13, <2>1
<1>16. Contiguous(h) /\ ~fresh => Contiguous(D)
  <2> SUFFICES ASSUME Contiguous(h), ~fresh, NEW t \in D, NEW w \in D, NEW z \in t .. w
               PROVE  z \in D
    BY DEF Contiguous
  <2>1. t \in Nat /\ w \in Nat /\ w <= m.last /\ z \in Nat /\ t <= z /\ z <= w
    BY <1>8
  <2>2. CASE sent <= z
    <3>1. z \in B
      BY <1>1, <1>3, <1>6, <2>1, <2>2
    <3> QED BY <1>9, <3>1
  <2>3. CASE ~(sent <= z)
    <3>1. t \notin B
      BY <1>1, <1>3, <1>6, <2>1, <2>3
    <3>2. t \in h /\ sent \in h /\ z \in t .. sent
      BY <1>1, <1>2, <1>9, <2>1, <2>3, <3>1
    <3>3. z \in h
      BY <3>2 DEF Contiguous
    <3> QED BY <1>9, <3>3
  <2> QED BY <2>2, <2>3
<1>17. f.status \in {"loading", "failed"} => Contiguous(D)
  BY <1>2, <1>6, <1>10, <1>16
<1>28. Cardinality(D) <= HistoryLimit => k = D
  BY <1>1, <1>4, <1>8, TopAll
<1>29. Cardinality(D) > HistoryLimit => Cardinality(k) > HistoryLimit
  <2> SUFFICES ASSUME Cardinality(D) > HistoryLimit PROVE Cardinality(k) > HistoryLimit
    OBVIOUS
  <2>1. HistoryLimit + 1 \in 0 .. MaxCandles /\ Cardinality(D) >= HistoryLimit + 1
    BY <1>14, Limits
  <2>2. Cardinality(k) >= HistoryLimit + 1
    BY <1>13, <2>1
  <2> QED BY <1>14, <2>2, Limits
<1>30. Cardinality(D) <= HistoryLimit \/ Cardinality(D) > HistoryLimit
  BY <1>14, Limits
<1>18. Shape(k)
  <2>1. CASE Cardinality(D) > HistoryLimit
    BY <1>29, <2>1 DEF Shape
  <2>2. CASE Cardinality(D) <= HistoryLimit
    <3>1. k = D /\ Cardinality(h) <= HistoryLimit
      BY <1>14, <1>28, <2>2, Limits
    <3> SUFFICES Contiguous(D) \/ Rooted(D)
      BY <3>1 DEF Shape
    <3>2. Rooted(h) => Rooted(D)
      BY <1>8, <1>9 DEF Rooted
    <3>3. CASE f.status \in {"loading", "failed"}
      BY <1>17, <3>3
    <3>4. CASE ~fresh
      <4>1. Contiguous(h) \/ Rooted(h)
        BY <1>2, <1>14, <3>1, Limits
      <4> QED BY <1>16, <3>2, <3>4, <4>1
    <3>5. CASE f.status = "ready" /\ fresh /\ m.last \in h
      BY <1>2, <1>11, <3>5
    <3>6. CASE f.status = "ready" /\ fresh /\ m.last \notin h
      <4>1. Cardinality(D) = Cardinality(h) + 1
        BY <1>12, <1>14, <3>6, FS_AddElement
      <4>2. ~(Cardinality(h) >= HistoryLimit)
        BY <1>14, <2>2, <4>1, Limits
      <4>3. /\ Contiguous(h) /\ 1 \in h /\ f.since.last \in h /\ f.since.last >= Warm
            /\ m.last <= f.since.last + Warm
        BY <1>2, <1>27, <3>6, <4>2
      <4>4. CASE 2 \in h
        <5>1. Rooted(h)
          BY <1>1, <4>3, <4>4 DEF Rooted
        <5> QED BY <3>2, <5>1
      <4>5. CASE 2 \notin h
        <5>1. 1 .. f.since.last \subseteq h
          BY <4>3 DEF Contiguous
        <5>2. ~(f.since.last >= 2)
          <6>1. f.since.last >= 2 => 2 \in 1 .. f.since.last
            BY <1>1
          <6> QED BY <4>5, <5>1, <6>1
        <5>3. f.since.last = 1 /\ Warm = 1 /\ m.last <= 2
          BY <1>1, <4>3, <5>2, Limits
        <5> SUFFICES ASSUME NEW u \in D, NEW w \in D, NEW v \in u .. w PROVE v \in D
          BY DEF Contiguous
        <5>4. u \in Nat /\ w \in Nat /\ 1 <= u /\ w <= m.last /\ v \in Int /\ u <= v /\ v <= w
          BY <1>8
        <5>5. v = 1 \/ v = w
          BY <1>1, <5>3, <5>4
        <5> QED BY <1>9, <4>3, <5>5
      <4> QED BY <4>4, <4>5
    <3> QED BY <1>2, <3>3, <3>4, <3>5, <3>6
  <2> QED BY <1>30, <2>1, <2>2
<1>19. f.status = "loading" =>
         Cardinality(k) > HistoryLimit \/ \E v \in k : v <= f.since.last + Warm
  <2> SUFFICES ASSUME f.status = "loading", Cardinality(D) <= HistoryLimit
               PROVE  \E v \in k : v <= f.since.last + Warm
    BY <1>29, <1>30
  <2>1. k = D /\ ~(Cardinality(h) > HistoryLimit)
    BY <1>14, <1>28, Limits
  <2>2. CASE fresh
    BY <1>2, <1>15, <1>27, <2>2
  <2>3. CASE ~fresh
    <3>1. PICK v \in h : v <= f.since.last + Warm
      BY <1>2, <2>1, <2>3
    <3> QED BY <1>9, <2>1, <3>1
  <2> QED BY <2>2, <2>3
<1>20. \A u \in k : u \in D /\ u \in Nat /\ 1 <= u /\ u <= m.last
  BY <1>8, <1>13
<1>21. \A u \in k : m.last .. u \subseteq k
  <2> SUFFICES ASSUME NEW u \in k, NEW w \in m.last .. u PROVE w \in k
    OBVIOUS
  <2>1. u \in Nat /\ u <= m.last
    BY <1>20
  <2>2. w = m.last
    BY <1>1, <2>1
  <2> QED BY <1>15, <2>2
<1>22. f.status = "loading" => \A v \in k : f.since.last <= v
  <2> SUFFICES ASSUME f.status = "loading", NEW v \in k PROVE f.since.last <= v
    OBVIOUS
  <2>1. f.since.last <= first
    BY <1>2, <1>3
  <2>2. v \in B => f.since.last <= v
    BY <1>1, <1>5, <1>6, <2>1
  <2> QED BY <1>2, <1>9, <1>20, <2>2
<1>23. FeedInOrder(g, m)
  <2>1. f.status \in {"loading", "failed"} => Contiguous(k)
    BY <1>13, <1>17
  <2>2. g.sent # unsent /\ (f.status = "loading" => g.since = f.since)
    BY <1>2
  <2> QED BY <1>1, <1>2, <1>15, <1>18, <1>19, <1>20, <1>21, <1>22, <2>1, <2>2 DEF FeedInOrder, k
<1>24. ASSUME NEW r \in Nat, Place(f, m, r) PROVE Place(g, m, r)
  BY <1>15, <1>24 DEF Place, k
<1>25. ASSUME NEW A \in SUBSET Nat, \A u \in A : Before(f, m, u), NEW u \in A
       PROVE  Before(g, m, u)
  <2>0. u \in Nat
    BY <1>25
  <2>1. /\ u <= m.last /\ (f.status = "loading" => u <= f.since.last)
        /\ ~fresh => u <= sent
        /\ h # {} => \E v \in h : u <= v
        /\ (\A v \in h : v <= u) => Contiguous(h) /\ Cardinality(h) <= HistoryLimit
    BY <1>25 DEF Before, h, fresh, sent
  <2>2. ASSUME \A v \in k : v <= u
        PROVE  Contiguous(k) /\ Cardinality(k) <= HistoryLimit
    <3>1. u = m.last
      BY <1>1, <1>15, <2>0, <2>1, <2>2
    <3>2. CASE h = {}
      <4>1. B = {m.last}
        BY <1>2, <1>7, <3>2
      <4>2. D = {m.last} /\ Contiguous(D)
        BY <1>6, <1>10, <3>2, <4>1
      <4>3. Cardinality(D) = 1
        BY <4>2, FS_Singleton
      <4> QED BY <1>13, <1>14, <4>2, <4>3, Limits
    <3>3. CASE h # {}
      <4>1. PICK v \in h : u <= v
        BY <2>1, <3>3
      <4>2. v = m.last /\ m.last \in h
        BY <1>1, <3>1, <4>1
      <4>3. D = h
        <5>1. CASE fresh
          BY <1>11, <4>2, <5>1
        <5>2. CASE ~fresh
          <6>1. first = m.last
            BY <1>1, <1>3, <1>5, <2>1, <3>1, <5>2
          <6>2. \A w \in B : w = m.last
            BY <1>1, <1>6, <6>1
          <6> QED BY <1>9, <4>2, <6>2
        <5> QED BY <5>1, <5>2
      <4>4. Contiguous(h) /\ Cardinality(h) <= HistoryLimit
        <5>1. \A w \in h : w <= u
          BY <1>1, <3>1
        <5> QED BY <2>1, <5>1
      <4> QED BY <1>13, <1>14, <4>3, <4>4, Limits
    <3> QED BY <3>2, <3>3
  <2>3. \E v \in k : u <= v
    BY <1>15, <2>1
  <2> QED BY <2>1, <2>2, <2>3 DEF Before, k
<1>26. ASSUME NEW A \in SUBSET Nat, NEW loading \in BOOLEAN, Same(f, A, loading)
       PROVE  Same(g, A, loading)
  <2>1. /\ A # {} => h # {}
        /\ \A u \in A : u \notin h =>
             /\ \A v \in h : u < v
             /\ f.status = "loading" => sent - MaxCandles + 1 .. sent \subseteq h
        /\ f.status = "loading" => loading
        /\ (\A v \in h : v \notin A => \A u \in A : u < v) \/ Contiguous(A)
    BY <1>26 DEF Same, h, sent
  <2>2. ASSUME NEW u \in A, u \notin h, NEW v \in D PROVE u < v
    <3>1. v \in Nat /\ u \in Nat
      BY <1>8
    <3>2. PICK w \in h : TRUE
      BY <2>1, <2>2
    <3>3. u < w /\ w \in Nat /\ w <= m.last
      BY <1>1, <2>1, <2>2, <3>2
    <3>4. u < first
      <4>1. fresh => u < first
        BY <1>1, <1>3, <3>1, <3>3
      <4>2. ~fresh => u < first
        BY <1>2, <1>3, <2>1, <2>2
      <4> QED BY <4>1, <4>2
    <3>5. v \in B => u < v
      BY <1>5, <1>6, <3>1, <3>4
    <3> QED BY <1>9, <2>1, <2>2, <3>5
  <2>3. ASSUME NEW u \in A, u \notin k, f.status = "loading"
        PROVE  m.last - MaxCandles + 1 .. m.last \subseteq k
    <3> SUFFICES ASSUME NEW w \in m.last - MaxCandles + 1 .. m.last PROVE w \in k
      OBVIOUS
    <3>1. /\ w \in Int /\ w <= m.last /\ m.last - w < MaxCandles
          /\ m.last - MaxCandles + 1 <= w
      BY <1>1, Limits
    <3>2. w \in D
      <4>1. CASE u \in h
        <5>1. u \in D /\ u \in Nat /\ ~(m.last - u < MaxCandles)
          BY <1>1, <1>9, <1>13, <2>3, <4>1
        <5>2. w \in u .. m.last
          BY <1>1, <3>1, <5>1, Limits
        <5> QED BY <1>9, <1>17, <2>3, <5>1, <5>2 DEF Contiguous
      <4>2. CASE u \notin h
        <5>1. sent - MaxCandles + 1 .. sent \subseteq h
          BY <2>1, <2>3, <4>2
        <5>2. ~fresh
          BY <1>2, <2>1, <2>3, <4>2
        <5>3. sent <= m.last
          BY <1>1, <1>2, <5>2
        <5>4. CASE w <= sent
          <6>1. w \in sent - MaxCandles + 1 .. sent
            BY <1>1, <3>1, <5>3, <5>4, Limits
          <6> QED BY <1>9, <5>1, <6>1
        <5>5. CASE ~(w <= sent)
          <6>1. w \in B
            BY <1>1, <1>3, <1>6, <3>1, <5>2, <5>5
          <6> QED BY <1>9, <6>1
        <5> QED BY <5>4, <5>5
      <4> QED BY <4>1, <4>2
    <3> QED BY <1>13, <3>1, <3>2
  <2>4. \A u \in A : u \notin k => \A v \in k : u < v
    <3> TAKE u \in A
    <3>1. u \in h => u \in D
      BY <1>9
    <3>2. u \notin h => \A v \in k : u < v
      BY <1>20, <2>2
    <3> QED BY <1>13, <3>1, <3>2
  <2>5. (\A v \in k : v \notin A => \A u \in A : u < v) \/ Contiguous(A)
    <3> SUFFICES ASSUME ~Contiguous(A), NEW v \in k, v \notin A, NEW u \in A PROVE u < v
      OBVIOUS
    <3>1. v \in D /\ v \in Nat /\ u \in Nat
      BY <1>20
    <3>2. CASE u \notin h
      BY <2>2, <3>1, <3>2
    <3>3. CASE v \in h
      BY <2>1, <3>3
    <3>4. CASE u \in h /\ v \notin h
      <4>1. v \in B
        BY <1>9, <3>1, <3>4
      <4>2. first <= v
        BY <1>6, <4>1
      <4>3. CASE fresh
        <5>1. v = m.last /\ u <= m.last /\ u # v
          BY <1>1, <1>7, <3>4, <4>1, <4>3
        <5> QED BY <1>1, <3>1, <5>1
      <4>4. CASE ~fresh
        <5>1. sent .. u \subseteq h /\ sent <= v
          BY <1>2, <1>3, <3>4, <4>2, <4>4
        <5>2. v <= u => v \in sent .. u
          BY <1>1, <3>1, <5>1
        <5> QED BY <3>1, <3>4, <5>1, <5>2
      <4> QED BY <4>3, <4>4
    <3> QED BY <3>2, <3>3, <3>4
  <2>6. A # {} => k # {}
    BY <1>15
  <2> QED BY <2>1, <2>3, <2>4, <2>5, <2>6 DEF Same, k
<1> QED BY <1>23, <1>24, <1>25, <1>26 DEF Preserves, Related

\* The feed has forgotten its candles.
LEMMA Forgotten ==
    ASSUME NEW n \in Mark, n # unsent, n.last >= Warm, NEW g, g \in Feed,
           g.candles = NoCandles, g.sent = unsent, g.connected, g.of = <<g.session, g.selected>>,
           g.status \in {"loading", "failed"}, g.status = "loading" => g.since = n
    PROVE  Held(g) = {} /\ FeedInOrder(g, n)
<1>1. Held(g) = {}
  BY DEF Held, NoCandles
<1>2. Contiguous(Held(g)) /\ Shape(Held(g))
  BY <1>1 DEF Contiguous, Shape
<1>3. n.last <= n.last
  BY DEF Mark
<1> QED BY <1>1, <1>2, <1>3 DEF FeedInOrder

\* Another selection: the feed holds no candle of it yet.
LEMMA AfterSelection ==
    ASSUME NEW f, NEW m, FeedInOrder(f, m), NEW g, g \in Feed,
           g.candles = NoCandles, g.sent = unsent, g.connected, g.of = <<g.session, g.selected>>,
           g.status \in {"loading", "failed"}, g.status = "loading" => g.since = m
    PROVE  Preserves(f, m, g, m)
<1>1. /\ m.last \in Nat /\ Held(f) \in SUBSET Nat
      /\ \A u \in Held(f) : u \in Nat /\ 1 <= u /\ u <= m.last
  BY FeedNumbers
<1>2. Held(g) = {} /\ FeedInOrder(g, m)
  BY Forgotten DEF FeedInOrder
<1>3. ASSUME NEW u \in Nat, u <= m.last PROVE Before(g, m, u)
  <2>1. Contiguous({}) /\ Cardinality({}) <= HistoryLimit
    BY FS_EmptySet, Limits DEF Contiguous
  <2> QED BY <1>2, <1>3, <2>1 DEF Before
<1>4. ASSUME NEW A \in SUBSET Nat, NEW loading \in BOOLEAN, Related(f, m, A, loading), NEW u \in A
      PROVE  u <= m.last
  <2>1. CASE Same(f, A, loading)
    <3>1. CASE u \in Held(f)
      BY <1>1, <3>1
    <3>2. CASE u \notin Held(f)
      <4>1. PICK v \in Held(f) : u < v
        BY <2>1, <3>2 DEF Same
      <4> QED BY <1>1, <4>1
    <3> QED BY <3>1, <3>2
  <2>2. CASE \A w \in A : Before(f, m, w)
    BY <2>2 DEF Before
  <2> QED BY <1>4, <2>1, <2>2 DEF Related
<1>5. ASSUME NEW r \in Nat, Place(f, m, r) PROVE Place(g, m, r)
  BY <1>2, <1>5 DEF Place
<1>6. ASSUME NEW A \in SUBSET Nat, NEW loading \in BOOLEAN, Related(f, m, A, loading)
      PROVE  Related(g, m, A, loading)
  BY <1>3, <1>4, <1>6 DEF Related
<1> QED BY <1>2, <1>5, <1>6 DEF Preserves

\* The history request or the connection is given up.
LEMMA AfterFailure ==
    ASSUME NEW f, NEW m, FeedInOrder(f, m), NEW g, g \in Feed, g.candles = f.candles,
           \/ /\ f.status = "loading" /\ g.status = "failed" /\ g.connected
              /\ g.of = <<g.session, g.selected>> /\ g.sent = f.sent
           \/ g.status = "idle" /\ ~g.connected /\ g.sent = unsent
    PROVE  Preserves(f, m, g, m)
<1>1. Held(g) = Held(f) /\ g.status \notin {"loading", "ready"}
  BY DEF Held
<1>2. FeedInOrder(g, m)
  BY <1>1 DEF FeedInOrder
<1>3. ASSUME NEW A \in SUBSET Nat, NEW loading \in BOOLEAN, Related(f, m, A, loading)
      PROVE  Related(g, m, A, loading)
  <2>1. Same(f, A, loading) => Same(g, A, loading)
    BY <1>1 DEF Same
  <2>2. ASSUME NEW u \in A, Before(f, m, u) PROVE Before(g, m, u)
    BY <1>1, <2>2 DEF Before
  <2> QED BY <1>3, <2>1, <2>2 DEF Related
<1>4. ASSUME NEW r \in Nat, Place(f, m, r) PROVE Place(g, m, r)
  BY <1>1, <1>4 DEF Place
<1> QED BY <1>2, <1>3, <1>4 DEF Preserves

\* The market only grows.
LEMMA AfterTrade ==
    ASSUME NEW f, NEW m, FeedInOrder(f, m), NEW n \in Mark, n.rev # 0, m.last <= n.last
    PROVE  Preserves(f, m, f, n)
<1>1. /\ m.last \in Nat /\ f.since.last \in Nat /\ n.last \in Nat
      /\ \A u \in Held(f) : u \in Nat /\ 1 <= u /\ u <= m.last
  BY FeedNumbers DEF Mark
<1>2. n # unsent
  BY DEF unsent
<1>3. FeedInOrder(f, n)
  <2>1. \A u \in Held(f) : 1 <= u /\ u <= n.last
    BY <1>1
  <2>2. n.last >= Warm /\ (f.since.last <= m.last => f.since.last <= n.last)
    BY <1>1, Limits DEF FeedInOrder
  <2> QED BY <1>2, <2>1, <2>2 DEF FeedInOrder
<1>4. ASSUME NEW A \in SUBSET Nat, NEW loading \in BOOLEAN, Related(f, m, A, loading)
      PROVE  Related(f, n, A, loading)
  <2>1. ASSUME NEW u \in A, Before(f, m, u) PROVE Before(f, n, u)
    <3>1. u \in Nat /\ u <= m.last
      BY <2>1 DEF Before
    <3>2. u <= n.last
      BY <1>1, <3>1
    <3> QED BY <2>1, <3>2 DEF Before
  <2> QED BY <1>4, <2>1 DEF Related
<1>5. ASSUME NEW r \in Nat, Place(f, m, r) PROVE Place(f, n, r)
  <2>1. r < n.last
    BY <1>1, <1>5 DEF Place
  <2> QED BY <1>5, <2>1 DEF Place
<1> QED BY <1>3, <1>4, <1>5 DEF Preserves

\* Another selection without a connection
LEMMA AfterChoice ==
    ASSUME NEW f, NEW m, FeedInOrder(f, m), ~f.connected, NEW g, g \in Feed,
           g.candles = f.candles, g.status = f.status, g.sent = f.sent, ~g.connected
    PROVE  Preserves(f, m, g, m)
<1>1. f.status = "idle" /\ f.sent = unsent
  BY DEF FeedInOrder, Feed
<1> QED BY <1>1, AfterFailure

\* What is at one place of two lists that differ nowhere else has one time.
LEMMA UpdatesInPlace ==
    ASSUME NEW f, NEW m, FeedInOrder(f, m),
           NEW s \in Seq(Candle), Rising(s),
           Contiguous(Times(s)) \/ Len(s) > HistoryLimit \/ Rooted(Times(s)),
           NEW c \in Seq(Candle), Rising(c), Times(c) = Held(f), Len(c) = Cardinality(Held(f)),
           NEW loading \in BOOLEAN, Related(f, m, Times(s), loading)
    PROVE  InPlace(s, c)
<1> SUFFICES ASSUME s # <<>>, Len(c) = Len(s), Last(c).t = Last(s).t,
                    NEW i \in 1 .. Len(s), ChangedIndexes(s, c) = {i}, c[i].t # s[i].t
             PROVE  FALSE
  BY DEF InPlace
<1> DEFINE n == Len(s)
           A == Times(s)
           H == Held(f)
           g == s[n].t
           p == s[i].t
           q == c[i].t
<1>1. n \in Nat /\ n >= 1 /\ Len(c) = n
  OBVIOUS
<1>2. \A k \in 1 .. n : s[k].t \in Nat /\ c[k].t \in Nat
  BY <1>1, CandleTimes
<1>3. \A k \in 1 .. n : k # i => s[k] = c[k]
  BY DEF ChangedIndexes
<1>4. c[n].t = g
  BY <1>1 DEF Last
<1>5. i # n /\ i < n
  BY <1>1, <1>4
<1>6. /\ A = {s[k].t : k \in 1 .. n} /\ H = {c[k].t : k \in 1 .. n}
  <2>1. DOMAIN s = 1 .. n /\ DOMAIN c = 1 .. n
    BY <1>1
  <2> QED BY <2>1 DEF Times
<1>7. p < g /\ q < g
  <2>1. DOMAIN s = 1 .. n /\ DOMAIN c = 1 .. n
    BY <1>1
  <2>2. n \in 1 .. n
    BY <1>1
  <2> QED BY <1>1, <1>4, <1>5, <2>1, <2>2 DEF Rising
<1>8. p \in A /\ g \in A /\ q \in H /\ g \in H
  BY <1>1, <1>4, <1>6
<1>9. p \notin H
  <2> SUFFICES ASSUME NEW k \in 1 .. n, c[k].t = p PROVE FALSE
    BY <1>6
  <2>1. CASE k = i
    BY <2>1
  <2>2. CASE k # i
    <3>1. s[k].t = s[i].t
      BY <1>3, <2>2
    <3> QED BY <2>2, <3>1, TimesDiffer
  <2> QED BY <2>1, <2>2
<1>10. q \notin A
  <2> SUFFICES ASSUME NEW k \in 1 .. n, s[k].t = q PROVE FALSE
    BY <1>6
  <2>1. CASE k = i
    BY <2>1
  <2>2. CASE k # i
    <3>1. c[k].t = c[i].t
      BY <1>3, <2>2
    <3> QED BY <1>1, <2>2, <3>1, TimesDiffer
  <2> QED BY <2>1, <2>2
<1>11. p \in Nat /\ q \in Nat /\ g \in Nat
  BY <1>1, <1>2
<1>12. \A v \in H : v <= g
  <2> SUFFICES ASSUME NEW k \in 1 .. n PROVE c[k].t <= g
    BY <1>6
  <2>1. c[k].t \in Nat
    BY <1>2
  <2>2. CASE k = n
    BY <1>4, <1>11, <2>2
  <2>3. CASE k # n
    <3>1. k < n /\ DOMAIN c = 1 .. n /\ n \in 1 .. n
      BY <1>1, <2>3
    <3>2. c[k].t < c[n].t
      BY <3>1 DEF Rising
    <3> QED BY <1>4, <1>11, <2>1, <3>2
  <2> QED BY <2>2, <2>3
<1>16. \A u \in A : u # p => u \in H
  <2> SUFFICES ASSUME NEW k \in 1 .. n, s[k].t # p PROVE s[k].t \in H
    BY <1>6
  <2>1. k # i
    OBVIOUS
  <2> QED BY <1>3, <1>6, <2>1
<1>17. p = 1 /\ 2 \in A => q < 2
  <2> SUFFICES ASSUME p = 1, NEW k \in 1 .. n, s[k].t = 2 PROVE c[i].t < 2
    BY <1>6
  <2>1. DOMAIN s = 1 .. n /\ DOMAIN c = 1 .. n
    BY <1>1
  <2>2. k # i /\ c[k].t = 2
    BY <1>3
  <2>3. ~(k < i)
    <3>1. k < i => s[k].t < s[i].t
      BY <2>1 DEF Rising
    <3> QED BY <3>1
  <2>4. i < k
    BY <1>1, <2>2, <2>3
  <2> QED BY <2>1, <2>2, <2>4 DEF Rising
<1>18. \A v \in H : 1 <= v
  BY DEF FeedInOrder
<1>13. /\ Contiguous(A) \/ n > HistoryLimit \/ Rooted(A)
       /\ Same(f, A, loading) \/ \A u \in A : Before(f, m, u)
       /\ n = Cardinality(H)
  BY <1>1 DEF Related
<1> HIDE DEF n, A, H, g, p, q
<1>14. CASE Same(f, A, loading)
  <2>1. p < q
    BY <1>8, <1>9, <1>14 DEF Same, H
  <2>2. (\A u \in A : u < q) \/ Contiguous(A)
    BY <1>8, <1>10, <1>14 DEF Same, H
  <2>3. q \in p .. g
    BY <1>7, <1>11, <2>1
  <2>4. ~Contiguous(A)
    BY <1>8, <1>10, <2>3 DEF Contiguous
  <2>5. g < q
    BY <1>8, <2>2, <2>4
  <2> QED BY <1>7, <1>11, <2>5
<1>15. CASE \A u \in A : Before(f, m, u)
  <2>1. Contiguous(H) /\ Cardinality(H) <= HistoryLimit
    BY <1>8, <1>12, <1>15 DEF Before, H
  <2>2. Contiguous(A) \/ Rooted(A)
    BY <1>1, <1>13, <2>1, Limits
  <2>3. p # q
    BY <1>8, <1>9
  <2>6. CASE Rooted(A)
    <3>1. 1 \in A /\ 2 \in A /\ 1 <= p
      BY <1>8, <2>6 DEF Rooted
    <3>2. CASE p = 1
      BY <1>8, <1>11, <1>17, <1>18, <2>3, <3>1, <3>2
    <3>3. CASE p # 1
      <4>1. 1 \in H
        BY <1>16, <3>1, <3>3
      <4>2. p \in 1 .. g
        BY <1>7, <1>11, <3>1
      <4> QED BY <1>8, <1>9, <2>1, <4>1, <4>2 DEF Contiguous
    <3> QED BY <3>2, <3>3
  <2>4. CASE p < q
    <3>1. q \in p .. g
      BY <1>7, <1>11, <2>4
    <3> QED BY <1>8, <1>10, <2>2, <2>6, <3>1 DEF Contiguous
  <2>5. CASE q < p
    <3>1. p \in q .. g
      BY <1>7, <1>11, <2>5
    <3> QED BY <1>8, <1>9, <2>1, <3>1 DEF Contiguous
  <2> QED BY <1>11, <2>3, <2>4, <2>5
<1> QED BY <1>13, <1>14, <1>15

-----------------------------------------------------------------------------
(* The invariant. *)

Shown == [key : Nat \X Interval, candles : Seq(Candle), loading : BOOLEAN, ready : BOOLEAN]

ShownInOrder(s) ==
    /\ s \in Shown /\ Rising(s.candles) /\ ~(s.loading /\ s.ready)
    /\ Contiguous(Times(s.candles)) \/ Len(s.candles) > HistoryLimit \/ Rooted(Times(s.candles))
    /\ s.ready => \A i \in DOMAIN s.candles : s.candles[i].of = s.key

PageInOrder(p) ==
    /\ p \in [generation : Nat \ {0}, mounting : SUBSET Nat, shown : Shown,
              error : BOOLEAN, following : BOOLEAN]
    /\ ShownInOrder(p.shown)
    /\ \A generation \in p.mounting : generation <= p.generation

\* The candles on show and those held, of one session
Linked(f, m, p, r) ==
    /\ p.shown.key[1] <= f.session
    /\ p.shown.key[1] = f.session =>
         /\ Related(f, m, Times(p.shown.candles), p.shown.loading)
         /\ r # 0 => Place(f, m, r)

\* The adapter belongs to the last mount and draws what is on show.
AdapterInOrder(a, p, r, away) ==
    /\ r \in Nat
    /\ a = none => r = 0 /\ (p.generation \in p.mounting \/ p.error)
    /\ a # none =>
         /\ Truthful(a, away) /\ InView(a) /\ Reads(a, r)
         /\ a.prev = a.drawn /\ a.drawn = p.shown.candles
         /\ a.generation = p.generation /\ p.generation \notin p.mounting
         /\ a.following = p.following
         /\ p.shown.loading => a.waiting

User == [left : Nat, drag : {"kept", "ignored", "loose"}, away : BOOLEAN]

ChartInv ==
    /\ user \in User
    /\ FeedInOrder(feed, market)
    /\ queued \in BOOLEAN /\ (~queued => page.shown = Payload(feed))
    /\ PageInOrder(page)
    /\ Linked(feed, market, page, reading)
    /\ AdapterInOrder(adapter, page, reading, user.away)

\* What a frame takes from a feed in order
LEMMA PayloadIs ==
    ASSUME NEW f, NEW m, FeedInOrder(f, m)
    PROVE  /\ ShownInOrder(Payload(f))
           /\ Payload(f).key = <<f.session, f.selected>>
           /\ Times(Payload(f).candles) = Held(f)
           /\ Len(Payload(f).candles) = Cardinality(Held(f))
           /\ Related(f, m, Held(f), Payload(f).loading)
<1> DEFINE s == Payload(f)
<1>1. /\ m.last \in Nat /\ Held(f) \in SUBSET Nat
      /\ \A u \in Held(f) : u \in Nat /\ 1 <= u /\ u <= m.last
      /\ f.candles \in History
  BY FeedNumbers
<1>2. f.of \in Nat \X (Interval \cup {"none"}) /\ <<f.session, f.selected>> \in Nat \X Interval
  BY DEF FeedInOrder, Feed
<1>3. /\ s.key = <<f.session, f.selected>> /\ s.candles = Sorted(f)
      /\ s.loading = (f.status = "loading") /\ s.ready = (f.status = "ready")
      /\ s = [key |-> <<f.session, f.selected>>, candles |-> Sorted(f),
              loading |-> f.status = "loading", ready |-> f.status = "ready"]
  BY DEF Payload
<1>4. /\ Sorted(f) \in Seq(Candle) /\ Rising(Sorted(f))
      /\ Len(Sorted(f)) = Cardinality(Held(f)) /\ Times(Sorted(f)) = Held(f)
      /\ \A i \in DOMAIN Sorted(f) : Sorted(f)[i].of = f.of
  <2>1. \A u \in DOMAIN f.candles : u <= m.last
    BY <1>1 DEF Held
  <2> QED BY <1>1, <1>2, <2>1, SortedIs DEF Held
<1>5. s \in Shown
  BY <1>2, <1>3, <1>4 DEF Shown
<1>6. f.status = "ready" => f.of = <<f.session, f.selected>>
  BY DEF FeedInOrder
<1>7. Contiguous(Held(f)) \/ Cardinality(Held(f)) > HistoryLimit \/ Rooted(Held(f))
  BY DEF FeedInOrder, Shape
<1>8. Same(f, Held(f), s.loading)
  BY <1>3 DEF Same
<1> HIDE DEF s
<1>9. ShownInOrder(s)
  BY <1>3, <1>4, <1>5, <1>6, <1>7 DEF ShownInOrder
<1> QED BY <1>3, <1>4, <1>8, <1>9 DEF s, Related

\* Before the first connection nothing is held and nothing on show.
LEMMA ChartInit == Init => ChartInv
<1> SUFFICES ASSUME Init PROVE ChartInv
  OBVIOUS
<1> USE DEF Init
<1>1. unsent \in Mark /\ NoCandles \in History /\ DOMAIN NoCandles = {}
  <2>1. NoCandles \in [{} -> Nat] /\ DOMAIN NoCandles = {}
    BY DEF NoCandles
  <2> QED BY <2>1 DEF Mark, unsent, History
<1>2. market \in Mark /\ market # unsent /\ market.last >= Warm /\ market.last = Warm
  BY Limits DEF NewMarket, Mark, unsent
<1>3. feed.selected \in Interval
  BY ChartAssumption
<1>4. /\ feed.connected = FALSE /\ feed.session = 0 /\ feed.candles = NoCandles
      /\ feed.status = "idle" /\ feed.since = unsent /\ feed.sent = unsent
  OBVIOUS
<1>5. feed \in Feed
  BY <1>1, <1>3 DEF Feed
<1>6. Held(feed) = {}
  BY <1>1, <1>4 DEF Held
<1>7. FeedInOrder(feed, market)
  <2>1. Contiguous(Held(feed)) /\ Shape(Held(feed))
    BY <1>6 DEF Contiguous, Shape
  <2> HIDE DEF Init
  <2> QED BY <1>2, <1>4, <1>5, <1>6, <2>1 DEF FeedInOrder
<1>8. /\ page.generation = 1 /\ page.mounting = {1} /\ page.shown = Payload(feed)
      /\ page = [generation |-> 1, mounting |-> {1}, shown |-> Payload(feed),
                 error |-> FALSE, following |-> TRUE]
      /\ adapter = none /\ user = untouched /\ queued = TRUE
  OBVIOUS
<1> HIDE DEF Init
<1>9. /\ ShownInOrder(Payload(feed)) /\ Payload(feed).key = <<feed.session, feed.selected>>
      /\ Related(feed, market, Held(feed), Payload(feed).loading)
      /\ Times(Payload(feed).candles) = Held(feed)
  BY <1>7, PayloadIs
<1>10. PageInOrder(page)
  BY <1>8, <1>9 DEF PageInOrder, ShownInOrder
<1>13. user \in User /\ reading = 0
  BY <1>8 DEF User, untouched, reading
<1>11. Linked(feed, market, page, reading)
  BY <1>4, <1>8, <1>9, <1>13 DEF Linked
<1>12. AdapterInOrder(adapter, page, reading, user.away)
  BY <1>8, <1>13 DEF AdapterInOrder
<1> QED BY <1>7, <1>8, <1>10, <1>11, <1>12, <1>13 DEF ChartInv

-----------------------------------------------------------------------------
(* Steps of the feed. *)

\* A step that leaves the page alone has to preserve what relates the feed to it.
LEMMA FeedMoves ==
    ASSUME ChartInv, page' = page, adapter' = adapter, user' = user,
           feed'.session = feed.session, Preserves(feed, market, feed', market'),
           queued' \in BOOLEAN, ~queued' => page.shown = Payload(feed')
    PROVE  ChartInv'
<1>1. Times(page.shown.candles) \in SUBSET Nat /\ page.shown.loading \in BOOLEAN
  <2>1. page.shown.candles \in Seq(Candle) /\ page.shown.loading \in BOOLEAN
    BY DEF ChartInv, PageInOrder, ShownInOrder, Shown
  <2>2. DOMAIN page.shown.candles = 1 .. Len(page.shown.candles)
    BY <2>1
  <2> QED BY <2>1, <2>2, CandleTimes DEF Times
<1>2. reading \in Nat /\ reading' = reading
  BY DEF ChartInv, AdapterInOrder, reading
<1>3. Linked(feed', market', page, reading)
  BY <1>1, <1>2 DEF ChartInv, Linked, Preserves
<1>4. FeedInOrder(feed', market')
  BY DEF Preserves
<1> QED BY <1>2, <1>3, <1>4 DEF ChartInv

\* selectHistory
LEMMA Selected ==
    ASSUME NEW f \in Feed, NEW status \in {"loading", "failed"}, market \in Mark
    PROVE  LET g == SelectHistory(f, status)
           IN  /\ g \in Feed /\ g.candles = NoCandles /\ g.sent = unsent
               /\ g.of = <<g.session, g.selected>> /\ g.session = f.session
               /\ g.connected = f.connected /\ g.status = status
               /\ g.status = "loading" => g.since = market
<1> DEFINE of == <<f.session, f.selected>>
           since == IF status = "loading" THEN market ELSE unsent
           g == [f EXCEPT !.of = of, !.candles = NoCandles, !.status = status, !.since = since, !.sent = unsent]
<1>1. SelectHistory(f, status) = g
  BY DEF SelectHistory
<1>2. unsent \in Mark /\ NoCandles \in History /\ since \in Mark
  <2>1. NoCandles \in [{} -> Nat]
    BY DEF NoCandles
  <2>2. unsent \in Mark
    BY DEF Mark, unsent
  <2>3. NoCandles \in History
    BY <2>1 DEF History
  <2> QED BY <2>2, <2>3
<1>3. of \in Nat \X (Interval \cup {"none"}) /\ of = <<f.session, f.selected>>
  BY DEF Feed
<1>4. status = "loading" => since = market
  OBVIOUS
<1> HIDE DEF of, since
<1>5. g \in Feed
  BY <1>2, <1>3 DEF Feed
<1>6. /\ g.candles = NoCandles /\ g.sent = unsent /\ g.of = of /\ g.session = f.session
      /\ g.selected = f.selected
      /\ g.connected = f.connected /\ g.status = status /\ g.since = since
  BY DEF Feed
<1> HIDE DEF g
<1> QED BY <1>1, <1>3, <1>4, <1>5, <1>6

\* A history or batch holds the newest candles, none missing.
LEMMA NewestIs ==
    ASSUME NEW m \in Mark, NEW n \in Int
    PROVE  /\ Newest(m, n) \in History
           /\ \A u : u \in DOMAIN Newest(m, n) <=> u \in 1 .. m.last /\ u > m.last - n
<1> DEFINE S == {u \in 1 .. m.last : u > m.last - n}
<1>1. m.last \in Nat /\ m.rev \in Nat
  BY DEF Mark
<1>2. \A t : RevIn(m, t) \in Nat
  BY <1>1 DEF RevIn
<1>3. Newest(m, n) \in [S -> Nat] /\ DOMAIN Newest(m, n) = S
  BY <1>2 DEF Newest
<1>4. S \in SUBSET Nat
  BY <1>1
<1>5. \A u : u \in S <=> u \in 1 .. m.last /\ u > m.last - n
  OBVIOUS
<1> HIDE DEF S
<1> QED BY <1>3, <1>4, <1>5, HistoryIs

\* mergeInto and trimCandles
LEMMA MergedIs ==
    ASSUME NEW c \in History, NEW b \in History
    PROVE  /\ Trim(MergeInto(c, b)) \in History
           /\ DOMAIN Trim(MergeInto(c, b)) = Top(DOMAIN c \cup DOMAIN b)
<1> DEFINE S == DOMAIN c \cup DOMAIN b
           d == MergeInto(c, b)
           R == {u \in DOMAIN d : Cardinality({v \in DOMAIN d : v > u}) < MaxCandles}
<1>1. /\ DOMAIN c \in SUBSET Nat /\ c \in [DOMAIN c -> Nat]
      /\ DOMAIN b \in SUBSET Nat /\ b \in [DOMAIN b -> Nat]
  BY HistoryIs
<1>2. d \in [S -> Nat] /\ DOMAIN d = S
  BY <1>1 DEF MergeInto
<1>3. R = Top(S)
  BY <1>2 DEF Top, Above
<1>4. R \in SUBSET S
  BY <1>2
<1>5. Trim(d) = [t \in R |-> d[t]]
  BY DEF Trim
<1> HIDE DEF d, R
<1>6. Trim(d) \in [R -> Nat] /\ DOMAIN Trim(d) = R
  BY <1>2, <1>4, <1>5
<1>7. R \in SUBSET Nat
  BY <1>1, <1>4
<1> QED BY <1>3, <1>6, <1>7, HistoryIs DEF d

LEMMA FeedTyped ==
    ASSUME ChartInv
    PROVE  /\ FeedInOrder(feed, market) /\ feed \in Feed /\ market \in Mark
           /\ market.last \in Nat /\ market # unsent /\ unsent \in Mark
<1>1. FeedInOrder(feed, market) /\ feed \in Feed /\ market \in Mark /\ market # unsent
  BY DEF ChartInv, FeedInOrder
<1> QED BY <1>1 DEF Mark, unsent

LEMMA TradeStep == ASSUME ChartInv, Trade PROVE ChartInv'
<1>1. /\ FeedInOrder(feed, market) /\ market \in Mark /\ market.last \in Nat
  BY FeedTyped
<1>2. market' \in Mark /\ market'.rev # 0 /\ market.last <= market'.last
  BY <1>1 DEF Trade, Mark
<1>3. /\ feed' = feed /\ queued' = queued /\ page' = page /\ adapter' = adapter /\ user' = user
  BY DEF Trade
<1>4. Preserves(feed, market, feed', market')
  BY <1>1, <1>2, <1>3, AfterTrade
<1>5. queued' \in BOOLEAN /\ (~queued' => page.shown = Payload(feed'))
  BY <1>3 DEF ChartInv
<1> QED BY <1>3, <1>4, <1>5, FeedMoves

\* A step of the feed alone
LEMMA Published ==
    ASSUME ChartInv, NEW g, Publishes(g), market' = market, g.session = feed.session,
           Preserves(feed, market, g, market)
    PROVE  ChartInv'
<1>1. feed' = g /\ queued' = TRUE /\ page' = page /\ adapter' = adapter /\ user' = user
  BY DEF Publishes
<1> QED BY <1>1, FeedMoves

LEMMA ReceiveHistoryStep == ASSUME ChartInv, ReceiveHistory PROVE ChartInv'
<1>1. /\ FeedInOrder(feed, market) /\ feed \in Feed /\ market \in Mark
      /\ market.last \in Nat /\ unsent \in Mark
  BY FeedTyped
<1>2. PICK last \in feed.since.last .. market.last, rev \in 1 .. 2 :
        /\ last < feed.since.last + HistoryLimit
        /\ LET history == Newest([last |-> last, rev |-> rev], HistoryLimit)
           IN  Publishes([feed EXCEPT !.candles = Trim(MergeInto(@, history)),
                                      !.status = "ready",
                                      !.since = IF feed.sent = unsent THEN @ ELSE unsent])
  BY DEF ReceiveHistory
<1>3. feed.connected /\ feed.status = "loading" /\ market' = market
  BY DEF ReceiveHistory
<1>4. /\ feed.since.last \in Nat /\ feed.candles \in History
      /\ feed.since.last >= Warm /\ feed.of = <<feed.session, feed.selected>>
  <2>1. feed.since.last \in Nat /\ feed.candles \in History
    BY <1>1, FeedNumbers
  <2> QED BY <1>1, <1>3, <2>1 DEF FeedInOrder
<1>5. last \in Nat /\ feed.since.last <= last /\ last <= market.last /\ rev \in Nat
  BY <1>1, <1>4
<1> DEFINE n == [last |-> last, rev |-> rev]
           history == Newest(n, HistoryLimit)
           candles == Trim(MergeInto(feed.candles, history))
           since == IF feed.sent = unsent THEN feed.since ELSE unsent
           g == [feed EXCEPT !.candles = candles, !.status = "ready", !.since = since]
<1>6. Publishes(g)
  BY <1>2
<1>7. history \in History /\ DOMAIN history = {u \in 1 .. last : u > last - HistoryLimit}
  <2>1. n \in Mark /\ n.last = last
    BY <1>5 DEF Mark
  <2>2. HistoryLimit \in Int
    BY Limits
  <2> HIDE DEF n
  <2>3. /\ history \in History
        /\ \A u : u \in DOMAIN history <=> u \in 1 .. last /\ u > last - HistoryLimit
    BY <2>1, <2>2, NewestIs
  <2> HIDE DEF history
  <2> QED BY <2>3
<1> HIDE DEF history
<1>8. /\ candles \in History
      /\ DOMAIN candles = Top(Held(feed) \cup {u \in 1 .. last : u > last - HistoryLimit})
  BY <1>4, <1>7, MergedIs DEF Held
<1> HIDE DEF candles
<1>12. since \in Mark /\ (feed.sent = unsent => since = feed.since)
  BY <1>1 DEF Feed
<1> HIDE DEF since
<1>9. /\ g \in Feed /\ g.candles = candles /\ g.status = "ready" /\ g.sent = feed.sent
      /\ g.connected = feed.connected /\ g.session = feed.session /\ g.selected = feed.selected
      /\ g.of = feed.of /\ g.since = since
  BY <1>1, <1>8, <1>12 DEF Feed
<1> HIDE DEF g
<1>10. Held(g) = Top(Held(feed) \cup {u \in 1 .. last : u > last - HistoryLimit})
  BY <1>8, <1>9 DEF Held
<1>11. Preserves(feed, market, g, market)
  BY <1>1, <1>2, <1>3, <1>4, <1>5, <1>9, <1>10, <1>12, AfterHistory
<1> QED BY <1>3, <1>6, <1>9, <1>11, Published

LEMMA ReceiveLiveStep == ASSUME ChartInv, ReceiveLive PROVE ChartInv'
<1>1. /\ FeedInOrder(feed, market) /\ feed \in Feed /\ market \in Mark
      /\ market.last \in Nat /\ unsent \in Mark
  BY FeedTyped
<1>2. /\ feed.connected /\ market' = market
      /\ feed.sent = unsent /\ feed.since # unsent => market.last <= feed.since.last + Warm
  BY DEF ReceiveLive
<1>3. /\ feed.sent.last \in Nat /\ feed.candles \in History /\ Held(feed) \in SUBSET Nat
      /\ feed.of = <<feed.session, feed.selected>>
      /\ feed.sent # unsent => 1 <= feed.sent.last /\ feed.sent.last <= market.last
      /\ market.last >= 1
  <2>1. /\ feed.sent.last \in Nat /\ feed.candles \in History /\ Held(feed) \in SUBSET Nat
    BY <1>1, FeedNumbers
  <2>2. market.last >= Warm
    BY <1>1 DEF FeedInOrder
  <2>3. feed.sent # unsent => 1 <= feed.sent.last /\ feed.sent.last <= market.last
    BY <1>1 DEF FeedInOrder
  <2>4. feed.of = <<feed.session, feed.selected>>
    BY <1>1, <1>2 DEF FeedInOrder
  <2>5. market.last >= 1
    BY <1>1, <2>2, Limits
  <2> QED BY <2>1, <2>3, <2>4, <2>5
<1> DEFINE n == IF feed.sent = unsent THEN 1 ELSE market.last - feed.sent.last + 1
           first == IF feed.sent = unsent THEN market.last ELSE feed.sent.last
           batch == Newest(market, n)
           candles == Trim(MergeInto(feed.candles, batch))
           since == IF feed.status = "loading" THEN feed.since ELSE unsent
           g == [feed EXCEPT !.candles = candles, !.sent = market, !.since = since]
<1>4. Publishes(g)
  BY DEF ReceiveLive
<1>5. n \in Int /\ first = market.last - n + 1 /\ first \in Nat /\ 1 <= first
  BY <1>1, <1>3
<1>6. /\ feed.sent = unsent => first = market.last
      /\ feed.sent # unsent => first = feed.sent.last
  OBVIOUS
<1> HIDE DEF n, first
<1>7. batch \in History /\ DOMAIN batch = first .. market.last
  <2>1. /\ batch \in History
        /\ \A u : u \in DOMAIN batch <=> u \in 1 .. market.last /\ u > market.last - n
    BY <1>1, <1>5, NewestIs
  <2>2. \A u : u \in 1 .. market.last /\ u > market.last - n <=> u \in first .. market.last
    BY <1>1, <1>5
  <2> HIDE DEF batch
  <2> QED BY <2>1, <2>2
<1> HIDE DEF batch
<1>8. candles \in History /\ DOMAIN candles = Top(Held(feed) \cup (first .. market.last))
  BY <1>3, <1>7, MergedIs DEF Held
<1> HIDE DEF candles
<1>12. since \in Mark /\ (feed.status = "loading" => since = feed.since)
  BY <1>1 DEF Feed
<1> HIDE DEF since
<1>9. /\ g \in Feed /\ g.candles = candles /\ g.status = feed.status /\ g.sent = market
      /\ g.connected = feed.connected /\ g.session = feed.session /\ g.selected = feed.selected
      /\ g.of = feed.of /\ g.since = since
  BY <1>1, <1>8, <1>12 DEF Feed
<1> HIDE DEF g
<1>10. Held(g) = Top(Held(feed) \cup (first .. market.last))
  BY <1>8, <1>9 DEF Held
<1>11. Preserves(feed, market, g, market)
  BY <1>1, <1>2, <1>3, <1>6, <1>9, <1>10, <1>12, AfterBatch
<1> QED BY <1>2, <1>4, <1>9, <1>11, Published

\* A selection by a connected feed, or one that connects again
LEMMA SelectedStep ==
    ASSUME ChartInv, NEW f \in Feed, f.session = feed.session, f.connected,
           NEW status \in {"loading", "failed"}, Publishes(SelectHistory(f, status)),
           market' = market
    PROVE  ChartInv'
<1>1. FeedInOrder(feed, market) /\ market \in Mark
  BY FeedTyped
<1> DEFINE g == SelectHistory(f, status)
<1>2. /\ g \in Feed /\ g.candles = NoCandles /\ g.sent = unsent
      /\ g.of = <<g.session, g.selected>> /\ g.session = f.session
      /\ g.connected = f.connected /\ g.status = status
      /\ g.status = "loading" => g.since = market
  BY <1>1, Selected
<1>3. Publishes(g)
  OBVIOUS
<1> HIDE DEF g
<1>4. Preserves(feed, market, g, market)
  BY <1>1, <1>2, AfterSelection
<1> QED BY <1>2, <1>3, <1>4, Published

LEMMA ResyncStep == ASSUME ChartInv, Resync PROVE ChartInv'
<1>1. PICK status \in {"loading", "failed"} : Publishes(SelectHistory(feed, status))
  BY DEF Resync
<1>2. feed.connected /\ market' = market
  BY DEF Resync
<1> QED BY <1>1, <1>2, FeedTyped, SelectedStep

LEMMA RetryStep == ASSUME ChartInv, Retry PROVE ChartInv'
<1>1. feed.connected /\ market' = market /\ Publishes(SelectHistory(feed, "loading"))
  BY DEF Retry
<1>2. "loading" \in {"loading", "failed"}
  OBVIOUS
<1> QED BY <1>1, <1>2, FeedTyped, SelectedStep

LEMMA ReconnectStep == ASSUME ChartInv, Reconnect PROVE ChartInv'
<1> DEFINE f == [feed EXCEPT !.connected = TRUE]
<1>1. PICK status \in {"loading", "failed"} : Publishes(SelectHistory(f, status))
  BY DEF Reconnect
<1>2. market' = market
  BY DEF Reconnect
<1>3. f \in Feed /\ f.session = feed.session /\ f.connected
  BY FeedTyped DEF Feed
<1> HIDE DEF f
<1> QED BY <1>1, <1>2, <1>3, SelectedStep

LEMMA HistoryFailsStep == ASSUME ChartInv, HistoryFails PROVE ChartInv'
<1> DEFINE g == [feed EXCEPT !.status = "failed", !.since = unsent]
<1>1. feed.connected /\ feed.status = "loading" /\ Publishes(g) /\ market' = market
  BY DEF HistoryFails
<1>2. FeedInOrder(feed, market) /\ feed \in Feed /\ unsent \in Mark
  BY FeedTyped
<1>3. /\ g \in Feed /\ g.candles = feed.candles /\ g.status = "failed" /\ g.sent = feed.sent
      /\ g.connected = feed.connected /\ g.session = feed.session /\ g.selected = feed.selected
      /\ g.of = feed.of
  BY <1>2 DEF Feed
<1> HIDE DEF g
<1>4. feed.of = <<feed.session, feed.selected>>
  BY <1>1, <1>2 DEF FeedInOrder
<1>5. Preserves(feed, market, g, market)
  BY <1>1, <1>2, <1>3, <1>4, AfterFailure
<1> QED BY <1>1, <1>3, <1>5, Published

LEMMA DisconnectStep == ASSUME ChartInv, Disconnect PROVE ChartInv'
<1> DEFINE g == [feed EXCEPT !.connected = FALSE, !.status = "idle", !.since = unsent, !.sent = unsent]
<1>1. Publishes(g) /\ market' = market
  BY DEF Disconnect
<1>2. FeedInOrder(feed, market) /\ feed \in Feed /\ unsent \in Mark
  BY FeedTyped
<1>3. /\ g \in Feed /\ g.candles = feed.candles /\ g.status = "idle" /\ g.sent = unsent
      /\ ~g.connected /\ g.session = feed.session
  BY <1>2 DEF Feed
<1> HIDE DEF g
<1>4. Preserves(feed, market, g, market)
  BY <1>2, <1>3, AfterFailure
<1> QED BY <1>1, <1>3, <1>4, Published

LEMMA SelectIntervalStep == ASSUME ChartInv, SelectInterval PROVE ChartInv'
<1>1. PICK i \in Interval \ {feed.selected} :
        LET f == [feed EXCEPT !.selected = i]
        IN  Publishes(IF feed.connected THEN SelectHistory(f, "loading") ELSE f)
  BY DEF SelectInterval
<1>2. market' = market
  BY DEF SelectInterval
<1> DEFINE f == [feed EXCEPT !.selected = i]
<1>3. FeedInOrder(feed, market) /\ feed \in Feed
  BY FeedTyped
<1>4. /\ f \in Feed /\ f.session = feed.session /\ f.connected = feed.connected
      /\ f.candles = feed.candles /\ f.status = feed.status /\ f.sent = feed.sent
  BY <1>3 DEF Feed
<1>5. Publishes(IF feed.connected THEN SelectHistory(f, "loading") ELSE f)
  BY <1>1
<1> HIDE DEF f
<1>6. CASE feed.connected
  <2>1. "loading" \in {"loading", "failed"} /\ Publishes(SelectHistory(f, "loading"))
    BY <1>5, <1>6
  <2> QED BY <1>2, <1>4, <1>6, <2>1, SelectedStep
<1>7. CASE ~feed.connected
  <2>1. Publishes(f)
    BY <1>5, <1>7
  <2>2. Preserves(feed, market, f, market)
    BY <1>3, <1>4, <1>7, AfterChoice
  <2> QED BY <1>2, <1>4, <2>1, <2>2, Published
<1> QED BY <1>6, <1>7

Opened(f, n, of) ==
    [f EXCEPT !.connected = TRUE, !.session = @ + 1, !.candles = NoCandles,
              !.of = of, !.status = "loading", !.since = n, !.sent = unsent]

LEMMA OpenedIs ==
    ASSUME NEW f \in Feed, NEW n \in Mark, NEW of \in Nat \X (Interval \cup {"none"})
    PROVE  LET g == Opened(f, n, of)
           IN  /\ g \in Feed /\ g.candles = NoCandles /\ g.status = "loading" /\ g.sent = unsent
               /\ g.since = n
               /\ g.connected /\ g.session = f.session + 1 /\ g.selected = f.selected /\ g.of = of
<1>1. NoCandles \in History
  <2>1. NoCandles \in [{} -> Nat]
    BY DEF NoCandles
  <2> QED BY <2>1 DEF History
<1>2. unsent \in Mark
  BY DEF Mark, unsent
<1>3. f.session + 1 \in Nat
  BY DEF Feed
<1> QED BY <1>1, <1>2, <1>3 DEF Feed, Opened

\* Another server: what is on show is not of its session.
LEMMA ConnectStep == ASSUME ChartInv, Connect PROVE ChartInv'
<1> DEFINE of == <<feed.session + 1, feed.selected>>
           g == Opened(feed, market', of)
<1>1. /\ FeedInOrder(feed, market) /\ feed \in Feed /\ market \in Mark
      /\ market # unsent /\ unsent \in Mark
  BY FeedTyped
<1>2. Publishes(g)
  BY DEF Connect, Opened
<1>3. /\ feed' = g /\ queued' = TRUE /\ page' = page /\ adapter' = adapter /\ user' = user
  BY <1>2 DEF Publishes
<1>4. market' \in Mark /\ market' # unsent /\ market'.last >= Warm
  <2>1. market' = market \/ market' = NewMarket
    BY DEF Connect
  <2>2. market.last >= Warm
    BY <1>1 DEF FeedInOrder
  <2>3. NewMarket \in Mark /\ NewMarket # unsent /\ NewMarket.last >= Warm
    BY Limits DEF NewMarket, Mark, unsent
  <2> QED BY <1>1, <2>1, <2>2, <2>3
<1>5. of \in Nat \X (Interval \cup {"none"}) /\ feed.session \in Nat 
  <2>1. feed.session \in Nat /\ feed.selected \in Interval
    BY <1>1 DEF Feed
  <2> QED BY <2>1
<1> HIDE DEF of
<1>6. /\ g \in Feed /\ g.candles = NoCandles /\ g.status = "loading" /\ g.sent = unsent
      /\ g.since = market'
      /\ g.connected /\ g.session = feed.session + 1 /\ g.selected = feed.selected /\ g.of = of
  BY <1>1, <1>4, <1>5, OpenedIs
<1> HIDE DEF g
<1>7. FeedInOrder(g, market')
  <2>1. g.of = <<g.session, g.selected>>
    BY <1>6 DEF of
  <2> QED BY <1>4, <1>6, <2>1, Forgotten
<1>8. Linked(g, market', page, reading)
  <2>1. page.shown.key[1] \in Nat
    BY DEF ChartInv, PageInOrder, ShownInOrder, Shown
  <2>2. page.shown.key[1] <= feed.session
    BY DEF ChartInv, Linked
  <2>3. page.shown.key[1] <= g.session /\ page.shown.key[1] # g.session
    BY <1>5, <1>6, <2>1, <2>2
  <2> QED BY <2>3 DEF Linked
<1>9. reading' = reading /\ user' = user
  BY <1>3 DEF reading
<1> QED BY <1>3, <1>7, <1>8, <1>9 DEF ChartInv

-----------------------------------------------------------------------------
(* Steps of the page. *)

\* What the user is known to look at
ReadingOf(u) == IF u.drag = "kept" THEN u.left ELSE 0

LEMMA Noted ==
    ASSUME NEW u \in User, NEW away \in BOOLEAN
    PROVE  LET v == [u EXCEPT !.away = away]
           IN  v \in User /\ v.away = away /\ ReadingOf(v) = ReadingOf(u) /\ ReadingOf(v) \in Nat
<1> DEFINE v == [u EXCEPT !.away = away]
<1>1. v \in User /\ v.away = away /\ v.left = u.left /\ v.drag = u.drag /\ u.left \in Nat
  BY DEF User
<1> HIDE DEF v
<1>2. ReadingOf(v) = ReadingOf(u) /\ ReadingOf(v) \in Nat
  BY <1>1 DEF ReadingOf
<1> QED BY <1>1, <1>2 DEF v

LEMMA Untouched == untouched \in User /\ ReadingOf(untouched) = 0 /\ ~untouched.away
  BY DEF untouched, User, ReadingOf

LEMMA ReadingIs == reading = ReadingOf(user) /\ reading' = ReadingOf(user')
  BY DEF reading, ReadingOf

\* An adapter in order is given candles.
LEMMA Fed ==
    ASSUME user \in User, NEW a, Truthful(a, user.away), InView(a), a.prev = a.drawn, Rising(a.drawn),
           PageInOrder(page), a.generation = page.generation,
           reading \in Nat, Reads(a, reading),
           NEW shown, ShownInOrder(shown), InPlace(a.prev, shown.candles),
           reading # 0 /\ shown.candles # <<>> =>
               \E i \in 1 .. Len(shown.candles) : shown.candles[i].t > reading,
           Feeds(a, shown)
    PROVE  /\ PageInOrder(page') /\ AdapterInOrder(adapter', page', reading', user'.away)
           /\ page'.shown = shown /\ reading' \in {reading, 0} /\ user' \in User
<1>1. PICK rest \in Rests(a) :
        LET b == SetCandles(a, shown.candles, shown.loading, shown.ready, rest)
        IN  /\ adapter' = b
            /\ page' = [page EXCEPT !.shown = shown, !.error = FALSE,
                                    !.following = b.following, !.mounting = @ \ {b.generation}]
            /\ user' = [(IF b.waiting \/ IndexOf(b.drawn, user.left) # 0
                         THEN user ELSE untouched) EXCEPT
                            !.away = user.away /\ b.following /\ b.right < 0]
  BY DEF Feeds
<1>2. rest \in Int
  BY ChartAssumption DEF Rests
<1> DEFINE b == SetCandles(a, shown.candles, shown.loading, shown.ready, rest)
<1>3. /\ shown \in Shown /\ shown.candles \in Seq(Candle) /\ Rising(shown.candles)
      /\ shown.loading \in BOOLEAN /\ shown.ready \in BOOLEAN /\ ~(shown.loading /\ shown.ready)
  BY DEF ShownInOrder, Shown
<1>4. SetRight(a, shown.candles, shown.loading, reading, b, user.away)
  <2>1. user.away \in BOOLEAN
    BY DEF User
  <2> DEFINE away == user.away
  <2>2. away \in BOOLEAN /\ Truthful(a, away)
    BY <2>1
  <2> HIDE DEF away, b
  <2>3. SetRight(a, shown.candles, shown.loading, reading,
                 SetCandles(a, shown.candles, shown.loading, shown.ready, rest), away)
    BY <1>2, <1>3, <2>2, CandlesSet
  <2> QED BY <2>3 DEF b, away
<1>5. /\ adapter' = b
      /\ page' = [page EXCEPT !.shown = shown, !.error = FALSE,
                              !.following = b.following, !.mounting = @ \ {b.generation}]
  BY <1>1
<1> DEFINE kept == b.waiting \/ IndexOf(b.drawn, user.left) # 0
           away == user.away /\ b.following /\ b.right < 0
           u == IF kept THEN user ELSE untouched
<1>14. user' = [u EXCEPT !.away = away]
  BY <1>1
<1> HIDE DEF b
<1>6. /\ Truthful(b, user.away) /\ InView(b) /\ b.prev = shown.candles /\ b.drawn = shown.candles
      /\ b.generation = page.generation
      /\ shown.loading => b.waiting
      /\ Reads(b, IF b.waiting \/ IndexOf(shown.candles, reading) # 0 THEN reading ELSE 0)
  BY <1>4 DEF SetRight
<1>7. b.following \in BOOLEAN /\ b.right \in Int
  BY <1>6 DEF Truthful, Adapter
<1>15. /\ away \in BOOLEAN /\ u \in User
       /\ ReadingOf(u) = IF kept THEN reading ELSE 0
  BY <1>7, Untouched, ReadingIs DEF User
<1>16. Truthful(b, away)
  BY <1>6 DEF Truthful
<1>17. Reads(b, ReadingOf(u))
  <2>1. Reads(b, 0)
    BY DEF Reads, Keeps
  <2>2. reading # 0 => reading = user.left
    BY DEF reading
  <2> QED BY <1>6, <1>15, <2>1, <2>2
<1> HIDE DEF kept, away, u
<1>18. /\ user' \in User /\ user'.away = away
       /\ reading' = ReadingOf(u) /\ reading' \in Nat
  BY <1>14, <1>15, Noted, ReadingIs
<1>19. Truthful(b, user'.away) /\ Reads(b, reading')
  BY <1>16, <1>17, <1>18
<1>8. /\ page.generation \in Nat \ {0} /\ page.mounting \in SUBSET Nat
      /\ page \in [generation : Nat \ {0}, mounting : SUBSET Nat, shown : Shown,
                   error : BOOLEAN, following : BOOLEAN]
  BY DEF PageInOrder
<1>9. /\ page'.shown = shown /\ page'.following = b.following
      /\ page'.generation = page.generation
      /\ page'.mounting = page.mounting \ {page.generation}
      /\ page' \in [generation : Nat \ {0}, mounting : SUBSET Nat, shown : Shown,
                    error : BOOLEAN, following : BOOLEAN]
  BY <1>3, <1>5, <1>6, <1>7, <1>8
<1>10. PageInOrder(page')
  BY <1>9 DEF PageInOrder
<1>11. b # none
  <2>1. b = none => b.generation = 0
    BY DEF none
  <2> QED BY <1>6, <1>8, <2>1
<1>12. reading' \in {reading, 0}
  BY <1>15, <1>18
<1>13. AdapterInOrder(b, page', reading', user'.away)
  BY <1>6, <1>9, <1>11, <1>18, <1>19 DEF AdapterInOrder
<1> QED BY <1>5, <1>9, <1>10, <1>12, <1>13, <1>18

\* The chart is mounted anew.
LEMMA Mounted ==
    ASSUME PageInOrder(page), NEW shown, ShownInOrder(shown), Mounts(shown)
    PROVE  /\ PageInOrder(page') /\ AdapterInOrder(adapter', page', reading', user'.away)
           /\ page'.shown = shown /\ reading' = 0 /\ user' \in User
<1>1. page.generation \in Nat \ {0} /\ page.mounting \in SUBSET Nat
  BY DEF PageInOrder
<1>2. \A generation \in page.mounting : generation <= page.generation
  BY DEF PageInOrder
<1>3. /\ adapter' = none /\ user' = untouched
      /\ page' = [generation |-> page.generation + 1,
                  mounting |-> page.mounting \cup {page.generation + 1},
                  shown |-> shown, error |-> FALSE, following |-> TRUE]
  BY DEF Mounts
<1>4. \A generation \in page'.mounting : generation <= page'.generation
  BY <1>1, <1>2, <1>3
<1>5. shown \in Shown
  BY DEF ShownInOrder
<1>6. PageInOrder(page')
  BY <1>1, <1>3, <1>4, <1>5 DEF PageInOrder
<1>8. user' \in User /\ reading' = 0
  BY <1>3, Untouched, ReadingIs
<1>7. AdapterInOrder(adapter', page', reading', user'.away)
  BY <1>3, <1>8 DEF AdapterInOrder
<1> QED BY <1>3, <1>6, <1>7, <1>8

LEMMA FrameStep == ASSUME ChartInv, Frame PROVE ChartInv'
<1> DEFINE shown == Payload(feed)
<1>1. /\ FeedInOrder(feed, market) /\ PageInOrder(page)
      /\ Linked(feed, market, page, reading) /\ AdapterInOrder(adapter, page, reading, user.away)
      /\ user \in User
  BY DEF ChartInv
<1>2. /\ queued' = FALSE /\ feed' = feed /\ market' = market
      /\ CASE shown.key # page.shown.key -> Mounts(shown)
           [] shown.key = page.shown.key /\ adapter # none -> Feeds(adapter, shown)
           [] OTHER -> page' = [page EXCEPT !.shown = shown] /\ UNCHANGED <<adapter, user>>
  BY DEF Frame
<1>3. /\ ShownInOrder(shown)
      /\ shown.key = <<feed.session, feed.selected>>
      /\ Times(shown.candles) = Held(feed)
      /\ Len(shown.candles) = Cardinality(Held(feed))
      /\ Related(feed, market, Held(feed), shown.loading)
  BY <1>1, PayloadIs
<1>4. /\ PageInOrder(page') /\ AdapterInOrder(adapter', page', reading', user'.away)
      /\ page'.shown = shown
      /\ reading' = 0 \/ (reading' = reading /\ page.shown.key = shown.key)
      /\ user' \in User
  <2>1. CASE shown.key # page.shown.key
    <3>1. Mounts(shown)
      BY <1>2, <2>1
    <3> HIDE DEF shown
    <3>2. /\ PageInOrder(page') /\ AdapterInOrder(adapter', page', reading', user'.away)
          /\ page'.shown = shown /\ reading' = 0 /\ user' \in User
      BY <1>1, <1>3, <3>1, Mounted
    <3> QED BY <3>2
  <2>2. CASE shown.key = page.shown.key /\ adapter # none
    <3>1. Feeds(adapter, shown)
      BY <1>2, <2>2
    <3> HIDE DEF shown
    <3>2. /\ Truthful(adapter, user.away) /\ InView(adapter) /\ Reads(adapter, reading)
          /\ adapter.prev = adapter.drawn /\ adapter.drawn = page.shown.candles
          /\ adapter.generation = page.generation /\ reading \in Nat
      BY <1>1, <2>2 DEF AdapterInOrder
    <3>3. ShownInOrder(page.shown)
      BY <1>1 DEF PageInOrder
    <3>4. /\ page.shown.candles \in Seq(Candle) /\ Rising(page.shown.candles)
          /\ page.shown.loading \in BOOLEAN
          /\ \/ Contiguous(Times(page.shown.candles)) \/ Len(page.shown.candles) > HistoryLimit
             \/ Rooted(Times(page.shown.candles))
      BY <3>3 DEF ShownInOrder, Shown
    <3>5. shown.candles \in Seq(Candle) /\ Rising(shown.candles)
      BY <1>3 DEF ShownInOrder, Shown
    <3>6. /\ Related(feed, market, Times(page.shown.candles), page.shown.loading)
          /\ reading # 0 => Place(feed, market, reading)
      BY <1>1, <1>3, <2>2 DEF Linked
    <3>7. InPlace(adapter.prev, shown.candles)
      BY <1>1, <1>3, <3>2, <3>4, <3>5, <3>6, UpdatesInPlace
    <3>8. ASSUME reading # 0, shown.candles # <<>>
          PROVE  \E i \in 1 .. Len(shown.candles) : shown.candles[i].t > reading
      <4>1. Times(shown.candles) # {} /\ DOMAIN shown.candles = 1 .. Len(shown.candles)
        <5>1. Len(shown.candles) \in Nat \ {0} /\ DOMAIN shown.candles = 1 .. Len(shown.candles)
          BY <3>5, <3>8
        <5>2. shown.candles[1].t \in Times(shown.candles)
          BY <5>1 DEF Times
        <5> QED BY <5>1, <5>2
      <4>2. PICK v \in Held(feed) : reading < v
        BY <1>3, <3>6, <3>8, <4>1 DEF Place
      <4>3. v \in Times(shown.candles) /\ v \in Nat
        BY <1>1, <1>3, FeedNumbers
      <4>4. PICK i \in 1 .. Len(shown.candles) : v = shown.candles[i].t
        BY <4>1, <4>3 DEF Times
      <4> QED BY <3>2, <4>2, <4>3, <4>4
    <3>9. /\ PageInOrder(page') /\ AdapterInOrder(adapter', page', reading', user'.away)
          /\ page'.shown = shown /\ reading' \in {reading, 0} /\ user' \in User
      <4>1. Rising(adapter.drawn)
        BY <3>2, <3>4
      <4> QED BY <1>1, <1>3, <3>1, <3>2, <3>7, <3>8, <4>1, Fed
    <3> QED BY <2>2, <3>9
  <2>3. CASE shown.key = page.shown.key /\ adapter = none
    <3>1. page' = [page EXCEPT !.shown = shown] /\ adapter' = adapter /\ user' = user
      BY <1>2, <2>3
    <3> HIDE DEF shown
    <3>2. shown \in Shown
      BY <1>3 DEF ShownInOrder
    <3>3. /\ page \in [generation : Nat \ {0}, mounting : SUBSET Nat, shown : Shown,
                       error : BOOLEAN, following : BOOLEAN]
          /\ \A generation \in page.mounting : generation <= page.generation
      BY <1>1 DEF PageInOrder
    <3>4. /\ page' \in [generation : Nat \ {0}, mounting : SUBSET Nat, shown : Shown,
                        error : BOOLEAN, following : BOOLEAN]
          /\ page'.shown = shown /\ page'.generation = page.generation
          /\ page'.mounting = page.mounting /\ page'.error = page.error
      BY <3>1, <3>2, <3>3
    <3>5. PageInOrder(page')
      BY <1>3, <3>3, <3>4 DEF PageInOrder
    <3>7. reading' = reading /\ user' \in User
      BY <1>1, <3>1 DEF reading
    <3>6. AdapterInOrder(adapter', page', reading', user'.away)
      BY <1>1, <2>3, <3>1, <3>4, <3>7 DEF AdapterInOrder
    <3> QED BY <2>3, <3>1, <3>4, <3>5, <3>6, <3>7
  <2> QED BY <2>1, <2>2, <2>3
<1>5. Linked(feed', market', page', reading')
  <2> HIDE DEF shown
  <2>1. shown.key[1] = feed.session /\ feed.session \in Nat
    BY <1>1, <1>3 DEF FeedInOrder, Feed
  <2>2. page'.shown.key[1] <= feed.session
    BY <1>4, <2>1
  <2>3. Related(feed, market, Times(page'.shown.candles), page'.shown.loading)
    BY <1>3, <1>4
  <2>4. reading' # 0 => Place(feed, market, reading')
    BY <1>1, <1>4, <2>1 DEF Linked
  <2> QED BY <1>2, <2>2, <2>3, <2>4 DEF Linked
<1> QED BY <1>1, <1>2, <1>4, <1>5 DEF ChartInv

LEMMA NewAdapterIs ==
    ASSUME NEW g \in Nat, NEW away \in BOOLEAN
    PROVE  LET a == NewAdapter(g)
           IN  /\ Truthful(a, away) /\ a.prev = <<>> /\ a.drawn = <<>> /\ a.generation = g
<1>1. noAnchor \in Anchor /\ nowhere \in Int
  BY DEF noAnchor, Anchor, nowhere
<1>2. <<>> \in Seq(Candle) /\ LiveOffset \in Nat
  BY LiveOffsetAssumption
<1>3. NewAdapter(g) \in Adapter
  BY <1>1, <1>2 DEF NewAdapter, Adapter
<1>4. NewAdapter(g).right = LiveOffset /\ NewAdapter(g).offset = LiveOffset /\ ~(LiveOffset < 0)
  BY <1>2 DEF NewAdapter
<1>5. Truthful(NewAdapter(g), away)
  BY <1>2, <1>3, <1>4 DEF Truthful
<1> QED BY <1>5 DEF NewAdapter

LEMMA AdapterLoadedStep == ASSUME ChartInv, AdapterLoaded PROVE ChartInv'
<1>1. /\ FeedInOrder(feed, market) /\ PageInOrder(page)
      /\ Linked(feed, market, page, reading) /\ AdapterInOrder(adapter, page, reading, user.away)
      /\ user \in User
  BY DEF ChartInv
<1>2. PICK g \in page.mounting :
        IF CurrentGeneration(g)
        THEN Feeds(NewAdapter(g), page.shown)
        ELSE page' = [page EXCEPT !.mounting = @ \ {g}] /\ UNCHANGED <<adapter, user>>
  BY DEF AdapterLoaded
<1>3. feed' = feed /\ market' = market /\ queued' = queued
  BY DEF AdapterLoaded
<1>4. /\ page \in [generation : Nat \ {0}, mounting : SUBSET Nat, shown : Shown,
                   error : BOOLEAN, following : BOOLEAN]
      /\ ShownInOrder(page.shown) /\ g \in Nat
  BY <1>1 DEF PageInOrder
<1>5. /\ PageInOrder(page') /\ AdapterInOrder(adapter', page', reading', user'.away)
      /\ page'.shown = page.shown /\ reading' \in {reading, 0} /\ user' \in User
  <2>1. CASE g = page.generation
    <3>1. Feeds(NewAdapter(g), page.shown)
      BY <1>2, <2>1 DEF CurrentGeneration
    <3>2. reading = 0
      BY <1>1, <2>1 DEF AdapterInOrder
    <3> DEFINE a == NewAdapter(g)
    <3>8. user.away \in BOOLEAN
      BY <1>1 DEF User
    <3>3. Truthful(a, user.away) /\ a.prev = <<>> /\ a.drawn = <<>> /\ a.generation = g
      BY <1>4, <3>8, NewAdapterIs
    <3> HIDE DEF a
    <3>4. InView(a) /\ InPlace(a.prev, page.shown.candles)
      BY <3>3 DEF InView, InPlace
    <3>5. Reads(a, reading)
      BY <3>2 DEF Reads, Keeps
    <3>6. Rising(a.drawn)
      <4>1. DOMAIN a.drawn = {}
        BY <3>3
      <4> QED BY <4>1 DEF Rising
    <3>7. Feeds(a, page.shown)
      BY <3>1 DEF a
    <3> QED BY <1>1, <1>4, <2>1, <3>2, <3>3, <3>4, <3>5, <3>6, <3>7, Fed
  <2>2. CASE g # page.generation
    <3>1. page' = [page EXCEPT !.mounting = @ \ {g}] /\ adapter' = adapter /\ user' = user
      BY <1>2, <2>2 DEF CurrentGeneration
    <3>2. /\ page' \in [generation : Nat \ {0}, mounting : SUBSET Nat, shown : Shown,
                        error : BOOLEAN, following : BOOLEAN]
          /\ page'.shown = page.shown /\ page'.generation = page.generation
          /\ page'.mounting = page.mounting \ {g} /\ page'.error = page.error
          /\ page'.following = page.following
      BY <1>4, <3>1
    <3>3. PageInOrder(page')
      BY <1>1, <3>2 DEF PageInOrder
    <3>5. reading' = reading /\ user' \in User
      BY <1>1, <3>1 DEF reading
    <3>4. AdapterInOrder(adapter', page', reading', user'.away)
      BY <1>1, <2>2, <3>1, <3>2, <3>5 DEF AdapterInOrder
    <3> QED BY <3>1, <3>2, <3>3, <3>4, <3>5
  <2> QED BY <2>1, <2>2
<1>6. Linked(feed', market', page', reading')
  BY <1>1, <1>3, <1>5 DEF Linked
<1>7. queued' \in BOOLEAN /\ (~queued' => page'.shown = Payload(feed'))
  BY <1>3, <1>5 DEF ChartInv
<1> QED BY <1>1, <1>3, <1>5, <1>6, <1>7 DEF ChartInv

LEMMA LoadFailsStep == ASSUME ChartInv, LoadFails PROVE ChartInv'
<1>1. /\ FeedInOrder(feed, market) /\ PageInOrder(page)
      /\ Linked(feed, market, page, reading) /\ AdapterInOrder(adapter, page, reading, user.away)
      /\ user \in User
  BY DEF ChartInv
<1>2. PICK g \in page.mounting :
        page' = [page EXCEPT !.mounting = @ \ {g}, !.error = @ \/ CurrentGeneration(g)]
  BY DEF LoadFails
<1>3. /\ feed' = feed /\ market' = market /\ queued' = queued
      /\ adapter' = adapter /\ user' = user
  BY DEF LoadFails, Move
<1>4. page \in [generation : Nat \ {0}, mounting : SUBSET Nat, shown : Shown,
                error : BOOLEAN, following : BOOLEAN]
  BY <1>1 DEF PageInOrder
<1> DEFINE e == page.error \/ CurrentGeneration(g)
<1>5. e \in BOOLEAN /\ (page.error => e) /\ (g = page.generation => e)
  BY <1>4 DEF CurrentGeneration
<1>6. page' = [page EXCEPT !.mounting = @ \ {g}, !.error = e]
  BY <1>2
<1> HIDE DEF e
<1>7. /\ page' \in [generation : Nat \ {0}, mounting : SUBSET Nat, shown : Shown,
                    error : BOOLEAN, following : BOOLEAN]
      /\ page'.shown = page.shown /\ page'.generation = page.generation
      /\ page'.mounting = page.mounting \ {g} /\ page'.error = e
      /\ page'.following = page.following
  BY <1>4, <1>5, <1>6
<1>8. PageInOrder(page')
  BY <1>1, <1>7 DEF PageInOrder
<1>12. reading' = reading
  BY <1>3 DEF reading
<1>9. AdapterInOrder(adapter', page', reading', user'.away)
  <2>1. /\ reading \in Nat
        /\ adapter = none => reading = 0 /\ (page.generation \in page.mounting \/ page.error)
    BY <1>1 DEF AdapterInOrder
  <2>2. adapter = none => page'.generation \in page'.mounting \/ page'.error
    BY <1>5, <1>7, <2>1
  <2>3. page.generation \notin page.mounting => page'.generation \notin page'.mounting
    BY <1>7
  <2> QED BY <1>1, <1>3, <1>7, <1>12, <2>1, <2>2, <2>3 DEF AdapterInOrder
<1>10. Linked(feed', market', page', reading')
  BY <1>1, <1>3, <1>7, <1>12 DEF Linked
<1>11. queued' \in BOOLEAN /\ (~queued' => page'.shown = Payload(feed'))
  BY <1>3, <1>7 DEF ChartInv
<1> QED BY <1>1, <1>3, <1>8, <1>9, <1>10, <1>11 DEF ChartInv

LEMMA RetryChartStep == ASSUME ChartInv, RetryChart PROVE ChartInv'
<1>1. /\ FeedInOrder(feed, market) /\ PageInOrder(page)
      /\ Linked(feed, market, page, reading)
  BY DEF ChartInv
<1>2. Mounts(page.shown) /\ feed' = feed /\ market' = market /\ queued' = queued
  BY DEF RetryChart
<1>3. ShownInOrder(page.shown)
  BY <1>1 DEF PageInOrder
<1>4. /\ PageInOrder(page') /\ AdapterInOrder(adapter', page', reading', user'.away)
      /\ page'.shown = page.shown /\ reading' = 0 /\ user' \in User
  BY <1>1, <1>2, <1>3, Mounted
<1>5. Linked(feed', market', page', reading')
  BY <1>1, <1>2, <1>4 DEF Linked
<1>6. queued' \in BOOLEAN /\ (~queued' => page'.shown = Payload(feed'))
  BY <1>2, <1>4 DEF ChartInv
<1> QED BY <1>1, <1>2, <1>4, <1>5, <1>6 DEF ChartInv

\* A candle on show has its place if a later one is on show and no history loads.
LEMMA Placed ==
    ASSUME NEW f, NEW m, FeedInOrder(f, m), NEW A \in SUBSET Nat, Related(f, m, A, FALSE),
           NEW u \in A, NEW r \in Nat, r < u
    PROVE  Place(f, m, r)
<1>1. /\ m.last \in Nat /\ f.since.last \in Nat /\ f.sent.last \in Nat
      /\ \A v \in Held(f) : v \in Nat /\ 1 <= v /\ v <= m.last
  BY FeedNumbers
<1>2. u \in Nat
  OBVIOUS
<1>3. CASE Same(f, A, FALSE)
  <2>1. Held(f) # {} /\ f.status # "loading" /\ (u \notin Held(f) => \A v \in Held(f) : u < v)
    BY <1>3 DEF Same
  <2>2. PICK v \in Held(f) : u <= v
    <3>1. CASE u \in Held(f)
      BY <1>2, <3>1
    <3>2. CASE u \notin Held(f)
      <4>1. PICK v \in Held(f) : u < v
        BY <2>1, <3>2
      <4> QED BY <1>1, <1>2, <4>1
    <3> QED BY <3>1, <3>2
  <2>3. v \in Nat /\ v <= m.last /\ r < v
    BY <1>1, <1>2, <2>2
  <2>4. r < m.last
    BY <1>1, <2>3
  <2> QED BY <2>1, <2>3, <2>4 DEF Place
<1>4. CASE \A w \in A : Before(f, m, w)
  <2>1. Before(f, m, u)
    BY <1>4
  <2>2. u <= m.last /\ (f.status = "loading" => u <= f.since.last)
    BY <2>1 DEF Before
  <2>3. Held(f) # {} => \E v \in Held(f) : r < v
    <3>1. Held(f) # {} => \E v \in Held(f) : u <= v
      BY <2>1 DEF Before
    <3> QED BY <1>1, <1>2, <3>1
  <2> QED BY <1>1, <1>2, <2>2, <2>3 DEF Place
<1> QED BY <1>3, <1>4 DEF Related

\* A drag; one that is noticed stops the following.
LEMMA Dragged ==
    ASSUME NEW a, NEW away, Truthful(a, away), a.prev # <<>>, a.drawn # <<>>,
           NEW right \in Int, right # a.right
    PROVE  LET b == Drag(a, right)
           IN  /\ SameBut(a, b) /\ b.right = right
               /\ Truthful(b, a.waiting /\ b.following /\ right < 0)
<1> DEFINE b == [a EXCEPT !.right = right]
<1>1. Drag(a, right) = Report(b)
  BY DEF Drag, MovedTo
<1>2. b \in Adapter /\ SameBut(a, b) /\ b.right = right
  BY DEF Truthful, Adapter, SameBut
<1> HIDE DEF b
<1>3. /\ Report(b) \in Adapter /\ SameBut(b, Report(b)) /\ Report(b).right = right
      /\ ~b.waiting /\ b.prev # <<>> /\ b.drawn # <<>> /\ Report(b).following => right >= 0
  BY <1>2, Reports
<1>4. SameBut(a, Report(b))
  BY <1>2, <1>3 DEF SameBut
<1>5. ~a.waiting /\ Report(b).following => right >= 0
  BY <1>2, <1>3 DEF SameBut
<1> DEFINE now == a.waiting /\ Report(b).following /\ right < 0
<1>6. Report(b).following /\ right < 0 => now
  BY <1>5
<1> HIDE DEF now
<1>7. Report(b).wasFollowing => Report(b).offset >= 0
  BY <1>4 DEF Truthful, SameBut
<1>8. Truthful(Report(b), now)
  BY <1>3, <1>6, <1>7 DEF Truthful
<1> QED BY <1>1, <1>3, <1>4, <1>8 DEF now

LEMMA ScrollStep == ASSUME ChartInv, Scroll PROVE ChartInv'
<1>1. /\ FeedInOrder(feed, market) /\ PageInOrder(page) /\ user \in User
      /\ Linked(feed, market, page, reading) /\ AdapterInOrder(adapter, page, reading, user.away)
  BY DEF ChartInv
<1>2. adapter # none /\ adapter.drawn # <<>>
  BY DEF Scroll
<1>3. PICK right \in (1 - Len(adapter.drawn)) .. LiveOffset :
        LET a == Drag(adapter, right)
            place == PlaceOf(a, IF right >= 0 THEN 0 ELSE a.drawn[To(a)].t)
        IN  /\ right # adapter.right
            /\ adapter' = a
            /\ page' = [page EXCEPT !.following = a.following]
            /\ user' = [(IF page.shown.loading THEN user ELSE place) EXCEPT
                           !.away = a.waiting /\ a.following /\ right < 0]
  BY DEF Scroll
<1>4. feed' = feed /\ market' = market /\ queued' = queued
  BY DEF Scroll
<1> DEFINE a == Drag(adapter, right)
           n == Len(adapter.drawn)
           time == IF right >= 0 THEN 0 ELSE a.drawn[To(a)].t
           u == IF page.shown.loading THEN user ELSE PlaceOf(a, time)
           away == a.waiting /\ a.following /\ right < 0
<1>5. /\ Truthful(adapter, user.away) /\ adapter.prev = adapter.drawn
      /\ adapter.drawn = page.shown.candles
      /\ adapter.generation = page.generation /\ page.generation \notin page.mounting
      /\ page.shown.loading => adapter.waiting
      /\ reading \in Nat /\ Reads(adapter, reading)
  BY <1>1, <1>2 DEF AdapterInOrder
<1>6. adapter.drawn \in Seq(Candle) /\ n \in Nat
  BY <1>5 DEF Truthful, Adapter
<1>7. right \in Int /\ right >= 1 - n
  BY <1>6, LiveOffsetAssumption
<1>8. /\ adapter' = a /\ page' = [page EXCEPT !.following = a.following]
      /\ user' = [u EXCEPT !.away = away] /\ right # adapter.right
  BY <1>3
<1>9. SameBut(adapter, a) /\ a.right = right /\ Truthful(a, adapter.waiting /\ a.following /\ right < 0)
  BY <1>2, <1>5, <1>7, <1>8, Dragged
<1> HIDE DEF a
<1>10. /\ a.drawn = adapter.drawn /\ a.prev = adapter.prev /\ a.generation = adapter.generation
       /\ a.waiting = adapter.waiting /\ To(a) = n + right /\ Truthful(a, away)
  BY <1>2, <1>9 DEF SameBut, To
<1>11. /\ page \in [generation : Nat \ {0}, mounting : SUBSET Nat, shown : Shown,
                    error : BOOLEAN, following : BOOLEAN]
       /\ ShownInOrder(page.shown) /\ Rising(adapter.drawn) /\ page.shown.loading \in BOOLEAN
  BY <1>1, <1>5 DEF PageInOrder, ShownInOrder, Shown
<1>12. a.following \in BOOLEAN /\ a.waiting \in BOOLEAN /\ away \in BOOLEAN
  BY <1>9 DEF Truthful, Adapter
<1>13. /\ page' \in [generation : Nat \ {0}, mounting : SUBSET Nat, shown : Shown,
                     error : BOOLEAN, following : BOOLEAN]
       /\ page'.shown = page.shown /\ page'.generation = page.generation
       /\ page'.mounting = page.mounting /\ page'.error = page.error
       /\ page'.following = a.following
  BY <1>8, <1>11, <1>12
<1>14. PageInOrder(page')
  BY <1>1, <1>13 DEF PageInOrder
<1>15. time \in Nat /\ (right < 0 => n + right \in 1 .. n /\ time = adapter.drawn[n + right].t)
  <2>1. CASE right >= 0
    BY <1>7, <2>1
  <2>2. CASE ~(right >= 0)
    <3>1. n + right \in 1 .. n
      BY <1>6, <1>7, <2>2
    <3>2. time = adapter.drawn[n + right].t
      BY <1>10, <2>2
    <3> QED BY <1>6, <3>1, <3>2, CandleTimes
  <2> QED BY <2>1, <2>2
<1>16. PlaceOf(a, time) \in User /\ ReadingOf(PlaceOf(a, time)) \in {0, time}
  BY <1>15 DEF PlaceOf, User, ReadingOf
<1>17. ReadingOf(PlaceOf(a, time)) # 0 => time # 0 /\ ~a.waiting /\ a.anchored
  BY DEF PlaceOf, ReadingOf
<1>18. time # 0 => right < 0
  BY <1>7
<1> HIDE DEF time, away
<1>19. u \in User /\ ReadingOf(u) = IF page.shown.loading THEN reading ELSE ReadingOf(PlaceOf(a, time))
  BY <1>1, <1>16, ReadingIs
<1> HIDE DEF u
<1>20. user' \in User /\ user'.away = away /\ reading' = ReadingOf(u) /\ reading' \in Nat
  BY <1>8, <1>12, <1>19, Noted, ReadingIs
<1>21. ASSUME ~page.shown.loading, reading' # 0
       PROVE  /\ right < 0 /\ ~a.waiting /\ a.anchored /\ reading' = adapter.drawn[n + right].t
              /\ n + right \in 1 .. n /\ n \in 1 .. n /\ n + right < n
  <2>1. /\ reading' = time /\ time # 0 /\ ~a.waiting /\ a.anchored
    BY <1>16, <1>17, <1>19, <1>20, <1>21
  <2> QED BY <1>6, <1>7, <1>15, <1>18, <2>1
<1>22. ASSUME ~page.shown.loading, reading' # 0
       PROVE  IndexOf(a.drawn, reading') = n + right
  <2> DEFINE k == IndexOf(adapter.drawn, reading')
  <2>1. /\ reading' = adapter.drawn[n + right].t /\ n + right \in 1 .. n
    BY <1>21, <1>22
  <2>2. /\ k \in 0 .. n /\ (k # 0 => adapter.drawn[k].t = reading')
        /\ k = 0 => \A i \in 1 .. n : adapter.drawn[i].t # reading'
    BY <1>6, <1>20, IndexOfIs
  <2> HIDE DEF k
  <2>3. k \in 1 .. n /\ adapter.drawn[k].t = adapter.drawn[n + right].t
    BY <1>6, <2>1, <2>2
  <2>4. k = n + right
    BY <1>6, <1>11, <2>1, <2>3, TimesDiffer
  <2> QED BY <1>10, <2>4 DEF k
<1>23. Reads(a, reading')
  <2>1. CASE reading' = 0
    BY <2>1 DEF Reads, Keeps
  <2>2. CASE reading' # 0 /\ ~page.shown.loading
    <3>1. /\ right < 0 /\ ~a.waiting /\ a.anchored /\ n + right # 0
          /\ IndexOf(a.drawn, reading') = n + right
      BY <1>21, <1>22, <2>2
    <3>2. a.right = IndexOf(a.drawn, reading') - Len(a.drawn)
      BY <1>6, <1>7, <1>9, <1>10, <3>1
    <3> QED BY <1>9, <1>10, <3>1, <3>2 DEF Reads, Keeps
  <2>3. CASE page.shown.loading
    <3>1. reading' = reading /\ adapter.waiting
      BY <1>5, <1>19, <1>20, <2>3
    <3> QED BY <1>5, <1>9, <3>1 DEF Reads, Keeps, SameBut
  <2> QED BY <2>1, <2>2, <2>3
<1>24. AdapterInOrder(adapter', page', reading', user'.away)
  <2>1. InView(a)
    BY <1>7, <1>9, <1>10 DEF InView
  <2>2. a # none
    <3>1. a = none => a.generation = 0
      BY DEF none
    <3> QED BY <1>5, <1>10, <1>11, <3>1
  <2>3. page'.shown.loading => a.waiting
    BY <1>5, <1>10, <1>13
  <2> QED BY <1>5, <1>8, <1>10, <1>13, <1>20, <1>23, <2>1, <2>2, <2>3 DEF AdapterInOrder
<1>25. Linked(feed', market', page', reading')
  <2>1. ASSUME page.shown.key[1] = feed.session, reading' # 0, ~page.shown.loading
        PROVE  Place(feed, market, reading')
    <3>1. /\ reading' = adapter.drawn[n + right].t
          /\ n + right \in 1 .. n /\ n \in 1 .. n /\ n + right < n
      BY <1>21, <2>1
    <3> DEFINE A == Times(adapter.drawn)
               v == adapter.drawn[n].t
    <3>2. DOMAIN adapter.drawn = 1 .. n
      BY <1>6
    <3>3. A \in SUBSET Nat
      BY <1>6, <3>2, CandleTimes DEF Times
    <3>4. v \in A
      BY <3>1, <3>2 DEF Times
    <3>5. reading' < v
      BY <1>11, <3>1, <3>2 DEF Rising
    <3>6. page.shown.loading = FALSE
      BY <1>11, <2>1
    <3>7. Related(feed, market, A, FALSE)
      BY <1>1, <1>5, <2>1, <3>6 DEF Linked
    <3> HIDE DEF A, v
    <3> QED BY <1>1, <1>20, <3>3, <3>4, <3>5, <3>7, Placed
  <2>2. page.shown.loading => reading' = reading
    BY <1>19, <1>20
  <2> QED BY <1>1, <1>4, <1>13, <2>1, <2>2 DEF Linked
<1>26. queued' \in BOOLEAN /\ (~queued' => page'.shown = Payload(feed'))
  BY <1>4, <1>13 DEF ChartInv
<1> QED BY <1>1, <1>4, <1>14, <1>20, <1>24, <1>25, <1>26 DEF ChartInv

LEMMA GoLiveStep == ASSUME ChartInv, GoLive PROVE ChartInv'
<1>1. /\ FeedInOrder(feed, market) /\ PageInOrder(page)
      /\ Linked(feed, market, page, reading) /\ AdapterInOrder(adapter, page, reading, user.away)
  BY DEF ChartInv
<1>2. /\ adapter # none /\ adapter' = FollowLive(adapter)
      /\ page' = [page EXCEPT !.following = TRUE] /\ user' = untouched
      /\ feed' = feed /\ market' = market /\ queued' = queued
  BY DEF GoLive
<1> DEFINE b == MovedTo(adapter, LiveOffset)
           a == [b EXCEPT !.following = TRUE]
<1>15. user' \in User /\ reading' = 0
  BY <1>2, Untouched, ReadingIs
<1>3. /\ Truthful(adapter, user.away) /\ user.away \in BOOLEAN
      /\ adapter.prev = adapter.drawn /\ adapter.drawn = page.shown.candles
      /\ adapter.generation = page.generation /\ page.generation \notin page.mounting
      /\ page.shown.loading => adapter.waiting
  BY <1>1, <1>2 DEF AdapterInOrder, ChartInv, User
<1>4. adapter' = a
  BY <1>2 DEF FollowLive, ScrollTo
<1>5. LiveOffset \in Nat /\ LiveOffset \in Int /\ ~(LiveOffset < 0)
  BY LiveOffsetAssumption
<1>6. Truthful(b, user.away) /\ SameBut(adapter, b) /\ b.right = LiveOffset
  BY <1>3, <1>5, Moved
<1> HIDE DEF b
<1>7. /\ a \in Adapter /\ a.following = TRUE /\ a.right = LiveOffset
      /\ a.wasFollowing = b.wasFollowing /\ a.offset = b.offset
      /\ a.generation = b.generation /\ a.prev = b.prev /\ a.drawn = b.drawn
      /\ a.waiting = b.waiting
  BY <1>6 DEF Truthful, Adapter
<1> HIDE DEF a
<1>8. Truthful(a, user'.away) /\ InView(a)
  <2>1. Truthful(a, user'.away)
    BY <1>5, <1>6, <1>7 DEF Truthful
  <2>2. Len(a.drawn) \in Nat
    BY <1>7 DEF Adapter
  <2>3. a.drawn # <<>> => Len(a.drawn) # 0
    BY <1>7 DEF Adapter
  <2> QED BY <1>5, <1>7, <2>1, <2>2, <2>3 DEF InView
<1>9. /\ page \in [generation : Nat \ {0}, mounting : SUBSET Nat, shown : Shown,
                   error : BOOLEAN, following : BOOLEAN]
      /\ ShownInOrder(page.shown)
  BY <1>1 DEF PageInOrder
<1>10. /\ page' \in [generation : Nat \ {0}, mounting : SUBSET Nat, shown : Shown,
                     error : BOOLEAN, following : BOOLEAN]
       /\ page'.shown = page.shown /\ page'.generation = page.generation
       /\ page'.mounting = page.mounting /\ page'.error = page.error
       /\ page'.following = TRUE
  BY <1>2, <1>9
<1>11. PageInOrder(page')
  BY <1>1, <1>10 DEF PageInOrder
<1>12. AdapterInOrder(adapter', page', reading', user'.away)
  <2>1. a # none
    <3>1. a = none => a.generation = 0
      BY DEF none
    <3> QED BY <1>3, <1>6, <1>7, <1>9, <3>1 DEF SameBut
  <2>2. Reads(a, 0)
    BY DEF Reads, Keeps
  <2>3. a.prev = a.drawn /\ a.drawn = page'.shown.candles /\ a.generation = page'.generation
    BY <1>3, <1>6, <1>7, <1>10 DEF SameBut
  <2>4. page'.shown.loading => a.waiting
    BY <1>3, <1>6, <1>7, <1>10 DEF SameBut
  <2>5. page'.generation \notin page'.mounting /\ a.following = page'.following
    BY <1>3, <1>7, <1>10
  <2> QED BY <1>4, <1>8, <1>15, <2>1, <2>2, <2>3, <2>4, <2>5 DEF AdapterInOrder
<1>13. Linked(feed', market', page', reading')
  BY <1>1, <1>2, <1>10, <1>15 DEF Linked
<1>14. queued' \in BOOLEAN /\ (~queued' => page'.shown = Payload(feed'))
  BY <1>2, <1>10 DEF ChartInv
<1> QED BY <1>1, <1>2, <1>11, <1>12, <1>13, <1>14, <1>15 DEF ChartInv

-----------------------------------------------------------------------------
(* The theorems. *)

\* Every step of the market, the feed, the page or the user keeps the chart in order.
LEMMA ChartNext == ChartInv /\ [Next]_vars => ChartInv'
<1> SUFFICES ASSUME ChartInv, [Next]_vars PROVE ChartInv'
  OBVIOUS
<1>1. CASE Trade
  BY <1>1, TradeStep
<1>2. CASE ReceiveHistory
  BY <1>2, ReceiveHistoryStep
<1>3. CASE ReceiveLive
  BY <1>3, ReceiveLiveStep
<1>4. CASE Resync
  BY <1>4, ResyncStep
<1>5. CASE HistoryFails
  BY <1>5, HistoryFailsStep
<1>6. CASE Retry
  BY <1>6, RetryStep
<1>7. CASE Disconnect
  BY <1>7, DisconnectStep
<1>8. CASE Reconnect
  BY <1>8, ReconnectStep
<1>9. CASE Connect
  BY <1>9, ConnectStep
<1>10. CASE SelectInterval
  BY <1>10, SelectIntervalStep
<1>11. CASE Frame
  BY <1>11, FrameStep
<1>12. CASE AdapterLoaded
  BY <1>12, AdapterLoadedStep
<1>13. CASE LoadFails
  BY <1>13, LoadFailsStep
<1>14. CASE RetryChart
  BY <1>14, RetryChartStep
<1>15. CASE Scroll
  BY <1>15, ScrollStep
<1>16. CASE GoLive
  BY <1>16, GoLiveStep
<1>17. CASE UNCHANGED vars
  BY <1>17 DEF vars, ChartInv, reading
<1> QED
  BY <1>1, <1>2, <1>3, <1>4, <1>5, <1>6, <1>7, <1>8, <1>9, <1>10, <1>11, <1>12, <1>13,
     <1>14, <1>15, <1>16, <1>17 DEF Next

\* Whatever histories, live batches, resyncs, selections, losses of the connection
\* and slow loads of the chart come in which order: the feed, the candles on show
\* and the view of the adapter stay in order (candle-feed.ts, market-chart.tsx,
\* adapter.ts).
THEOREM ChartInvariance == Spec => []ChartInv
<1> QED BY ChartInit, ChartNext, PTL DEF Spec

\* The chart draws the candles of the last snapshot rendered, whichever of its
\* shortcuts setCandles took; its adapter belongs to the session and interval on
\* show, and loaded candles are of them.
THEOREM ChartShowsFeedAlways == Spec => []ChartShowsFeed
<1>1. ChartInv => ChartShowsFeed
  <2> SUFFICES ASSUME ChartInv PROVE ChartShowsFeed
    OBVIOUS
  <2>1. ~queued => page.shown = Payload(feed)
    BY DEF ChartInv
  <2>2. /\ adapter # none => /\ adapter.generation = page.generation
                             /\ adapter.drawn = page.shown.candles
        /\ adapter = none => page.generation \in page.mounting \/ page.error
    BY DEF ChartInv, AdapterInOrder
  <2>3. page.shown.ready => \A i \in DOMAIN page.shown.candles :
                                page.shown.candles[i].of = page.shown.key
    BY DEF ChartInv, PageInOrder, ShownInOrder
  <2> QED BY <2>1, <2>2, <2>3 DEF ChartShowsFeed
<1> QED BY <1>1, ChartInvariance, PTL

\* A chart that follows the market shows its newest candle, whether it waits for a
\* history or has given it up, unless a drag that it ignored took the view away;
\* and the component offers Go Live exactly when the chart does not follow.
THEOREM FollowsLiveAlways == Spec => []FollowsLive
<1>1. ChartInv => FollowsLive
  BY DEF ChartInv, AdapterInOrder, Truthful, FollowsLive
<1> QED BY <1>1, ChartInvariance, PTL

\* The candle at the right edge of a drag that the adapter noticed, in a chart with
\* its first history, is there after any updates, trims, resyncs, reconnects and
\* drags while a history loads, as long as the feed has it.
THEOREM ViewStaysAlways == Spec => []ViewStays
<1>1. ChartInv => ViewStays
  <2> SUFFICES ASSUME ChartInv, reading # 0, ~adapter.waiting, adapter.drawn # <<>>
               PROVE  adapter.drawn[EdgeIndex(adapter.drawn, To(adapter))].t = reading
    BY DEF ViewStays, EdgeTime
  <2> DEFINE s == adapter.drawn
             k == IndexOf(s, reading)
  <2>1. Truthful(adapter, user.away) /\ Reads(adapter, reading) /\ reading \in Nat
    BY DEF ChartInv, AdapterInOrder
  <2>2. s \in Seq(Candle) /\ Len(s) \in Nat
    BY <2>1 DEF Truthful, Adapter
  <2>3. k # 0 /\ adapter.right = k - Len(s)
    BY <2>1 DEF Reads, Keeps
  <2>4. k \in 0 .. Len(s) /\ s[k].t = reading
    BY <2>1, <2>2, <2>3, IndexOfIs
  <2>5. To(adapter) = Len(s) + adapter.right
    BY DEF To
  <2> HIDE DEF k
  <2>6. To(adapter) = k /\ 1 <= k /\ k <= Len(s)
    BY <2>2, <2>3, <2>4, <2>5
  <2>7. EdgeIndex(s, To(adapter)) = k
    BY <2>2, <2>4, <2>6 DEF EdgeIndex
  <2> QED BY <2>4, <2>7
<1> QED BY <1>1, ChartInvariance, PTL

=============================================================================
