-------------------------- MODULE BookDeliveryProofs ------------------------
(***************************************************************************)
(* Theorems about BookDelivery, for every value of its constants: any      *)
(* number of levels and quantities, any retention, any buffer and attempt  *)
(* limits, any bounds on sessions, changes, frames and faults.             *)
(*                                                                         *)
(* The first part is about logs of level changes, ranges and the functions *)
(* of BookSync, and says nothing of the state.  In the second part         *)
(* IInv is inductive: one step below treats each action; actions that      *)
(* only touch the engine and its request share the lemmas that follow.     *)
(***************************************************************************)
EXTENDS BookFreshness, WellFoundedInduction, SequenceTheorems, TLAPS

-----------------------------------------------------------------------------
(* Least and greatest elements, from the well-foundedness of the naturals. *)

\* A nonempty set of naturals has a least element.
LEMMA LeastNat ==
    ASSUME NEW T \in SUBSET Nat, T # {}
    PROVE  \E n \in T : \A m \in T : n <= m
<1>1. IsWellFoundedOn(OpToRel(<, Nat), Nat)
  BY NatLessThanWellFounded
<1>2. PICK n \in T : \A m \in T : <<m, n>> \notin OpToRel(<, Nat)
  BY <1>1, WFMin, Zenon
<1>3. \A m \in T : ~(m < n)
  BY <1>2 DEF OpToRel
<1> QED
  BY <1>3

\* A nonempty set of naturals below a bound has a greatest element.
LEMMA GreatestNat ==
    ASSUME NEW T \in SUBSET Nat, T # {}, NEW b \in Nat, \A t \in T : t <= b
    PROVE  \E n \in T : \A m \in T : m <= n
<1> DEFINE D == {d \in Nat : \E t \in T : t = b - d}
<1>1. PICK t0 \in T : TRUE
  OBVIOUS
<1>2. b - t0 \in D
  BY t0 = b - (b - t0), b - t0 \in Nat
<1>3. PICK d \in D : \A e \in D : d <= e
  BY <1>2, LeastNat
<1>4. \A m \in T : b - m \in D
  <2> TAKE m \in T
  <2> QED BY m = b - (b - m), b - m \in Nat
<1>5. PICK n \in T : n = b - d
  BY <1>3
<1> QED
  BY <1>3, <1>4, <1>5

-----------------------------------------------------------------------------
(* The log and the ranges cut from it. *)

\* BookAt is a book for every prefix of the log.
LEMMA BookAtType ==
    ASSUME NEW lg \in Seq(Change), NEW n \in 0 .. Len(lg)
    PROVE  BookAt(lg, n) \in Book
<1>1. EmptyBook \in Book
  BY RangesAssumption DEF EmptyBook, Book, Lots
<1>2. CASE n = 0
  BY <1>1, <1>2 DEF BookAt
<1>3. CASE n # 0
  <2>1. lg[n] \in Change
    BY <1>3, ElementOfSeq
  <2> QED BY <1>3, <2>1 DEF BookAt, Change
<1> QED BY <1>2, <1>3

\* A level touched in m..n has a last touch there.
LEMMA LastTouchExists ==
    ASSUME NEW lg \in Seq(Change), NEW m \in Nat \ {0}, NEW n \in 0 .. Len(lg),
           NEW l \in Touched(lg, m, n)
    PROVE  LET k == LastTouch(lg, l, m, n)
           IN  /\ k \in m .. n
               /\ lg[k].level = l
               /\ \A j \in k + 1 .. n : lg[j].level # l
<1> DEFINE T == {k \in m .. n : lg[k].level = l}
<1>0. n \in Nat
  BY LenProperties
<1>1. T \in SUBSET Nat /\ T # {} /\ \A t \in T : t <= n
  BY <1>0 DEF Touched
<1>2. PICK k \in T : \A j \in T : j <= k
  <2> HIDE DEF T
  <2> QED BY <1>0, <1>1, GreatestNat
<1>3. /\ k \in m .. n
      /\ lg[k].level = l
      /\ \A j \in k + 1 .. n : lg[j].level # l
  BY <1>2
<1> QED
  BY <1>3 DEF LastTouch

\* A range cut from a log by BuildBookRange is right.
LEMMA BuildBookRangeOK ==
    ASSUME NEW lg \in Seq(Change), NEW pb \in Nat, LogOK(lg, pb),
           NEW sent \in Nat, sent < pb
    PROVE  /\ RangeOK(lg, pb, BuildBookRange(lg, pb, sent))
           /\ BuildBookRange(lg, pb, sent) \in BookRange
           /\ BuildBookRange(lg, pb, sent).from = sent + 1
           /\ BuildBookRange(lg, pb, sent).to = pb
<1> DEFINE r == BuildBookRange(lg, pb, sent)
           S == Touched(lg, sent + 1, pb)
<1>1. r = [from |-> sent + 1, to |-> pb,
           lots |-> [l \in S |-> lg[LastTouch(lg, l, sent + 1, pb)].lots]]
  BY DEF BuildBookRange
<1>2. pb \in 1 .. Len(lg) /\ Len(lg) \in Nat
  BY LenProperties DEF LogOK
<1>3. \A k \in 1 .. Len(lg) : lg[k] \in Change
  BY ElementOfSeq
<1>4. S \subseteq Level
  BY <1>2, <1>3 DEF Touched, Change
<1>5. ASSUME NEW l \in S
      PROVE  /\ r.lots[l] \in Lots
             /\ r.lots[l] = lg[pb].book[l]
  <2> DEFINE k == LastTouch(lg, l, sent + 1, pb)
  <2>1. /\ k \in sent + 1 .. pb
        /\ lg[k].level = l
        /\ \A j \in k + 1 .. pb : lg[j].level # l
    BY <1>2, LastTouchExists
  <2>2. r.lots[l] = lg[k].lots
    BY <1>1
  <2> HIDE DEF k
  <2>3. lg[k].lots = lg[k].book[l] /\ lg[k] \in Change
    BY <1>2, <1>3, <2>1 DEF LogOK
  <2>4. BookAt(lg, k)[l] = BookAt(lg, pb)[l]
    BY <1>2, <1>4, <2>1 DEF LogOK
  <2> QED
    BY <1>2, <2>1, <2>2, <2>3, <2>4 DEF BookAt, Change
<1>6. lg[pb].published
  BY <1>2 DEF LogOK
<1>7. r.lots \in [S -> Lots]
  BY <1>1, <1>5
<1> QED
  <2>1. r \in BookRange
    BY <1>1, <1>4, <1>7 DEF BookRange
  <2>2. RangeOK(lg, pb, r)
    BY <1>1, <1>2, <1>5, <1>6 DEF RangeOK
  <2> QED BY <1>1, <2>1, <2>2

\* A further change keeps the log right.
LEMMA MutateOK ==
    ASSUME NEW lg \in Seq(Change), NEW pb \in Nat, LogOK(lg, pb),
           NEW l \in Level, NEW q \in Lots
    PROVE  /\ Mutate(lg, l, q) \in Seq(Change)
           /\ LogOK(Mutate(lg, l, q), pb)
           /\ Len(Mutate(lg, l, q)) = Len(lg) + 1
           /\ \A k \in 1 .. Len(lg) : Mutate(lg, l, q)[k] = lg[k]
<1> DEFINE old == BookAt(lg, Len(lg))
           c == [level |-> l, lots |-> q, published |-> FALSE, book |-> [old EXCEPT ![l] = q]]
           new == Mutate(lg, l, q)
<1>1. old \in Book /\ Len(lg) \in Nat
  BY BookAtType, LenProperties
<1>2. c \in Change
  BY <1>1 DEF Change, Book
<1>3. /\ new \in Seq(Change)
      /\ Len(new) = Len(lg) + 1
      /\ \A k \in 1 .. Len(lg) : new[k] = lg[k]
      /\ new[Len(lg) + 1] = c
  BY <1>2, AppendProperties DEF Mutate
<1> HIDE DEF new
<1>4. c.lots = c.book[c.level] /\ ~c.published
  BY <1>1 DEF Book
<1>5. BookAt(new, Len(lg) + 1) = c.book
  BY <1>1, <1>3 DEF BookAt
<1>6. \A m \in 0 .. Len(lg) : BookAt(new, m) = BookAt(lg, m)
  BY <1>1, <1>3 DEF BookAt
<1>k. \A m \in 0 .. Len(lg), n \in 0 .. Len(lg), x \in Level :
        (m <= n /\ \A k \in m + 1 .. n : lg[k].level # x)
          => BookAt(lg, m)[x] = BookAt(lg, n)[x]
  BY DEF LogOK
<1>o. \A x \in Level : x # l => c.book[x] = old[x]
  BY <1>1 DEF Book
<1>p. c.level = l /\ old = BookAt(lg, Len(lg))
  OBVIOUS
<1> HIDE DEF old, c
<1>7. ASSUME NEW m \in 0 .. Len(new), NEW n \in 0 .. Len(new), NEW x \in Level,
             m <= n, \A k \in m + 1 .. n : new[k].level # x
      PROVE  BookAt(new, m)[x] = BookAt(new, n)[x]
  <2>1. CASE n <= Len(lg)
    <3>1. m \in 0 .. Len(lg) /\ n \in 0 .. Len(lg)
      BY <1>1, <1>3, <1>7, <2>1
    <3>2. \A k \in m + 1 .. n : lg[k].level # x
      BY <1>1, <1>3, <1>7, <3>1
    <3>3. BookAt(lg, m)[x] = BookAt(lg, n)[x]
      BY <1>k, <1>7, <3>1, <3>2
    <3> QED BY <1>6, <3>1, <3>3
  <2>2. CASE n = Len(lg) + 1 /\ m = n
    BY <2>2
  <2>3. CASE n = Len(lg) + 1 /\ m # n
    <3>0. m \in 0 .. Len(lg) /\ Len(lg) \in 0 .. Len(lg)
      BY <1>1, <1>3, <1>7, <2>3
    <3>1. l # x
      BY <1>1, <1>3, <1>7, <1>p, <2>3
    <3>2. BookAt(new, n)[x] = old[x]
      BY <3>1, <1>o, <1>5, <2>3
    <3>3. \A k \in m + 1 .. Len(lg) : lg[k].level # x
      BY <1>1, <1>3, <1>7, <2>3, <3>0
    <3>4. BookAt(lg, m)[x] = old[x]
      BY <1>k, <1>p, <1>7, <3>0, <3>3
    <3> QED BY <1>6, <3>0, <3>2, <3>4
  <2> QED BY <1>1, <1>3, <2>1, <2>2, <2>3
<1>8. pb <= Len(new) /\ (pb > 0 => new[pb].published)
  BY <1>1, <1>3 DEF LogOK
<1>9. ASSUME NEW k \in 1 .. Len(new)
      PROVE  /\ new[k].lots = new[k].book[new[k].level]
             /\ new[k].published => k <= pb /\ new[k].book \in ValidBooks
  <2>1. CASE k <= Len(lg)
    BY <1>1, <1>3, <2>1 DEF LogOK
  <2>2. CASE k = Len(lg) + 1
    BY <1>1, <1>3, <1>4, <2>2
  <2> QED BY <1>1, <1>3, <2>1, <2>2
<1>10. LogOK(new, pb)
  BY <1>7, <1>8, <1>9 DEF LogOK
<1> QED
  BY <1>3, <1>10 DEF new

\* Publishing at the end of the log keeps it right.
LEMMA PublishOK ==
    ASSUME NEW lg \in Seq(Change), NEW pb \in Nat, LogOK(lg, pb),
           Len(lg) > pb, BookAt(lg, Len(lg)) \in ValidBooks
    PROVE  LET new == [lg EXCEPT ![Len(lg)].published = TRUE]
           IN  /\ new \in Seq(Change)
               /\ Len(new) = Len(lg)
               /\ LogOK(new, Len(lg))
               /\ \A k \in 1 .. Len(lg) :
                    /\ new[k].level = lg[k].level
                    /\ new[k].book = lg[k].book
                    /\ lg[k].published => new[k].published
<1> DEFINE n == Len(lg)
           e == [lg[n] EXCEPT !.published = TRUE]
           new == [lg EXCEPT ![n] = e]
<1>1. n \in Nat /\ n \in 1 .. n /\ lg[n] \in Change
  BY LenProperties, ElementOfSeq
<1>2. /\ e \in Change
      /\ e.level = lg[n].level /\ e.lots = lg[n].lots /\ e.book = lg[n].book
      /\ e.published
  BY <1>1 DEF Change
<1>3. /\ new \in Seq(Change)
      /\ Len(new) = n
      /\ \A k \in 1 .. n : new[k] = IF k = n THEN e ELSE lg[k]
  BY <1>1, <1>2, ExceptSeq
<1>4. new = [lg EXCEPT ![n].published = TRUE]
  OBVIOUS
<1> HIDE DEF new, e
<1>5. \A k \in 1 .. n :
        /\ new[k].level = lg[k].level
        /\ new[k].lots = lg[k].lots
        /\ new[k].book = lg[k].book
        /\ lg[k].published => new[k].published
        /\ new[k].published => k = n \/ lg[k].published
  BY <1>2, <1>3
<1>6. \A m \in 0 .. n : BookAt(new, m) = BookAt(lg, m)
  BY <1>1, <1>5 DEF BookAt
<1>7. LogOK(new, n)
  <2>1. new[n].published
    BY <1>1, <1>2, <1>3
  <2>2. \A k \in 1 .. n : /\ new[k].lots = new[k].book[new[k].level]
                          /\ new[k].published => k <= n /\ new[k].book \in ValidBooks
    <3> TAKE k \in 1 .. n
    <3>1. new[k].lots = new[k].book[new[k].level]
      BY <1>5 DEF LogOK
    <3>2. CASE k = n
      BY <1>1, <1>5, <3>1, <3>2 DEF BookAt
    <3>3. CASE k # n
      BY <1>1, <1>5, <3>1, <3>3 DEF LogOK
    <3> QED BY <3>2, <3>3
  <2>3. ASSUME NEW m \in 0 .. n, NEW j \in 0 .. n, NEW l \in Level,
               m <= j, \A k \in m + 1 .. j : new[k].level # l
        PROVE  BookAt(new, m)[l] = BookAt(new, j)[l]
    <3>1. \A k \in m + 1 .. j : lg[k].level # l
      BY <1>1, <1>5, <2>3
    <3>2. BookAt(lg, m)[l] = BookAt(lg, j)[l]
      BY <1>1, <2>3, <3>1 DEF LogOK
    <3> QED BY <1>6, <3>2
  <2> QED BY <1>1, <1>3, <2>1, <2>2, <2>3 DEF LogOK
<1> QED
  BY <1>3, <1>4, <1>5, <1>7

\* The ends of a range and of the ranges of a buffer are naturals.
LEMMA RangeType ==
    ASSUME NEW r \in BookRange
    PROVE  r.from \in Nat /\ r.to \in Nat
BY DEF BookRange

LEMMA BufferType ==
    ASSUME NEW buf \in Seq(BookRange)
    PROVE  /\ Len(buf) \in Nat
           /\ \A i \in 1 .. Len(buf) : /\ buf[i] \in BookRange
                                      /\ buf[i].from \in Nat
                                      /\ buf[i].to \in Nat
<1>1. Len(buf) \in Nat
  BY LenProperties
<1>2. \A i \in 1 .. Len(buf) : buf[i] \in BookRange
  BY ElementOfSeq
<1> QED
  BY <1>1, <1>2, RangeType

\* A level untouched by changes m+1..n has the same quantity after m and n.
LEMMA Untouched ==
    ASSUME NEW lg, NEW pb, LogOK(lg, pb), NEW l \in Level,
           NEW m \in 0 .. Len(lg), NEW n \in 0 .. Len(lg), m <= n,
           \A k \in m + 1 .. n : lg[k].level # l
    PROVE  BookAt(lg, m)[l] = BookAt(lg, n)[l]
<1>1. \A i \in 0 .. Len(lg), j \in 0 .. Len(lg), x \in Level :
        (i <= j /\ \A k \in i + 1 .. j : lg[k].level # x)
          => BookAt(lg, i)[x] = BookAt(lg, j)[x]
  BY DEF LogOK
<1> QED BY <1>1

\* A right range stays right when the log grows and more of it is published.
LEMMA RangeStable ==
    ASSUME NEW lg \in Seq(Change), NEW new \in Seq(Change), NEW pb \in Nat, NEW pub2 \in Nat,
           pb <= Len(lg), pb <= pub2,
           \A k \in 1 .. Len(lg) :
             /\ new[k].level = lg[k].level
             /\ new[k].book = lg[k].book
             /\ lg[k].published => new[k].published,
           NEW r \in BookRange, RangeOK(lg, pb, r)
    PROVE  RangeOK(new, pub2, r)
<1>1. r.from \in Nat /\ r.to \in Nat /\ Len(lg) \in Nat
  BY LenProperties, RangeType
<1>2. r.from .. r.to \subseteq 1 .. Len(lg) /\ r.to \in 1 .. Len(lg)
  BY <1>1 DEF RangeOK
<1> DEFINE a == r.from
           b == r.to
<1>3. \A k \in a .. b : new[k].level = lg[k].level
  <2> TAKE k \in a .. b
  <2>1. k \in 1 .. Len(lg)
    BY <1>2
  <2> QED BY <2>1, Zenon
<1>4. Touched(new, a, b) = Touched(lg, a, b)
  <2> HIDE DEF a, b
  <2> QED BY <1>3, Zenon DEF Touched
<1>5. lg[b].published
  BY DEF RangeOK
<1>6. new[b].published /\ new[b].book = lg[b].book
  BY <1>2, <1>5, Zenon
<1>7. 1 <= a /\ a <= b /\ b <= pb
  BY DEF RangeOK
<1>8. b <= pub2
  BY <1>1, <1>7
<1>9. /\ DOMAIN r.lots = Touched(lg, a, b)
      /\ \A l \in DOMAIN r.lots : r.lots[l] = lg[b].book[l]
  BY Zenon DEF RangeOK
<1> QED
  BY <1>4, <1>6, <1>7, <1>8, <1>9, Zenon DEF RangeOK

\* Applying a right range that does not start past the expected change to the
\* market's book there gives the market's book at the end of the range.
LEMMA ApplyRangeOK ==
    ASSUME NEW lg \in Seq(Change), NEW pb \in Nat, LogOK(lg, pb),
           NEW r \in BookRange, RangeOK(lg, pb, r),
           NEW e \in Nat \ {0}, r.from <= e, e <= r.to
    PROVE  ApplyRange(BookAt(lg, e - 1), r) = lg[r.to].book
<1>1. r.from \in Nat /\ r.to \in Nat /\ Len(lg) \in Nat
  BY LenProperties, RangeType
<1>0. pb <= Len(lg)
  BY DEF LogOK
<1>2. r.to \in 1 .. Len(lg) /\ e - 1 \in 0 .. Len(lg)
  BY <1>0, <1>1 DEF RangeOK
<1>3. BookAt(lg, r.to) = lg[r.to].book /\ lg[r.to].book \in [Level -> Lots]
  <2>1. r.to \in 0 .. Len(lg) /\ r.to # 0
    BY <1>2
  <2>2. BookAt(lg, r.to) = lg[r.to].book
    BY <2>1, Zenon DEF BookAt
  <2> QED BY <2>1, <2>2, BookAtType DEF Book
<1>4. ASSUME NEW l \in Level
      PROVE  ApplyRange(BookAt(lg, e - 1), r)[l] = lg[r.to].book[l]
  <2>1. CASE l \in DOMAIN r.lots
    BY <2>1 DEF ApplyRange, RangeOK
  <2>2. CASE l \notin DOMAIN r.lots
    <3>1. \A k \in r.from .. r.to : lg[k].level # l
      BY <2>2 DEF RangeOK, Touched
    <3>2. \A k \in (e - 1) + 1 .. r.to : lg[k].level # l
      <4>1. (e - 1) + 1 .. r.to \subseteq r.from .. r.to
        BY <1>1
      <4> QED BY <3>1, <4>1
    <3>3. e - 1 <= r.to
      BY <1>1
    <3>4. r.to \in 0 .. Len(lg)
      BY <1>2
    <3>5. BookAt(lg, e - 1)[l] = BookAt(lg, r.to)[l]
      BY <1>2, <3>2, <3>3, <3>4, Untouched
    <3> QED BY <1>3, <2>2, <3>5 DEF ApplyRange
  <2> QED BY <2>1, <2>2
<1>5. ApplyRange(BookAt(lg, e - 1), r)
        = [l \in Level |-> ApplyRange(BookAt(lg, e - 1), r)[l]]
  BY DEF ApplyRange
<1> QED
  BY <1>3, <1>4, <1>5

-----------------------------------------------------------------------------
(* Replaying buffered ranges over a snapshot. *)

\* The expected sequence number after a replay is the greatest end.
LEMMA ReplayedExpectedIsGreatest ==
    ASSUME NEW buf \in Seq(BookRange), NEW seq \in Nat, NEW pb \in Nat, seq <= pb,
           \A i \in 1 .. Len(buf) : buf[i].to <= pb
    PROVE  LET E == ReplayedExpected(buf, seq)
           IN  /\ E \in Nat
               /\ seq + 1 <= E /\ E <= pb + 1
               /\ \A i \in 1 .. Len(buf) : buf[i].to < E
               /\ E = seq + 1 \/ \E i \in 1 .. Len(buf) : E = buf[i].to + 1
<1> DEFINE ends == {seq + 1} \cup {buf[i].to + 1 : i \in 1 .. Len(buf)}
           E == ReplayedExpected(buf, seq)
<1>1. \A i \in 1 .. Len(buf) : buf[i].to \in Nat
  BY BufferType
<1>2. ends \in SUBSET Nat /\ ends # {} /\ \A e \in ends : e <= pb + 1
  BY <1>1
<1>3. \E e \in ends : \A f \in ends : f <= e
  <2> HIDE DEF ends
  <2> QED BY <1>2, GreatestNat, pb + 1 \in Nat
<1>4. E \in ends /\ \A f \in ends : f <= E
  BY <1>3 DEF ReplayedExpected
<1> HIDE DEF E
<1>5. E \in Nat /\ E <= pb + 1
  BY <1>2, <1>4
<1>6. ASSUME NEW i \in 1 .. Len(buf) PROVE buf[i].to < E
  <2>1. buf[i].to + 1 \in ends
    OBVIOUS
  <2>2. buf[i].to + 1 <= E
    <3> HIDE DEF ends
    <3> QED BY <1>4, <2>1
  <2>3. buf[i].to \in Nat
    BY <1>1
  <2> HIDE DEF ends
  <2> QED BY <1>5, <2>2, <2>3
<1>7. seq + 1 <= E
  BY <1>4
<1>8. E = seq + 1 \/ \E i \in 1 .. Len(buf) : E = buf[i].to + 1
  BY <1>4
<1> QED
  BY <1>5, <1>6, <1>7, <1>8 DEF E

\* Without a gap, every change between the snapshot and the end of the replay
\* lies in a range that is replayed.
LEMMA ReplayCovers ==
    ASSUME NEW buf \in Seq(BookRange), NEW seq \in Nat, NEW k \in Nat, seq < k,
           \A i \in 1 .. Len(buf) : Replayed(buf, seq, i) => ~GapAt(buf, seq, i),
           \E i \in 1 .. Len(buf) : k <= buf[i].to
    PROVE  \E j \in 1 .. Len(buf) :
              Replayed(buf, seq, j) /\ buf[j].from <= k /\ k <= buf[j].to
<1> DEFINE T == {i \in 1 .. Len(buf) : k <= buf[i].to}
<1>1. \A i \in 1 .. Len(buf) : buf[i].to \in Nat /\ buf[i].from \in Nat
  BY BufferType
<1>2. T \in SUBSET Nat /\ T # {} /\ Len(buf) \in Nat
  BY LenProperties
<1>3. PICK j \in T : \A i \in T : j <= i
  <2> HIDE DEF T
  <2> QED BY <1>2, LeastNat
<1>4. \A i \in 1 .. j - 1 : i \in 1 .. Len(buf) /\ buf[i].to < k
  BY <1>1, <1>2, <1>3
<1>5. Replayed(buf, seq, j)
  BY <1>1, <1>3, <1>4 DEF Replayed
<1>6. ~GapAt(buf, seq, j)
  BY <1>3, <1>5
<1>7. buf[j].from <= k
  <2>1. CASE buf[j].from <= seq + 1
    BY <1>1, <1>3, <2>1
  <2>2. CASE \E i \in 1 .. j - 1 : buf[j].from <= buf[i].to + 1
    BY <1>1, <1>3, <1>4, <2>2
  <2> QED BY <1>1, <1>3, <1>4, <1>5, <1>6, <2>1, <2>2 DEF GapAt
<1> QED
  BY <1>3, <1>5, <1>7

\* What a replay is entitled to: every buffered range is right about the log, and
\* none of those it applies leaves a gap.
BufferRight(lg, pb, buf) == \A i \in 1 .. Len(buf) : RangeOK(lg, pb, buf[i])
NoGap(buf, seq) == \A i \in 1 .. Len(buf) : Replayed(buf, seq, i) => ~GapAt(buf, seq, i)

\* Right ranges replayed without a gap over a published snapshot give the book
\* the market published at the change before the expected one.
LEMMA ReplayIsPublished ==
    ASSUME NEW lg \in Seq(Change), NEW pb \in Nat, LogOK(lg, pb),
           NEW buf \in Seq(BookRange),
           BufferRight(lg, pb, buf),
           NEW snap, snap.seq \in 1 .. pb, lg[snap.seq].published,
           snap.book = lg[snap.seq].book,
           NoGap(buf, snap.seq)
    PROVE  LET E == ReplayedExpected(buf, snap.seq)
           IN  /\ E \in Nat
               /\ E - 1 \in 1 .. pb
               /\ lg[E - 1].published
               /\ ReplayedBook(buf, snap, Len(buf)) = lg[E - 1].book
               /\ snap.seq + 1 <= E
<1> DEFINE seq == snap.seq
           E == ReplayedExpected(buf, seq)
<1>1. /\ Len(buf) \in Nat
      /\ \A i \in 1 .. Len(buf) : buf[i].from \in Nat /\ buf[i].to \in Nat
  BY BufferType
<1>2. \A i \in 1 .. Len(buf) : /\ buf[i].to \in 1 .. pb
                               /\ lg[buf[i].to].published
                               /\ DOMAIN buf[i].lots = Touched(lg, buf[i].from, buf[i].to)
                               /\ \A l \in DOMAIN buf[i].lots :
                                     buf[i].lots[l] = lg[buf[i].to].book[l]
  BY <1>1 DEF RangeOK, BufferRight
<1>3. seq \in Nat /\ seq \in 1 .. pb
  OBVIOUS
<1>4. /\ E \in Nat
      /\ seq + 1 <= E /\ E <= pb + 1
      /\ \A i \in 1 .. Len(buf) : buf[i].to < E
      /\ E = seq + 1 \/ \E i \in 1 .. Len(buf) : E = buf[i].to + 1
  <2>1. seq <= pb /\ \A i \in 1 .. Len(buf) : buf[i].to <= pb
    BY <1>1, <1>2, <1>3
  <2> HIDE DEF seq
  <2> QED BY <1>3, <2>1, ReplayedExpectedIsGreatest, Zenon
<1>5. pb <= Len(lg) /\ Len(lg) \in Nat
  BY LenProperties DEF LogOK
<1> HIDE DEF E, seq
<1> DEFINE n == E - 1
<1>6. /\ n \in 1 .. pb /\ n \in 0 .. Len(lg) /\ n \in Nat /\ n # 0
      /\ seq \in 0 .. Len(lg) /\ seq # 0 /\ seq <= n
  BY <1>3, <1>4, <1>5
<1>7. lg[n].published
  <2>1. CASE E = seq + 1
    BY <1>3, <2>1 DEF seq
  <2>2. CASE \E i \in 1 .. Len(buf) : E = buf[i].to + 1
    <3>1. PICK i \in 1 .. Len(buf) : E = buf[i].to + 1
      BY <2>2
    <3>2. n = buf[i].to
      BY <1>1, <3>1
    <3> QED BY <1>2, <3>2
  <2> QED BY <1>4, <2>1, <2>2
<1>8. BookAt(lg, n) = lg[n].book /\ BookAt(lg, seq) = lg[seq].book
  BY <1>6 DEF BookAt
\* A change past the snapshot lies in a replayed range that carries its level.
<1>9. ASSUME NEW k \in seq + 1 .. n
      PROVE  \E j \in 1 .. Len(buf) : /\ Replayed(buf, seq, j)
                                      /\ buf[j].from <= k /\ k <= buf[j].to
                                      /\ lg[k].level \in DOMAIN buf[j].lots
  <2>1. \E i \in 1 .. Len(buf) : k <= buf[i].to
    <3>1. k \in Int /\ seq + 1 <= k /\ k <= E - 1
      BY <1>3, <1>4
    <3>2. E # seq + 1
      BY <1>3, <1>4, <3>1
    <3>3. PICK i \in 1 .. Len(buf) : E = buf[i].to + 1
      BY <1>4, <3>2
    <3>4. buf[i].to \in Int
      BY <1>2, <3>3
    <3>5. k <= buf[i].to
      BY <1>4, <3>1, <3>3, <3>4
    <3> QED BY <3>5
  <2>2. \A i \in 1 .. Len(buf) : Replayed(buf, seq, i) => ~GapAt(buf, seq, i)
    BY DEF seq, NoGap
  <2>3. k \in Nat /\ seq < k
    BY <1>3, <1>6
  <2>4. PICK j \in 1 .. Len(buf) :
               Replayed(buf, seq, j) /\ buf[j].from <= k /\ k <= buf[j].to
    BY <1>3, <2>1, <2>2, <2>3, ReplayCovers
  <2>5. k \in buf[j].from .. buf[j].to
    BY <1>1, <2>3, <2>4
  <2>6. lg[k].level \in Touched(lg, buf[j].from, buf[j].to)
    BY <2>5 DEF Touched
  <2> QED BY <1>2, <2>4, <2>6
<1>10. ASSUME NEW l \in Level
       PROVE  ReplayedLots(buf, snap, Len(buf), l) = lg[n].book[l]
  <2> DEFINE W == {i \in 1 .. Len(buf) : Replayed(buf, seq, i) /\ l \in DOMAIN buf[i].lots}
             m == CHOOSE i \in W : \A j \in W : j <= i
  <2>0. ReplayedLots(buf, snap, Len(buf), l)
          = IF W = {} THEN snap.book[l] ELSE buf[m].lots[l]
    BY DEF ReplayedLots, seq
  <2>1. CASE W = {}
    <3>1. \A k \in seq + 1 .. n : lg[k].level # l
      BY <1>9, <2>1
    <3>2. BookAt(lg, seq)[l] = BookAt(lg, n)[l]
      BY <1>6, <3>1, Untouched
    <3>3. snap.book[l] = lg[seq].book[l]
      BY DEF seq
    <3> QED BY <1>8, <2>0, <2>1, <3>2, <3>3
  <2>2. CASE W # {}
    <3>1. \E i \in W : \A j \in W : j <= i
      <4>1. W \in SUBSET Nat /\ \A i \in W : i <= Len(buf)
        BY <1>1
      <4> HIDE DEF W
      <4> QED BY <1>1, <2>2, <4>1, GreatestNat
    <3>2. m \in W /\ \A j \in W : j <= m
      BY <3>1
    <3>3. ReplayedLots(buf, snap, Len(buf), l) = buf[m].lots[l]
      BY <2>0, <2>2
    <3> HIDE DEF m
    <3>4. /\ m \in 1 .. Len(buf) /\ Replayed(buf, seq, m) /\ l \in DOMAIN buf[m].lots
      BY <3>2
    <3>5. /\ buf[m].lots[l] = lg[buf[m].to].book[l]
          /\ buf[m].to \in 1 .. pb /\ buf[m].to < E
      BY <1>2, <1>4, <3>4
    <3>6. buf[m].to > seq /\ \A j \in 1 .. m - 1 : buf[j].to < buf[m].to
      BY <3>4 DEF Replayed
    <3>7. ASSUME NEW k \in buf[m].to + 1 .. n
          PROVE  lg[k].level # l
      <4> SUFFICES ASSUME lg[k].level = l PROVE FALSE
        OBVIOUS
      <4>1. k \in seq + 1 .. n
        BY <1>3, <1>6, <3>5, <3>6
      <4>2. PICK j \in 1 .. Len(buf) : /\ Replayed(buf, seq, j)
                                       /\ k <= buf[j].to
                                       /\ l \in DOMAIN buf[j].lots
        BY <1>9, <4>1
      <4>3. j \in W
        BY <4>2
      <4>4. j <= m
        BY <3>2, <4>3
      <4>5. buf[j].to > buf[m].to
        BY <1>1, <3>4, <3>5, <4>2
      <4>6. j # m
        BY <3>5, <4>5
      <4>7. j \in 1 .. m - 1
        BY <1>1, <3>4, <4>4, <4>6
      <4>8. buf[j].to < buf[m].to
        BY <3>6, <4>7
      <4> QED BY <1>1, <3>4, <4>5, <4>8
    <3>8. buf[m].to \in 0 .. Len(lg) /\ buf[m].to <= n /\ buf[m].to # 0
      BY <1>4, <1>5, <3>5
    <3>9. BookAt(lg, buf[m].to)[l] = BookAt(lg, n)[l]
      BY <1>6, <3>7, <3>8, Untouched
    <3>10. BookAt(lg, buf[m].to) = lg[buf[m].to].book
      BY <3>8 DEF BookAt
    <3> QED BY <1>8, <3>3, <3>5, <3>9, <3>10
  <2> QED BY <2>1, <2>2
<1>11. lg[n].book \in [Level -> Lots]
  BY <1>6, <1>8, BookAtType DEF Book
<1>12. ReplayedBook(buf, snap, Len(buf)) = lg[n].book
  BY <1>10, <1>11 DEF ReplayedBook
<1> QED
  BY <1>4, <1>6, <1>7, <1>12 DEF E, seq

\* The first i ranges of a buffer are replayed in the same way on their own.
LEMMA PrefixReplay ==
    ASSUME NEW buf \in Seq(BookRange), NEW snap, NEW i \in 1 .. Len(buf)
    PROVE  LET first == SubSeq(buf, 1, i)
           IN  /\ first \in Seq(BookRange) /\ Len(first) = i
               /\ \A j \in 1 .. i : /\ first[j] = buf[j]
                                    /\ Replayed(first, snap.seq, j) = Replayed(buf, snap.seq, j)
                                    /\ GapAt(first, snap.seq, j) = GapAt(buf, snap.seq, j)
               /\ ReplayedBook(first, snap, i) = ReplayedBook(buf, snap, i)
<1> DEFINE first == SubSeq(buf, 1, i)
           seq == snap.seq
<1>1. Len(buf) \in Nat /\ i \in Nat /\ i <= Len(buf)
  BY LenProperties
<1>2. /\ first \in Seq(BookRange) /\ Len(first) = i
      /\ \A j \in 1 .. i : first[j] = buf[j]
  BY <1>1, SubSeqProperties
<1> HIDE DEF first, seq
<1>3. ASSUME NEW j \in 1 .. i
      PROVE  /\ Replayed(first, seq, j) = Replayed(buf, seq, j)
             /\ GapAt(first, seq, j) = GapAt(buf, seq, j)
  <2>1. first[j] = buf[j] /\ \A k \in 1 .. j - 1 : first[k] = buf[k]
    BY <1>1, <1>2
  <2>2. Replayed(first, seq, j) = Replayed(buf, seq, j)
    BY <2>1, Zenon DEF Replayed
  <2> QED BY <2>1, <2>2, Zenon DEF GapAt
<1>4. ASSUME NEW l \in Level
      PROVE  ReplayedLots(first, snap, i, l) = ReplayedLots(buf, snap, i, l)
  <2> DEFINE W(s) == {k \in 1 .. i : Replayed(s, seq, k) /\ l \in DOMAIN s[k].lots}
             m == CHOOSE k \in W(buf) : \A j \in W(buf) : j <= k
  <2>1. W(first) = W(buf)
    BY <1>2, <1>3
  <2>2. CASE W(buf) = {}
    BY <2>1, <2>2, Zenon DEF ReplayedLots, seq
  <2>3. CASE W(buf) # {}
    <3>1. \E k \in W(buf) : \A j \in W(buf) : j <= k
      <4>1. W(buf) \in SUBSET Nat /\ \A k \in W(buf) : k <= i
        BY <1>1
      <4> HIDE DEF W
      <4> QED BY <1>1, <2>3, <4>1, GreatestNat
    <3>2. m \in 1 .. i
      BY <3>1
    <3>3. ReplayedLots(buf, snap, i, l) = buf[m].lots[l]
      BY <2>3, Zenon DEF ReplayedLots, seq
    <3>4. ReplayedLots(first, snap, i, l) = first[m].lots[l]
      BY <2>1, <2>3, Zenon DEF ReplayedLots, seq
    <3> HIDE DEF m
    <3> QED BY <1>2, <3>2, <3>3, <3>4
  <2> QED BY <2>2, <2>3
<1>5. ReplayedBook(first, snap, i) = ReplayedBook(buf, snap, i)
  BY <1>4, Zenon DEF ReplayedBook
<1> QED
  BY <1>2, <1>3, <1>5, Zenon DEF first, seq

\* A replay of right ranges without a gap is accepted: the book is one the market
\* published after every range, not only after the last.
LEMMA ReplayIsAccepted ==
    ASSUME NEW lg \in Seq(Change), NEW pb \in Nat, LogOK(lg, pb),
           NEW buf \in Seq(BookRange), BufferRight(lg, pb, buf),
           NEW snap, snap.seq \in 1 .. pb, lg[snap.seq].published,
           snap.book = lg[snap.seq].book,
           NoGap(buf, snap.seq)
    PROVE  ReplayOK(buf, snap)
<1>1. \A n \in 1 .. pb : lg[n].published => lg[n].book \in ValidBooks
  <2>1. pb <= Len(lg) /\ Len(lg) \in Nat
    BY LenProperties DEF LogOK
  <2> QED BY <2>1 DEF LogOK
<1>2. ASSUME NEW i \in 1 .. Len(buf)
      PROVE  ReplayedBook(buf, snap, i) \in ValidBooks
  <2> DEFINE first == SubSeq(buf, 1, i)
             E == ReplayedExpected(first, snap.seq)
  <2>1. /\ first \in Seq(BookRange) /\ Len(first) = i
        /\ \A j \in 1 .. i : /\ first[j] = buf[j]
                             /\ Replayed(first, snap.seq, j) = Replayed(buf, snap.seq, j)
                             /\ GapAt(first, snap.seq, j) = GapAt(buf, snap.seq, j)
        /\ ReplayedBook(first, snap, i) = ReplayedBook(buf, snap, i)
    BY PrefixReplay, Zenon
  <2>2. 1 .. i \subseteq 1 .. Len(buf)
    BY LenProperties
  <2> HIDE DEF first
  <2>3. BufferRight(lg, pb, first)
    BY <2>1, <2>2 DEF BufferRight
  <2>4. NoGap(first, snap.seq)
    BY <2>1, <2>2 DEF NoGap
  <2>5. /\ E - 1 \in 1 .. pb /\ lg[E - 1].published
        /\ ReplayedBook(first, snap, Len(first)) = lg[E - 1].book
    BY <2>1, <2>3, <2>4, ReplayIsPublished, Zenon
  <2> HIDE DEF E
  <2> QED BY <1>1, <2>1, <2>5
<1>3. snap.book \in ValidBooks
  BY <1>1
<1> QED
  BY <1>2, <1>3 DEF ReplayOK, NoGap

-----------------------------------------------------------------------------
(* The BookSync functions keep the type of a state. *)

\* The book that a replay computes is a book.
LEMMA ReplayedBookType ==
    ASSUME NEW buf \in Seq(BookRange), NEW snap, snap.book \in Book
    PROVE  ReplayedBook(buf, snap, Len(buf)) \in Book
<1>1. Len(buf) \in Nat
  BY LenProperties
<1>2. ASSUME NEW l \in Level
      PROVE  ReplayedLots(buf, snap, Len(buf), l) \in Lots
  <2> DEFINE W == {i \in 1 .. Len(buf) : Replayed(buf, snap.seq, i) /\ l \in DOMAIN buf[i].lots}
             m == CHOOSE i \in W : \A j \in W : j <= i
  <2>0. ReplayedLots(buf, snap, Len(buf), l)
          = IF W = {} THEN snap.book[l] ELSE buf[m].lots[l]
    BY DEF ReplayedLots
  <2>1. CASE W = {}
    BY <2>0, <2>1 DEF Book
  <2>2. CASE W # {}
    <3>1. \E i \in W : \A j \in W : j <= i
      <4>1. W \in SUBSET Nat /\ \A i \in W : i <= Len(buf)
        BY <1>1
      <4> HIDE DEF W
      <4> QED BY <1>1, <2>2, <4>1, GreatestNat
    <3>2. m \in W
      BY <3>1
    <3>0. ReplayedLots(buf, snap, Len(buf), l) = buf[m].lots[l]
      BY <2>0, <2>2
    <3> HIDE DEF m
    <3>3. m \in 1 .. Len(buf) /\ l \in DOMAIN buf[m].lots
      BY <3>2
    <3>4. buf[m] \in BookRange
      BY <3>3, BufferType
    <3>5. buf[m].lots[l] \in Lots
      BY <3>3, <3>4 DEF BookRange
    <3> QED BY <3>0, <3>5
  <2> QED BY <2>1, <2>2
<1> QED
  BY <1>2 DEF ReplayedBook, Book

\* What requestSnapshot does to a state: the book on show stays, the buffer is
\* emptied, and the engine waits for a new generation or has failed.
LEMMA RequestSnapshotStep ==
    ASSUME NEW b \in SyncState
    PROVE  /\ RequestSnapshot(b) \in SyncState
           /\ RequestSnapshot(b).session = b.session
           /\ RequestSnapshot(b).expectedSeq = b.expectedSeq
           /\ RequestSnapshot(b).book = b.book
           /\ RequestSnapshot(b).buffered = <<>>
           /\ \/ /\ RequestSnapshot(b).status = "buffering"
                 /\ RequestSnapshot(b).generation = b.generation + 1
              \/ /\ RequestSnapshot(b).status = "failed"
                 /\ RequestSnapshot(b).generation = b.generation
<1>1. <<>> \in Seq(BookRange)
  OBVIOUS
<1>2. CASE b.session = None \/ b.attemptsUsed >= MaxAttempts
  <2>1. RequestSnapshot(b) = [b EXCEPT !.status = "failed", !.buffered = <<>>]
    BY <1>2 DEF RequestSnapshot
  <2> QED BY <1>1, <2>1 DEF SyncState
<1>3. CASE ~(b.session = None \/ b.attemptsUsed >= MaxAttempts)
  <2>1. RequestSnapshot(b) = [b EXCEPT !.attemptsUsed = @ + 1, !.generation = @ + 1,
                                       !.status = "buffering", !.buffered = <<>>]
    BY <1>3 DEF RequestSnapshot
  <2>2. b.attemptsUsed + 1 \in 0 .. MaxAttempts /\ b.generation + 1 \in Nat
    BY <1>3, SyncAssumption DEF SyncState
  <2> QED BY <1>1, <2>1, <2>2 DEF SyncState
<1> QED BY <1>2, <1>3

\* start of a state for a real session.
LEMMA StartStep ==
    ASSUME NEW b \in SyncState, NEW s \in Nat
    PROVE  /\ Start(b, s) \in SyncState
           /\ Start(b, s).session = s
           /\ Start(b, s).expectedSeq = None
           /\ Start(b, s).buffered = <<>>
           /\ Start(b, s).status = "buffering"
           /\ Start(b, s).generation # 0
<1>1. EmptyBook \in Book
  BY RangesAssumption DEF EmptyBook, Book, Lots
<1>2. <<>> \in Seq(BookRange) /\ 1 \in 0 .. MaxAttempts /\ None \in Nat
  BY SyncAssumption DEF None
<1> DEFINE g == IF b.session = s THEN b.generation + 1 ELSE 1
<1>3. g \in Nat /\ g # 0
  BY DEF SyncState
<1> HIDE DEF g
<1>4. Start(b, s) = [session |-> s, status |-> "buffering", generation |-> g,
                     expectedSeq |-> None, attemptsUsed |-> 1, buffered |-> <<>>,
                     book |-> EmptyBook]
  BY DEF Start, g
<1> QED
  BY <1>1, <1>2, <1>3, <1>4 DEF SyncState

-----------------------------------------------------------------------------
(***************************************************************************)
(* The BookSync functions keep a state right with respect to the logs and  *)
(* publications of the sessions.                                           *)
(***************************************************************************)

\* Requesting a snapshot and starting keep a state right.
LEMMA RequestSnapshotRight ==
    ASSUME NEW b \in SyncState, NEW lg, NEW pb, SyncRight(b, lg, pb)
    PROVE  SyncRight(RequestSnapshot(b), lg, pb)
<1> DEFINE r == RequestSnapshot(b)
<1>1. /\ r.session = b.session /\ r.expectedSeq = b.expectedSeq /\ r.book = b.book
      /\ r.buffered = <<>> /\ r.status # "synced"
  BY RequestSnapshotStep
<1>2. Len(r.buffered) = 0
  BY <1>1
<1> HIDE DEF r
<1>3. 1 .. Len(r.buffered) = {}
  BY <1>2
<1> QED
  BY <1>1, <1>3 DEF SyncRight, r

LEMMA StartRight ==
    ASSUME NEW b \in SyncState, NEW s \in Nat, NEW lg, NEW pb
    PROVE  SyncRight(Start(b, s), lg, pb)
<1> DEFINE r == Start(b, s)
<1>1. r.expectedSeq = None /\ r.buffered = <<>> /\ r.status # "synced"
  BY StartStep
<1>2. Len(r.buffered) = 0
  BY <1>1
<1> HIDE DEF r
<1>3. 1 .. Len(r.buffered) = {}
  BY <1>2
<1> QED
  BY <1>1, <1>3 DEF SyncRight, r

\* A right range of its session keeps a state right; a book on show changes
\* only while the state is synchronised, and never to an earlier one.
LEMMA ReceiveRangeRight ==
    ASSUME NEW b \in SyncState, NEW lg, NEW pb, SyncRight(b, lg, pb),
           NEW s, s # None, NEW r \in BookRange,
           lg[s] \in Seq(Change), pb[s] \in Nat, LogOK(lg[s], pb[s]),
           RangeOK(lg[s], pb[s], r)
    PROVE  LET n == ReceiveRange(b, s, r)
           IN  /\ n \in SyncState
               /\ SyncRight(n, lg, pb)
               /\ n.session = b.session
               /\ n.generation # b.generation => n.status = "buffering"
               /\ n.generation = b.generation /\ n.status = "buffering" => b.status = "buffering"
               /\ n.generation = b.generation /\ n.status = "synced" => b.status = "synced"
               /\ n.expectedSeq # b.expectedSeq =>
                    b.status = "synced" /\ n.expectedSeq >= b.expectedSeq
<1> DEFINE n == ReceiveRange(b, s, r)
<1>a. /\ b.expectedSeq \in Nat /\ b.generation \in Nat
      /\ r.from \in Nat /\ r.to \in Nat
  BY RangeType DEF SyncState
<1>1. CASE n = b
  BY <1>1, <1>a
<1>2. CASE n = RequestSnapshot(b)
  <2>1. n \in SyncState /\ SyncRight(n, lg, pb)
    BY <1>2, RequestSnapshotStep, RequestSnapshotRight
  <2>2. /\ n.session = b.session /\ n.expectedSeq = b.expectedSeq
        /\ \/ n.status = "buffering" /\ n.generation = b.generation + 1
           \/ n.status = "failed" /\ n.generation = b.generation
    BY <1>2, RequestSnapshotStep
  <2> QED BY <1>a, <2>1, <2>2
<1>3. CASE /\ s = b.session /\ b.status = "synced"
           /\ r.from <= b.expectedSeq /\ b.expectedSeq <= r.to
           /\ n = [b EXCEPT !.book = ApplyRange(@, r), !.expectedSeq = r.to + 1]
  <2>1. /\ b.expectedSeq # None
        /\ b.book = lg[s][b.expectedSeq - 1].book
        /\ b.expectedSeq - 1 \in 1 .. pb[s]
    BY <1>3 DEF SyncRight
  <2>2. BookAt(lg[s], b.expectedSeq - 1) = b.book
    BY <1>a, <2>1 DEF BookAt
  <2>3. ApplyRange(b.book, r) = lg[s][r.to].book
    <3>1. b.expectedSeq \in Nat \ {0}
      BY <1>a, <2>1
    <3> QED BY <1>3, <2>2, <3>1, ApplyRangeOK
  <2>4. r.to \in 1 .. pb[s] /\ lg[s][r.to].published
    BY <1>a DEF RangeOK
  <2>5. lg[s][r.to].book \in Book
    <3>1. r.to \in 0 .. Len(lg[s]) /\ r.to # 0
      BY <2>4, LenProperties DEF LogOK
    <3>2. BookAt(lg[s], r.to) \in Book
      BY <3>1, BookAtType
    <3> QED BY <3>1, <3>2 DEF BookAt
  <2>6. /\ n \in SyncState
        /\ n.session = b.session /\ n.generation = b.generation /\ n.status = "synced"
        /\ n.buffered = b.buffered /\ n.expectedSeq = r.to + 1
        /\ n.book = lg[s][r.to].book
    <3> DEFINE bk == lg[s][r.to].book
               e == r.to + 1
    <3>1. n = [b EXCEPT !.book = bk, !.expectedSeq = e]
      BY <1>3, <2>3
    <3>2. bk \in Book /\ e \in Nat
      BY <1>a, <2>5
    <3>3. b.status = "synced"
      BY <1>3
    <3> HIDE DEF n, bk, e
    <3>4. /\ n \in SyncState
          /\ n.session = b.session /\ n.generation = b.generation /\ n.status = "synced"
          /\ n.buffered = b.buffered /\ n.expectedSeq = e /\ n.book = bk
      BY <3>1, <3>2, <3>3 DEF SyncState
    <3> QED BY <3>4 DEF bk, e
  <2> HIDE DEF n
  <2>7. SyncRight(n, lg, pb)
    <3>1. n.expectedSeq - 1 = r.to /\ n.expectedSeq # None
      BY <1>a, <2>6 DEF None
    <3>2. n.session # None
      BY <1>3, <2>6
    <3>3. \A i \in 1 .. Len(n.buffered) :
             RangeOK(lg[n.session], pb[n.session], n.buffered[i])
      BY <2>6 DEF SyncRight
    <3> QED BY <1>3, <2>4, <2>6, <3>1, <3>2, <3>3 DEF SyncRight
  <2> QED BY <1>3, <1>a, <2>6, <2>7 DEF n
<1>4. CASE /\ s = b.session /\ b.status = "buffering"
           /\ n = [b EXCEPT !.buffered = Append(@, r)]
  <2>1. b.buffered \in Seq(BookRange)
    BY DEF SyncState
  <2> DEFINE buf == Append(b.buffered, r)
  <2>2. /\ buf \in Seq(BookRange)
        /\ Len(b.buffered) \in Nat
        /\ Len(buf) = Len(b.buffered) + 1
        /\ \A i \in 1 .. Len(b.buffered) : buf[i] = b.buffered[i]
        /\ buf[Len(b.buffered) + 1] = r
    BY <2>1, AppendProperties, LenProperties
  <2> HIDE DEF buf
  <2>3. /\ n \in SyncState
        /\ n.session = b.session /\ n.generation = b.generation /\ n.status = b.status
        /\ n.buffered = buf /\ n.expectedSeq = b.expectedSeq /\ n.book = b.book
    BY <1>4, <2>2 DEF SyncState, buf
  <2> HIDE DEF n
  <2>4. ASSUME NEW i \in 1 .. Len(buf)
        PROVE  RangeOK(lg[b.session], pb[b.session], buf[i])
    <3>1. CASE i \in 1 .. Len(b.buffered)
      BY <2>2, <3>1 DEF SyncRight
    <3>2. CASE i = Len(b.buffered) + 1
      BY <1>4, <2>2, <3>2
    <3> QED BY <2>2, <3>1, <3>2
  <2>5. n.session # None
    BY <1>4, <2>3
  <2>6. SyncRight(n, lg, pb)
    BY <1>4, <2>3, <2>4, <2>5 DEF SyncRight
  <2> QED BY <1>4, <2>3, <2>6 DEF n
<1>5. \/ n = b
      \/ n = RequestSnapshot(b)
      \/ /\ s = b.session /\ b.status = "synced"
         /\ r.from <= b.expectedSeq /\ b.expectedSeq <= r.to
         /\ n = [b EXCEPT !.book = ApplyRange(@, r), !.expectedSeq = r.to + 1]
      \/ /\ s = b.session /\ b.status = "buffering"
         /\ n = [b EXCEPT !.buffered = Append(@, r)]
  <2>1. ~(r.to < b.expectedSeq) => b.expectedSeq <= r.to
    BY <1>a
  <2>2. ~(r.from > b.expectedSeq) => r.from <= b.expectedSeq
    BY <1>a
  <2> QED BY <2>1, <2>2, Zenon DEF ReceiveRange
<1> QED
  BY <1>1, <1>2, <1>3, <1>4, <1>5

\* A published snapshot keeps a state right; what is then shown is not behind
\* the snapshot, and a state that still waits waits for a new generation.
LEMMA ReceiveSnapshotRight ==
    ASSUME NEW b \in SyncState, NEW lg, NEW pb, SyncRight(b, lg, pb),
           NEW snap, NEW gen, snap.session # None, snap.seq \in Nat,
           lg[snap.session] \in Seq(Change), pb[snap.session] \in Nat,
           LogOK(lg[snap.session], pb[snap.session]),
           snap.seq \in 1 .. pb[snap.session],
           lg[snap.session][snap.seq].published,
           snap.book = lg[snap.session][snap.seq].book
    PROVE  LET n == ReceiveSnapshot(b, snap, gen)
           IN  /\ n \in SyncState
               /\ SyncRight(n, lg, pb)
               /\ n.session = b.session
               /\ n.generation # b.generation => n.status = "buffering"
               /\ (n.status = "buffering" /\ n.generation = b.generation) =>
                    snap.session # b.session \/ gen # b.generation
               /\ n.expectedSeq # b.expectedSeq =>
                    snap.session = b.session /\ snap.seq + 1 <= n.expectedSeq
<1> DEFINE n == ReceiveSnapshot(b, snap, gen)
           L == lg[snap.session]
           P == pb[snap.session]
           E == ReplayedExpected(b.buffered, snap.seq)
           bk == ReplayedBook(b.buffered, snap, Len(b.buffered))
<1>a. b.generation \in Nat /\ b.expectedSeq \in Nat /\ b.buffered \in Seq(BookRange)
  BY DEF SyncState
<1>1. CASE snap.session # b.session \/ gen # b.generation \/ b.status # "buffering"
  <2>1. n = b
    BY <1>1 DEF ReceiveSnapshot
  <2> QED BY <1>1, <2>1
<1>2. CASE n = RequestSnapshot(b)
  <2>1. n \in SyncState /\ SyncRight(n, lg, pb)
    BY <1>2, RequestSnapshotStep, RequestSnapshotRight
  <2>2. /\ n.session = b.session /\ n.expectedSeq = b.expectedSeq
        /\ \/ n.status = "buffering" /\ n.generation = b.generation + 1
           \/ n.status = "failed" /\ n.generation = b.generation
    BY <1>2, RequestSnapshotStep
  <2> QED BY <1>a, <2>1, <2>2
<1>3. CASE /\ snap.session = b.session
           /\ ReplayOK(b.buffered, snap)
           /\ n = Synced(b, bk, E)
  <2>1. \A i \in 1 .. Len(b.buffered) : RangeOK(L, P, b.buffered[i])
    BY <1>3 DEF SyncRight
  <2>2. \A i \in 1 .. Len(b.buffered) :
          Replayed(b.buffered, snap.seq, i) => ~GapAt(b.buffered, snap.seq, i)
    BY <1>3 DEF ReplayOK
  <2>3. /\ E \in Nat /\ E - 1 \in 1 .. P /\ L[E - 1].published
        /\ bk = L[E - 1].book /\ snap.seq + 1 <= E
    <3> DEFINE buf == b.buffered
    <3>1. buf \in Seq(BookRange)
      BY <1>a
    <3> HIDE DEF buf
    <3>2. BufferRight(L, P, buf) /\ NoGap(buf, snap.seq)
      BY <2>1, <2>2 DEF buf, BufferRight, NoGap
    <3>3. /\ L \in Seq(Change) /\ P \in Nat /\ LogOK(L, P)
          /\ snap.seq \in 1 .. P /\ L[snap.seq].published
          /\ snap.book = L[snap.seq].book
      OBVIOUS
    <3> HIDE DEF L, P
    <3>4. /\ ReplayedExpected(buf, snap.seq) \in Nat
          /\ ReplayedExpected(buf, snap.seq) - 1 \in 1 .. P
          /\ L[ReplayedExpected(buf, snap.seq) - 1].published
          /\ ReplayedBook(buf, snap, Len(buf)) = L[ReplayedExpected(buf, snap.seq) - 1].book
          /\ snap.seq + 1 <= ReplayedExpected(buf, snap.seq)
      BY <3>1, <3>2, <3>3, ReplayIsPublished
    <3> QED BY <3>4 DEF buf
  <2>4. bk \in Book
    <3>1. E - 1 \in 0 .. Len(L) /\ E - 1 # 0
      BY <2>3, LenProperties DEF LogOK
    <3>2. BookAt(L, E - 1) \in Book
      BY <3>1, BookAtType
    <3> QED BY <2>3, <3>1, <3>2 DEF BookAt
  <2> HIDE DEF bk, E, n
  <2>5. /\ n \in SyncState
        /\ n.session = b.session /\ n.generation = b.generation /\ n.status = "synced"
        /\ n.buffered = <<>> /\ n.expectedSeq = E /\ n.book = bk
    <3>1. <<>> \in Seq(BookRange) /\ 0 \in 0 .. MaxAttempts
      BY SyncAssumption
    <3> QED BY <1>3, <2>3, <2>4, <3>1 DEF Synced, SyncState
  <2>6. n.session # None /\ n.expectedSeq # None
    BY <1>3, <2>3, <2>5 DEF None
  <2>7. 1 .. Len(n.buffered) = {}
    BY <2>5
  <2>8. SyncRight(n, lg, pb)
    <3>1. /\ n.expectedSeq - 1 \in 1 .. pb[n.session]
          /\ lg[n.session][n.expectedSeq - 1].published
          /\ n.book = lg[n.session][n.expectedSeq - 1].book
      <4>1. n.session = snap.session /\ n.expectedSeq = E /\ n.book = bk
        BY <1>3, <2>5
      <4> QED BY <2>3, <4>1, Zenon
    <3>2. \A i \in 1 .. Len(n.buffered) :
             RangeOK(lg[n.session], pb[n.session], n.buffered[i])
      BY <2>7, Zenon
    <3> QED BY <2>6, <3>1, <3>2, Zenon DEF SyncRight
  <2> QED BY <1>3, <2>3, <2>5, <2>8 DEF n
<1> QED
  <2>1. \/ snap.session # b.session \/ gen # b.generation \/ b.status # "buffering"
        \/ n = RequestSnapshot(b)
        \/ /\ snap.session = b.session
           /\ ReplayOK(b.buffered, snap)
           /\ n = Synced(b, bk, E)
    BY Zenon DEF ReceiveSnapshot
  <2> QED BY <1>1, <1>2, <1>3, <2>1

\* A failed request of the current generation keeps a state right, shows what
\* was shown, and leaves no state waiting for an answer it has lost.
LEMMA FailedRight ==
    ASSUME NEW b \in SyncState, NEW lg, NEW pb, SyncRight(b, lg, pb), NEW gen
    PROVE  LET n == Failed(b, gen)
           IN  /\ n \in SyncState
               /\ SyncRight(n, lg, pb)
               /\ n.session = b.session
               /\ n.generation # b.generation => n.status = "buffering"
               /\ (n.status = "buffering" /\ n.generation = b.generation) => gen # b.generation
               /\ n.expectedSeq = b.expectedSeq
<1> DEFINE n == Failed(b, gen)
<1>a. b.generation \in Nat
  BY DEF SyncState
<1>1. CASE gen # b.generation \/ b.status # "buffering"
  <2>1. n = b
    BY <1>1 DEF Failed
  <2> QED BY <1>1, <2>1
<1>2. CASE n = RequestSnapshot(b)
  <2>1. n \in SyncState /\ SyncRight(n, lg, pb)
    BY <1>2, RequestSnapshotStep, RequestSnapshotRight
  <2>2. /\ n.session = b.session /\ n.expectedSeq = b.expectedSeq
        /\ \/ n.status = "buffering" /\ n.generation = b.generation + 1
           \/ n.status = "failed" /\ n.generation = b.generation
    BY <1>2, RequestSnapshotStep
  <2> QED BY <1>a, <2>1, <2>2
<1> QED
  BY <1>1, <1>2 DEF Failed

-----------------------------------------------------------------------------
(* The pipeline: invariants of BookDelivery, with the monitor and without. *)

\* What TypeOK and LogsOK say of one session.
LEMMA SessionFacts ==
    ASSUME TypeOK, LogsOK, NEW s \in Session
    PROVE  /\ s \in Nat /\ s # None
           /\ log[s] \in Seq(Change) /\ Len(log[s]) \in Nat /\ Len(log[s]) <= MaxSeq
           /\ pub[s] \in Seq0 /\ pub[s] \in Nat
           /\ LogOK(log[s], pub[s])
           /\ pub[s] <= Len(log[s])
<1>1. s \in Nat /\ s # None
  BY DEF Session, None
<1>2. log[s] \in Seq(Change) /\ pub[s] \in Seq0
  BY DEF TypeOK
<1>3. pub[s] \in Nat
  BY <1>2 DEF Seq0
<1>4. Len(log[s]) \in Nat
  BY <1>2, LenProperties
<1>5. LogOK(log[s], pub[s]) /\ Len(log[s]) <= MaxSeq
  BY DEF LogsOK
<1>6. pub[s] <= Len(log[s])
  BY <1>5 DEF LogOK
<1> QED
  BY <1>1, <1>2, <1>3, <1>4, <1>5, <1>6

-----------------------------------------------------------------------------
(* The server's history only grows. *)

\* What the history of a session becomes: longer, and more of it published.
Grown ==
    \A s \in Session :
        /\ log'[s] \in Seq(Change) /\ pub'[s] \in Nat
        /\ pub[s] <= pub'[s]
        /\ \A k \in 1 .. Len(log[s]) :
             /\ log'[s][k].level = log[s][k].level
             /\ log'[s][k].book = log[s][k].book
             /\ log[s][k].published => log'[s][k].published

\* A range that is right stays right.
LEMMA GrownRange ==
    ASSUME TypeOK, LogsOK, Grown, NEW s \in Session, NEW r \in BookRange,
           RangeOK(log[s], pub[s], r)
    PROVE  RangeOK(log'[s], pub'[s], r)
<1> DEFINE L == log[s]
           N == log'[s]
           P == pub[s]
           Q == pub'[s]
<1>1. /\ L \in Seq(Change) /\ P \in Nat /\ P <= Len(L)
  BY SessionFacts
<1>2. /\ N \in Seq(Change) /\ Q \in Nat /\ P <= Q
      /\ \A k \in 1 .. Len(L) : /\ N[k].level = L[k].level
                                /\ N[k].book = L[k].book
                                /\ L[k].published => N[k].published
  BY DEF Grown
<1>3. RangeOK(L, P, r)
  OBVIOUS
<1> HIDE DEF L, N, P, Q
<1>4. RangeOK(N, Q, r)
  BY <1>1, <1>2, <1>3, RangeStable
<1> QED
  BY <1>4 DEF N, Q

\* A published change stays published, with its book.
LEMMA GrownChange ==
    ASSUME TypeOK, LogsOK, Grown, NEW s \in Session, NEW n \in 1 .. pub[s],
           log[s][n].published
    PROVE  /\ n \in 1 .. pub'[s]
           /\ log'[s][n].published
           /\ log'[s][n].book = log[s][n].book
<1>1. /\ pub[s] \in Nat /\ Len(log[s]) \in Nat /\ pub[s] <= Len(log[s])
  BY SessionFacts
<1>2. pub'[s] \in Nat /\ pub[s] <= pub'[s]
  BY DEF Grown
<1>3. n \in 1 .. Len(log[s]) /\ n \in 1 .. pub'[s]
  BY <1>1, <1>2
<1> QED
  BY <1>3 DEF Grown

\* Everything on its way stays right while the history grows.
LEMMA GrownKeeps ==
    ASSUME IInv, Grown, UNCHANGED <<wire, sync, fetch>>
    PROVE  WireRangesOK' /\ SyncRight(sync, log, pub)' /\ AnswerIsPublished'
<1>0. TypeOK /\ LogsOK
  BY DEF IInv
<1>1. WireRangesOK'
  <2>1. SUFFICES ASSUME NEW i \in 1 .. Len(wire), wire[i].kind = "update"
                 PROVE  RangeOK(log'[wire[i].session], pub'[wire[i].session], wire[i].range)
    BY DEF WireRangesOK
  <2>2. wire[i] \in WireFrame
    BY <1>0, ElementOfSeq DEF TypeOK
  <2>3. wire[i].session \in Session /\ wire[i].range \in BookRange
    BY <2>2 DEF WireFrame
  <2>4. RangeOK(log[wire[i].session], pub[wire[i].session], wire[i].range)
    BY <2>1 DEF IInv, WireRangesOK
  <2> QED BY <1>0, <2>3, <2>4, GrownRange
<1>2. SyncRight(sync, log, pub)'
  <2>1. SyncRight(sync, log, pub) /\ sync' = sync
    BY DEF IInv
  <2>2. sync \in SyncState /\ sync.session \in Session \cup {None}
    BY <1>0 DEF TypeOK
  <2>3. ASSUME NEW i \in 1 .. Len(sync.buffered)
        PROVE  RangeOK(log'[sync.session], pub'[sync.session], sync.buffered[i])
    <3>1. sync.buffered \in Seq(BookRange)
      BY <2>2 DEF SyncState
    <3>2. sync.buffered[i] \in BookRange
      BY <3>1, ElementOfSeq
    <3>3. sync.session # None
      BY <2>1 DEF SyncRight
    <3>4. RangeOK(log[sync.session], pub[sync.session], sync.buffered[i])
      BY <2>1 DEF SyncRight
    <3> QED BY <1>0, <2>2, <3>2, <3>3, <3>4, GrownRange
  <2>4. ASSUME sync.expectedSeq # None
        PROVE  /\ sync.expectedSeq - 1 \in 1 .. pub'[sync.session]
               /\ log'[sync.session][sync.expectedSeq - 1].published
               /\ sync.book = log'[sync.session][sync.expectedSeq - 1].book
    <3>1. sync.session \in Session
      BY <2>1, <2>2, <2>4 DEF SyncRight
    <3>2. /\ sync.expectedSeq - 1 \in 1 .. pub[sync.session]
          /\ log[sync.session][sync.expectedSeq - 1].published
          /\ sync.book = log[sync.session][sync.expectedSeq - 1].book
      BY <2>1, <2>4 DEF SyncRight
    <3> QED BY <1>0, <3>1, <3>2, GrownChange
  <2> QED BY <2>1, <2>3, <2>4 DEF SyncRight
<1>3. AnswerIsPublished'
  <2>1. SUFFICES ASSUME fetch.st = "answered"
                 PROVE  LET s == fetch.snap
                        IN  /\ s.seq \in 1 .. pub'[s.session]
                            /\ log'[s.session][s.seq].published
                            /\ s.book = log'[s.session][s.seq].book
    BY DEF AnswerIsPublished
  <2>2. fetch.snap.session \in Session
    BY <1>0 DEF TypeOK, FetchState, Snapshot
  <2>3. /\ fetch.snap.seq \in 1 .. pub[fetch.snap.session]
        /\ log[fetch.snap.session][fetch.snap.seq].published
        /\ fetch.snap.book = log[fetch.snap.session][fetch.snap.seq].book
    BY <2>1 DEF IInv, AnswerIsPublished
  <2> QED BY <1>0, <2>2, <2>3, GrownChange
<1> QED
  BY <1>1, <1>2, <1>3

-----------------------------------------------------------------------------
(* The engine and its request. *)

Requests == /\ AnswerIsPublished /\ AnswerIsNotBehind /\ SyncedHasNoRequest
            /\ RequestIsCurrent /\ BufferingHasRequest

\* A pending request for generation g.
LEMMA FetchType ==
    ASSUME NEW g \in Nat
    PROVE  /\ Fetch(g) \in FetchState
           /\ Fetch(g).st = "pending" /\ Fetch(g).gen = g
           /\ NoFetch \in FetchState /\ NoFetch.st = "none"
<1>1. EmptyBook \in Book
  BY RangesAssumption DEF EmptyBook, Book, Lots
<1>2. 1 \in Session /\ 0 \in Seq0 /\ 0 \in Nat
  BY DeliveryAssumption DEF Session, Seq0
<1>3. NoSnapshot \in Snapshot
  BY <1>1, <1>2 DEF NoSnapshot, Snapshot
<1> QED
  BY <1>2, <1>3 DEF Fetch, NoFetch, FetchState

\* A new request for the engine's generation, while the engine is not
\* synchronised.
LEMMA FreshRequest ==
    ASSUME sync' \in SyncState, sync'.status # "synced", fetch' = Fetch(sync'.generation)
    PROVE  fetch' \in FetchState /\ Requests'
<1>1. sync'.generation \in Nat
  BY DEF SyncState
<1>2. fetch' \in FetchState /\ fetch'.st = "pending" /\ fetch'.gen = sync'.generation
  BY <1>1, FetchType
<1> QED
  BY <1>2 DEF Requests, AnswerIsPublished, AnswerIsNotBehind, SyncedHasNoRequest,
              RequestIsCurrent, BufferingHasRequest

\* No request, while the engine is not waiting for one on a live connection.
LEMMA NoRequest ==
    ASSUME fetch' = NoFetch, sock' = "live" => sync'.status # "buffering"
    PROVE  fetch' \in FetchState /\ Requests'
<1>1. fetch' \in FetchState /\ fetch'.st = "none"
  BY FetchType
<1> QED
  BY <1>1 DEF Requests, AnswerIsPublished, AnswerIsNotBehind, SyncedHasNoRequest,
              RequestIsCurrent, BufferingHasRequest

\* bookEffects after a change of the engine: a new generation has its request,
\* otherwise the old one still belongs to what the engine waits for.
LEMMA IssueKeeps ==
    ASSUME IInv, UNCHANGED <<log, pub>>, fetch' = Issue(sync'),
           sync' \in SyncState, sync'.session = sync.session,
           sync'.generation # sync.generation => sync'.status = "buffering",
           (sync'.generation = sync.generation /\ sync'.status = "buffering")
             => sync.status = "buffering" /\ (sock' = "live" => sock = "live"),
           (sync'.generation = sync.generation /\ sync'.status = "synced")
             => sync.status = "synced",
           sync'.expectedSeq # sync.expectedSeq => sync.status = "synced"
    PROVE  fetch' \in FetchState /\ Requests'
<1>1. CASE sync'.generation # sync.generation
  <2>1. fetch' = Fetch(sync'.generation)
    BY <1>1 DEF Issue
  <2> QED BY <1>1, <2>1, FreshRequest
<1>2. CASE sync'.generation = sync.generation
  <2>1. fetch' = fetch
    BY <1>2 DEF Issue
  <2>2. fetch' \in FetchState
    BY <2>1 DEF IInv, TypeOK
  <2>3. AnswerIsPublished'
    BY <2>1 DEF IInv, AnswerIsPublished
  <2>4. SyncedHasNoRequest'
    BY <1>2, <2>1 DEF IInv, SyncedHasNoRequest
  <2>5. AnswerIsNotBehind'
    <3>1. CASE sync'.expectedSeq = sync.expectedSeq
      BY <2>1, <3>1 DEF IInv, AnswerIsNotBehind
    <3>2. CASE sync'.expectedSeq # sync.expectedSeq
      <4>1. fetch.st = "none"
        BY <3>2 DEF IInv, SyncedHasNoRequest
      <4> QED BY <2>1, <4>1 DEF AnswerIsNotBehind
    <3> QED BY <3>1, <3>2
  <2>6. RequestIsCurrent'
    BY <1>2, <2>1 DEF IInv, RequestIsCurrent
  <2>7. BufferingHasRequest'
    BY <1>2, <2>1 DEF IInv, BufferingHasRequest
  <2> QED BY <2>2, <2>3, <2>4, <2>5, <2>6, <2>7 DEF Requests
<1> QED BY <1>1, <1>2

\* requestSnapshot, from a book_reset, a resync or a hello of the same session.
LEMMA RecoverKeeps ==
    ASSUME IInv, UNCHANGED <<log, pub>>,
           sync' = RequestSnapshot(sync), fetch' = Issue(sync')
    PROVE  /\ sync' \in SyncState /\ sync'.session = sync.session
           /\ SyncRight(sync, log, pub)'
           /\ fetch' \in FetchState /\ Requests'
<1>1. sync \in SyncState /\ SyncRight(sync, log, pub)
  BY DEF IInv, TypeOK
<1>2. /\ sync' \in SyncState /\ sync'.session = sync.session
      /\ sync'.expectedSeq = sync.expectedSeq
      /\ \/ sync'.status = "buffering" /\ sync'.generation = sync.generation + 1
         \/ sync'.status = "failed" /\ sync'.generation = sync.generation
  BY <1>1, RequestSnapshotStep
<1>3. sync.generation \in Nat
  BY <1>1 DEF SyncState
<1>4. SyncRight(sync', log, pub)
  BY <1>1, RequestSnapshotRight
<1>5. SyncRight(sync, log, pub)'
  BY <1>4 DEF SyncRight
<1>6. fetch' \in FetchState /\ Requests'
  BY <1>2, <1>3, IssueKeeps
<1> QED
  BY <1>2, <1>5, <1>6

\* start, from a hello of a new session or a Retry.
LEMMA StartKeeps ==
    ASSUME IInv, NEW s \in Session \cup {None}, sync' = Start(sync, s),
           fetch' = Fetch(sync'.generation)
    PROVE  /\ sync' \in SyncState /\ sync'.session = s
           /\ SyncRight(sync, log, pub)'
           /\ fetch' \in FetchState /\ Requests'
<1>1. sync \in SyncState
  BY DEF IInv, TypeOK
<1>2. s \in Nat
  BY DEF Session, None
<1>3. /\ sync' \in SyncState /\ sync'.session = s /\ sync'.status # "synced"
  BY <1>1, <1>2, StartStep
<1>4. SyncRight(sync', log', pub')
  BY <1>1, <1>2, StartRight
<1> QED
  BY <1>3, <1>4, FreshRequest

\* Nothing the engine and its request depend on has changed.
LEMMA EngineUnchanged ==
    ASSUME IInv, UNCHANGED <<log, pub, sync, fetch>>, sock' = "live" => sock = "live"
    PROVE  SyncRight(sync, log, pub)' /\ Requests'
<1>1. SyncRight(sync, log, pub)'
  BY DEF IInv, SyncRight
<1>2. AnswerIsPublished' /\ AnswerIsNotBehind'
  BY DEF IInv, AnswerIsPublished, AnswerIsNotBehind
<1>3. SyncedHasNoRequest' /\ RequestIsCurrent' /\ BufferingHasRequest'
  BY DEF IInv, SyncedHasNoRequest, RequestIsCurrent, BufferingHasRequest
<1> QED
  BY <1>1, <1>2, <1>3 DEF Requests

-----------------------------------------------------------------------------
(* The frames on the wire. *)

\* A range-less frame of the running session.
LEMMA FrameType ==
    ASSUME TypeOK, NEW k \in FrameKind, NEW n \in Seq0
    PROVE  /\ Frame(k, n, NoRange) \in WireFrame
           /\ Frame(k, n, NoRange).kind = k
<1>1. NoRange \in BookRange
  <2>1. <<>> \in [{} -> Lots]
    OBVIOUS
  <2>2. {} \in SUBSET Level
    OBVIOUS
  <2>3. <<>> \in UNION {[S -> Lots] : S \in SUBSET Level}
    BY <2>1, <2>2
  <2> QED BY <2>3 DEF NoRange, BookRange
<1> QED
  BY <1>1 DEF Frame, WireFrame, TypeOK

\* A frame is written.
LEMMA WireAppend ==
    ASSUME IInv, UNCHANGED <<log, pub>>, NEW f \in WireFrame,
           f.kind = "update" => RangeOK(log[f.session], pub[f.session], f.range),
           wire' = Append(wire, f)
    PROVE  wire' \in Seq(WireFrame) /\ WireRangesOK'
<1>1. wire \in Seq(WireFrame)
  BY DEF IInv, TypeOK
<1>2. /\ wire' \in Seq(WireFrame)
      /\ Len(wire) \in Nat
      /\ Len(wire') = Len(wire) + 1
      /\ \A i \in 1 .. Len(wire) : wire'[i] = wire[i]
      /\ wire'[Len(wire) + 1] = f
  BY <1>1, AppendProperties, LenProperties
<1>3. ASSUME NEW i \in 1 .. Len(wire'), wire'[i].kind = "update"
      PROVE  RangeOK(log[wire'[i].session], pub[wire'[i].session], wire'[i].range)
  <2>1. CASE i \in 1 .. Len(wire)
    BY <1>2, <1>3, <2>1 DEF IInv, WireRangesOK
  <2>2. CASE i = Len(wire) + 1
    BY <1>2, <1>3, <2>2
  <2> QED BY <1>2, <2>1, <2>2
<1> QED
  BY <1>2, <1>3 DEF WireRangesOK

\* The first frame is received.
LEMMA WireTail ==
    ASSUME IInv, UNCHANGED <<log, pub>>, wire # <<>>, wire' = Tail(wire)
    PROVE  /\ wire' \in Seq(WireFrame) /\ WireRangesOK'
           /\ Incoming \in WireFrame
           /\ Incoming.session \in Session /\ Incoming.range \in BookRange
           /\ Incoming.kind = "update" =>
                RangeOK(log[Incoming.session], pub[Incoming.session], Incoming.range)
<1>1. wire \in Seq(WireFrame)
  BY DEF IInv, TypeOK
<1>2. /\ wire' \in Seq(WireFrame)
      /\ Len(wire) \in Nat /\ Len(wire) # 0
      /\ Len(wire') = Len(wire) - 1
      /\ \A i \in 1 .. Len(wire') : wire'[i] = wire[i + 1]
  BY <1>1, HeadTailProperties, EmptySeq, LenProperties
<1>3. ASSUME NEW i \in 1 .. Len(wire'), wire'[i].kind = "update"
      PROVE  RangeOK(log[wire'[i].session], pub[wire'[i].session], wire'[i].range)
  <2>1. i + 1 \in 1 .. Len(wire) /\ wire'[i] = wire[i + 1]
    BY <1>2
  <2> QED BY <1>3, <2>1 DEF IInv, WireRangesOK
<1>4. 1 \in 1 .. Len(wire)
  BY <1>2
<1>5. Incoming \in WireFrame
  BY <1>1, <1>4, ElementOfSeq DEF Incoming
<1>6. Incoming.kind = "update" =>
        RangeOK(log[Incoming.session], pub[Incoming.session], Incoming.range)
  BY <1>4 DEF IInv, WireRangesOK, Incoming
<1>7. WireRangesOK'
  BY <1>3 DEF WireRangesOK
<1> QED
  BY <1>2, <1>5, <1>6, <1>7 DEF WireFrame

\* The wire is cut, or holds one frame without a range.
LEMMA WireCut ==
    ASSUME wire' = <<>>
    PROVE  wire' \in Seq(WireFrame) /\ WireRangesOK'
<1>1. wire' \in Seq(WireFrame) /\ 1 .. Len(wire') = {}
  OBVIOUS
<1> QED
  BY <1>1 DEF WireRangesOK

LEMMA WireOpened ==
    ASSUME NEW f \in WireFrame, f.kind # "update", wire' = <<f>>
    PROVE  wire' \in Seq(WireFrame) /\ WireRangesOK'
<1>1. wire' \in Seq(WireFrame) /\ Len(wire') = 1 /\ wire'[1] = f
  OBVIOUS
<1> QED
  BY <1>1 DEF WireRangesOK

-----------------------------------------------------------------------------
(* IInv is inductive. *)

\* What is left to show of IInv' when the logs do not change.
LEMMA Assemble ==
    ASSUME IInv, UNCHANGED <<log, pub>>,
           session' \in Session, conn' \in ConnState,
           wire' \in Seq(WireFrame), WireRangesOK',
           sock' \in {"closed", "opening", "live"},
           sync' \in SyncState, sync'.session \in Session \cup {None},
           SyncRight(sync, log, pub)', fetch' \in FetchState, Requests',
           manual' \in BOOLEAN, env' \in 0 .. MaxEnv
    PROVE  IInv'
<1>1. TypeOK'
  BY DEF IInv, TypeOK
<1>2. LogsOK'
  BY DEF IInv, LogsOK
<1> QED
  BY <1>1, <1>2 DEF IInv, Requests

\* The environment's moves are counted down.
LEMMA EnvType ==
    ASSUME TypeOK, EnvMove
    PROVE  env' \in 0 .. MaxEnv
BY DeliveryAssumption DEF TypeOK, EnvMove

\* Before the first connection nothing is on its way and the log is consistent.
THEOREM InitIInv == Init => IInv
<1> SUFFICES ASSUME Init PROVE IInv
  OBVIOUS
<1>1. EmptyBook \in Book
  BY RangesAssumption DEF EmptyBook, Book, Lots
<1>2. /\ session \in Session /\ 0 \in Seq0 /\ 0 \in Nat /\ None \in Nat
      /\ env \in 0 .. MaxEnv /\ 0 \in 0 .. MaxAttempts
  BY DeliveryAssumption, SyncAssumption DEF Init, Session, Seq0, None
<1>3. sync \in SyncState /\ sync.session = None /\ sync.expectedSeq = None
      /\ sync.status = "idle" /\ sync.buffered = <<>>
  BY <1>1, <1>2 DEF Init, NewBookSync, SyncState
<1>4. fetch \in FetchState /\ fetch.st = "none"
  BY FetchType DEF Init
<1>5. TypeOK
  <2>1. log \in [Session -> Seq(Change)]
    BY DEF Init
  <2>2. pub \in [Session -> Seq0]
    BY <1>2 DEF Init
  <2>3. conn \in ConnState
    BY <1>2 DEF Init, NewConn, ConnState
  <2>4. wire \in Seq(WireFrame)
    BY DEF Init
  <2> QED BY <1>2, <1>3, <1>4, <2>1, <2>2, <2>3, <2>4 DEF TypeOK, Init
<1>6. LogsOK
  <2> SUFFICES ASSUME NEW s \in Session PROVE LogOK(log[s], pub[s]) /\ Len(log[s]) <= MaxSeq
    BY DEF LogsOK
  <2>1. log[s] = <<>> /\ pub[s] = 0 /\ Len(log[s]) = 0
    BY DEF Init
  <2>2. 0 <= MaxSeq
    BY DeliveryAssumption
  <2>3. LogOK(log[s], pub[s])
    BY <2>1 DEF LogOK
  <2> QED BY <2>1, <2>2, <2>3
<1>7. WireRangesOK
  BY DEF Init, WireRangesOK
<1>8. SyncRight(sync, log, pub)
  BY <1>3 DEF SyncRight
<1>9. Requests
  BY <1>3, <1>4 DEF Requests, AnswerIsPublished, AnswerIsNotBehind, SyncedHasNoRequest,
                    RequestIsCurrent, BufferingHasRequest
<1> QED
  BY <1>5, <1>6, <1>7, <1>8, <1>9 DEF IInv, Requests

\* The market owner: the log of the running session grows.
LEMMA MutateLevelKeeps ==
    ASSUME IInv, NEW l \in Level, NEW q \in Lots, MutateLevel(l, q)
    PROVE  IInv'
<1> DEFINE L == log[session]
           P == pub[session]
           N == Mutate(L, l, q)
<1>0. TypeOK /\ LogsOK /\ session \in Session
  BY DEF IInv, TypeOK
<1>1. /\ L \in Seq(Change) /\ P \in Nat /\ LogOK(L, P)
      /\ Len(L) \in Nat /\ Len(L) < MaxSeq
  BY <1>0, SessionFacts DEF MutateLevel
<1>2. /\ N \in Seq(Change) /\ LogOK(N, P) /\ Len(N) = Len(L) + 1
      /\ \A k \in 1 .. Len(L) : N[k] = L[k]
  <2> HIDE DEF L, P
  <2> QED BY <1>1, MutateOK
<1>3. log' = [log EXCEPT ![session] = N] /\ pub' = pub
  BY DEF MutateLevel
<1>4. log \in [Session -> Seq(Change)] /\ pub \in [Session -> Seq0]
  BY <1>0 DEF TypeOK
<1>b. Len(N) <= MaxSeq
  BY <1>1, <1>2, DeliveryAssumption
<1> HIDE DEF N
<1>5. /\ log' \in [Session -> Seq(Change)]
      /\ log'[session] = N
      /\ \A s \in Session : s # session => log'[s] = log[s]
  BY <1>0, <1>2, <1>3, <1>4
<1>6. LogsOK'
  <2> SUFFICES ASSUME NEW s \in Session
               PROVE  LogOK(log'[s], pub'[s]) /\ Len(log'[s]) <= MaxSeq
    BY DEF LogsOK
  <2>1. CASE s = session
    BY <1>2, <1>3, <1>5, <1>b, <2>1
  <2>2. CASE s # session
    BY <1>0, <1>3, <1>5, <2>2 DEF LogsOK
  <2> QED BY <2>1, <2>2
<1>7. Grown
  <2> SUFFICES ASSUME NEW s \in Session
               PROVE  /\ log'[s] \in Seq(Change) /\ pub'[s] \in Nat /\ pub[s] <= pub'[s]
                      /\ \A k \in 1 .. Len(log[s]) :
                           /\ log'[s][k].level = log[s][k].level
                           /\ log'[s][k].book = log[s][k].book
                           /\ log[s][k].published => log'[s][k].published
    BY DEF Grown
  <2>1. pub[s] \in Nat /\ log'[s] \in Seq(Change)
    BY <1>0, <1>5, SessionFacts
  <2>2. \A k \in 1 .. Len(log[s]) : log'[s][k] = log[s][k]
    BY <1>2, <1>5
  <2> QED BY <1>3, <2>1, <2>2
<1>8. UNCHANGED <<session, pub, conn, wire, sock, sync, fetch, manual, env>>
  BY DEF MutateLevel
<1>9. WireRangesOK' /\ SyncRight(sync, log, pub)' /\ AnswerIsPublished'
  BY <1>7, <1>8, GrownKeeps
<1>10. TypeOK'
  BY <1>0, <1>5, <1>8 DEF TypeOK
<1>11. /\ AnswerIsNotBehind' /\ SyncedHasNoRequest' /\ RequestIsCurrent'
       /\ BufferingHasRequest'
  BY <1>8 DEF IInv, AnswerIsNotBehind, SyncedHasNoRequest, RequestIsCurrent,
              BufferingHasRequest
<1> QED
  BY <1>6, <1>9, <1>10, <1>11 DEF IInv

LEMMA PublishKeeps ==
    ASSUME IInv, Publish
    PROVE  IInv'
<1> DEFINE L == log[session]
           P == pub[session]
           n == Len(L)
           N == [L EXCEPT ![n].published = TRUE]
<1>0. TypeOK /\ LogsOK /\ session \in Session
  BY DEF IInv, TypeOK
<1>1. /\ L \in Seq(Change) /\ P \in Nat /\ LogOK(L, P)
      /\ n \in Nat /\ n > P /\ n <= MaxSeq /\ BookAt(L, n) \in ValidBooks
  BY <1>0, SessionFacts DEF Publish, Published
<1>2. /\ N \in Seq(Change) /\ Len(N) = n /\ LogOK(N, n)
      /\ \A k \in 1 .. n : /\ N[k].level = L[k].level
                           /\ N[k].book = L[k].book
                           /\ L[k].published => N[k].published
  <2> HIDE DEF L, P
  <2> QED BY <1>1, PublishOK
<1>3. log' = [log EXCEPT ![session] = N] /\ pub' = [pub EXCEPT ![session] = n]
  BY DEF Publish
<1>4. log \in [Session -> Seq(Change)] /\ pub \in [Session -> Seq0]
  BY <1>0 DEF TypeOK
<1>b. n \in Seq0
  BY <1>1, DeliveryAssumption DEF Seq0
<1> HIDE DEF N
<1>5. /\ log' \in [Session -> Seq(Change)]
      /\ log'[session] = N
      /\ \A s \in Session : s # session => log'[s] = log[s]
      /\ pub' \in [Session -> Seq0]
      /\ pub'[session] = n
      /\ \A s \in Session : s # session => pub'[s] = pub[s]
  BY <1>0, <1>2, <1>3, <1>4, <1>b
<1>6. LogsOK'
  <2> SUFFICES ASSUME NEW s \in Session
               PROVE  LogOK(log'[s], pub'[s]) /\ Len(log'[s]) <= MaxSeq
    BY DEF LogsOK
  <2>1. CASE s = session
    BY <1>1, <1>2, <1>5, <2>1
  <2>2. CASE s # session
    BY <1>0, <1>5, <2>2 DEF LogsOK
  <2> QED BY <2>1, <2>2
<1>7. Grown
  <2> SUFFICES ASSUME NEW s \in Session
               PROVE  /\ log'[s] \in Seq(Change) /\ pub'[s] \in Nat /\ pub[s] <= pub'[s]
                      /\ \A k \in 1 .. Len(log[s]) :
                           /\ log'[s][k].level = log[s][k].level
                           /\ log'[s][k].book = log[s][k].book
                           /\ log[s][k].published => log'[s][k].published
    BY DEF Grown
  <2>1. CASE s = session
    <3>1. pub'[s] \in Nat /\ pub[s] <= pub'[s] /\ log'[s] \in Seq(Change)
      BY <1>1, <1>2, <1>5, <2>1
    <3> QED BY <1>2, <1>5, <2>1, <3>1
  <2>2. CASE s # session
    <3>1. pub[s] \in Nat /\ log[s] \in Seq(Change)
      BY <1>0, SessionFacts
    <3> QED BY <1>5, <2>2, <3>1
  <2> QED BY <2>1, <2>2
<1>8. UNCHANGED <<session, conn, wire, sock, sync, fetch, manual, env>>
  BY DEF Publish
<1>9. WireRangesOK' /\ SyncRight(sync, log, pub)' /\ AnswerIsPublished'
  BY <1>7, <1>8, GrownKeeps
<1>10. TypeOK'
  BY <1>0, <1>5, <1>8 DEF TypeOK
<1>11. /\ AnswerIsNotBehind' /\ SyncedHasNoRequest' /\ RequestIsCurrent'
       /\ BufferingHasRequest'
  BY <1>8 DEF IInv, AnswerIsNotBehind, SyncedHasNoRequest, RequestIsCurrent,
              BufferingHasRequest
<1> QED
  BY <1>6, <1>9, <1>10, <1>11 DEF IInv

\* The process and the connection: frames are written, nothing else moves.
LEMMA RestartKeeps ==
    ASSUME IInv, Restart
    PROVE  IInv'
<1>0. TypeOK
  BY DEF IInv
<1>1. UNCHANGED <<log, pub, wire, sock, sync, fetch, manual>>
  BY DEF Restart
<1>2. session' \in Session
  BY <1>0, DeliveryAssumption DEF Restart, TypeOK, Session
<1>3. conn' \in ConnState
  BY <1>0 DEF Restart, TypeOK, ConnState
<1>4. env' \in 0 .. MaxEnv
  BY <1>0, EnvType DEF Restart
<1>5. WireRangesOK'
  BY <1>1 DEF IInv, WireRangesOK
<1>6. SyncRight(sync, log, pub)' /\ Requests'
  BY <1>1, EngineUnchanged
<1>7. /\ wire' \in Seq(WireFrame) /\ sock' \in {"closed", "opening", "live"}
      /\ sync' \in SyncState /\ sync'.session \in Session \cup {None}
      /\ fetch' \in FetchState /\ manual' \in BOOLEAN
  BY <1>0, <1>1 DEF TypeOK
<1> QED
  BY <1>1, <1>2, <1>3, <1>4, <1>5, <1>6, <1>7, Assemble

\* A connection action that writes at most one right frame.
LEMMA WriteKeeps ==
    ASSUME IInv, UNCHANGED <<session, log, pub, sock, sync, fetch, manual>>,
           conn' \in ConnState, env' \in 0 .. MaxEnv,
           wire' \in Seq(WireFrame), WireRangesOK'
    PROVE  IInv'
<1>1. SyncRight(sync, log, pub)' /\ Requests'
  BY EngineUnchanged
<1>2. /\ session' \in Session /\ sock' \in {"closed", "opening", "live"}
      /\ sync' \in SyncState /\ sync'.session \in Session \cup {None}
      /\ fetch' \in FetchState /\ manual' \in BOOLEAN
  BY DEF IInv, TypeOK
<1> QED
  BY <1>1, <1>2, Assemble

LEMMA FlushResetKeeps ==
    ASSUME IInv, FlushReset
    PROVE  IInv'
<1>0. TypeOK /\ LogsOK /\ session \in Session
  BY DEF IInv, TypeOK
<1>1. pub[session] \in Seq0
  BY <1>0, SessionFacts
<1>2. conn' \in ConnState
  BY <1>0, <1>1 DEF FlushReset, TypeOK, ConnState, Published
<1>3. 0 \in Seq0 /\ "book_reset" \in FrameKind
  BY DeliveryAssumption DEF Seq0, FrameKind
<1> DEFINE f == Frame("book_reset", 0, NoRange)
<1>4. f \in WireFrame /\ f.kind = "book_reset"
  BY <1>0, <1>3, FrameType
<1>5. wire' = Append(wire, f) /\ UNCHANGED <<log, pub>>
  BY DEF FlushReset
<1> HIDE DEF f
<1>6. wire' \in Seq(WireFrame) /\ WireRangesOK'
  BY <1>4, <1>5, WireAppend
<1>7. UNCHANGED <<session, log, pub, sock, sync, fetch, manual>> /\ env' = env
  BY DEF FlushReset
<1>8. env' \in 0 .. MaxEnv
  BY <1>0, <1>7 DEF TypeOK
<1> QED
  BY <1>2, <1>6, <1>7, <1>8, WriteKeeps

LEMMA FlushRangeKeeps ==
    ASSUME IInv, FlushRange
    PROVE  IInv'
<1> DEFINE r == BuildBookRange(log[session], Published, conn.sent)
           f == Frame("update", 0, r)
<1>0. TypeOK /\ LogsOK /\ session \in Session
  BY DEF IInv, TypeOK
<1>1. conn.sent \in Nat /\ conn.open \in BOOLEAN /\ conn.drop \in BOOLEAN
      /\ conn.dropped \in BOOLEAN
  BY <1>0 DEF TypeOK, ConnState, Seq0
<1>2. /\ log[session] \in Seq(Change) /\ pub[session] \in Nat /\ pub[session] \in Seq0
      /\ LogOK(log[session], pub[session])
  BY <1>0, SessionFacts
<1>3. Published > conn.sent /\ Published = pub[session]
  BY DEF FlushRange, Published
<1>4. RangeOK(log[session], pub[session], r) /\ r \in BookRange /\ r.to = pub[session]
  <2>1. conn.sent < pub[session]
    BY <1>1, <1>2, <1>3
  <2>2. r = BuildBookRange(log[session], pub[session], conn.sent)
    BY <1>3
  <2> QED BY <1>1, <1>2, <2>1, <2>2, BuildBookRangeOK
<1>5. /\ wire' = IF conn.drop THEN wire ELSE Append(wire, f)
      /\ conn' = [conn EXCEPT !.sent = r.to, !.drop = FALSE, !.dropped = @ \/ conn.drop]
      /\ UNCHANGED <<session, log, pub, sock, sync, fetch, manual, env>>
  BY DEF FlushRange
<1> HIDE DEF r
<1>6. conn' \in ConnState
  <2> DEFINE d == conn.dropped \/ conn.drop
  <2>1. d \in BOOLEAN
    BY <1>1
  <2>2. conn' = [conn EXCEPT !.sent = r.to, !.drop = FALSE, !.dropped = d]
    BY <1>5
  <2>3. r.to \in Seq0
    BY <1>2, <1>4
  <2>4. conn \in ConnState
    BY <1>0 DEF TypeOK
  <2> HIDE DEF d
  <2> QED BY <2>1, <2>2, <2>3, <2>4 DEF ConnState
<1>7. f \in WireFrame /\ f.session = session /\ f.range = r
  <2>1. 0 \in Seq0
    BY DeliveryAssumption DEF Seq0
  <2> QED BY <1>0, <1>4, <2>1 DEF Frame, WireFrame, FrameKind
<1>8. wire' \in Seq(WireFrame) /\ WireRangesOK'
  <2>1. CASE conn.drop
    <3>1. wire' = wire /\ UNCHANGED <<log, pub>>
      BY <1>5, <2>1
    <3> QED BY <1>0, <3>1 DEF TypeOK, IInv, WireRangesOK
  <2>2. CASE ~conn.drop
    <3>1. wire' = Append(wire, f) /\ UNCHANGED <<log, pub>>
      BY <1>5, <2>2
    <3> HIDE DEF f
    <3> QED BY <1>4, <1>7, <3>1, WireAppend
  <2> QED BY <2>1, <2>2
<1>9. env' \in 0 .. MaxEnv
  BY <1>0, <1>5 DEF TypeOK
<1> QED
  BY <1>5, <1>6, <1>8, <1>9, WriteKeeps

LEMMA HeartbeatKeeps ==
    ASSUME IInv, Heartbeat
    PROVE  IInv'
<1>0. TypeOK /\ LogsOK /\ session \in Session
  BY DEF IInv, TypeOK
<1>1. Published \in Seq0 /\ "heartbeat" \in FrameKind
  BY <1>0, SessionFacts DEF Published, FrameKind
<1> DEFINE f == Frame("heartbeat", Published, NoRange)
<1>2. f \in WireFrame /\ f.kind = "heartbeat"
  BY <1>0, <1>1, FrameType
<1>3. wire' = Append(wire, f) /\ UNCHANGED <<session, log, pub, sock, sync, fetch, manual>>
  BY DEF Heartbeat
<1> HIDE DEF f
<1>4. wire' \in Seq(WireFrame) /\ WireRangesOK'
  BY <1>2, <1>3, WireAppend
<1>5. conn' \in ConnState /\ env' \in 0 .. MaxEnv
  BY <1>0 DEF Heartbeat, TypeOK
<1> QED
  BY <1>3, <1>4, <1>5, WriteKeeps

\* DropNext and ServerClose touch the server's end of the connection only.
LEMMA ControlKeeps ==
    ASSUME IInv, DropNext \/ ServerClose
    PROVE  IInv'
<1>0. TypeOK
  BY DEF IInv
<1>1. UNCHANGED <<session, log, pub, wire, sock, sync, fetch, manual>>
  BY DEF DropNext, ServerClose
<1>2. conn' \in ConnState
  BY <1>0 DEF DropNext, ServerClose, TypeOK, ConnState
<1>3. env' \in 0 .. MaxEnv
  BY <1>0, EnvType DEF DropNext, ServerClose
<1>4. wire' \in Seq(WireFrame) /\ WireRangesOK'
  BY <1>0, <1>1 DEF TypeOK, IInv, WireRangesOK
<1> QED
  BY <1>1, <1>2, <1>3, <1>4, WriteKeeps

\* The owner answers a request with its publication, which no book on show of
\* its session is past.
LEMMA CaptureKeeps ==
    ASSUME IInv, Capture
    PROVE  IInv'
<1> DEFINE n == pub[session]
           snap == [session |-> session, seq |-> n, book |-> BookAt(log[session], n)]
<1>0. TypeOK /\ LogsOK /\ session \in Session /\ fetch \in FetchState
  BY DEF IInv, TypeOK
<1>1. /\ log[session] \in Seq(Change) /\ n \in Seq0 /\ n \in Nat /\ n > 0
      /\ n <= Len(log[session]) /\ Len(log[session]) \in Nat
      /\ LogOK(log[session], n)
  BY <1>0, SessionFacts DEF Capture, Published
<1>2. /\ n \in 1 .. n /\ log[session][n].published
      /\ BookAt(log[session], n) = log[session][n].book
      /\ BookAt(log[session], n) \in Book
  <2>1. n \in 0 .. Len(log[session])
    BY <1>1
  <2> QED BY <1>1, <2>1, BookAtType DEF LogOK, BookAt
<1>3. /\ fetch' = [fetch EXCEPT !.st = "answered", !.snap = snap]
      /\ UNCHANGED <<session, log, pub, conn, wire, sock, sync, manual, env>>
      /\ fetch.st = "pending"
  BY DEF Capture, Published
<1>4. snap \in Snapshot
  BY <1>0, <1>1, <1>2 DEF Snapshot
<1>5. snap.session = session /\ snap.seq = n /\ snap.book = BookAt(log[session], n)
  OBVIOUS
<1> HIDE DEF snap
<1>6. /\ fetch' \in FetchState /\ fetch'.st = "answered" /\ fetch'.gen = fetch.gen
      /\ fetch'.snap = snap
  BY <1>0, <1>3, <1>4 DEF FetchState
<1>7. AnswerIsPublished'
  BY <1>2, <1>3, <1>5, <1>6 DEF AnswerIsPublished
<1>8. AnswerIsNotBehind'
  <2> SUFFICES ASSUME sync.session = session, sync.expectedSeq # None
               PROVE  sync.expectedSeq <= n + 1
    BY <1>3, <1>5, <1>6 DEF AnswerIsNotBehind
  <2>1. sync.expectedSeq - 1 \in 1 .. n
    BY DEF IInv, SyncRight
  <2>2. sync.expectedSeq \in Nat
    BY <1>0 DEF TypeOK, SyncState
  <2> QED BY <1>1, <2>1, <2>2
<1>9. SyncedHasNoRequest' /\ RequestIsCurrent' /\ BufferingHasRequest'
  BY <1>3, <1>6 DEF IInv, SyncedHasNoRequest, RequestIsCurrent, BufferingHasRequest
<1>10. SyncRight(sync, log, pub)' /\ WireRangesOK'
  BY <1>3 DEF IInv, SyncRight, WireRangesOK
<1>11. /\ session' \in Session /\ conn' \in ConnState /\ wire' \in Seq(WireFrame)
       /\ sock' \in {"closed", "opening", "live"} /\ sync' \in SyncState
       /\ sync'.session \in Session \cup {None} /\ manual' \in BOOLEAN /\ env' \in 0 .. MaxEnv
  BY <1>0, <1>3 DEF TypeOK
<1> QED
  BY <1>3, <1>6, <1>7, <1>8, <1>9, <1>10, <1>11, Assemble DEF Requests

\* A client action that leaves the server alone.
LEMMA ClientKeeps ==
    ASSUME IInv, UNCHANGED <<session, log, pub>>,
           conn' \in ConnState, wire' \in Seq(WireFrame), WireRangesOK',
           sock' \in {"closed", "opening", "live"}, manual' \in BOOLEAN,
           env' \in 0 .. MaxEnv,
           sync' \in SyncState, sync'.session \in Session \cup {None},
           SyncRight(sync, log, pub)', fetch' \in FetchState, Requests'
    PROVE  IInv'
<1>1. session' \in Session
  BY DEF IInv, TypeOK
<1> QED
  BY <1>1, Assemble

\* A request that has ended: the next one is of a new generation, or there is
\* none and the engine does not wait.
LEMMA EndKeeps ==
    ASSUME IInv, fetch' = IssueAfterEnd(sync'), sync' \in SyncState,
           sync'.generation # sync.generation => sync'.status = "buffering",
           (sync'.generation = sync.generation /\ sync'.status = "buffering")
              => sock' # "live"
    PROVE  fetch' \in FetchState /\ Requests'
<1>1. CASE sync'.generation # sync.generation
  <2>1. fetch' = Fetch(sync'.generation) /\ sync'.status # "synced"
    BY <1>1 DEF IssueAfterEnd
  <2> QED BY <2>1, FreshRequest
<1>2. CASE sync'.generation = sync.generation
  <2>1. fetch' = NoFetch
    BY <1>2 DEF IssueAfterEnd
  <2> QED BY <1>2, <2>1, NoRequest
<1> QED BY <1>1, <1>2

LEMMA CaptureFailsKeeps ==
    ASSUME IInv, CaptureFails
    PROVE  IInv'
<1>0. TypeOK /\ sync \in SyncState /\ SyncRight(sync, log, pub)
  BY DEF IInv, TypeOK
<1>1. /\ sync' = Failed(sync, fetch.gen) /\ fetch' = IssueAfterEnd(sync')
      /\ UNCHANGED <<session, log, pub, conn, wire, sock, manual>>
      /\ fetch.gen = sync.generation
  BY DEF CaptureFails, IInv, RequestIsCurrent
<1>2. /\ sync' \in SyncState /\ SyncRight(sync', log, pub)
      /\ sync'.session = sync.session
      /\ sync'.generation # sync.generation => sync'.status = "buffering"
      /\ ~(sync'.status = "buffering" /\ sync'.generation = sync.generation)
  BY <1>0, <1>1, FailedRight
<1>3. fetch' \in FetchState /\ Requests'
  BY <1>1, <1>2, EndKeeps
<1>4. SyncRight(sync, log, pub)'
  BY <1>1, <1>2 DEF SyncRight
<1>5. env' \in 0 .. MaxEnv
  BY <1>0, EnvType DEF CaptureFails
<1>6. /\ conn' \in ConnState /\ wire' \in Seq(WireFrame) /\ WireRangesOK'
      /\ sock' \in {"closed", "opening", "live"} /\ manual' \in BOOLEAN
      /\ sync'.session \in Session \cup {None}
  BY <1>0, <1>1, <1>2 DEF TypeOK, IInv, WireRangesOK
<1> QED
  BY <1>1, <1>2, <1>3, <1>4, <1>5, <1>6, ClientKeeps

LEMMA SnapshotArrivesKeeps ==
    ASSUME IInv, SnapshotArrives
    PROVE  IInv'
<1>0. TypeOK /\ LogsOK /\ sync \in SyncState /\ SyncRight(sync, log, pub)
      /\ fetch \in FetchState
  BY DEF IInv, TypeOK
<1>1. /\ fetch' = IssueAfterEnd(sync')
      /\ UNCHANGED <<session, log, pub, conn, wire, sock, manual, env>>
      /\ fetch.gen = sync.generation
      /\ sync' = IF fetch.snap.session # sync.session THEN Failed(sync, fetch.gen)
                 ELSE ReceiveSnapshot(sync, fetch.snap, fetch.gen)
  BY DEF SnapshotArrives, IInv, RequestIsCurrent
<1>2. /\ sync' \in SyncState /\ SyncRight(sync', log, pub)
      /\ sync'.session = sync.session
      /\ sync'.generation # sync.generation => sync'.status = "buffering"
      /\ ~(sync'.status = "buffering" /\ sync'.generation = sync.generation)
  <2>1. CASE fetch.snap.session # sync.session
    <3>1. sync' = Failed(sync, fetch.gen)
      BY <1>1, <2>1
    <3> QED BY <1>0, <1>1, <3>1, FailedRight
  <2>2. CASE fetch.snap.session = sync.session
    <3> DEFINE snap == fetch.snap
    <3>1. sync' = ReceiveSnapshot(sync, snap, fetch.gen)
      BY <1>1, <2>2
    <3>2. snap.session \in Session /\ snap.seq \in Seq0
      BY <1>0 DEF FetchState, Snapshot
    <3>3. /\ snap.session # None /\ log[snap.session] \in Seq(Change)
          /\ pub[snap.session] \in Nat /\ LogOK(log[snap.session], pub[snap.session])
      BY <1>0, <3>2, SessionFacts
    <3>4. fetch.st = "answered"
      BY DEF SnapshotArrives
    <3>5. /\ snap.seq \in 1 .. pub[snap.session]
          /\ log[snap.session][snap.seq].published
          /\ snap.book = log[snap.session][snap.seq].book
      BY <3>4 DEF IInv, AnswerIsPublished
    <3>6. snap.seq \in Nat
      BY <3>2 DEF Seq0
    <3>7. snap.session = sync.session /\ fetch.gen = sync.generation
      BY <1>1, <2>2
    <3> HIDE DEF snap
    <3> QED BY <1>0, <3>1, <3>3, <3>5, <3>6, <3>7, ReceiveSnapshotRight
  <2> QED BY <2>1, <2>2
<1>3. fetch' \in FetchState /\ Requests'
  BY <1>1, <1>2, EndKeeps
<1>4. SyncRight(sync, log, pub)'
  BY <1>1, <1>2 DEF SyncRight
<1>5. /\ conn' \in ConnState /\ wire' \in Seq(WireFrame) /\ WireRangesOK'
      /\ sock' \in {"closed", "opening", "live"} /\ manual' \in BOOLEAN
      /\ sync'.session \in Session \cup {None} /\ env' \in 0 .. MaxEnv
  BY <1>0, <1>1, <1>2 DEF TypeOK, IInv, WireRangesOK
<1> QED
  BY <1>1, <1>2, <1>3, <1>4, <1>5, ClientKeeps

\* The connection ends: nothing is in flight any more.
LEMMA CloseKeeps ==
    ASSUME IInv, CloseSocket, UNCHANGED <<session, log, pub, sync>>,
           manual' \in BOOLEAN, env' \in 0 .. MaxEnv
    PROVE  IInv'
<1>0. TypeOK
  BY DEF IInv
<1>1. sock' = "closed" /\ wire' = <<>> /\ fetch' = NoFetch
  BY DEF CloseSocket
<1>2. conn' \in ConnState
  BY <1>0 DEF CloseSocket, TypeOK, ConnState
<1>3. wire' \in Seq(WireFrame) /\ WireRangesOK'
  BY <1>1, WireCut
<1>4. fetch' \in FetchState /\ Requests'
  BY <1>1, NoRequest
<1>5. SyncRight(sync, log, pub)'
  BY DEF IInv, SyncRight
<1>6. sync' \in SyncState /\ sync'.session \in Session \cup {None}
  BY <1>0 DEF TypeOK
<1> QED
  BY <1>1, <1>2, <1>3, <1>4, <1>5, <1>6, ClientKeeps

LEMMA ClosesKeep ==
    ASSUME IInv, ServerClosed \/ ClientClose \/ RetryDown
    PROVE  IInv'
<1>0. TypeOK
  BY DEF IInv
<1>1. CloseSocket /\ UNCHANGED <<session, log, pub, sync>>
  BY DEF ServerClosed, ClientClose, RetryDown
<1>2. manual' \in BOOLEAN
  BY <1>0 DEF ServerClosed, ClientClose, RetryDown, TypeOK
<1>3. env' \in 0 .. MaxEnv
  BY <1>0, EnvType DEF ServerClosed, ClientClose, RetryDown, TypeOK
<1> QED
  BY <1>1, <1>2, <1>3, CloseKeeps

LEMMA ConnectKeeps ==
    ASSUME IInv, Connect
    PROVE  IInv'
<1>0. TypeOK
  BY DEF IInv
<1> DEFINE f == Frame("hello", 0, NoRange)
<1>1. /\ conn' = NewConn /\ wire' = <<f>> /\ sock' = "opening"
      /\ UNCHANGED <<session, log, pub, sync, fetch, manual, env>>
  BY DEF Connect
<1>2. 0 \in Seq0 /\ "hello" \in FrameKind
  BY DeliveryAssumption DEF Seq0, FrameKind
<1>3. f \in WireFrame /\ f.kind = "hello"
  BY <1>0, <1>2, FrameType
<1> HIDE DEF f
<1>4. wire' \in Seq(WireFrame) /\ WireRangesOK'
  BY <1>1, <1>3, WireOpened
<1>5. conn' \in ConnState
  BY <1>1, <1>2 DEF NewConn, ConnState
<1>6. SyncRight(sync, log, pub)' /\ Requests'
  BY <1>1, EngineUnchanged
<1>7. /\ sock' \in {"closed", "opening", "live"} /\ manual' \in BOOLEAN
      /\ env' \in 0 .. MaxEnv /\ sync' \in SyncState
      /\ sync'.session \in Session \cup {None} /\ fetch' \in FetchState
  BY <1>0, <1>1 DEF TypeOK
<1> QED
  BY <1>1, <1>4, <1>5, <1>6, <1>7, ClientKeeps

LEMMA ReceiveHelloKeeps ==
    ASSUME IInv, ReceiveHello
    PROVE  IInv'
<1>0. TypeOK /\ sync.session \in Session \cup {None}
  BY DEF IInv, TypeOK
<1>1. /\ wire # <<>> /\ wire' = Tail(wire) /\ sock' = "live" /\ manual' = FALSE
      /\ UNCHANGED <<session, log, pub, conn, env>>
  BY DEF ReceiveHello
<1>2. wire' \in Seq(WireFrame) /\ WireRangesOK' /\ Incoming.session \in Session
  BY <1>1, WireTail
<1>3. /\ sync' \in SyncState /\ sync'.session \in Session \cup {None}
      /\ SyncRight(sync, log, pub)' /\ fetch' \in FetchState /\ Requests'
  <2>1. CASE Incoming.session # sync.session \/ manual
    <3>1. sync' = Start(sync, Incoming.session) /\ fetch' = Fetch(sync'.generation)
      BY <2>1 DEF ReceiveHello
    <3> QED BY <1>2, <3>1, StartKeeps
  <2>2. CASE ~(Incoming.session # sync.session \/ manual)
    <3>1. sync' = RequestSnapshot(sync) /\ fetch' = Issue(sync')
      BY <2>2 DEF ReceiveHello
    <3> QED BY <1>0, <1>1, <3>1, RecoverKeeps
  <2> QED BY <2>1, <2>2
<1>4. /\ conn' \in ConnState /\ env' \in 0 .. MaxEnv /\ manual' \in BOOLEAN
      /\ sock' \in {"closed", "opening", "live"}
  BY <1>0, <1>1 DEF TypeOK
<1> QED
  BY <1>1, <1>2, <1>3, <1>4, ClientKeeps

LEMMA ReceiveUpdateKeeps ==
    ASSUME IInv, ReceiveUpdate
    PROVE  /\ IInv'
           /\ sync'.expectedSeq # sync.expectedSeq => sync'.expectedSeq >= sync.expectedSeq
<1>0. /\ TypeOK /\ LogsOK /\ sync \in SyncState /\ SyncRight(sync, log, pub)
      /\ sync.session \in Session \cup {None}
  BY DEF IInv, TypeOK
<1>1. /\ wire # <<>> /\ wire' = Tail(wire) /\ Incoming.kind = "update" /\ sock = "live"
      /\ sync' = ReceiveRange(sync, Incoming.session, Incoming.range)
      /\ fetch' = Issue(sync')
      /\ UNCHANGED <<session, log, pub, conn, sock, manual, env>>
  BY DEF ReceiveUpdate
<1> DEFINE s == Incoming.session
           r == Incoming.range
<1>2. /\ wire' \in Seq(WireFrame) /\ WireRangesOK'
      /\ s \in Session /\ r \in BookRange /\ RangeOK(log[s], pub[s], r)
  BY <1>1, WireTail
<1> HIDE DEF s, r
<1>3. /\ s # None /\ log[s] \in Seq(Change) /\ pub[s] \in Nat /\ LogOK(log[s], pub[s])
  BY <1>0, <1>2, SessionFacts
<1>4. sync' = ReceiveRange(sync, s, r)
  BY <1>1 DEF s, r
<1>5. /\ sync' \in SyncState /\ SyncRight(sync', log, pub)
      /\ sync'.session = sync.session
      /\ sync'.generation # sync.generation => sync'.status = "buffering"
      /\ (sync'.generation = sync.generation /\ sync'.status = "buffering")
            => sync.status = "buffering"
      /\ (sync'.generation = sync.generation /\ sync'.status = "synced")
            => sync.status = "synced"
      /\ sync'.expectedSeq # sync.expectedSeq =>
            sync.status = "synced" /\ sync'.expectedSeq >= sync.expectedSeq
  BY <1>0, <1>2, <1>3, <1>4, ReceiveRangeRight
<1>6. fetch' \in FetchState /\ Requests'
  BY <1>1, <1>5, IssueKeeps
<1>7. SyncRight(sync, log, pub)'
  BY <1>1, <1>5 DEF SyncRight
<1>8. /\ conn' \in ConnState /\ env' \in 0 .. MaxEnv /\ manual' \in BOOLEAN
      /\ sock' \in {"closed", "opening", "live"} /\ sync'.session \in Session \cup {None}
  BY <1>0, <1>1, <1>5 DEF TypeOK
<1> QED
  BY <1>1, <1>2, <1>5, <1>6, <1>7, <1>8, ClientKeeps

LEMMA ReceiveResetKeeps ==
    ASSUME IInv, ReceiveReset
    PROVE  IInv'
<1>0. TypeOK /\ sync.session \in Session \cup {None}
  BY DEF IInv, TypeOK
<1>1. /\ wire # <<>> /\ wire' = Tail(wire)
      /\ sync' = RequestSnapshot(sync) /\ fetch' = Issue(sync')
      /\ UNCHANGED <<session, log, pub, conn, sock, manual, env>>
  BY DEF ReceiveReset
<1>2. wire' \in Seq(WireFrame) /\ WireRangesOK'
  BY <1>1, WireTail
<1>3. /\ sync' \in SyncState /\ sync'.session \in Session \cup {None}
      /\ SyncRight(sync, log, pub)' /\ fetch' \in FetchState /\ Requests'
  BY <1>0, <1>1, RecoverKeeps
<1>4. /\ conn' \in ConnState /\ env' \in 0 .. MaxEnv /\ manual' \in BOOLEAN
      /\ sock' \in {"closed", "opening", "live"}
  BY <1>0, <1>1 DEF TypeOK
<1> QED
  BY <1>1, <1>2, <1>3, <1>4, ClientKeeps

LEMMA ReceiveHeartbeatKeeps ==
    ASSUME IInv, ReceiveHeartbeat
    PROVE  IInv'
<1>0. TypeOK
  BY DEF IInv
<1>1. /\ wire # <<>> /\ wire' = Tail(wire)
      /\ UNCHANGED <<session, log, pub, conn, sock, sync, fetch, manual, env>>
  BY DEF ReceiveHeartbeat
<1>2. wire' \in Seq(WireFrame) /\ WireRangesOK'
  BY <1>1, WireTail
<1>3. SyncRight(sync, log, pub)' /\ Requests'
  BY <1>1, EngineUnchanged
<1>4. /\ conn' \in ConnState /\ env' \in 0 .. MaxEnv /\ manual' \in BOOLEAN
      /\ sock' \in {"closed", "opening", "live"} /\ sync' \in SyncState
      /\ sync'.session \in Session \cup {None} /\ fetch' \in FetchState
  BY <1>0, <1>1 DEF TypeOK
<1> QED
  BY <1>1, <1>2, <1>3, <1>4, ClientKeeps

\* A resync recovers, a Retry starts afresh, both on a live connection.
LEMMA ResyncKeeps ==
    ASSUME IInv, Resync \/ RetryLive
    PROVE  IInv'
<1>0. TypeOK /\ sync.session \in Session \cup {None}
  BY DEF IInv, TypeOK
<1>1. UNCHANGED <<session, log, pub, conn, wire, sock, manual>>
  BY DEF Resync, RetryLive
<1>2. /\ sync' \in SyncState /\ sync'.session \in Session \cup {None}
      /\ SyncRight(sync, log, pub)' /\ fetch' \in FetchState /\ Requests'
  <2>1. CASE Resync
    <3>1. sync' = RequestSnapshot(sync) /\ fetch' = Issue(sync')
      BY <2>1 DEF Resync
    <3> QED BY <1>0, <1>1, <3>1, RecoverKeeps
  <2>2. CASE RetryLive
    <3>1. sync' = Start(sync, sync.session) /\ fetch' = Fetch(sync'.generation)
      BY <2>2 DEF RetryLive
    <3> QED BY <1>0, <3>1, StartKeeps
  <2> QED BY <2>1, <2>2
<1>3. env' \in 0 .. MaxEnv
  BY <1>0, EnvType DEF Resync, RetryLive, TypeOK
<1>4. /\ conn' \in ConnState /\ wire' \in Seq(WireFrame) /\ WireRangesOK'
      /\ manual' \in BOOLEAN /\ sock' \in {"closed", "opening", "live"}
  BY <1>0, <1>1 DEF TypeOK, IInv, WireRangesOK
<1> QED
  BY <1>1, <1>2, <1>3, <1>4, ClientKeeps

\* Every step of server, network and runtime keeps what is on its way right.
THEOREM NextIInv == IInv /\ [Next]_vars => IInv'
<1> SUFFICES ASSUME IInv, [Next]_vars PROVE IInv'
  OBVIOUS
<1>1. CASE UNCHANGED vars
  <2>1. UNCHANGED <<session, log, pub, conn, wire, sock, sync, fetch, manual, env>>
    BY <1>1 DEF vars
  <2>2. TypeOK
    BY DEF IInv
  <2>3. conn' \in ConnState /\ env' \in 0 .. MaxEnv
        /\ wire' \in Seq(WireFrame) /\ WireRangesOK'
    BY <2>1, <2>2 DEF TypeOK, IInv, WireRangesOK
  <2> QED BY <2>1, <2>3, WriteKeeps
<1>2. CASE Mutation
  BY <1>2, MutateLevelKeeps DEF Mutation
<1>3. CASE Publish
  BY <1>3, PublishKeeps
<1>4. CASE Restart
  BY <1>4, RestartKeeps
<1>5. CASE FlushReset
  BY <1>5, FlushResetKeeps
<1>6. CASE FlushRange
  BY <1>6, FlushRangeKeeps
<1>7. CASE Heartbeat
  BY <1>7, HeartbeatKeeps
<1>8. CASE DropNext \/ ServerClose
  BY <1>8, ControlKeeps
<1>9. CASE Capture
  BY <1>9, CaptureKeeps
<1>10. CASE CaptureFails
  BY <1>10, CaptureFailsKeeps
<1>11. CASE SnapshotArrives
  BY <1>11, SnapshotArrivesKeeps
<1>12. CASE Connect
  BY <1>12, ConnectKeeps
<1>13. CASE ServerClosed \/ ClientClose \/ RetryDown
  BY <1>13, ClosesKeep
<1>14. CASE ReceiveHello
  BY <1>14, ReceiveHelloKeeps
<1>15. CASE ReceiveUpdate
  BY <1>15, ReceiveUpdateKeeps
<1>16. CASE ReceiveReset
  BY <1>16, ReceiveResetKeeps
<1>17. CASE ReceiveHeartbeat
  BY <1>17, ReceiveHeartbeatKeeps
<1>18. CASE Resync \/ RetryLive
  BY <1>18, ResyncKeeps
<1> QED
  BY <1>1, <1>2, <1>3, <1>4, <1>5, <1>6, <1>7, <1>8, <1>9, <1>10, <1>11, <1>12, <1>13,
     <1>14, <1>15, <1>16, <1>17, <1>18 DEF Next

\* The inductive invariant holds of every behaviour of the pipeline.
THEOREM Invariance == Spec => []IInv
<1>1. Init => IInv
  BY InitIInv
<1>2. IInv /\ [Next]_vars => IInv'
  BY NextIInv
<1> QED
  BY <1>1, <1>2, PTL DEF Spec

-----------------------------------------------------------------------------
(* The properties. *)

\* Every variable keeps the shape the code gives it.
THEOREM TypeCorrect == Spec => []TypeOK
<1>1. IInv => TypeOK
  BY DEF IInv
<1> QED
  BY <1>1, Invariance, PTL

\* The book on show is exactly the market's published book after change
\* expectedSeq - 1 of its session.
THEOREM ShownBook == Spec => []ShownBookIsPublished
<1>1. IInv => ShownBookIsPublished
  BY DEF IInv, SyncRight, ShownBookIsPublished
<1> QED
  BY <1>1, Invariance, PTL

\* A book waiting for its snapshot on a live connection has that very request
\* in flight.
THEOREM RequestInFlight == Spec => []BufferingHasRequest
<1>1. IInv => BufferingHasRequest
  BY DEF IInv
<1> QED
  BY <1>1, Invariance, PTL

\* A step may clear the shown book or change its session; it never rewinds it.
LEMMA StepNeverRewinds ==
    ASSUME IInv, [Next]_vars, sync'.session = sync.session,
           sync.expectedSeq # None, sync'.expectedSeq # None
    PROVE  sync'.expectedSeq >= sync.expectedSeq
<1>0. /\ TypeOK /\ LogsOK /\ sync \in SyncState /\ SyncRight(sync, log, pub)
      /\ sync.expectedSeq \in Nat
  BY DEF IInv, TypeOK, SyncState
<1>1. CASE sync'.expectedSeq = sync.expectedSeq
  BY <1>0, <1>1
<1>2. CASE ReceiveUpdate
  BY <1>1, <1>2, ReceiveUpdateKeeps
<1>3. CASE SnapshotArrives
  <2>1. fetch \in FetchState
    BY <1>0 DEF TypeOK
  <2> DEFINE snap == fetch.snap
  <2>2. snap.session \in Session /\ snap.seq \in Seq0
    BY <2>1 DEF FetchState, Snapshot
  <2>3. /\ snap.session # None /\ log[snap.session] \in Seq(Change)
        /\ pub[snap.session] \in Nat /\ LogOK(log[snap.session], pub[snap.session])
        /\ snap.seq \in Nat
    BY <1>0, <2>2, SessionFacts DEF Seq0
  <2>4. fetch.st = "answered"
    BY <1>3 DEF SnapshotArrives
  <2>5. /\ snap.seq \in 1 .. pub[snap.session]
        /\ log[snap.session][snap.seq].published
        /\ snap.book = log[snap.session][snap.seq].book
    BY <2>4 DEF IInv, AnswerIsPublished
  <2>6. snap.session = sync.session => sync.expectedSeq <= snap.seq + 1
    BY <2>4 DEF IInv, AnswerIsNotBehind
  <2>7. \/ sync' = sync
        \/ sync' = Failed(sync, fetch.gen)
        \/ sync' = ReceiveSnapshot(sync, snap, fetch.gen)
    BY <1>3 DEF SnapshotArrives
  <2> HIDE DEF snap
  <2>8. sync' = Failed(sync, fetch.gen) => sync'.expectedSeq = sync.expectedSeq
    BY <1>0, FailedRight
  <2>9. sync' = ReceiveSnapshot(sync, snap, fetch.gen) =>
          /\ sync' \in SyncState
          /\ sync'.expectedSeq # sync.expectedSeq =>
               snap.session = sync.session /\ snap.seq + 1 <= sync'.expectedSeq
    BY <1>0, <2>3, <2>5, ReceiveSnapshotRight
  <2>10. sync' \in SyncState => sync'.expectedSeq \in Nat
    BY DEF SyncState
  <2> QED BY <1>0, <1>1, <2>3, <2>6, <2>7, <2>8, <2>9, <2>10
<1>4. CASE CaptureFails
  <2>1. sync' = Failed(sync, fetch.gen)
    BY <1>4 DEF CaptureFails
  <2> QED BY <1>0, <1>1, <2>1, FailedRight
<1>5. CASE sync' = RequestSnapshot(sync)
  BY <1>0, <1>1, <1>5, RequestSnapshotStep
<1>6. CASE \E s \in Session \cup {None} : sync' = Start(sync, s)
  <2>1. PICK s \in Session \cup {None} : sync' = Start(sync, s)
    BY <1>6
  <2>2. s \in Nat
    BY DEF Session, None
  <2>3. sync'.expectedSeq = None
    BY <1>0, <2>1, <2>2, StartStep
  <2> QED BY <2>3
<1>7. CASE ReceiveHello
  <2>1. Incoming.session \in Session
    BY <1>7, WireTail DEF ReceiveHello
  <2>2. sync' = RequestSnapshot(sync) \/ sync' = Start(sync, Incoming.session)
    BY <1>7 DEF ReceiveHello
  <2> QED BY <1>5, <1>6, <2>1, <2>2
<1>8. CASE ReceiveReset \/ Resync
  BY <1>5, <1>8 DEF ReceiveReset, Resync
<1>9. CASE RetryLive
  <2>1. sync' = Start(sync, sync.session) /\ sync.session \in Session \cup {None}
    BY <1>0, <1>9 DEF RetryLive, TypeOK
  <2> QED BY <1>6, <2>1
<1>10. CASE \/ Mutation \/ Publish \/ Restart \/ FlushReset \/ FlushRange \/ Heartbeat
            \/ DropNext \/ ServerClose \/ Capture \/ Connect \/ ServerClosed
            \/ ClientClose \/ ReceiveHeartbeat \/ RetryDown \/ UNCHANGED vars
  <2>1. sync' = sync
    BY <1>10 DEF Mutation, MutateLevel, Publish, Restart, FlushReset, FlushRange, Heartbeat,
                 DropNext, ServerClose, Capture, Connect, ServerClosed, ClientClose,
                 ReceiveHeartbeat, RetryDown, vars
  <2> QED BY <1>1, <2>1
<1> QED
  BY <1>2, <1>3, <1>4, <1>7, <1>8, <1>9, <1>10 DEF Next

\* Within a session the shown book never moves back, not even across a resync.
THEOREM NoRewind == Spec => NeverRewinds
<1>1. IInv /\ [Next]_vars =>
        [(/\ sync'.session = sync.session
          /\ sync.expectedSeq # None
          /\ sync'.expectedSeq # None)
            => sync'.expectedSeq >= sync.expectedSeq]_vars
  BY StepNeverRewinds
<1> QED
  BY <1>1, Invariance, PTL DEF Spec, NeverRewinds

-----------------------------------------------------------------------------
(* GInv is inductive: first, one server writes to a socket. *)

\* What OneServer reads of the wire and the connection has not changed.
LEMMA OneServerSame ==
    ASSUME IInv, OneServer, UNCHANGED <<wire, sock>>, sync'.session = sync.session,
           conn'.sent = conn.sent, conn'.open => conn.open /\ session' = session,
           \A s \in Session : pub'[s] \in Nat /\ pub[s] <= pub'[s]
    PROVE  OneServer' /\ ConnSession' = ConnSession
<1>1. ConnSession' = ConnSession
  BY DEF ConnSession
<1>2. wire # <<>> => wire[1].session \in Session
  <2>1. wire \in Seq(WireFrame)
    BY DEF IInv, TypeOK
  <2>2. wire # <<>> => 1 \in 1 .. Len(wire)
    BY <2>1, EmptySeq, LenProperties
  <2>3. wire # <<>> => wire[1] \in WireFrame
    BY <2>1, <2>2, ElementOfSeq
  <2> QED BY <2>3 DEF WireFrame
<1>3. sock # "closed" => ConnSession \in Session
  BY <1>2 DEF OneServer, ConnSession, IInv, TypeOK
<1>4. sock # "closed" => conn'.sent <= pub'[ConnSession]
  <2>1. sock # "closed" => pub[ConnSession] \in Nat /\ conn.sent \in Nat
    BY <1>3 DEF IInv, TypeOK, Seq0, ConnState
  <2> QED BY <1>3, <2>1 DEF OneServer
<1>5. conn'.open => ConnSession = session'
  BY DEF OneServer
<1>6. (sock = "closed" => wire = <<>> /\ ~conn'.open) /\ (sock = "live" => sync'.session \in Session)
  BY DEF OneServer
<1> QED
  BY <1>1, <1>4, <1>5, <1>6 DEF OneServer

\* The server writes at most one frame that is not a hello.
LEMMA OneServerWrites ==
    ASSUME IInv, OneServer, UNCHANGED <<session, sock, sync, pub>>, conn.open,
           \/ wire' = wire
           \/ \E f \in WireFrame : /\ wire' = Append(wire, f)
                                   /\ f.session = session /\ f.kind # "hello",
           conn'.sent \in Nat, conn'.sent <= pub[session]
    PROVE  OneServer' /\ ConnSession' = ConnSession
<1>0. wire \in Seq(WireFrame) /\ Len(wire) \in Nat
  BY LenProperties DEF IInv, TypeOK
<1>1. sock # "closed" /\ ConnSession = session
  BY DEF OneServer
<1>2. CASE wire' = wire
  BY <1>1, <1>2 DEF OneServer, ConnSession
<1>3. ASSUME NEW f \in WireFrame, wire' = Append(wire, f),
             f.session = session, f.kind # "hello"
      PROVE  OneServer' /\ ConnSession' = ConnSession
  <2>1. /\ Len(wire') = Len(wire) + 1 /\ DOMAIN wire' = 1 .. Len(wire) + 1
        /\ DOMAIN wire = 1 .. Len(wire)
        /\ \A i \in DOMAIN wire : wire'[i] = wire[i]
        /\ wire'[Len(wire) + 1] = f
        /\ wire' # <<>>
    BY <1>0, <1>3, AppendProperties, LenProperties
  <2>2. sock = "opening" => 1 \in DOMAIN wire
    BY <1>0, <2>1, EmptySeq DEF OneServer
  <2>3. ConnSession' = ConnSession
    BY <2>1, <2>2 DEF ConnSession
  <2>4. ASSUME NEW i \in DOMAIN wire'
        PROVE  /\ wire'[i].session = ConnSession
               /\ wire'[i].kind = "hello" <=> sock = "opening" /\ i = 1
    <3>1. CASE i \in DOMAIN wire
      BY <2>1, <3>1 DEF OneServer
    <3>2. CASE i = Len(wire) + 1
      <4>1. ~(sock = "opening" /\ i = 1)
        BY <1>0, <2>1, <2>2, <3>2
      <4> QED BY <1>1, <1>3, <2>1, <3>2, <4>1
    <3> QED BY <1>0, <2>1, <3>1, <3>2
  <2>5. (sock = "live" => sync.session \in Session) /\ conn'.sent <= pub[ConnSession]
    BY <1>1 DEF OneServer
  <2> QED BY <1>1, <2>1, <2>3, <2>4, <2>5 DEF OneServer
<1> QED
  BY <1>2, <1>3

\* The first frame of a live socket is received, or the hello that opens it.
LEMMA OneServerTail ==
    ASSUME IInv, OneServer, UNCHANGED <<session, conn, pub>>,
           wire # <<>>, wire' = Tail(wire), sock # "closed", sock' = "live",
           sync'.session = ConnSession
    PROVE  OneServer' /\ ConnSession' = ConnSession
<1>0. wire \in Seq(WireFrame)
  BY DEF IInv, TypeOK
<1>1. /\ Len(wire) \in Nat /\ Len(wire) # 0 /\ DOMAIN wire = 1 .. Len(wire)
      /\ DOMAIN wire' = 1 .. Len(wire) - 1
      /\ \A i \in DOMAIN wire' : wire'[i] = wire[i + 1]
  BY <1>0, HeadTailProperties, EmptySeq, LenProperties
<1>2. ConnSession' = ConnSession
  BY DEF ConnSession
<1>3. ConnSession \in Session
  <2>1. wire[1] \in WireFrame
    BY <1>0, <1>1, ElementOfSeq
  <2> QED BY <2>1 DEF OneServer, ConnSession, WireFrame, IInv, TypeOK
<1>4. ASSUME NEW i \in DOMAIN wire'
      PROVE  wire'[i].session = ConnSession /\ wire'[i].kind # "hello"
  <2>1. i + 1 \in DOMAIN wire /\ i + 1 # 1 /\ wire'[i] = wire[i + 1]
    BY <1>1
  <2> QED BY <2>1 DEF OneServer
<1>5. (conn.open => ConnSession = session) /\ conn.sent <= pub[ConnSession]
  BY DEF OneServer
<1> QED
  BY <1>2, <1>3, <1>4, <1>5 DEF OneServer

\* Only a hello moves the engine to another session.
LEMMA SessionKept ==
    ASSUME IInv, [Next]_vars, ~ReceiveHello
    PROVE  sync'.session = sync.session
<1>0. sync \in SyncState /\ SyncRight(sync, log, pub) /\ sync.session \in Session \cup {None}
  BY DEF IInv, TypeOK
<1>1. RequestSnapshot(sync).session = sync.session
  BY <1>0, RequestSnapshotStep
<1>2. \A gen : Failed(sync, gen).session = sync.session
  BY <1>0, FailedRight
<1>3. CASE CaptureFails
  BY <1>2, <1>3 DEF CaptureFails
<1>4. CASE SnapshotArrives
  <2> DEFINE snap == fetch.snap
             gen == fetch.gen
  <2>1. ReceiveSnapshot(sync, snap, gen).session = sync.session
    BY <1>1 DEF ReceiveSnapshot, Synced
  <2>2. \/ sync' = sync \/ sync' = Failed(sync, gen)
        \/ sync' = ReceiveSnapshot(sync, snap, gen)
    BY <1>4 DEF SnapshotArrives
  <2> HIDE DEF snap, gen
  <2> QED BY <1>2, <2>1, <2>2
<1>5. CASE ReceiveUpdate
  <2> DEFINE s == Incoming.session
             r == Incoming.range
  <2>1. sync' = ReceiveRange(sync, s, r)
    BY <1>5 DEF ReceiveUpdate
  <2> HIDE DEF s, r
  <2> QED BY <1>1, <2>1 DEF ReceiveRange
<1>6. CASE ReceiveReset \/ Resync
  BY <1>1, <1>6 DEF ReceiveReset, Resync
<1>7. CASE RetryLive
  <2>1. sync' = Start(sync, sync.session)
    BY <1>7 DEF RetryLive
  <2>2. sync.session \in Nat
    BY <1>0 DEF SyncState
  <2> QED BY <1>0, <2>1, <2>2, StartStep
<1>8. CASE \/ Mutation \/ Publish \/ Restart \/ FlushReset \/ FlushRange \/ Heartbeat
           \/ DropNext \/ ServerClose \/ Capture \/ Connect \/ ServerClosed
           \/ ClientClose \/ ReceiveHeartbeat \/ RetryDown \/ UNCHANGED vars
  BY <1>8 DEF Mutation, MutateLevel, Publish, Restart, FlushReset, FlushRange, Heartbeat,
              DropNext, ServerClose, Capture, Connect, ServerClosed, ClientClose,
              ReceiveHeartbeat, RetryDown, vars
<1> QED
  BY <1>3, <1>4, <1>5, <1>6, <1>7, <1>8 DEF Next

\* Publications only move forward.
LEMMA PubGrows ==
    ASSUME IInv, [Next]_vars
    PROVE  \A s \in Session : pub[s] \in Nat /\ pub'[s] \in Nat /\ pub[s] <= pub'[s]
<1>1. pub \in [Session -> Seq0] /\ \A s \in Session : pub[s] \in Nat
  BY DEF IInv, TypeOK, Seq0
<1>2. CASE Publish
  <2>1. /\ session \in Session /\ log[session] \in Seq(Change)
        /\ pub' = [pub EXCEPT ![session] = Len(log[session])]
        /\ Len(log[session]) > pub[session]
    BY <1>2 DEF Publish, Published, IInv, TypeOK
  <2>2. Len(log[session]) \in Nat
    BY <2>1, LenProperties
  <2> QED BY <1>1, <2>1, <2>2
<1>3. CASE UNCHANGED pub
  BY <1>1, <1>3
<1>4. Publish \/ UNCHANGED pub
  BY DEF Next, Mutation, MutateLevel, Restart, FlushReset, FlushRange, Heartbeat,
         DropNext, ServerClose, Capture, CaptureFails, SnapshotArrives, Connect,
         ServerClosed, ClientClose, ReceiveHello, ReceiveUpdate, ReceiveReset,
         ReceiveHeartbeat, Resync, RetryLive, RetryDown, vars
<1> QED
  BY <1>2, <1>3, <1>4

LEMMA FlushedRange ==
    ASSUME IInv, FlushRange
    PROVE  LET r == BuildBookRange(log[session], Published, conn.sent)
           IN  /\ r \in BookRange /\ r.from = conn.sent + 1 /\ r.to = pub[session]
               /\ conn.sent \in Nat /\ pub[session] \in Nat /\ conn.sent < pub[session]
               /\ Frame("update", 0, r) \in WireFrame
<1> DEFINE r == BuildBookRange(log[session], Published, conn.sent)
<1>0. TypeOK /\ LogsOK /\ session \in Session
  BY DEF IInv, TypeOK
<1>1. /\ conn.sent \in Nat /\ log[session] \in Seq(Change) /\ pub[session] \in Nat
      /\ LogOK(log[session], pub[session])
  BY <1>0, SessionFacts DEF TypeOK, ConnState, Seq0
<1>2. Published = pub[session] /\ conn.sent < pub[session]
  BY <1>1 DEF FlushRange, Published
<1>3. r \in BookRange /\ r.from = conn.sent + 1 /\ r.to = pub[session]
  BY <1>1, <1>2, BuildBookRangeOK
<1> HIDE DEF r
<1>4. Frame("update", 0, r) \in WireFrame
  BY <1>0, <1>3, DeliveryAssumption DEF Frame, WireFrame, FrameKind, Seq0
<1> QED
  BY <1>1, <1>2, <1>3, <1>4 DEF r

\* What each of the server's writes puts on the wire.
LEMMA Writes ==
    ASSUME IInv, OneServer, FlushReset \/ FlushRange \/ Heartbeat
    PROVE  /\ UNCHANGED <<session, sock, sync, fetch, pub>> /\ conn.open
           /\ \/ wire' = wire /\ conn'.dropped
              \/ \E f \in WireFrame :
                   /\ wire' = Append(wire, f)
                   /\ f.session = session /\ f.kind # "hello"
                   /\ f.kind = "update" => f.range.from = conn.sent + 1 /\ f.range.to = conn'.sent
                   /\ f.kind = "heartbeat" => f.seq = pub[session]
                   /\ ~IsData(f) => conn'.sent = conn.sent
                   /\ conn'.dropped = conn.dropped
           /\ conn.sent \in Nat /\ conn'.sent \in Nat
           /\ conn.sent <= conn'.sent /\ conn'.sent <= pub[session]
<1>0. TypeOK /\ session \in Session
  BY DEF IInv, TypeOK
<1>1. /\ conn \in ConnState /\ conn.sent \in Nat /\ pub[session] \in Nat
      /\ pub[session] \in Seq0 /\ 0 \in Seq0
  BY <1>0, DeliveryAssumption DEF TypeOK, ConnState, Seq0
<1>2. CASE FlushReset
  <2> DEFINE f == Frame("book_reset", 0, NoRange)
  <2>1. f \in WireFrame /\ f.kind = "book_reset" /\ f.session = session
    <3>1. "book_reset" \in FrameKind
      BY DEF FrameKind
    <3> QED BY <1>0, <1>1, <3>1, FrameType DEF Frame
  <2>2. /\ wire' = Append(wire, f) /\ conn' = [conn EXCEPT !.sent = pub[session]]
        /\ UNCHANGED <<session, sock, sync, fetch, pub>> /\ conn.open
        /\ conn.sent < pub[session]
    BY <1>1, <1>2 DEF FlushReset, CanWrite, Published
  <2> HIDE DEF f
  <2>3. conn'.sent = pub[session] /\ conn'.dropped = conn.dropped
    BY <1>1, <2>2 DEF ConnState
  <2> QED BY <1>1, <2>1, <2>2, <2>3 DEF IsData
<1>3. CASE FlushRange
  <2> DEFINE r == BuildBookRange(log[session], Published, conn.sent)
             f == Frame("update", 0, r)
  <2>1. /\ r.from = conn.sent + 1 /\ r.to = pub[session] /\ conn.sent < pub[session]
        /\ f \in WireFrame
    BY <1>3, FlushedRange
  <2>2. f.kind = "update" /\ f.session = session /\ f.range = r
    BY DEF Frame
  <2>3. /\ wire' = IF conn.drop THEN wire ELSE Append(wire, f)
        /\ conn' = [conn EXCEPT !.sent = r.to, !.drop = FALSE, !.dropped = @ \/ conn.drop]
        /\ UNCHANGED <<session, sock, sync, fetch, pub>> /\ conn.open
    BY <1>3 DEF FlushRange, CanWrite
  <2> HIDE DEF r, f
  <2>4. conn'.sent = r.to
    BY <1>1, <2>3 DEF ConnState
  <2>5. conn'.dropped = (conn.dropped \/ conn.drop)
    BY <1>1, <2>3, Zenon DEF ConnState
  <2>6. CASE conn.drop
    <3>1. conn'.dropped
      BY <2>5, <2>6, Zenon
    <3>2. wire' = wire /\ UNCHANGED <<session, sock, sync, fetch, pub>> /\ conn.open
      BY <2>3, <2>6
    <3>3. conn'.sent \in Nat /\ conn.sent <= conn'.sent /\ conn'.sent <= pub[session]
      BY <1>1, <2>1, <2>4
    <3> QED BY <1>1, <3>1, <3>2, <3>3, Zenon
  <2>7. CASE ~conn.drop
    <3>1. wire' = Append(wire, f)
      BY <2>3, <2>7
    <3>2. conn'.dropped = conn.dropped
      BY <1>1, <2>5, <2>7 DEF ConnState
    <3> QED BY <1>1, <2>1, <2>2, <2>3, <2>4, <3>1, <3>2 DEF IsData
  <2> QED BY <2>6, <2>7
<1>4. CASE Heartbeat
  <2> DEFINE f == Frame("heartbeat", Published, NoRange)
  <2>1. /\ f \in WireFrame /\ f.kind = "heartbeat" /\ f.session = session
        /\ f.seq = pub[session]
    <3>1. "heartbeat" \in FrameKind /\ Published \in Seq0
      BY <1>1 DEF FrameKind, Published
    <3> QED BY <1>0, <3>1, FrameType DEF Frame, Published
  <2>2. /\ wire' = Append(wire, f) /\ UNCHANGED <<session, conn, sock, sync, fetch, pub>>
        /\ conn.open
    BY <1>4 DEF Heartbeat, CanWrite
  <2> HIDE DEF f
  <2>3. conn.sent <= pub[session]
    BY <2>2 DEF OneServer
  <2> QED BY <1>1, <2>1, <2>2, <2>3 DEF IsData
<1> QED
  BY <1>2, <1>3, <1>4

LEMMA InitOneServer == Init => OneServer
BY DEF Init, OneServer, NewConn

LEMMA NextOneServer ==
    ASSUME IInv, OneServer, [Next]_vars
    PROVE  /\ OneServer'
           /\ (sock # "closed" /\ sock' # "closed") => ConnSession' = ConnSession
<1>0. \A s \in Session : pub[s] \in Nat /\ pub'[s] \in Nat /\ pub[s] <= pub'[s]
  BY PubGrows
<1>1. CASE \/ Mutation \/ Publish \/ Restart \/ DropNext \/ ServerClose \/ Capture
           \/ CaptureFails \/ SnapshotArrives \/ Resync \/ RetryLive \/ UNCHANGED vars
  <2>1. UNCHANGED <<wire, sock>>
    BY <1>1 DEF Mutation, MutateLevel, Publish, Restart, DropNext, ServerClose, Capture,
                CaptureFails, SnapshotArrives, Resync, RetryLive, vars
  <2>2. conn'.sent = conn.sent /\ (conn'.open => conn.open /\ session' = session)
    <3>1. conn \in ConnState
      BY DEF IInv, TypeOK
    <3> QED BY <1>1, <3>1 DEF Mutation, MutateLevel, Publish, Restart, DropNext, ServerClose,
               Capture, CaptureFails, SnapshotArrives, Resync, RetryLive, vars, ConnState
  <2>3. ~ReceiveHello
    BY <2>1 DEF ReceiveHello
  <2>4. sync'.session = sync.session
    BY <2>3, SessionKept
  <2> QED BY <1>0, <2>1, <2>2, <2>4, OneServerSame
<1>2. CASE FlushReset \/ FlushRange \/ Heartbeat
  BY <1>2, Writes, OneServerWrites
<1>3. CASE Connect
  BY <1>3, <1>0 DEF Connect, OneServer, ConnSession, NewConn, Frame, Published, IInv, TypeOK
<1>4. CASE ServerClosed \/ ClientClose \/ RetryDown
  <2>1. sock' = "closed" /\ wire' = <<>>
    BY <1>4 DEF ServerClosed, ClientClose, RetryDown, CloseSocket
  <2>2. ~conn'.open
    <3>1. conn \in ConnState
      BY DEF IInv, TypeOK
    <3> QED BY <1>4, <3>1 DEF ServerClosed, ClientClose, RetryDown, CloseSocket, ConnState
  <2> QED BY <2>1, <2>2 DEF OneServer
<1>5. CASE ReceiveHello
  <2>1. /\ sock = "opening" /\ sock' = "live" /\ wire # <<>> /\ wire' = Tail(wire)
        /\ UNCHANGED <<session, conn, pub>> /\ ConnSession = Incoming.session
    BY <1>5 DEF ReceiveHello, ConnSession, Incoming
  <2>2. sync'.session = Incoming.session
    <3>1. CASE Incoming.session # sync.session \/ manual
      BY <1>5, <3>1 DEF ReceiveHello, Start
    <3>2. CASE ~(Incoming.session # sync.session \/ manual)
      <4>1. sync \in SyncState /\ sync' = RequestSnapshot(sync)
        BY <1>5, <3>2 DEF ReceiveHello, IInv, TypeOK
      <4> QED BY <3>2, <4>1, RequestSnapshotStep
    <3> QED BY <3>1, <3>2
  <2> QED BY <2>1, <2>2, OneServerTail
<1>6. CASE ReceiveUpdate \/ ReceiveReset \/ ReceiveHeartbeat
  <2>1. /\ sock = "live" /\ sock' = "live" /\ wire # <<>> /\ wire' = Tail(wire)
        /\ UNCHANGED <<session, conn, pub>>
    BY <1>6 DEF ReceiveUpdate, ReceiveReset, ReceiveHeartbeat
  <2>2. ~ReceiveHello
    BY <2>1 DEF ReceiveHello
  <2>3. sync'.session = ConnSession
    BY <2>1, <2>2, SessionKept DEF ConnSession
  <2> QED BY <2>1, <2>3, OneServerTail
<1> QED
  BY <1>1, <1>2, <1>3, <1>4, <1>5, <1>6 DEF Next

\* A published book is one the client accepts.
LEMMA PublishedIsValid ==
    ASSUME TypeOK, LogsOK, NEW s \in Session, NEW n \in 1 .. pub[s], log[s][n].published
    PROVE  /\ log[s][n].book \in ValidBooks /\ n \in 1 .. Len(log[s])
           /\ BookAt(log[s], n) = log[s][n].book
<1>1. pub[s] \in Nat /\ Len(log[s]) \in Nat /\ pub[s] <= Len(log[s]) /\ LogOK(log[s], pub[s])
  BY SessionFacts
<1>2. n \in 1 .. Len(log[s]) /\ n # 0
  BY <1>1
<1> QED
  BY <1>1, <1>2 DEF LogOK, BookAt

\* What is on its way is well-formed: ranges that change something, snapshots
\* that are valid books.
LEMMA RangesAreRight ==
    ASSUME IInv, NEW i \in DOMAIN wire, wire[i].kind = "update"
    PROVE  /\ ValidRange(wire[i].range) /\ wire[i].range \in BookRange
           /\ wire[i].session \in Session
           /\ RangeOK(log[wire[i].session], pub[wire[i].session], wire[i].range)
<1> DEFINE r == wire[i].range
           s == wire[i].session
<1>1. i \in 1 .. Len(wire) /\ wire[i] \in WireFrame
  BY ElementOfSeq, LenProperties DEF IInv, TypeOK
<1>2. r \in BookRange /\ s \in Session /\ RangeOK(log[s], pub[s], r)
  BY <1>1 DEF WireFrame, IInv, WireRangesOK
<1> HIDE DEF r, s
<1>3. r.from \in Nat /\ r.to \in Nat
  BY <1>2, RangeType
<1>4. r.from \in 1 .. r.to /\ r.from \in r.from .. r.to
  BY <1>2, <1>3 DEF RangeOK
<1>5. log[s][r.from].level \in DOMAIN r.lots
  BY <1>2, <1>4 DEF RangeOK, Touched
<1>6. ValidRange(r)
  BY <1>4, <1>5 DEF ValidRange
<1> QED BY <1>2, <1>6 DEF r, s

LEMMA AnswerIsRight ==
    ASSUME IInv, fetch.st = "answered"
    PROVE  /\ ValidSnapshot(fetch.snap)
           /\ fetch.snap.session \in Session
           /\ fetch.snap.seq \in 1 .. pub[fetch.snap.session]
           /\ log[fetch.snap.session][fetch.snap.seq].published
           /\ fetch.snap.book = log[fetch.snap.session][fetch.snap.seq].book
<1> DEFINE snap == fetch.snap
<1>0. TypeOK /\ LogsOK
  BY DEF IInv
<1>1. snap.session \in Session /\ snap.seq \in Seq0
  BY <1>0 DEF TypeOK, FetchState, Snapshot
<1>2. /\ snap.seq \in 1 .. pub[snap.session] /\ log[snap.session][snap.seq].published
      /\ snap.book = log[snap.session][snap.seq].book
  BY DEF IInv, AnswerIsPublished
<1>3. snap.book \in ValidBooks
  BY <1>0, <1>1, <1>2, PublishedIsValid
<1> QED BY <1>1, <1>2, <1>3 DEF ValidSnapshot, Seq0

\* A live range that reaches the book on show leaves it valid.
LEMMA LiveRangeIsAccepted ==
    ASSUME IInv, OneServer, sock = "live", sync.status = "synced", wire # <<>>,
           Incoming.kind = "update",
           Incoming.range.from <= sync.expectedSeq, Incoming.range.to >= sync.expectedSeq
    PROVE  ApplyRange(sync.book, Incoming.range) \in ValidBooks
<1> DEFINE s == sync.session
           r == Incoming.range
           e == sync.expectedSeq
<1>0. TypeOK /\ LogsOK /\ sync \in SyncState /\ SyncRight(sync, log, pub)
  BY DEF IInv, TypeOK
<1>1. 1 \in DOMAIN wire
  BY EmptySeq, LenProperties DEF IInv, TypeOK
<1>2. wire[1].session = s
  BY <1>1 DEF OneServer, ConnSession
<1>3. s \in Session /\ r \in BookRange /\ RangeOK(log[s], pub[s], r)
  BY <1>1, <1>2, RangesAreRight DEF Incoming
<1>4. /\ e \in Nat /\ e # None /\ e - 1 \in 1 .. pub[s]
      /\ sync.book = log[s][e - 1].book
  BY <1>0 DEF SyncRight, SyncState
<1>5. r.from <= e /\ e <= r.to
  BY <1>3, <1>4, RangeType
<1>6. /\ log[s] \in Seq(Change) /\ pub[s] \in Nat /\ LogOK(log[s], pub[s])
      /\ pub[s] <= Len(log[s]) /\ Len(log[s]) \in Nat
  BY <1>0, <1>3, SessionFacts
<1> HIDE DEF s, r, e
<1>7. e \in Nat \ {0} /\ e - 1 # 0 /\ sync.book = BookAt(log[s], e - 1)
  BY <1>4, <1>6 DEF BookAt
<1>8. ApplyRange(sync.book, r) = log[s][r.to].book
  BY <1>3, <1>5, <1>6, <1>7, ApplyRangeOK
<1>9. r.to \in 1 .. pub[s] /\ log[s][r.to].published
  BY <1>3, <1>6, RangeType DEF RangeOK
<1>10. log[s][r.to].book \in ValidBooks
  BY <1>0, <1>3, <1>9, PublishedIsValid
<1> QED BY <1>8, <1>10 DEF r

\* So does a replay that finds no gap, after each of its ranges.
LEMMA AnswerIsAccepted ==
    ASSUME IInv, fetch.st = "answered", fetch.snap.session = sync.session,
           \A i \in 1 .. Len(sync.buffered) : ~GapAt(sync.buffered, fetch.snap.seq, i)
    PROVE  ReplayOK(sync.buffered, fetch.snap)
<1> DEFINE s == sync.session
           snap == fetch.snap
           buf == sync.buffered
<1>0. TypeOK /\ LogsOK /\ sync \in SyncState /\ SyncRight(sync, log, pub)
  BY DEF IInv, TypeOK
<1>1. s \in Session /\ snap.seq \in 1 .. pub[s] /\ log[s][snap.seq].published
      /\ snap.book = log[s][snap.seq].book
  BY AnswerIsRight
<1>2. log[s] \in Seq(Change) /\ pub[s] \in Nat /\ LogOK(log[s], pub[s])
  BY <1>0, <1>1, SessionFacts
<1>3. buf \in Seq(BookRange) /\ BufferRight(log[s], pub[s], buf)
  BY <1>0 DEF SyncState, SyncRight, BufferRight
<1>4. NoGap(buf, snap.seq)
  BY DEF NoGap
<1> HIDE DEF s, snap, buf
<1>5. ReplayOK(buf, snap)
  BY <1>1, <1>2, <1>3, <1>4, ReplayIsAccepted
<1> QED BY <1>5 DEF buf, snap

\* A socket, its frames, its cursor and the request of a page are of one process,
\* through any restarts and reconnects (create-market-runtime.ts, session.go).
THEOREM OneServerInvariance == Spec => []OneServer
<1>1. IInv /\ OneServer /\ [Next]_vars => OneServer'
  BY NextOneServer
<1> QED
  BY <1>1, InitOneServer, Invariance, PTL DEF Spec

\* The client never rejects what the server published: not in its decoder, not
\* as a live range, and not in a replay that finds no gap.
THEOREM PublishedAccepted == Spec => []PublishedDataIsAccepted
<1>1. IInv /\ OneServer => PublishedDataIsAccepted
  <2> SUFFICES ASSUME IInv, OneServer PROVE PublishedDataIsAccepted
    OBVIOUS
  <2>1. \A i \in DOMAIN wire : wire[i].kind = "update" => ValidRange(wire[i].range)
    BY RangesAreRight
  <2>2. fetch.st = "answered" => ValidSnapshot(fetch.snap)
    BY AnswerIsRight
  <2> QED BY <2>1, <2>2, LiveRangeIsAccepted, AnswerIsAccepted DEF PublishedDataIsAccepted
<1> QED
  BY <1>1, Invariance, OneServerInvariance, PTL

-----------------------------------------------------------------------------
(* How the frames follow each other, when one is written or received. *)

LEMMA NextWidens ==
    ASSUME NEW w, NEW sent, NEW S, NEW T, S \subseteq T, StartsIn(w, sent, S)
    PROVE  StartsIn(w, sent, T)
BY DEF StartsIn

LEMMA ChainSame ==
    ASSUME Chain, wire' = wire, conn'.sent = conn.sent
    PROVE  Chain'
BY DEF Chain

LEMMA ChainAppend ==
    ASSUME wire \in Seq(WireFrame), NEW f \in WireFrame, wire' = Append(wire, f), Chain,
           conn.sent \in Nat, conn'.sent \in Nat, conn.sent <= conn'.sent,
           f.kind = "update" => f.range.from = conn.sent + 1 /\ f.range.to = conn'.sent,
           ~IsData(f) => conn'.sent = conn.sent
    PROVE  Chain'
<1> DEFINE n == Len(wire)
<1>1. /\ n \in Nat /\ DOMAIN wire = 1 .. n /\ DOMAIN wire' = 1 .. n + 1 /\ Len(wire') = n + 1
      /\ \A i \in 1 .. n : wire'[i] = wire[i]
      /\ wire'[n + 1] = f
  BY AppendProperties, LenProperties
<1>2. ASSUME NEW i \in 1 .. n PROVE wire[i].range.to \in Nat
  <2>1. wire[i] \in WireFrame
    BY ElementOfSeq
  <2> QED BY <2>1 DEF WireFrame, BookRange
<1>3. f.range.to \in Nat
  BY DEF WireFrame, BookRange
<1> HIDE DEF n
<1>4. ASSUME NEW i \in DOMAIN wire', wire'[i].kind = "update"
      PROVE  wire'[i].range.to <= conn'.sent
  <2>1. CASE i \in 1 .. n
    <3>1. wire[i].range.to <= conn.sent
      BY <1>1, <1>4, <2>1 DEF Chain
    <3> QED BY <1>1, <1>2, <2>1, <3>1
  <2>2. CASE i = n + 1
    BY <1>1, <1>4, <2>2
  <2> QED BY <1>1, <2>1, <2>2
<1>5. ASSUME NEW i \in DOMAIN wire', NEW j \in DOMAIN wire', i < j,
             wire'[i].kind = "update", wire'[j].kind = "update",
             \A k \in i + 1 .. j - 1 : ~IsData(wire'[k])
      PROVE  wire'[j].range.from = wire'[i].range.to + 1
  <2>1. i \in 1 .. n /\ wire'[i] = wire[i]
    BY <1>1, <1>5
  <2>2. CASE j \in 1 .. n
    <3>1. \A k \in i + 1 .. j - 1 : ~IsData(wire[k])
      BY <1>1, <1>5, <2>1, <2>2
    <3> QED BY <1>1, <1>5, <2>1, <2>2, <3>1 DEF Chain
  <2>3. CASE j = n + 1
    <3>1. \A k \in i + 1 .. n : ~IsData(wire[k])
      BY <1>1, <1>5, <2>1, <2>3
    <3>2. wire[i].range.to = conn.sent
      BY <1>1, <1>5, <2>1, <3>1 DEF Chain, n
    <3> QED BY <1>1, <1>5, <2>1, <2>3, <3>2
  <2> QED BY <1>1, <2>2, <2>3
<1>6. ASSUME NEW i \in DOMAIN wire', wire'[i].kind = "update",
             \A k \in i + 1 .. Len(wire') : ~IsData(wire'[k])
      PROVE  wire'[i].range.to = conn'.sent
  <2>1. CASE i \in 1 .. n
    <3>1. ~IsData(f)
      BY <1>1, <1>6, <2>1
    <3>2. \A k \in i + 1 .. n : ~IsData(wire[k])
      BY <1>1, <1>6, <2>1
    <3> QED BY <1>1, <1>6, <2>1, <3>1, <3>2 DEF Chain, n
  <2>2. CASE i = n + 1
    BY <1>1, <1>6, <2>2
  <2> QED BY <1>1, <2>1, <2>2
<1> QED
  BY <1>4, <1>5, <1>6 DEF Chain

LEMMA NextAppend ==
    ASSUME wire \in Seq(WireFrame), NEW f \in WireFrame, wire' = Append(wire, f),
           NEW S, StartsIn(wire, conn.sent, S),
           f.kind = "update" => f.range.from = conn.sent + 1,
           ~IsData(f) => conn'.sent = conn.sent
    PROVE  StartsIn(wire', conn'.sent, S)
<1> DEFINE n == Len(wire)
<1>1. /\ n \in Nat /\ DOMAIN wire = 1 .. n /\ DOMAIN wire' = 1 .. n + 1
      /\ \A i \in 1 .. n : wire'[i] = wire[i]
      /\ wire'[n + 1] = f
  BY AppendProperties, LenProperties
<1> HIDE DEF n
<1>2. ASSUME NEW j \in DOMAIN wire', wire'[j].kind = "update",
             \A k \in 1 .. j - 1 : ~IsData(wire'[k])
      PROVE  wire'[j].range.from \in S
  <2>1. CASE j \in 1 .. n
    <3>1. \A k \in 1 .. j - 1 : ~IsData(wire[k])
      BY <1>1, <1>2, <2>1
    <3> QED BY <1>1, <1>2, <2>1, <3>1 DEF StartsIn
  <2>2. CASE j = n + 1
    <3>1. \A k \in 1 .. n : ~IsData(wire[k])
      BY <1>1, <1>2, <2>2
    <3> QED BY <1>1, <1>2, <2>2, <3>1 DEF StartsIn
  <2> QED BY <1>1, <2>1, <2>2
<1>3. ASSUME \A j \in DOMAIN wire' : ~IsData(wire'[j])
      PROVE  conn'.sent + 1 \in S
  <2>1. ~IsData(f) /\ \A j \in DOMAIN wire : ~IsData(wire[j])
    BY <1>1, <1>3
  <2> QED BY <2>1 DEF StartsIn
<1> QED
  BY <1>2, <1>3 DEF StartsIn

LEMMA TailIndex ==
    ASSUME wire \in Seq(WireFrame), wire # <<>>, wire' = Tail(wire)
    PROVE  /\ Len(wire) \in Nat /\ Len(wire) # 0 /\ DOMAIN wire = 1 .. Len(wire)
           /\ Len(wire') = Len(wire) - 1 /\ DOMAIN wire' = 1 .. Len(wire) - 1
           /\ \A i \in DOMAIN wire' : i + 1 \in DOMAIN wire /\ wire'[i] = wire[i + 1]
           /\ \A i \in DOMAIN wire : i # 1 => i - 1 \in DOMAIN wire' /\ wire[i] = wire'[i - 1]
<1>1. /\ Len(wire) \in Nat /\ Len(wire) # 0 /\ DOMAIN wire = 1 .. Len(wire)
      /\ DOMAIN wire' = 1 .. Len(wire) - 1 /\ Len(wire') = Len(wire) - 1
      /\ \A i \in DOMAIN wire' : wire'[i] = wire[i + 1]
  BY HeadTailProperties, EmptySeq, LenProperties
<1>2. ASSUME NEW i \in DOMAIN wire, i # 1
      PROVE  i - 1 \in DOMAIN wire' /\ wire[i] = wire'[i - 1]
  <2>1. i - 1 \in DOMAIN wire' /\ (i - 1) + 1 = i
    BY <1>1, <1>2
  <2> QED BY <1>1, <2>1
<1> QED BY <1>1, <1>2

LEMMA ChainTail ==
    ASSUME wire \in Seq(WireFrame), wire # <<>>, wire' = Tail(wire), Chain,
           conn'.sent = conn.sent
    PROVE  Chain'
<1> DEFINE n == Len(wire)
<1>1. /\ n \in Nat /\ n # 0 /\ DOMAIN wire = 1 .. n
      /\ Len(wire') = n - 1 /\ DOMAIN wire' = 1 .. n - 1
      /\ \A i \in DOMAIN wire' : i + 1 \in DOMAIN wire /\ wire'[i] = wire[i + 1]
      /\ \A i \in DOMAIN wire : i # 1 => i - 1 \in DOMAIN wire' /\ wire[i] = wire'[i - 1]
  BY TailIndex
<1>2. Len(wire) = n
  OBVIOUS
<1> HIDE DEF n
<1>3. ASSUME NEW i \in DOMAIN wire', wire'[i].kind = "update"
      PROVE  wire'[i].range.to <= conn'.sent
  BY <1>1, <1>3 DEF Chain
<1>4. ASSUME NEW i \in DOMAIN wire', NEW j \in DOMAIN wire', i < j,
             wire'[i].kind = "update", wire'[j].kind = "update",
             \A k \in i + 1 .. j - 1 : ~IsData(wire'[k])
      PROVE  wire'[j].range.from = wire'[i].range.to + 1
  <2>1. ASSUME NEW k \in (i + 1) + 1 .. (j + 1) - 1
        PROVE  ~IsData(wire[k])
    <3>1. k \in DOMAIN wire /\ k # 1 /\ k - 1 \in i + 1 .. j - 1
      BY <1>1
    <3> QED BY <1>1, <1>4, <3>1
  <2>2. i + 1 < j + 1
    BY <1>1, <1>4
  <2> QED BY <1>1, <1>4, <2>1, <2>2 DEF Chain
<1>5. ASSUME NEW i \in DOMAIN wire', wire'[i].kind = "update",
             \A k \in i + 1 .. Len(wire') : ~IsData(wire'[k])
      PROVE  wire'[i].range.to = conn'.sent
  <2>1. ASSUME NEW k \in (i + 1) + 1 .. Len(wire)
        PROVE  ~IsData(wire[k])
    <3>1. k \in DOMAIN wire /\ k # 1 /\ k - 1 \in i + 1 .. Len(wire')
      BY <1>1, <1>2
    <3> QED BY <1>1, <1>5, <3>1
  <2> QED BY <1>1, <1>5, <2>1 DEF Chain
<1> QED
  BY <1>3, <1>4, <1>5 DEF Chain

LEMMA NextTail ==
    ASSUME wire \in Seq(WireFrame), wire # <<>>, wire' = Tail(wire), ~IsData(wire[1]),
           NEW S, StartsIn(wire, conn.sent, S), conn'.sent = conn.sent
    PROVE  StartsIn(wire', conn'.sent, S)
<1> DEFINE n == Len(wire)
<1>1. /\ n \in Nat /\ n # 0 /\ DOMAIN wire = 1 .. n /\ DOMAIN wire' = 1 .. n - 1
      /\ \A i \in DOMAIN wire' : i + 1 \in DOMAIN wire /\ wire'[i] = wire[i + 1]
      /\ \A i \in DOMAIN wire : i # 1 => i - 1 \in DOMAIN wire' /\ wire[i] = wire'[i - 1]
  BY TailIndex
<1> HIDE DEF n
<1>2. ASSUME NEW j \in DOMAIN wire', wire'[j].kind = "update",
             \A k \in 1 .. j - 1 : ~IsData(wire'[k])
      PROVE  wire'[j].range.from \in S
  <2>1. ASSUME NEW k \in 1 .. (j + 1) - 1
        PROVE  ~IsData(wire[k])
    <3>1. CASE k = 1
      BY <3>1
    <3>2. CASE k # 1
      <4>1. k \in DOMAIN wire /\ k - 1 \in 1 .. j - 1
        BY <1>1, <3>2
      <4> QED BY <1>1, <1>2, <3>2, <4>1
    <3> QED BY <3>1, <3>2
  <2> QED BY <1>1, <1>2, <2>1 DEF StartsIn
<1>3. ASSUME \A j \in DOMAIN wire' : ~IsData(wire'[j])
      PROVE  conn'.sent + 1 \in S
  <2>1. \A j \in DOMAIN wire : ~IsData(wire[j])
    BY <1>1, <1>3
  <2> QED BY <2>1 DEF StartsIn
<1> QED
  BY <1>2, <1>3 DEF StartsIn

\* Once a range is received, the next one starts right after it.
LEMMA NextAfterUpdate ==
    ASSUME wire \in Seq(WireFrame), wire # <<>>, wire' = Tail(wire), Chain,
           wire[1].kind = "update", conn'.sent = conn.sent
    PROVE  StartsIn(wire', conn'.sent, {wire[1].range.to + 1})
<1> DEFINE n == Len(wire)
           e == wire[1].range.to + 1
<1>1. /\ n \in Nat /\ n # 0 /\ DOMAIN wire = 1 .. n /\ DOMAIN wire' = 1 .. n - 1
      /\ \A i \in DOMAIN wire' : i + 1 \in DOMAIN wire /\ wire'[i] = wire[i + 1]
      /\ \A i \in DOMAIN wire : i # 1 => i - 1 \in DOMAIN wire' /\ wire[i] = wire'[i - 1]
  BY TailIndex
<1>2. Len(wire) = n /\ 1 \in DOMAIN wire
  BY <1>1
<1> HIDE DEF n
<1>3. ASSUME NEW j \in DOMAIN wire', wire'[j].kind = "update",
             \A k \in 1 .. j - 1 : ~IsData(wire'[k])
      PROVE  wire'[j].range.from = e
  <2>1. ASSUME NEW k \in 1 + 1 .. (j + 1) - 1
        PROVE  ~IsData(wire[k])
    <3>1. k \in DOMAIN wire /\ k # 1 /\ k - 1 \in 1 .. j - 1
      BY <1>1
    <3> QED BY <1>1, <1>3, <3>1
  <2>2. 1 < j + 1
    BY <1>1
  <2> QED BY <1>1, <1>2, <1>3, <2>1, <2>2 DEF Chain
<1>4. ASSUME \A j \in DOMAIN wire' : ~IsData(wire'[j])
      PROVE  conn'.sent + 1 = e
  <2>1. \A k \in 1 + 1 .. Len(wire) : ~IsData(wire[k])
    BY <1>1, <1>2, <1>4
  <2> QED BY <1>2, <2>1 DEF Chain
<1>5. StartsIn(wire', conn'.sent, {e})
  BY <1>3, <1>4 DEF StartsIn
<1>6. wire[1].range.to + 1 = e
  OBVIOUS
<1> QED BY <1>5

-----------------------------------------------------------------------------
(* GInv is inductive. *)

\* An engine that starts over or gives up misses nothing yet.
LEMMA NothingBuffered ==
    ASSUME sync'.status # "synced",
           sync'.status = "buffering" => sync'.buffered = <<>> /\ fetch'.st # "answered"
    PROVE  NothingMissing'
BY DEF NothingMissing

\* requestSnapshot with a request of its own.
LEMMA RecoverMissesNothing ==
    ASSUME IInv, sync' = RequestSnapshot(sync),
           sync'.generation # sync.generation => fetch' = Fetch(sync'.generation)
    PROVE  NothingMissing'
<1>1. sync \in SyncState /\ sync.generation \in Nat
  BY DEF IInv, TypeOK, SyncState
<1>2. /\ sync'.buffered = <<>>
      /\ \/ sync'.status = "buffering" /\ sync'.generation = sync.generation + 1
         \/ sync'.status = "failed"
  BY <1>1, RequestSnapshotStep
<1>3. sync'.status = "buffering" => fetch'.st # "answered"
  BY <1>1, <1>2 DEF Fetch
<1> QED BY <1>2, <1>3, NothingBuffered

LEMMA StartMissesNothing ==
    ASSUME IInv, NEW s \in Session \cup {None}, sync' = Start(sync, s),
           fetch' = Fetch(sync'.generation)
    PROVE  NothingMissing'
<1>1. sync \in SyncState /\ s \in Nat
  BY DEF IInv, TypeOK, Session, None
<1>2. sync'.buffered = <<>> /\ sync'.status = "buffering"
  BY <1>1, StartStep
<1>3. fetch'.st # "answered"
  BY DEF Fetch
<1> QED BY <1>2, <1>3, NothingBuffered

\* The numbers of the ranges on the socket and in the buffer.
LEMMA WireNumbers ==
    ASSUME IInv, OneServer, sock = "live"
    PROVE  /\ pub[sync.session] \in Nat /\ conn.sent \in Nat /\ conn.sent <= pub[sync.session]
           /\ \A i \in DOMAIN wire : wire[i].kind = "update" =>
                /\ wire[i].range.from \in Nat /\ wire[i].range.to \in Nat
                /\ 1 <= wire[i].range.from /\ wire[i].range.from <= wire[i].range.to
                /\ wire[i].range.from <= pub[sync.session]
           /\ \A i \in 1 .. Len(sync.buffered) :
                /\ sync.buffered[i].from \in Nat /\ sync.buffered[i].to \in Nat
                /\ 1 <= sync.buffered[i].from
                /\ sync.buffered[i].from <= sync.buffered[i].to
                /\ sync.buffered[i].from <= pub[sync.session]
<1>0. sync.session \in Session /\ sync \in SyncState /\ SyncRight(sync, log, pub)
  BY DEF OneServer, IInv, TypeOK
<1>1. pub[sync.session] \in Nat /\ conn.sent \in Nat /\ conn.sent <= pub[sync.session]
  BY <1>0 DEF OneServer, ConnSession, IInv, TypeOK, Seq0, ConnState
<1>2. ASSUME NEW i \in DOMAIN wire, wire[i].kind = "update"
      PROVE  /\ wire[i].range.from \in Nat /\ wire[i].range.to \in Nat
             /\ 1 <= wire[i].range.from /\ wire[i].range.from <= wire[i].range.to
             /\ wire[i].range.from <= pub[sync.session]
  <2>1. /\ wire[i].range \in BookRange
        /\ RangeOK(log[wire[i].session], pub[wire[i].session], wire[i].range)
    BY <1>2, RangesAreRight
  <2>2. wire[i].session = sync.session
    BY DEF OneServer, ConnSession
  <2>3. wire[i].range.from \in Nat /\ wire[i].range.to \in Nat
    BY <2>1, RangeType
  <2> QED BY <1>1, <2>1, <2>2, <2>3 DEF RangeOK
<1>3. ASSUME NEW i \in 1 .. Len(sync.buffered)
      PROVE  /\ sync.buffered[i].from \in Nat /\ sync.buffered[i].to \in Nat
             /\ 1 <= sync.buffered[i].from
             /\ sync.buffered[i].from <= sync.buffered[i].to
             /\ sync.buffered[i].from <= pub[sync.session]
  <2>1. sync.buffered \in Seq(BookRange)
    BY <1>0 DEF SyncState
  <2>2. sync.buffered[i].from \in Nat /\ sync.buffered[i].to \in Nat
    BY <2>1, BufferType
  <2>3. RangeOK(log[sync.session], pub[sync.session], sync.buffered[i])
    BY <1>0 DEF SyncRight
  <2> QED BY <1>1, <2>2, <2>3 DEF RangeOK
<1> QED BY <1>1, <1>2, <1>3

\* The server writes: a new range starts at the cursor.
LEMMA WritesMissNothing ==
    ASSUME IInv, GInv, FlushReset \/ FlushRange \/ Heartbeat, ~conn'.dropped
    PROVE  Chain' /\ NothingMissing'
<1>0. wire \in Seq(WireFrame) /\ OneServer
  BY DEF GInv, IInv, TypeOK
<1>1. /\ UNCHANGED <<sock, sync, fetch>>
      /\ conn.sent \in Nat /\ conn'.sent \in Nat /\ conn.sent <= conn'.sent
  BY <1>0, Writes
<1>2. PICK f \in WireFrame :
        /\ wire' = Append(wire, f)
        /\ f.kind = "update" => f.range.from = conn.sent + 1 /\ f.range.to = conn'.sent
        /\ ~IsData(f) => conn'.sent = conn.sent
        /\ conn'.dropped = conn.dropped
  BY <1>0, Writes
<1>3. Chain /\ NothingMissing
  BY <1>2 DEF GInv
<1>4. Chain'
  BY <1>0, <1>1, <1>2, <1>3, ChainAppend
<1>5. ASSUME NEW S, StartsIn(wire, conn.sent, S) PROVE StartsIn(wire', conn'.sent, S)
  BY <1>0, <1>2, <1>5, NextAppend
<1>6. NothingMissing'
  <2> SUFFICES ASSUME sock = "live"
               PROVE  /\ sync.status = "synced" =>
                           StartsIn(wire', conn'.sent, 1 .. sync.expectedSeq)
                      /\ sync.status = "buffering" =>
                           /\ \A i \in 1 .. Len(sync.buffered) : sync.buffered[i].to <= conn'.sent
                           /\ \A i \in 2 .. Len(sync.buffered) :
                                sync.buffered[i].from = sync.buffered[i - 1].to + 1
                           /\ sync.buffered # <<>> =>
                                StartsIn(wire', conn'.sent,
                                         {sync.buffered[Len(sync.buffered)].to + 1})
                           /\ (fetch.st = "answered" /\ fetch.snap.session = sync.session) =>
                                IF sync.buffered = <<>>
                                THEN StartsIn(wire', conn'.sent, 1 .. fetch.snap.seq + 1)
                                ELSE sync.buffered[1].from <= fetch.snap.seq + 1
    BY <1>1 DEF NothingMissing, NextStartsIn
  <2>1. \A i \in 1 .. Len(sync.buffered) : sync.buffered[i].to \in Nat
    BY <1>0, WireNumbers
  <2>2. CASE sync.status = "synced"
    BY <1>3, <1>5, <2>2 DEF NothingMissing, NextStartsIn
  <2>3. CASE sync.status = "buffering"
    <3>1. \A i \in 1 .. Len(sync.buffered) : sync.buffered[i].to <= conn'.sent
      BY <1>1, <1>3, <2>1, <2>3 DEF NothingMissing
    <3> QED BY <1>3, <1>5, <2>3, <3>1 DEF NothingMissing, NextStartsIn
  <2> QED BY <2>2, <2>3
<1> QED BY <1>4, <1>6

\* An answer captured now reaches the first range the engine holds or receives.
LEMMA CaptureMissesNothing ==
    ASSUME IInv, GInv, Capture, ~conn.dropped
    PROVE  Chain' /\ NothingMissing'
<1>0. Chain /\ NothingMissing /\ OneServer /\ session \in Session /\ fetch \in FetchState
  BY DEF GInv, IInv, TypeOK
<1>1. UNCHANGED <<conn, wire, sock, sync>>
  BY DEF Capture
<1>2. Chain'
  BY <1>0, <1>1, ChainSame
<1>3. fetch'.snap.session = session /\ fetch'.snap.seq = pub[session]
  BY <1>0 DEF Capture, FetchState, Published
<1>4. ASSUME sock = "live", session = sync.session
      PROVE  IF sync.buffered = <<>> THEN StartsIn(wire, conn.sent, 1 .. pub[session] + 1)
             ELSE sync.buffered[1].from <= pub[session] + 1
  <2> DEFINE p == pub[session]
  <2>1. /\ p \in Nat /\ conn.sent \in Nat /\ conn.sent <= p
        /\ \A i \in DOMAIN wire : wire[i].kind = "update" =>
             /\ wire[i].range.from \in Nat /\ 1 <= wire[i].range.from /\ wire[i].range.from <= p
        /\ \A i \in 1 .. Len(sync.buffered) :
             sync.buffered[i].from \in Nat /\ sync.buffered[i].from <= p
    BY <1>0, <1>4, WireNumbers
  <2> HIDE DEF p
  <2>2. sync.buffered # <<>> => 1 \in 1 .. Len(sync.buffered)
    <3>1. sync.buffered \in Seq(BookRange)
      BY DEF IInv, TypeOK, SyncState
    <3> QED BY <3>1, EmptySeq, LenProperties
  <2>3. StartsIn(wire, conn.sent, 1 .. p + 1)
    BY <2>1 DEF StartsIn
  <2>4. sync.buffered # <<>> => sync.buffered[1].from <= p + 1
    BY <2>1, <2>2
  <2> QED BY <2>3, <2>4 DEF p
<1>5. NothingMissing'
  BY <1>0, <1>1, <1>3, <1>4 DEF NothingMissing, NextStartsIn
<1> QED BY <1>2, <1>5

\* A range is received: the next one starts right after it.
LEMMA UpdateMissesNothing ==
    ASSUME IInv, GInv, ReceiveUpdate, ~conn.dropped
    PROVE  Chain' /\ NothingMissing'
<1> DEFINE r == Incoming.range
           s == Incoming.session
           e == sync.expectedSeq
           buf == sync.buffered
<1>0. /\ wire \in Seq(WireFrame) /\ OneServer /\ Chain /\ NothingMissing
      /\ sync \in SyncState /\ sync.generation \in Nat
  BY DEF GInv, IInv, TypeOK, SyncState
<1>1. /\ sock = "live" /\ wire # <<>> /\ wire[1].kind = "update" /\ wire' = Tail(wire)
      /\ sync' = ReceiveRange(sync, s, r) /\ fetch' = Issue(sync')
      /\ UNCHANGED <<conn, sock>> /\ r = wire[1].range /\ s = wire[1].session
  BY DEF ReceiveUpdate, Incoming
<1>2. 1 \in DOMAIN wire /\ (\A k \in 1 .. 1 - 1 : ~IsData(wire[k]))
  BY <1>0, <1>1, TailIndex
<1>3. s = sync.session
  BY <1>0, <1>1, <1>2 DEF OneServer, ConnSession
<1>4. r.from \in Nat /\ r.to \in Nat /\ 1 <= r.from /\ r.from <= r.to
  BY <1>0, <1>1, <1>2, WireNumbers
<1>5. Chain'
  BY <1>0, <1>1, ChainTail
<1>6. StartsIn(wire', conn'.sent, {r.to + 1})
  BY <1>0, <1>1, NextAfterUpdate
<1>7. r.to <= conn.sent
  BY <1>1, <1>2, <1>0 DEF Chain
<1>8. CASE sync' = RequestSnapshot(sync)
  BY <1>1, <1>5, <1>8, RecoverMissesNothing DEF Issue
<1>9. CASE sync.status = "synced" /\ sync' # RequestSnapshot(sync)
  <2>1. r.from <= e /\ e \in Nat
    BY <1>0, <1>1, <1>2, <1>9 DEF NothingMissing, NextStartsIn, StartsIn, SyncState
  <2>2. sync'.status = "synced" /\ sync'.expectedSeq \in Nat /\ r.to + 1 <= sync'.expectedSeq
    <3>1. CASE r.to < e
      <4>1. sync' = sync
        BY <1>1, <1>3, <1>9, <3>1 DEF ReceiveRange
      <4> QED BY <1>4, <1>9, <2>1, <3>1, <4>1
    <3>2. CASE ~(r.to < e)
      <4>1. sync' = [sync EXCEPT !.book = ApplyRange(@, r), !.expectedSeq = r.to + 1]
        <5> HIDE DEF r, s
        <5>1. ~(r.from > e)
          BY <1>4, <2>1
        <5> QED BY <1>1, <1>3, <1>9, <3>2, <5>1 DEF ReceiveRange
      <4> QED BY <1>0, <1>4, <1>9, <4>1 DEF SyncState
    <3> QED BY <3>1, <3>2
  <2>3. {r.to + 1} \subseteq 1 .. sync'.expectedSeq
    BY <1>4, <2>2
  <2>4. StartsIn(wire', conn'.sent, 1 .. sync'.expectedSeq)
    BY <1>6, <2>3, NextWidens
  <2>5. NothingMissing'
    BY <2>2, <2>4 DEF NothingMissing, NextStartsIn
  <2> QED BY <1>5, <2>5
<1>10. CASE sync.status = "buffering" /\ sync' # RequestSnapshot(sync)
  <2>1. sync' = [sync EXCEPT !.buffered = Append(@, r)]
    BY <1>1, <1>3, <1>10 DEF ReceiveRange
  <2>2. /\ sync'.buffered = Append(buf, r) /\ sync'.status = "buffering"
        /\ sync'.session = sync.session /\ sync'.generation = sync.generation
    BY <1>0, <1>10, <2>1 DEF SyncState
  <2>3. fetch' = fetch
    BY <1>1, <2>2 DEF Issue
  <2>4. buf \in Seq(BookRange) /\ r \in BookRange
    BY <1>0, <1>1, <1>2, RangesAreRight DEF SyncState
  <2>5. /\ Len(buf) \in Nat /\ Len(sync'.buffered) = Len(buf) + 1
        /\ \A i \in 1 .. Len(buf) : sync'.buffered[i] = buf[i]
        /\ sync'.buffered[Len(buf) + 1] = r
        /\ sync'.buffered # <<>>
        /\ Len(buf) = 0 <=> buf = <<>>
    BY <2>2, <2>4, AppendProperties, EmptySeq, LenProperties
  <2>6. \A i \in 1 .. Len(sync'.buffered) : sync'.buffered[i].to <= conn'.sent
    <3>1. \A i \in 1 .. Len(buf) : buf[i].to <= conn.sent
      BY <1>0, <1>1, <1>10 DEF NothingMissing
    <3> QED BY <1>1, <1>7, <2>5, <3>1
  <2>7. ASSUME NEW i \in 2 .. Len(sync'.buffered)
        PROVE  sync'.buffered[i].from = sync'.buffered[i - 1].to + 1
    <3>1. CASE i <= Len(buf)
      <4>1. i \in 2 .. Len(buf) /\ i \in 1 .. Len(buf) /\ i - 1 \in 1 .. Len(buf)
        BY <2>5, <3>1
      <4>2. buf[i].from = buf[i - 1].to + 1
        BY <1>0, <1>1, <1>10, <4>1 DEF NothingMissing
      <4> QED BY <2>5, <4>1, <4>2
    <3>2. CASE i = Len(buf) + 1
      <4>1. buf # <<>> /\ i - 1 = Len(buf) /\ Len(buf) \in 1 .. Len(buf)
        BY <2>5, <3>2
      <4>2. r.from = buf[Len(buf)].to + 1
        BY <1>0, <1>1, <1>2, <1>10, <4>1 DEF NothingMissing, NextStartsIn, StartsIn
      <4> QED BY <2>5, <3>2, <4>1, <4>2
    <3> QED BY <2>5, <3>1, <3>2
  <2>8. StartsIn(wire', conn'.sent, {sync'.buffered[Len(sync'.buffered)].to + 1})
    BY <1>6, <2>5
  <2>9. (fetch'.st = "answered" /\ fetch'.snap.session = sync'.session) =>
          sync'.buffered[1].from <= fetch'.snap.seq + 1
    <3> SUFFICES ASSUME fetch.st = "answered", fetch.snap.session = sync.session
                 PROVE  sync'.buffered[1].from <= fetch.snap.seq + 1
      BY <2>2, <2>3
    <3>0. fetch.snap.seq \in Nat
      BY DEF IInv, TypeOK, FetchState, Snapshot, Seq0
    <3>1. CASE buf = <<>>
      <4>1. r.from \in 1 .. fetch.snap.seq + 1
        BY <1>0, <1>1, <1>2, <1>10, <3>1 DEF NothingMissing, NextStartsIn, StartsIn
      <4>2. sync'.buffered[1] = r
        BY <2>5, <3>1
      <4> QED BY <1>4, <3>0, <4>1, <4>2
    <3>2. CASE buf # <<>>
      <4>1. buf[1].from <= fetch.snap.seq + 1
        BY <1>0, <1>1, <1>10, <3>2 DEF NothingMissing
      <4>2. 1 \in 1 .. Len(buf)
        BY <2>5, <3>2
      <4> QED BY <2>5, <4>1, <4>2
    <3> QED BY <3>1, <3>2
  <2>10. NothingMissing'
    BY <2>2, <2>5, <2>6, <2>7, <2>8, <2>9 DEF NothingMissing, NextStartsIn
  <2> QED BY <1>5, <2>10
<1>11. CASE sync.status \notin {"synced", "buffering"}
  <2>1. sync' = sync
    BY <1>1, <1>3, <1>11 DEF ReceiveRange
  <2> QED BY <1>5, <1>11, <2>1, NothingBuffered
<1> QED
  BY <1>8, <1>9, <1>10, <1>11

\* The answer arrives: the replayed book reaches the next range.
LEMMA SnapshotMissesNothing ==
    ASSUME IInv, GInv, SnapshotArrives \/ CaptureFails, ~conn.dropped
    PROVE  Chain' /\ NothingMissing'
<1> DEFINE snap == fetch.snap
           gen == fetch.gen
           buf == sync.buffered
           E == ReplayedExpected(buf, snap.seq)
           book == ReplayedBook(buf, snap, Len(buf))
<1>0. /\ OneServer /\ Chain /\ NothingMissing
      /\ sync \in SyncState /\ sync.generation \in Nat
      /\ SyncRight(sync, log, pub)
  BY DEF GInv, IInv, TypeOK, SyncState
<1>1. /\ UNCHANGED <<conn, wire, sock>> /\ fetch' = IssueAfterEnd(sync')
      /\ fetch.st # "none"
  BY DEF SnapshotArrives, CaptureFails
<1>2. gen = sync.generation /\ sync.status # "synced"
  BY <1>1 DEF IInv, RequestIsCurrent, SyncedHasNoRequest
<1>3. Chain'
  BY <1>0, <1>1, ChainSame
<1>4. \/ sync.status # "buffering" /\ sync' = sync
      \/ sync' = RequestSnapshot(sync)
      \/ /\ sync.status = "buffering" /\ SnapshotArrives
         /\ snap.session = sync.session
         /\ sync' = Synced(sync, book, E)
  <2>1. CASE sync.status # "buffering"
    BY <2>1 DEF SnapshotArrives, CaptureFails, Failed, ReceiveSnapshot
  <2>2. CASE sync.status = "buffering"
    BY <1>2, <2>2 DEF SnapshotArrives, CaptureFails, Failed, ReceiveSnapshot
  <2> QED BY <2>1, <2>2
<1>5. CASE sync.status # "buffering" /\ sync' = sync
  BY <1>2, <1>3, <1>5, NothingBuffered
<1>6. CASE sync' = RequestSnapshot(sync)
  BY <1>1, <1>3, <1>6, RecoverMissesNothing DEF IssueAfterEnd
<1>7. CASE /\ sync.status = "buffering" /\ SnapshotArrives
           /\ snap.session = sync.session /\ sync' = Synced(sync, book, E)
  <2>1. sync'.status = "synced" /\ sync'.expectedSeq = E
    <3> HIDE DEF book, E
    <3> QED BY <1>0, <1>7 DEF Synced, SyncState
  <2>2. SUFFICES ASSUME sock = "live"
                 PROVE  StartsIn(wire, conn.sent, 1 .. E)
    BY <1>1, <1>3, <2>1 DEF NothingMissing, NextStartsIn
  <2>3. fetch.st = "answered"
    BY <1>7 DEF SnapshotArrives
  <2>4. snap.seq \in 1 .. pub[sync.session] /\ pub[sync.session] \in Nat
    BY <1>0, <1>7, <2>2, <2>3, AnswerIsRight, WireNumbers
  <2>5. /\ buf \in Seq(BookRange) /\ Len(buf) \in Nat
        /\ Len(buf) = 0 <=> buf = <<>>
    BY <1>0, EmptySeq, LenProperties DEF SyncState
  <2>6. \A i \in 1 .. Len(buf) : buf[i].to \in Nat /\ buf[i].to <= pub[sync.session]
    <3>1. \A i \in 1 .. Len(buf) : RangeOK(log[sync.session], pub[sync.session], buf[i])
      BY <1>0 DEF SyncRight
    <3> QED BY <2>5, <3>1, BufferType DEF RangeOK
  <2>7. /\ E \in Nat /\ snap.seq + 1 <= E
        /\ \A i \in 1 .. Len(buf) : buf[i].to < E
    <3> DEFINE seq == snap.seq
               p == pub[sync.session]
    <3> HIDE DEF buf, seq, p
    <3>1. ReplayedExpected(buf, seq) \in Nat /\ seq + 1 <= ReplayedExpected(buf, seq)
          /\ \A i \in 1 .. Len(buf) : buf[i].to < ReplayedExpected(buf, seq)
      <4>1. seq \in Nat /\ seq <= p /\ p \in Nat
        BY <2>4 DEF seq, p
      <4>2. \A i \in 1 .. Len(buf) : buf[i].to <= p
        BY <2>6 DEF p
      <4> QED BY <2>5, <4>1, <4>2, ReplayedExpectedIsGreatest
    <3> QED BY <3>1 DEF seq
  <2> HIDE DEF E
  <2>8. CASE buf = <<>>
    <3>1. StartsIn(wire, conn.sent, 1 .. snap.seq + 1)
      BY <1>0, <1>7, <2>2, <2>3, <2>8 DEF NothingMissing, NextStartsIn
    <3>2. 1 .. snap.seq + 1 \subseteq 1 .. E
      BY <2>4, <2>7
    <3> QED BY <3>1, <3>2, NextWidens
  <2>9. CASE buf # <<>>
    <3>1. StartsIn(wire, conn.sent, {buf[Len(buf)].to + 1})
      BY <1>0, <1>7, <2>2, <2>9 DEF NothingMissing, NextStartsIn
    <3>2. Len(buf) \in 1 .. Len(buf)
      BY <2>5, <2>9
    <3>3. {buf[Len(buf)].to + 1} \subseteq 1 .. E
      BY <2>6, <2>7, <3>2
    <3> QED BY <3>1, <3>3, NextWidens
  <2> QED BY <2>8, <2>9
<1> QED
  BY <1>4, <1>5, <1>6, <1>7

LEMMA NextGInv ==
    ASSUME IInv, GInv, [Next]_vars
    PROVE  GInv'
<1>0. OneServer /\ OneServer' /\ wire \in Seq(WireFrame) /\ conn \in ConnState
      /\ sync.session \in Session \cup {None}
  BY NextOneServer DEF GInv, IInv, TypeOK
<1> SUFFICES ASSUME ~conn'.dropped PROVE Chain' /\ NothingMissing'
  BY <1>0 DEF GInv
<1>1. CASE Mutation \/ Publish \/ Restart \/ DropNext \/ ServerClose \/ UNCHANGED vars
  <2>1. UNCHANGED <<wire, sock, sync, fetch>>
    BY <1>1 DEF Mutation, MutateLevel, Publish, Restart, DropNext, ServerClose, vars
  <2>2. conn'.sent = conn.sent /\ conn'.dropped = conn.dropped
    BY <1>0, <1>1 DEF Mutation, MutateLevel, Publish, Restart, DropNext, ServerClose, vars,
                      ConnState
  <2>3. Chain /\ NothingMissing
    BY <2>2 DEF GInv
  <2>4. Chain'
    BY <2>1, <2>2, <2>3, ChainSame
  <2>5. NothingMissing'
    BY <2>1, <2>2, <2>3 DEF NothingMissing, NextStartsIn
  <2> QED BY <2>4, <2>5
<1>2. CASE FlushReset \/ FlushRange \/ Heartbeat
  BY <1>2, WritesMissNothing
<1>3. CASE Capture
  <2>1. ~conn.dropped
    BY <1>3 DEF Capture
  <2> QED BY <1>3, <2>1, CaptureMissesNothing
<1>4. CASE SnapshotArrives \/ CaptureFails
  <2>1. ~conn.dropped
    BY <1>4 DEF SnapshotArrives, CaptureFails
  <2> QED BY <1>4, <2>1, SnapshotMissesNothing
<1>5. CASE Connect
  <2>1. /\ sock' = "opening" /\ conn'.sent = 0 /\ Len(wire') = 1 /\ DOMAIN wire' = {1}
        /\ wire'[1].kind = "hello"
    BY <1>5 DEF Connect, NewConn, Frame
  <2>2. Chain'
    BY <2>1 DEF Chain
  <2> QED BY <2>1, <2>2 DEF NothingMissing
<1>6. CASE ServerClosed \/ ClientClose \/ RetryDown
  <2>1. sock' = "closed" /\ wire' = <<>>
    BY <1>6 DEF ServerClosed, ClientClose, RetryDown, CloseSocket
  <2>2. Chain'
    BY <2>1 DEF Chain
  <2> QED BY <2>1, <2>2 DEF NothingMissing
<1>7. CASE ReceiveHello \/ ReceiveReset \/ ReceiveHeartbeat
  <2>1. wire # <<>> /\ wire' = Tail(wire) /\ UNCHANGED conn /\ Incoming = wire[1]
    BY <1>7 DEF ReceiveHello, ReceiveReset, ReceiveHeartbeat, Incoming
  <2>2. Chain /\ NothingMissing
    BY <2>1 DEF GInv
  <2>3. Chain'
    BY <1>0, <2>1, <2>2, ChainTail
  <2>4. CASE sync' = RequestSnapshot(sync) /\ fetch' = Issue(sync')
    BY <2>3, <2>4, RecoverMissesNothing DEF Issue
  <2>5. CASE ReceiveHello /\ ~(sync' = RequestSnapshot(sync) /\ fetch' = Issue(sync'))
    <3>1. Incoming \in WireFrame
      BY <2>1, WireTail, <2>5 DEF ReceiveHello
    <3>2. Incoming.session \in Session \cup {None}
      BY <3>1 DEF WireFrame
    <3>3. sync' = Start(sync, Incoming.session) /\ fetch' = Fetch(sync'.generation)
      BY <2>5 DEF ReceiveHello
    <3> QED BY <2>3, <3>2, <3>3, StartMissesNothing
  <2>6. CASE ReceiveHeartbeat
    <3>1. ~IsData(wire[1]) /\ UNCHANGED <<sock, sync, fetch>> /\ conn'.sent = conn.sent
      BY <2>1, <2>6 DEF ReceiveHeartbeat, Incoming, IsData
    <3>2. ASSUME NEW S, StartsIn(wire, conn.sent, S) PROVE StartsIn(wire', conn'.sent, S)
      BY <1>0, <2>1, <3>1, <3>2, NextTail
    <3>3. NothingMissing'
      BY <2>2, <3>1, <3>2 DEF NothingMissing, NextStartsIn
    <3> QED BY <2>3, <3>3
  <2>7. CASE ReceiveReset
    BY <2>4, <2>7 DEF ReceiveReset
  <2> QED BY <1>7, <2>4, <2>5, <2>6, <2>7
<1>8. CASE ReceiveUpdate
  <2>1. ~conn.dropped
    BY <1>8 DEF ReceiveUpdate
  <2> QED BY <1>8, <2>1, UpdateMissesNothing
<1>9. CASE Resync \/ RetryLive
  <2>1. UNCHANGED <<wire, conn>>
    BY <1>9 DEF Resync, RetryLive
  <2>2. Chain'
    <3>1. Chain
      BY <2>1 DEF GInv
    <3> QED BY <2>1, <3>1, ChainSame
  <2>3. CASE Resync
    BY <2>2, <2>3, RecoverMissesNothing DEF Resync, Issue
  <2>4. CASE RetryLive
    BY <1>0, <2>2, <2>4, StartMissesNothing DEF RetryLive
  <2> QED BY <1>9, <2>3, <2>4
<1> QED
  BY <1>1, <1>2, <1>3, <1>4, <1>5, <1>6, <1>7, <1>8, <1>9 DEF Next

LEMMA InitGInv == Init => GInv
<1> SUFFICES ASSUME Init PROVE GInv
  OBVIOUS
<1>1. Chain
  BY DEF Init, Chain
<1>2. NothingMissing
  BY DEF Init, NothingMissing
<1> QED
  BY <1>1, <1>2, InitOneServer DEF GInv

\* The frames on the socket of a connection that dropped nothing join up, and
\* the engine can reach the next one.
THEOREM NothingIsMissing == Spec => []GInv
<1>1. IInv /\ GInv /\ [Next]_vars => GInv'
  BY NextGInv
<1> QED
  BY <1>1, InitGInv, Invariance, PTL DEF Spec

\* Unless the viewer dropped a delta, neither a live range nor a replay ever
\* finds changes missing.
THEOREM GapsAreDropped == Spec => []GapOnlyAfterDrop
<1>1. IInv /\ GInv => GapOnlyAfterDrop
  <2> SUFFICES ASSUME IInv, GInv, sock = "live", ~conn.dropped
               PROVE  /\ (sync.status = "synced" /\ wire # <<>> /\ Incoming.kind = "update")
                            => Incoming.range.from <= sync.expectedSeq
                      /\ (/\ sync.status = "buffering"
                          /\ fetch.st = "answered"
                          /\ fetch.snap.session = sync.session)
                            => \A i \in 1 .. Len(sync.buffered) :
                                 ~GapAt(sync.buffered, fetch.snap.seq, i)
    BY DEF GapOnlyAfterDrop
  <2>0. /\ OneServer /\ NothingMissing /\ wire \in Seq(WireFrame)
        /\ sync.buffered \in Seq(BookRange) /\ sync.expectedSeq \in Nat
    BY DEF GInv, IInv, TypeOK, SyncState
  <2>1. ASSUME sync.status = "synced", wire # <<>>, Incoming.kind = "update"
        PROVE  Incoming.range.from <= sync.expectedSeq
    <3>1. 1 \in DOMAIN wire /\ (\A k \in 1 .. 1 - 1 : ~IsData(wire[k]))
      BY <2>0, <2>1, EmptySeq, LenProperties
    <3>2. wire[1].range.from \in 1 .. sync.expectedSeq
      BY <2>0, <2>1, <3>1 DEF NothingMissing, NextStartsIn, StartsIn, Incoming
    <3> QED BY <2>0, <3>2 DEF Incoming
  <2>2. ASSUME sync.status = "buffering", fetch.st = "answered",
               fetch.snap.session = sync.session,
               NEW i \in 1 .. Len(sync.buffered)
        PROVE  ~GapAt(sync.buffered, fetch.snap.seq, i)
    <3> DEFINE buf == sync.buffered
    <3>1. buf # <<>> /\ Len(buf) \in Nat
      BY <2>0, EmptySeq, LenProperties
    <3>2. CASE i = 1
      <4>1. buf[1].from <= fetch.snap.seq + 1
        BY <2>0, <2>2, <3>1 DEF NothingMissing
      <4>2. buf[1].from \in Nat /\ fetch.snap.seq \in Nat
        BY <2>0, <3>2, BufferType DEF IInv, TypeOK, FetchState, Snapshot, Seq0
      <4> QED BY <3>2, <4>1, <4>2 DEF GapAt
    <3>3. CASE i # 1
      <4>1. i \in 2 .. Len(buf) /\ i - 1 \in 1 .. i - 1 /\ i - 1 \in 1 .. Len(buf)
        BY <3>1, <3>3
      <4>2. buf[i].from = buf[i - 1].to + 1
        BY <2>0, <2>2, <4>1 DEF NothingMissing
      <4>3. buf[i].from \in Nat /\ buf[i - 1].to \in Nat
        BY <2>0, <4>1, BufferType
      <4> QED BY <4>1, <4>2, <4>3 DEF GapAt
    <3> QED BY <3>2, <3>3
  <2> QED BY <2>1, <2>2
<1> QED
  BY <1>1, Invariance, NothingIsMissing, PTL

-----------------------------------------------------------------------------
(* The pipeline implements BookReplica. *)

LEMMA InitFuture == Init => FutureIsEmpty
BY DEF Init, FutureIsEmpty

LEMMA NextFuture ==
    ASSUME IInv, FutureIsEmpty, [Next]_vars
    PROVE  FutureIsEmpty'
<1>0. session \in Session /\ log \in [Session -> Seq(Change)]
  BY DEF IInv, TypeOK
<1>1. CASE Mutation \/ Publish
  <2>1. PICK new : log' = [log EXCEPT ![session] = new]
    BY <1>1 DEF Mutation, MutateLevel, Publish
  <2>2. session' = session
    BY <1>1 DEF Mutation, MutateLevel, Publish
  <2> QED BY <1>0, <2>1, <2>2 DEF FutureIsEmpty, Session
<1>2. CASE Restart
  BY <1>0, <1>2 DEF Restart, FutureIsEmpty, Session
<1>3. CASE UNCHANGED <<session, log>>
  BY <1>3 DEF FutureIsEmpty
<1>4. Mutation \/ Publish \/ Restart \/ UNCHANGED <<session, log>>
  BY DEF Next, FlushReset, FlushRange, Heartbeat, DropNext, ServerClose, Capture,
         CaptureFails, SnapshotArrives, Connect, ServerClosed, ClientClose, ReceiveHello,
         ReceiveUpdate, ReceiveReset, ReceiveHeartbeat, Resync, RetryLive, RetryDown, vars
<1> QED
  BY <1>1, <1>2, <1>3, <1>4

\* A level change is no publication.
LEMMA MutationKeepsHistory ==
    ASSUME IInv, Mutation
    PROVE  History' = History
<1>0. TypeOK /\ LogsOK /\ session \in Session /\ log \in [Session -> Seq(Change)]
  BY DEF IInv, TypeOK
<1>1. PICK l \in Level, q \in Lots : MutateLevel(l, q)
  BY DEF Mutation
<1> DEFINE L == log[session]
           N == Mutate(L, l, q)
<1>2. log' = [log EXCEPT ![session] = N]
  BY <1>1 DEF MutateLevel
<1>3. /\ Len(L) \in Nat /\ Len(N) = Len(L) + 1
      /\ \A k \in 1 .. Len(L) : N[k] = L[k]
      /\ ~N[Len(L) + 1].published
  <2>1. L \in Seq(Change)
    BY <1>0
  <2> HIDE DEF L
  <2> DEFINE c == [level |-> l, lots |-> q, published |-> FALSE,
                   book |-> [BookAt(L, Len(L)) EXCEPT ![l] = q]]
  <2>2. N = Append(L, c) /\ ~c.published
    BY DEF Mutate
  <2> HIDE DEF c, N
  <2>3. \E S : L \in Seq(S) /\ c \in S
    <3>1. L \in Seq(Change \cup {c})
      <4>1. Len(L) \in Nat /\ L \in [1 .. Len(L) -> Change]
        BY <2>1, LenProperties
      <4>2. L \in [1 .. Len(L) -> Change \cup {c}]
        BY <4>1
      <4> QED BY <4>1, <4>2, SeqDef
    <3> QED BY <3>1
  <2>4. PICK S : L \in Seq(S) /\ c \in S
    BY <2>3
  <2> QED BY <2>2, <2>4, AppendProperties, LenProperties
<1> HIDE DEF N
<1>4. ASSUME NEW s \in Session
      PROVE  {k \in 1 .. Len(log'[s]) : log'[s][k].published}
               = {k \in 1 .. Len(log[s]) : log[s][k].published}
             /\ \A k \in 1 .. Len(log[s]) : log'[s][k].book = log[s][k].book
  <2>1. CASE s = session
    BY <1>0, <1>2, <1>3, <2>1
  <2>2. CASE s # session
    BY <1>0, <1>2, <2>2
  <2> QED BY <2>1, <2>2
<1>5. ASSUME NEW s \in Session
      PROVE  {[seq |-> n, book |-> log'[s][n].book] :
                n \in {k \in 1 .. Len(log'[s]) : log'[s][k].published}}
             = {[seq |-> n, book |-> log[s][n].book] :
                n \in {k \in 1 .. Len(log[s]) : log[s][k].published}}
  BY <1>4
<1> QED
  BY <1>5, Zenon DEF History

\* A publication adds the newest book of the running session.
LEMMA PublishAddsHistory ==
    ASSUME IInv, FutureIsEmpty, Publish
    PROVE  Replica!Publish(session) /\ session \in Session
<1> DEFINE L == log[session]
           n == Len(L)
           N == [L EXCEPT ![n].published = TRUE]
           p == [seq |-> n, book |-> L[n].book]
<1>0. /\ TypeOK /\ LogsOK /\ session \in Session
      /\ log \in [Session -> Seq(Change)]
  BY DEF IInv, TypeOK
<1>1. /\ L \in Seq(Change) /\ n \in Nat /\ pub[session] \in Nat
      /\ LogOK(L, pub[session])
  BY <1>0, SessionFacts
<1>2. /\ n > pub[session] /\ BookAt(L, n) \in ValidBooks
      /\ log' = [log EXCEPT ![session] = N]
      /\ UNCHANGED <<sync>>
  BY DEF Publish, Published
<1>3. n \in 1 .. n /\ n # 0
  BY <1>1, <1>2
<1>4. L \in [1 .. n -> Change]
  BY <1>1, LenProperties
<1>5. /\ N \in Seq(Change) /\ Len(N) = n
      /\ \A k \in 1 .. n : /\ N[k].book = L[k].book
                           /\ k # n => N[k] = L[k]
      /\ N[n].published
  <2>1. L[n] \in Change
    BY <1>3, <1>4
  <2>2. [L[n] EXCEPT !.published = TRUE] \in Change
    BY <2>1 DEF Change
  <2>3. N = [L EXCEPT ![n] = [L[n] EXCEPT !.published = TRUE]]
    OBVIOUS
  <2>4. N \in Seq(Change) /\ Len(N) = n
    BY <1>1, <1>3, <2>2, <2>3, ExceptSeq
  <2> HIDE DEF L
  <2>5. \A k \in 1 .. n : k # n => N[k] = L[k]
    BY <1>4, <2>3
  <2>6. N[n] = [L[n] EXCEPT !.published = TRUE]
    BY <1>3, <1>4, <2>3
  <2>7. N[n].book = L[n].book /\ N[n].published
    BY <2>1, <2>6 DEF Change
  <2> QED BY <2>4, <2>5, <2>7
<1>6. \A k \in 1 .. n : L[k].published => k <= pub[session]
  BY <1>1 DEF LogOK
<1>7. L[n].book \in ValidBooks
  BY <1>2, <1>3 DEF BookAt
<1> HIDE DEF N
<1>8. /\ log'[session] = N /\ \A s \in Session : s # session => log'[s] = log[s]
  BY <1>0, <1>2
<1>9. History'[session] = History[session] \cup {p}
  <2>1. History'[session] = {[seq |-> m, book |-> N[m].book] :
                               m \in {k \in 1 .. Len(N) : N[k].published}}
    BY <1>0, <1>8 DEF History
  <2>2. History[session] = {[seq |-> m, book |-> L[m].book] :
                              m \in {k \in 1 .. n : L[k].published}}
    BY <1>0 DEF History
  <2>3. {k \in 1 .. Len(N) : N[k].published} = {k \in 1 .. n : L[k].published} \cup {n}
    BY <1>1, <1>3, <1>5
  <2> HIDE DEF L, n
  <2>4. {[seq |-> m, book |-> N[m].book] : m \in {k \in 1 .. Len(N) : N[k].published}}
        = {[seq |-> m, book |-> L[m].book] : m \in {k \in 1 .. n : L[k].published}}
          \cup {[seq |-> n, book |-> L[n].book]}
    BY <1>3, <1>5, <2>3
  <2> QED BY <2>1, <2>2, <2>4
<1>10. History' = [History EXCEPT ![session] = @ \cup {p}]
  <2>1. \A s \in Session : s # session => History'[s] = History[s]
    BY <1>8 DEF History
  <2>2. History' = [s \in Session |-> History'[s]] /\ History = [s \in Session |-> History[s]]
    BY DEF History
  <2> HIDE DEF p
  <2> QED BY <1>0, <1>9, <2>1, <2>2
<1>11. \A q \in History[session] : q.seq < n
  <2>1. ASSUME NEW q \in History[session] PROVE q.seq < n
    <3>1. PICK m \in {k \in 1 .. n : L[k].published} : q = [seq |-> m, book |-> L[m].book]
      BY <1>0 DEF History
    <3> QED BY <1>1, <1>2, <1>6, <3>1
  <2> QED BY <2>1
<1>12. \A t \in Session : t > session => History[t] = {}
  BY DEF FutureIsEmpty, History
<1>13. p \in Replica!Publication
  BY <1>1, <1>3, <1>7 DEF Replica!Publication
<1>14. p \in History'[session] /\ p.seq = n
  BY <1>9
<1>15. View' = View
  BY <1>2 DEF View
<1> HIDE DEF p
<1> QED
  BY <1>0, <1>10, <1>11, <1>12, <1>13, <1>14, <1>15 DEF Replica!Publish

\* Every other step leaves the history alone, and the book on show stays, goes,
\* or moves on to a published book that is not older.
LEMMA OthersKeepHistory ==
    ASSUME IInv, [Next]_vars, ~Mutation, ~Publish
    PROVE  History' = History
<1>1. log' = log
  BY DEF Next, Restart, FlushReset, FlushRange, Heartbeat, DropNext, ServerClose, Capture,
         CaptureFails, SnapshotArrives, Connect, ServerClosed, ClientClose, ReceiveHello,
         ReceiveUpdate, ReceiveReset, ReceiveHeartbeat, Resync, RetryLive, RetryDown, vars
<1> QED BY <1>1 DEF History

LEMMA ShownStep ==
    ASSUME IInv, [Next]_vars, History' = History
    PROVE  \/ View' = View
           \/ Replica!Clear
           \/ \E s \in Session : Replica!Show(s)
<1>0. IInv'
  BY NextIInv
<1>1. CASE sync'.expectedSeq = None
  <2>1. View' = Replica!Nothing
    BY <1>1 DEF View, Replica!Nothing
  <2> QED BY <2>1 DEF Replica!Clear
<1>2. CASE sync'.expectedSeq # None
  <2> DEFINE s == sync'.session
             n == sync'.expectedSeq - 1
             p == [seq |-> n, book |-> sync'.book]
  <2>1. /\ s \in Session /\ n \in 1 .. pub'[s]
        /\ log'[s][n].published /\ sync'.book = log'[s][n].book
        /\ pub'[s] \in Nat /\ pub'[s] <= Len(log'[s]) /\ Len(log'[s]) \in Nat
    <3>1. /\ s \in Session \cup {None} /\ s # None /\ n \in 1 .. pub'[s]
          /\ log'[s][n].published /\ sync'.book = log'[s][n].book
      BY <1>0, <1>2 DEF IInv, TypeOK, SyncRight
    <3>2. s \in Session
      BY <3>1
    <3>3. pub'[s] \in Nat /\ log'[s] \in Seq(Change)
      BY <1>0, <3>2 DEF IInv, TypeOK, Seq0
    <3>4. pub'[s] <= Len(log'[s])
      BY <1>0, <3>2 DEF IInv, LogsOK, LogOK
    <3> QED BY <3>1, <3>2, <3>3, <3>4, LenProperties
  <2>2. p \in History'[s]
    <3>1. n \in {k \in 1 .. Len(log'[s]) : log'[s][k].published}
      BY <2>1
    <3>2. p = [seq |-> n, book |-> log'[s][n].book]
      BY <2>1
    <3> HIDE DEF p, n
    <3>3. History'[s] = {[seq |-> m, book |-> log'[s][m].book] :
                           m \in {k \in 1 .. Len(log'[s]) : log'[s][k].published}}
      BY <2>1 DEF History
    <3> QED BY <3>1, <3>2, <3>3
  <2>3. View' = [session |-> s, seq |-> p.seq, book |-> p.book]
    BY <1>2 DEF View
  <2>4. View # Replica!Nothing => /\ sync.expectedSeq # None
                                  /\ View.session = sync.session
                                  /\ View.seq = sync.expectedSeq - 1
    BY DEF View, Replica!Nothing
  <2>5. CASE sync'.session = sync.session
    <3>1. View # Replica!Nothing => s >= View.session /\ p.seq >= View.seq
      <4> SUFFICES ASSUME View # Replica!Nothing
                   PROVE  s >= View.session /\ p.seq >= View.seq
        OBVIOUS
      <4>1. sync'.expectedSeq >= sync.expectedSeq
        BY <1>2, <2>4, <2>5, StepNeverRewinds
      <4>2. sync'.expectedSeq \in Nat /\ sync.expectedSeq \in Nat /\ s \in Nat
        BY <1>0, <2>1 DEF IInv, TypeOK, SyncState, Session
      <4> QED BY <2>4, <2>5, <4>1, <4>2
    <3> HIDE DEF s, p
    <3> QED BY <2>1, <2>2, <2>3, <3>1 DEF Replica!Show
  <2>6. CASE sync'.session # sync.session
    <3>1. ReceiveHello
      BY <2>6, SessionKept
    <3>2. sync' = Start(sync, Incoming.session)
      <4>1. sync \in SyncState
        BY DEF IInv, TypeOK
      <4> QED BY <2>6, <3>1, <4>1, RequestSnapshotStep DEF ReceiveHello
    <3>3. sync'.expectedSeq = None
      BY <3>2 DEF Start
    <3> QED BY <1>2, <3>3
  <2> QED BY <2>5, <2>6
<1> QED BY <1>1, <1>2

LEMMA InitReplica == Init => Replica!Init
<1> SUFFICES ASSUME Init PROVE Replica!Init
  OBVIOUS
<1>1. View = Replica!Nothing
  BY DEF Init, NewBookSync, View, Replica!Nothing
<1>2. ASSUME NEW s \in Session PROVE History[s] = {}
  BY DEF Init, History
<1>3. History = [s \in Session |-> {}]
  BY <1>2 DEF History
<1> QED
  BY <1>1, <1>3 DEF Replica!Init

LEMMA StepReplica ==
    IInv /\ FutureIsEmpty /\ [Next]_vars => [Replica!Next]_<<History, View>>
<1> SUFFICES ASSUME IInv, FutureIsEmpty, [Next]_vars
             PROVE  Replica!Next \/ UNCHANGED <<History, View>>
  OBVIOUS
<1>1. CASE Publish
  BY <1>1, PublishAddsHistory DEF Replica!Next
<1>2. CASE ~Publish
  <2>1. History' = History
    BY <1>2, MutationKeepsHistory, OthersKeepHistory
  <2> QED BY <2>1, ShownStep DEF Replica!Next
<1> QED
  BY <1>1, <1>2

\* Every behaviour of the pipeline is one of the abstract replica: what is shown
\* is always a published book, later than the one shown before it.
THEOREM RefinesReplica == Spec => ImplementsReplica
<1>1. Spec => []FutureIsEmpty
  <2>1. IInv /\ FutureIsEmpty /\ [Next]_vars => FutureIsEmpty'
    BY NextFuture
  <2> QED BY <2>1, InitFuture, Invariance, PTL DEF Spec
<1> QED
  BY <1>1, InitReplica, StepReplica, Invariance, PTL DEF Spec, ImplementsReplica, Replica!Spec

-----------------------------------------------------------------------------
(* The freshness monitor. *)

\* The server at the other end of an open socket is a real one.
LEMMA ConnSessionType ==
    ASSUME IInv, OneServer, sock # "closed"
    PROVE  ConnSession \in Session /\ pub[ConnSession] \in Nat
<1>1. wire \in Seq(WireFrame) /\ sock \in {"closed", "opening", "live"}
      /\ \A s \in Session : pub[s] \in Nat
  BY DEF IInv, TypeOK, Seq0
<1>2. CASE sock = "opening"
  <2>1. wire # <<>>
    BY <1>2 DEF OneServer
  <2>2. 1 \in 1 .. Len(wire)
    BY <1>1, <2>1, EmptySeq, LenProperties
  <2>3. wire[1] \in WireFrame
    BY <1>1, <2>2, ElementOfSeq
  <2> QED BY <1>1, <1>2, <2>3 DEF ConnSession, WireFrame
<1>3. CASE sock = "live"
  BY <1>1, <1>3 DEF OneServer, ConnSession
<1> QED BY <1>1, <1>2, <1>3

\* A heartbeat advertises what its server has published.
LEMMA NextHeartbeats ==
    ASSUME IInv, OneServer, HeartbeatsAreTrue, [Next]_vars
    PROVE  HeartbeatsAreTrue'
<1>0. /\ wire \in Seq(WireFrame) /\ session \in Session
      /\ \A s \in Session : pub[s] \in Nat /\ pub'[s] \in Nat /\ pub[s] <= pub'[s]
  BY PubGrows DEF IInv, TypeOK
<1>1. ASSUME NEW f \in WireFrame, f.kind = "heartbeat" => f.seq <= pub[f.session]
      PROVE  f.kind = "heartbeat" => f.seq <= pub'[f.session]
  <2>1. f.seq \in Nat /\ f.session \in Session
    BY DEF WireFrame, Seq0
  <2> QED BY <1>0, <1>1, <2>1
<1>2. \A i \in DOMAIN wire : /\ wire[i] \in WireFrame
                             /\ wire[i].kind = "heartbeat" => wire[i].seq <= pub[wire[i].session]
  BY <1>0, ElementOfSeq, LenProperties DEF HeartbeatsAreTrue
<1>3. CASE UNCHANGED wire
  BY <1>1, <1>2, <1>3 DEF HeartbeatsAreTrue
<1>4. CASE FlushReset \/ FlushRange \/ Heartbeat
  <2>1. \/ wire' = wire
        \/ \E f \in WireFrame : /\ wire' = Append(wire, f) /\ f.session = session
                                /\ f.kind = "heartbeat" => f.seq = pub[session]
    BY <1>4, Writes
  <2>2. ASSUME NEW f \in WireFrame, wire' = Append(wire, f), f.session = session,
               f.kind = "heartbeat" => f.seq = pub[session]
        PROVE  HeartbeatsAreTrue'
    <3>1. /\ DOMAIN wire' = 1 .. Len(wire) + 1 /\ Len(wire) \in Nat
          /\ DOMAIN wire = 1 .. Len(wire)
          /\ \A i \in 1 .. Len(wire) : wire'[i] = wire[i]
          /\ wire'[Len(wire) + 1] = f
      BY <1>0, <2>2, AppendProperties, LenProperties
    <3>2. f.kind = "heartbeat" => f.seq <= pub[f.session]
      BY <1>0, <2>2
    <3>3. ASSUME NEW i \in DOMAIN wire'
          PROVE  wire'[i].kind = "heartbeat" => wire'[i].seq <= pub'[wire'[i].session]
      <4>1. CASE i \in 1 .. Len(wire)
        BY <1>1, <1>2, <3>1, <4>1
      <4>2. CASE i = Len(wire) + 1
        BY <1>1, <3>1, <3>2, <4>2
      <4> QED BY <3>1, <4>1, <4>2
    <3> QED BY <3>3 DEF HeartbeatsAreTrue
  <2> QED BY <1>3, <2>1, <2>2
<1>5. CASE ReceiveHello \/ ReceiveUpdate \/ ReceiveReset \/ ReceiveHeartbeat
  <2>1. wire # <<>> /\ wire' = Tail(wire)
    BY <1>5 DEF ReceiveHello, ReceiveUpdate, ReceiveReset, ReceiveHeartbeat
  <2>2. \A i \in DOMAIN wire' : i + 1 \in DOMAIN wire /\ wire'[i] = wire[i + 1]
    BY <1>0, <2>1, TailIndex
  <2> QED BY <1>1, <1>2, <2>2 DEF HeartbeatsAreTrue
<1>6. CASE Connect
  <2>1. DOMAIN wire' = {1} /\ wire'[1].kind = "hello"
    BY <1>6 DEF Connect, Frame
  <2> QED BY <2>1 DEF HeartbeatsAreTrue
<1>7. CASE ServerClosed \/ ClientClose \/ RetryDown
  <2>1. wire' = <<>>
    BY <1>7 DEF ServerClosed, ClientClose, RetryDown, CloseSocket
  <2> QED BY <2>1 DEF HeartbeatsAreTrue
<1>8. CASE \/ Mutation \/ Publish \/ Restart \/ DropNext \/ ServerClose \/ Capture
           \/ CaptureFails \/ SnapshotArrives \/ Resync \/ RetryLive \/ UNCHANGED vars
  BY <1>3, <1>8 DEF Mutation, MutateLevel, Publish, Restart, DropNext, ServerClose, Capture,
                    CaptureFails, SnapshotArrives, Resync, RetryLive, vars
<1> QED BY <1>4, <1>5, <1>6, <1>7, <1>8 DEF Next

\* Only a range or a snapshot moves the book on show; anything else keeps or
\* clears it.
LEMMA BookStays ==
    ASSUME IInv,
           \/ Mutation \/ Publish \/ Restart \/ FlushReset \/ FlushRange \/ Heartbeat
           \/ DropNext \/ ServerClose \/ Capture \/ CaptureFails \/ Connect \/ ServerClosed
           \/ ClientClose \/ ReceiveHello \/ ReceiveReset \/ ReceiveHeartbeat \/ Resync
           \/ RetryLive \/ RetryDown
    PROVE  sync'.expectedSeq \in {sync.expectedSeq, None}
<1>0. sync \in SyncState /\ RequestSnapshot(sync).expectedSeq = sync.expectedSeq
      /\ \A gen : Failed(sync, gen).expectedSeq = sync.expectedSeq
  BY RequestSnapshotStep DEF IInv, TypeOK, Failed
<1>1. CASE CaptureFails
  BY <1>0, <1>1 DEF CaptureFails
<1>2. CASE ReceiveReset \/ Resync
  BY <1>0, <1>2 DEF ReceiveReset, Resync
<1>3. CASE RetryLive
  BY <1>3 DEF RetryLive, Start
<1>4. CASE ReceiveHello
  BY <1>0, <1>4 DEF ReceiveHello, Start
<1>5. CASE UNCHANGED sync
  BY <1>5
<1>6. CASE \/ Mutation \/ Publish \/ Restart \/ FlushReset \/ FlushRange \/ Heartbeat
           \/ DropNext \/ ServerClose \/ Capture \/ Connect \/ ServerClosed
           \/ ClientClose \/ ReceiveHeartbeat \/ RetryDown
  BY <1>5, <1>6 DEF Mutation, MutateLevel, Publish, Restart, FlushReset, FlushRange,
       Heartbeat, DropNext, ServerClose, Capture, Connect, ServerClosed, ClientClose,
       ReceiveHeartbeat, RetryDown
<1> QED
  BY <1>1, <1>2, <1>3, <1>4, <1>6

\* A book that has moved is synchronised.
LEMMA BookMoves ==
    ASSUME IInv, ReceiveUpdate \/ SnapshotArrives
    PROVE  sync'.expectedSeq = sync.expectedSeq \/ sync'.status = "synced"
<1>0. sync \in SyncState /\ RequestSnapshot(sync).expectedSeq = sync.expectedSeq
      /\ \A gen : Failed(sync, gen).expectedSeq = sync.expectedSeq
  BY RequestSnapshotStep DEF IInv, TypeOK, Failed
<1>1. CASE ReceiveUpdate
  <2> DEFINE s == Incoming.session
             r == Incoming.range
             book == ApplyRange(sync.book, r)
             e == r.to + 1
  <2>1. sync' = ReceiveRange(sync, s, r)
    BY <1>1 DEF ReceiveUpdate
  <2>2. \/ sync' = sync \/ sync' = RequestSnapshot(sync)
        \/ sync' = [sync EXCEPT !.buffered = Append(@, r)]
        \/ sync.status = "synced" /\ sync' = [sync EXCEPT !.book = book, !.expectedSeq = e]
    <3> HIDE DEF s, r
    <3> QED BY <2>1 DEF ReceiveRange
  <2> HIDE DEF s, r, book, e
  <2> QED BY <1>0, <2>2 DEF SyncState
<1>2. CASE SnapshotArrives
  <2> DEFINE snap == fetch.snap
             gen == fetch.gen
             book == ReplayedBook(sync.buffered, snap, Len(sync.buffered))
             e == ReplayedExpected(sync.buffered, snap.seq)
  <2>1. \/ sync' = sync \/ sync' = Failed(sync, gen)
        \/ sync' = ReceiveSnapshot(sync, snap, gen)
    BY <1>2 DEF SnapshotArrives
  <2>2. \/ ReceiveSnapshot(sync, snap, gen) = sync
        \/ ReceiveSnapshot(sync, snap, gen) = RequestSnapshot(sync)
        \/ ReceiveSnapshot(sync, snap, gen) = Synced(sync, book, e)
    BY DEF ReceiveSnapshot
  <2> HIDE DEF snap, gen, book, e
  <2>3. Synced(sync, book, e).status = "synced"
    BY <1>0 DEF Synced, SyncState
  <2> QED BY <1>0, <2>1, <2>2, <2>3
<1> QED BY <1>1, <1>2

LEMMA PanelAppliedStep ==
    ASSUME NEW p \in PanelState, NEW head \in Nat
    PROVE  /\ PanelApplied(p, head) \in PanelState
           /\ PanelApplied(p, head).advertised = p.advertised
           /\ head <= PanelApplied(p, head).local
<1>1. CASE p.local # None /\ head <= p.local
  BY <1>1 DEF PanelApplied, PanelState
<1>2. CASE ~(p.local # None /\ head <= p.local)
  <2> DEFINE behind == head < p.advertised
  <2>1. PanelApplied(p, head)
          = [p EXCEPT !.local = head, !.resynced = FALSE, !.stalled = behind]
    BY <1>2 DEF PanelApplied
  <2>2. behind \in BOOLEAN
    BY DEF PanelState
  <2> HIDE DEF behind
  <2> DEFINE q == [p EXCEPT !.local = head, !.resynced = FALSE, !.stalled = behind]
  <2>3. q.local = head /\ q.advertised = p.advertised
    BY DEF PanelState
  <2>4. q \in PanelState
    BY <2>2 DEF PanelState
  <2>5. head <= q.local
    BY <2>3
  <2> HIDE DEF q
  <2> QED BY <2>1, <2>3, <2>4, <2>5 DEF q
<1> QED BY <1>1, <1>2

LEMMA RecordAdvertisedStep ==
    ASSUME NEW p \in PanelState, NEW head \in Nat
    PROVE  /\ RecordAdvertisedHead(p, head) \in PanelState
           /\ RecordAdvertisedHead(p, head).advertised = head
           /\ RecordAdvertisedHead(p, head).local = p.local
BY DEF RecordAdvertisedHead, PanelState

\* Only Connect opens a socket.
LEMMA StaysClosed ==
    ASSUME \/ Mutation \/ Publish \/ Restart \/ FlushReset \/ FlushRange \/ Heartbeat
           \/ DropNext \/ ServerClose \/ Capture \/ CaptureFails \/ SnapshotArrives
           \/ ServerClosed \/ ClientClose \/ ReceiveHello \/ ReceiveUpdate \/ ReceiveReset
           \/ ReceiveHeartbeat \/ Resync \/ RetryLive \/ RetryDown \/ UNCHANGED vars
    PROVE  sock = "closed" => sock' = "closed"
BY DEF Mutation, MutateLevel, Publish, Restart, FlushReset, FlushRange, Heartbeat, DropNext,
       ServerClose, Capture, CaptureFails, SnapshotArrives, ServerClosed, ClientClose,
       ReceiveHello, ReceiveUpdate, ReceiveReset, ReceiveHeartbeat, Resync, RetryLive,
       RetryDown, CloseSocket, vars

\* The monitor's steps are steps of the pipeline, or of the tab's visibility.
LEMMA MonitorSteps ==
    ASSUME [FNext]_fvars
    PROVE  [Next]_vars \/ Hide
BY DEF FNext, Unobserved, FConnect, FReceiveUpdate, FSnapshotArrives, FReceiveHeartbeat,
       OtherUpdate, HealthTick, Unhide, FRetry, Next, fvars

LEMMA HideKeeps ==
    ASSUME IInv, GInv, Hide
    PROVE  IInv' /\ GInv'
<1>1. UNCHANGED <<session, log, pub, conn, wire, sock, sync, fetch, manual>> /\ EnvMove
  BY DEF Hide
<1>2. TypeOK
  BY DEF IInv
<1>3. env' \in 0 .. MaxEnv /\ conn' \in ConnState /\ wire' \in Seq(WireFrame) /\ WireRangesOK'
  BY <1>1, <1>2, EnvType DEF TypeOK, IInv, WireRangesOK
<1>4. IInv'
  BY <1>1, <1>3, WriteKeeps
<1>5. OneServer'
  <2>1. \A s \in Session : pub'[s] \in Nat /\ pub[s] <= pub'[s]
    BY <1>1, <1>2 DEF TypeOK, Seq0
  <2> QED BY <1>1, <2>1, OneServerSame DEF GInv
<1>6. ~conn.dropped => Chain' /\ NothingMissing'
  <2> SUFFICES ASSUME ~conn.dropped PROVE Chain' /\ NothingMissing'
    OBVIOUS
  <2>1. Chain'
    BY <1>1, ChainSame DEF GInv
  <2>2. NothingMissing'
    BY <1>1 DEF GInv, NothingMissing, NextStartsIn
  <2> QED BY <2>1, <2>2
<1> QED
  BY <1>1, <1>4, <1>5, <1>6 DEF GInv

\* The panel is left alone or reset while the pipeline moves.
LEMMA PanelKeeps ==
    ASSUME IInv, OneServer, PanelInv, [Next]_vars, panel' \in PanelState, hidden' \in BOOLEAN,
           sock = "closed" => sock' = "closed",
           panel'.advertised = panel.advertised \/
             (sock # "closed" /\ panel'.advertised <= pub[ConnSession]),
           LocalIsShown'
    PROVE  PanelInv'
<1>1. HeartbeatsAreTrue'
  BY NextHeartbeats DEF PanelInv
<1>2. AdvertisedIsPublished'
  <2> SUFFICES ASSUME sock' # "closed" PROVE panel'.advertised <= pub'[ConnSession']
    BY DEF AdvertisedIsPublished
  <2>1. sock # "closed" /\ ConnSession' = ConnSession
    BY NextOneServer
  <2>2. ConnSession \in Session
    BY <2>1, ConnSessionType
  <2>3. /\ pub[ConnSession] \in Nat /\ pub'[ConnSession] \in Nat
        /\ pub[ConnSession] <= pub'[ConnSession]
    BY <2>2, PubGrows
  <2>4. panel'.advertised <= pub[ConnSession] /\ panel'.advertised \in Nat
    BY <2>1 DEF PanelInv, AdvertisedIsPublished, PanelState
  <2> QED BY <2>1, <2>3, <2>4
<1> QED
  BY <1>1, <1>2 DEF PanelInv

\* Evidence from a book the engine shows.
LEMMA ReportKeeps ==
    ASSUME IInv, PanelInv, sync' \in SyncState,
           sync'.expectedSeq \in {sync.expectedSeq, None} \/ sync'.status = "synced",
           sync'.status = "synced" => sync'.expectedSeq # None,
           panel' = ReportApplied(sync'), hidden' = hidden
    PROVE  /\ panel' \in PanelState /\ panel'.advertised = panel.advertised
           /\ LocalIsShown'
<1>0. panel \in PanelState /\ LocalIsShown /\ sync'.expectedSeq \in Nat
  BY DEF PanelInv, SyncState
<1>1. CASE sync'.status = "synced" /\ ~hidden
  <2> DEFINE head == sync'.expectedSeq - 1
  <2>1. panel' = PanelApplied(panel, head)
    BY <1>1 DEF ReportApplied
  <2>2. head \in Nat
    BY <1>0, <1>1 DEF None
  <2> HIDE DEF head
  <2>3. panel' \in PanelState /\ panel'.advertised = panel.advertised /\ head <= panel'.local
    BY <1>0, <2>1, <2>2, PanelAppliedStep
  <2> QED BY <2>3 DEF LocalIsShown, head
<1>2. CASE ~(sync'.status = "synced" /\ ~hidden)
  <2>1. panel' = panel
    BY <1>2 DEF ReportApplied
  <2> QED BY <1>0, <1>2, <2>1 DEF LocalIsShown
<1> QED BY <1>1, <1>2

LEMMA SyncedShows ==
    ASSUME IInv
    PROVE  sync \in SyncState /\ (sync.status = "synced" => sync.expectedSeq # None)
BY DEF IInv, TypeOK, SyncRight

LEMMA NextPanelInv ==
    ASSUME IInv, OneServer, PanelInv, [FNext]_fvars
    PROVE  PanelInv'
<1>0. /\ panel \in PanelState /\ hidden \in BOOLEAN /\ HeartbeatsAreTrue
      /\ AdvertisedIsPublished /\ LocalIsShown
  BY DEF PanelInv
<1>n. NewPanel \in PanelState /\ NewPanel.local = None /\ NewPanel.advertised = 0
  BY DEF NewPanel, PanelState, None
<1>1. CASE Unobserved \/ FRetry
  <2>1. [Next]_vars /\ panel' = panel /\ hidden' = hidden
    BY <1>1 DEF Unobserved, FRetry, Next
  <2>2. sock = "closed" => sock' = "closed"
    BY <1>1, StaysClosed DEF Unobserved, FRetry
  <2>3. sync'.expectedSeq \in {sync.expectedSeq, None}
    BY <1>1, BookStays DEF Unobserved, FRetry
  <2>4. LocalIsShown'
    BY <1>0, <2>1, <2>3 DEF LocalIsShown
  <2> QED BY <1>0, <2>1, <2>2, <2>4, PanelKeeps
<1>2. CASE FConnect
  <2>1. Connect /\ [Next]_vars /\ panel' = NewPanel /\ hidden' = hidden
    BY <1>2 DEF FConnect, Next
  <2>2. HeartbeatsAreTrue'
    BY <1>0, <2>1, NextHeartbeats
  <2>3. AdvertisedIsPublished'
    <3>1. ConnSession' = session /\ session \in Session /\ pub' = pub
      BY <2>1 DEF Connect, ConnSession, Frame, IInv, TypeOK
    <3>2. pub[session] \in Nat
      BY <3>1 DEF IInv, TypeOK, Seq0
    <3> QED BY <1>n, <2>1, <3>1, <3>2 DEF AdvertisedIsPublished
  <2>4. LocalIsShown'
    BY <1>n, <2>1 DEF LocalIsShown
  <2> QED BY <1>0, <1>n, <2>1, <2>2, <2>3, <2>4 DEF PanelInv
<1>3. CASE FReceiveUpdate \/ FSnapshotArrives
  <2>1. /\ ReceiveUpdate \/ SnapshotArrives
        /\ [Next]_vars /\ panel' = ReportApplied(sync') /\ hidden' = hidden
    BY <1>3 DEF FReceiveUpdate, FSnapshotArrives, Next
  <2>2. sock = "closed" => sock' = "closed"
    BY <2>1, StaysClosed
  <2>3. sync' \in SyncState /\ (sync'.status = "synced" => sync'.expectedSeq # None)
    BY <2>1, NextIInv, SyncedShows DEF IInv, TypeOK, SyncRight
  <2>4. sync'.expectedSeq = sync.expectedSeq \/ sync'.status = "synced"
    BY <2>1, BookMoves
  <2>5. /\ panel' \in PanelState /\ panel'.advertised = panel.advertised
        /\ LocalIsShown'
    BY <2>1, <2>3, <2>4, ReportKeeps
  <2> QED BY <1>0, <2>1, <2>2, <2>5, PanelKeeps
<1>4. CASE FReceiveHeartbeat
  <2>1. /\ ReceiveHeartbeat /\ [Next]_vars /\ hidden' = hidden
        /\ panel' = IF hidden THEN panel ELSE RecordAdvertisedHead(panel, Incoming.seq)
    BY <1>4 DEF FReceiveHeartbeat, Next
  <2>2. sock = "live" /\ sock' = "live" /\ Incoming.kind = "heartbeat" /\ wire # <<>>
    BY <2>1 DEF ReceiveHeartbeat
  <2>3. 1 \in DOMAIN wire /\ Incoming \in WireFrame
    <3>1. wire \in Seq(WireFrame)
      BY DEF IInv, TypeOK
    <3>2. 1 \in 1 .. Len(wire)
      BY <2>2, <3>1, EmptySeq, LenProperties
    <3> QED BY <3>1, <3>2, ElementOfSeq, LenProperties DEF Incoming
  <2>4. Incoming.seq \in Nat /\ Incoming.session = ConnSession
    BY <2>3 DEF WireFrame, Seq0, OneServer, Incoming
  <2>5. Incoming.seq <= pub[ConnSession]
    BY <1>0, <2>2, <2>3, <2>4 DEF HeartbeatsAreTrue, Incoming
  <2>6. /\ panel' \in PanelState /\ panel'.local = panel.local
        /\ panel'.advertised = panel.advertised \/ panel'.advertised = Incoming.seq
    BY <1>0, <2>1, <2>4, RecordAdvertisedStep
  <2>7. sync'.expectedSeq = sync.expectedSeq
    BY <2>1 DEF ReceiveHeartbeat
  <2>8. LocalIsShown'
    BY <1>0, <2>1, <2>6, <2>7 DEF LocalIsShown
  <2> QED BY <1>0, <2>1, <2>2, <2>5, <2>6, <2>8, PanelKeeps
<1>5. CASE OtherUpdate
  <2>1. UNCHANGED vars /\ panel' = ReportApplied(sync') /\ hidden' = hidden
        /\ sync' = sync
    BY <1>5 DEF OtherUpdate, vars
  <2>2. sock = "closed" => sock' = "closed"
    BY <2>1, StaysClosed
  <2>3. /\ panel' \in PanelState /\ panel'.advertised = panel.advertised
        /\ LocalIsShown'
    BY <2>1, SyncedShows, ReportKeeps
  <2> QED BY <1>0, <2>1, <2>2, <2>3, PanelKeeps
<1>6. CASE HealthTick
  <2>1. /\ Resync /\ [Next]_vars /\ hidden' = hidden
        /\ panel' = [panel EXCEPT !.resynced = TRUE]
    BY <1>6 DEF HealthTick, Next
  <2>2. sock = "closed" => sock' = "closed"
    BY <2>1, StaysClosed
  <2>3. /\ panel' \in PanelState /\ panel'.advertised = panel.advertised
        /\ panel'.local = panel.local
    BY <1>0, <2>1 DEF PanelState
  <2>4. sync'.expectedSeq \in {sync.expectedSeq, None}
    BY <2>1, BookStays
  <2>5. LocalIsShown'
    BY <1>0, <2>1, <2>3, <2>4 DEF LocalIsShown
  <2> QED BY <1>0, <2>1, <2>2, <2>3, <2>5, PanelKeeps
<1>7. CASE Hide
  BY <1>0, <1>7 DEF Hide, PanelInv, HeartbeatsAreTrue, AdvertisedIsPublished, LocalIsShown,
                    ConnSession
<1>8. CASE Unhide
  <2>1. UNCHANGED <<pub, wire, sock, sync>> /\ panel' = NewPanel /\ hidden' = FALSE
    BY <1>8 DEF Unhide, vars
  <2>2. HeartbeatsAreTrue'
    BY <1>0, <2>1 DEF HeartbeatsAreTrue
  <2>3. AdvertisedIsPublished'
    <3>1. sock # "closed" => pub[ConnSession] \in Nat
      BY ConnSessionType
    <3> QED BY <1>n, <2>1, <3>1 DEF AdvertisedIsPublished, ConnSession
  <2>4. LocalIsShown'
    BY <1>n, <2>1 DEF LocalIsShown
  <2> QED BY <1>n, <2>1, <2>2, <2>3, <2>4 DEF PanelInv
<1>9. CASE UNCHANGED fvars
  BY <1>0, <1>9 DEF fvars, vars, PanelInv, HeartbeatsAreTrue, AdvertisedIsPublished,
                    LocalIsShown, ConnSession
<1> QED
  BY <1>1, <1>2, <1>3, <1>4, <1>5, <1>6, <1>7, <1>8, <1>9 DEF FNext

\* The pipeline's invariants hold with the monitor attached.
THEOREM MonitoredInvariance == FSpec => [](IInv /\ GInv /\ PanelInv)
<1>1. FInit => IInv /\ GInv /\ PanelInv
  <2> SUFFICES ASSUME FInit PROVE IInv /\ GInv /\ PanelInv
    OBVIOUS
  <2>1. IInv /\ GInv
    BY InitIInv, InitGInv DEF FInit
  <2>2. PanelInv
    <3>1. wire = <<>> /\ sock = "closed" /\ panel = NewPanel /\ hidden = FALSE
      BY DEF FInit, Init
    <3>2. NewPanel \in PanelState /\ NewPanel.local = None
      BY DEF NewPanel, PanelState, None
    <3>3. HeartbeatsAreTrue
      BY <3>1 DEF HeartbeatsAreTrue
    <3> QED BY <3>1, <3>2, <3>3 DEF PanelInv, AdvertisedIsPublished, LocalIsShown
  <2> QED BY <2>1, <2>2
<1>2. IInv /\ GInv /\ PanelInv /\ [FNext]_fvars => (IInv /\ GInv /\ PanelInv)'
  <2> SUFFICES ASSUME IInv, GInv, PanelInv, [FNext]_fvars PROVE IInv' /\ GInv' /\ PanelInv'
    OBVIOUS
  <2>1. IInv' /\ GInv'
    BY MonitorSteps, NextIInv, NextGInv, HideKeeps
  <2>2. PanelInv'
    BY NextPanelInv DEF GInv
  <2> QED BY <2>1, <2>2
<1> QED
  BY <1>1, <1>2, PTL DEF FSpec

\* A resync is never spent on a book that is current: what the panel takes for
\* behind really is behind what the server has published.
THEOREM ResyncsOnlyBehind == FSpec => ResyncOnlyBehind
<1>1. IInv /\ GInv /\ PanelInv /\ [FNext]_fvars =>
        [HealthTick => (sync.session # session \/ sync.expectedSeq <= Published)]_fvars
  <2> SUFFICES ASSUME IInv, GInv, PanelInv, HealthTick, sync.session = session
               PROVE  sync.expectedSeq <= Published
    OBVIOUS
  <2>1. /\ ~hidden /\ sock = "live" /\ panel.local # None
        /\ panel.advertised > panel.local
    BY DEF HealthTick, IsStalled, Resync
  <2>2. ConnSession = session
    BY <2>1 DEF ConnSession
  <2>3. panel.advertised <= pub[session]
    BY <2>1, <2>2 DEF PanelInv, AdvertisedIsPublished
  <2>4. sync.expectedSeq # None => sync.expectedSeq - 1 <= panel.local
    BY <2>1 DEF PanelInv, LocalIsShown
  <2>5. /\ panel.local \in Nat /\ panel.advertised \in Nat /\ sync.expectedSeq \in Nat
        /\ pub[session] \in Nat
    BY DEF PanelInv, PanelState, IInv, TypeOK, SyncState, Seq0
  <2> QED BY <2>1, <2>3, <2>4, <2>5 DEF Published, None
<1> QED
  BY <1>1, MonitoredInvariance, PTL DEF FSpec, ResyncOnlyBehind

\* The monitor does not change what is shown: with it, too, every behaviour of
\* the pipeline is one of the abstract replica.
THEOREM MonitoredReplica == FSpec => ImplementsReplica
<1>1. Hide => UNCHANGED <<session, log, sync, History, View>>
  BY DEF Hide, History, View
<1>2. FSpec => []FutureIsEmpty
  <2>1. FInit => FutureIsEmpty
    BY InitFuture DEF FInit
  <2>2. IInv /\ FutureIsEmpty /\ [FNext]_fvars => FutureIsEmpty'
    BY <1>1, MonitorSteps, NextFuture DEF FutureIsEmpty
  <2> QED BY <2>1, <2>2, MonitoredInvariance, PTL DEF FSpec
<1>3. FInit => Replica!Init
  BY InitReplica DEF FInit
<1>4. IInv /\ FutureIsEmpty /\ [FNext]_fvars => [Replica!Next]_<<History, View>>
  <2> SUFFICES ASSUME IInv, FutureIsEmpty, [FNext]_fvars
               PROVE  [Replica!Next]_<<History, View>>
    OBVIOUS
  <2>1. CASE [Next]_vars
    BY <2>1, StepReplica
  <2>2. CASE Hide
    BY <1>1, <2>2
  <2> QED BY <2>1, <2>2, MonitorSteps
<1> QED
  BY <1>2, <1>3, <1>4, MonitoredInvariance, PTL DEF FSpec, ImplementsReplica, Replica!Spec

=============================================================================
