------------------------ MODULE MatchingEngineProofs ------------------------
(***************************************************************************)
(* Theorems about MatchingEngine, for all limits: the records of the       *)
(* engine agree, the book does not cross, its level changes rebuild it,    *)
(* and makers give in the order of price and time.                         *)
(*                                                                         *)
(* The matching loop and the sums of lots are recursive functions.  Their  *)
(* equations are proved first, by induction over a set of numbers.         *)
(***************************************************************************)
EXTENDS MatchingEngine, FiniteSetTheorems, SequenceTheorems, WellFoundedInduction, TLAPS

-----------------------------------------------------------------------------
(* Induction and recursion. *)

LEMMA LeastNumber ==
    ASSUME NEW T \in SUBSET Nat, T # {}
    PROVE  \E n \in T : \A m \in T : n <= m
<1>1. IsWellFoundedOn(OpToRel(<, Nat), Nat)
  BY NatLessThanWellFounded
<1>2. PICK n \in T : \A m \in T : <<m, n>> \notin OpToRel(<, Nat)
  BY <1>1, WFMin, Zenon
<1>3. \A m \in T : ~(m < n)
  BY <1>2 DEF OpToRel
<1> QED BY <1>3

\* Induction: a set with 0 that has n + 1 with n holds all numbers.
LEMMA Numbers ==
    ASSUME NEW T, 0 \in T, \A n \in Nat : n \in T => n + 1 \in T
    PROVE  Nat \subseteq T
<1> SUFFICES ASSUME Nat \ T # {} PROVE FALSE
  OBVIOUS
<1>1. PICK n \in Nat \ T : \A m \in Nat \ T : n <= m
  BY LeastNumber
<1>2. n # 0
  OBVIOUS
<1>3. n - 1 \in Nat /\ ~(n <= n - 1)
  BY <1>2
<1>4. n - 1 \in T
  BY <1>1, <1>3
<1> QED BY <1>3, <1>4

IsSum(f, seq) ==
    /\ f = [k \in 0 .. Len(seq) |-> IF k = 0 THEN 0 ELSE f[k - 1] + seq[k]]

\* The partial sums of a sequence exist ...
LEMMA SumsExist ==
    ASSUME NEW seq \in Seq(Int)
    PROVE  \E f : IsSum(f, seq) /\ f \in [0 .. Len(seq) -> Int]
<1> DEFINE Upto(f, n) == /\ f \in [0 .. n -> Int] /\ f[0] = 0
                         /\ \A k \in 1 .. n : f[k] = f[k - 1] + seq[k]
           T == {n \in Nat : n <= Len(seq) => \E f : Upto(f, n)}
<1>1. 0 \in T
  <2>1. Upto([k \in 0 .. 0 |-> 0], 0)
    OBVIOUS
  <2> QED BY <2>1
<1>2. ASSUME NEW n \in Nat, n \in T PROVE n + 1 \in T
  <2> SUFFICES ASSUME n + 1 <= Len(seq) PROVE \E f : Upto(f, n + 1)
    <3> HIDE DEF Upto
    <3> QED OBVIOUS
  <2>0. \E f : Upto(f, n)
    <3> HIDE DEF Upto
    <3> QED BY <1>2
  <2>1. PICK f : Upto(f, n)
    BY <2>0
  <2> DEFINE g == [k \in 0 .. n + 1 |-> IF k = n + 1 THEN f[n] + seq[n + 1] ELSE f[k]]
  <2>2. seq[n + 1] \in Int /\ f[n] \in Int
    BY <2>1
  <2>3. g \in [0 .. n + 1 -> Int] /\ g[0] = 0
    BY <2>1, <2>2
  <2>4. \A k \in 1 .. n + 1 : g[k] = g[k - 1] + seq[k]
    BY <2>1
  <2> QED BY <2>3, <2>4
<1>3. Nat \subseteq T
  <2> HIDE DEF T
  <2> QED BY <1>1, <1>2, Numbers
<1>4. PICK f : Upto(f, Len(seq))
  BY <1>3
<1>5. f = [k \in 0 .. Len(seq) |-> IF k = 0 THEN 0 ELSE f[k - 1] + seq[k]]
  BY <1>4
<1> QED BY <1>4, <1>5 DEF IsSum

\* ... and are unique.
LEMMA SumsAgree ==
    ASSUME NEW seq \in Seq(Int), NEW f, NEW g, IsSum(f, seq), IsSum(g, seq)
    PROVE  f = g
<1> DEFINE T == {n \in Nat : n <= Len(seq) => f[n] = g[n]}
<1>1. \A k \in 0 .. Len(seq) : /\ f[k] = IF k = 0 THEN 0 ELSE f[k - 1] + seq[k]
                               /\ g[k] = IF k = 0 THEN 0 ELSE g[k - 1] + seq[k]
  BY DEF IsSum
<1>2. 0 \in T
  BY <1>1
<1>3. ASSUME NEW n \in Nat, n \in T PROVE n + 1 \in T
  BY <1>1, <1>3
<1>4. Nat \subseteq T
  <2> HIDE DEF T
  <2> QED BY <1>2, <1>3, Numbers
<1>5. \A k \in 0 .. Len(seq) : f[k] = g[k]
  BY <1>4
<1> QED BY <1>5 DEF IsSum

\* Who adds up a sequence has its sum.
LEMMA SumIs ==
    ASSUME NEW seq \in Seq(Int), NEW f \in [0 .. Len(seq) -> Int], f[0] = 0,
           \A k \in 1 .. Len(seq) : f[k] = f[k - 1] + seq[k]
    PROVE  SumOf(seq) = f[Len(seq)]
<1> DEFINE sum == CHOOSE g : IsSum(g, seq)
<1>1. IsSum(f, seq)
  <2>1. f = [k \in 0 .. Len(seq) |-> IF k = 0 THEN 0 ELSE f[k - 1] + seq[k]]
    OBVIOUS
  <2> QED BY <2>1 DEF IsSum
<1>2. IsSum(sum, seq)
  BY <1>1
<1>3. sum = f
  <2> HIDE DEF sum
  <2> QED BY <1>1, <1>2, SumsAgree
<1>4. SumOf(seq) = sum[Len(seq)]
  BY DEF SumOf, IsSum
<1> QED BY <1>3, <1>4

Adds(f, seq, n) == f[0] = 0 /\ \A k \in 1 .. n : f[k] = f[k - 1] + seq[k]

LEMMA SumFacts ==
    ASSUME NEW seq \in Seq(Int)
    PROVE  \E f \in [0 .. Len(seq) -> Int] : Adds(f, seq, Len(seq)) /\ SumOf(seq) = f[Len(seq)]
<1>1. PICK f : IsSum(f, seq) /\ f \in [0 .. Len(seq) -> Int]
  BY SumsExist
<1>2. f[0] = 0 /\ \A k \in 1 .. Len(seq) : f[k] = f[k - 1] + seq[k]
  <2>1. \A k \in 0 .. Len(seq) : f[k] = IF k = 0 THEN 0 ELSE f[k - 1] + seq[k]
    BY <1>1 DEF IsSum
  <2>2. Len(seq) \in Nat
    OBVIOUS
  <2> QED BY <2>1, <2>2
<1>3. SumOf(seq) = f[Len(seq)]
  BY <1>1, <1>2, SumIs
<1> QED BY <1>1, <1>2, <1>3 DEF Adds

Replaced(new, seq, k, x, n) == \A j \in 1 .. n : new[j] = IF j = k THEN x ELSE seq[j]

LEMMA Shifted ==
    ASSUME NEW a \in Int, NEW b \in Int, NEW c \in Int, NEW d \in Int, NEW e \in Int, a = b + c
    PROVE  a - d + e = (b - d + e) + c
OBVIOUS

LEMMA SumChanges ==
    ASSUME NEW n \in Nat, NEW k \in 1 .. n, NEW seq \in [1 .. n -> Int], NEW new \in [1 .. n -> Int],
           NEW x \in Int, Replaced(new, seq, k, x, n), NEW f \in [0 .. n -> Int], Adds(f, seq, n)
    PROVE  \E g \in [0 .. n -> Int] : Adds(g, new, n) /\ g[n] = f[n] - seq[k] + x
<1> DEFINE g == [j \in 0 .. n |-> IF j < k THEN f[j] ELSE f[j] - seq[k] + x]
<1>1. seq[k] \in Int /\ \A j \in 0 .. n : f[j] \in Int
  OBVIOUS
<1>2. g \in [0 .. n -> Int] /\ g[0] = f[0] /\ g[n] = f[n] - seq[k] + x
  <2>1. \A j \in 0 .. n : (IF j < k THEN f[j] ELSE f[j] - seq[k] + x) \in Int
    BY <1>1
  <2>2. 0 \in 0 .. n /\ 0 < k /\ n \in 0 .. n /\ ~(n < k)
    OBVIOUS
  <2> QED BY <2>1, <2>2
<1>3. ASSUME NEW j \in 1 .. n PROVE g[j] = g[j - 1] + new[j]
  <2>1. f[j] = f[j - 1] + seq[j]
    BY DEF Adds
  <2>2. new[j] = IF j = k THEN x ELSE seq[j]
    BY DEF Replaced
  <2>3. j \in 0 .. n /\ j - 1 \in 0 .. n /\ j \in Int /\ k \in Int
    OBVIOUS
  <2>4. f[j] \in Int /\ f[j - 1] \in Int /\ seq[j] \in Int
    BY <1>1, <2>3
  <2>5. /\ g[j] = IF j < k THEN f[j] ELSE f[j] - seq[k] + x
        /\ g[j - 1] = IF j - 1 < k THEN f[j - 1] ELSE f[j - 1] - seq[k] + x
    BY <2>3
  <2> HIDE DEF g
  <2> DEFINE fj == f[j]
             fi == f[j - 1]
             at == seq[j]
             old == seq[k]
  <2>6. fj = fi + at /\ fj \in Int /\ fi \in Int /\ at \in Int /\ old \in Int
    BY <1>1, <2>1, <2>4
  <2>7. /\ g[j] = IF j < k THEN fj ELSE fj - old + x
        /\ g[j - 1] = IF j - 1 < k THEN fi ELSE fi - old + x
        /\ new[j] = IF j = k THEN x ELSE at
        /\ j = k => at = old
    BY <2>2, <2>5
  <2> HIDE DEF fj, fi, at, old
  <2>8. CASE j < k
    <3>1. j - 1 < k /\ j # k
      BY <2>3, <2>8
    <3>2. g[j] = fj /\ g[j - 1] = fi /\ new[j] = at
      BY <2>7, <2>8, <3>1, Zenon
    <3> QED BY <2>6, <3>2, Zenon
  <2>9. CASE j = k
    <3>1. ~(j < k) /\ j - 1 < k
      BY <2>3, <2>9
    <3>2. g[j] = fj - old + x /\ g[j - 1] = fi /\ new[j] = x /\ at = old
      BY <2>7, <2>9, <3>1, Zenon
    <3>3. fj - old + x = fi + x
      <4>1. fj = fi + old
        BY <2>6, <3>2, Zenon
      <4> QED BY <2>6, <4>1
    <3> QED BY <3>2, <3>3, Zenon
  <2>10. CASE j > k
    <3>1. ~(j < k) /\ ~(j - 1 < k) /\ j # k
      BY <2>3, <2>10
    <3>2. g[j] = fj - old + x /\ g[j - 1] = fi - old + x /\ new[j] = at
      BY <2>7, <3>1, Zenon
    <3>3. fj - old + x = (fi - old + x) + at
      BY <2>6, Shifted
    <3> QED BY <3>2, <3>3, Zenon
  <2> QED BY <2>3, <2>8, <2>9, <2>10
<1> HIDE DEF g
<1> QED BY <1>2, <1>3 DEF Adds

\* One element changes.
LEMMA SumChanged ==
    ASSUME NEW seq \in Seq(Int), NEW k \in 1 .. Len(seq), NEW x \in Int, NEW new \in Seq(Int),
           Len(new) = Len(seq), \A j \in 1 .. Len(seq) : new[j] = IF j = k THEN x ELSE seq[j]
    PROVE  SumOf(new) = SumOf(seq) - seq[k] + x
<1>1. PICK f \in [0 .. Len(seq) -> Int] : Adds(f, seq, Len(seq)) /\ SumOf(seq) = f[Len(seq)]
  BY SumFacts
<1>2. /\ Len(seq) \in Nat /\ seq \in [1 .. Len(seq) -> Int] /\ new \in [1 .. Len(seq) -> Int]
  BY LenProperties
<1>3. PICK g \in [0 .. Len(seq) -> Int] : Adds(g, new, Len(seq)) /\ g[Len(seq)] = f[Len(seq)] - seq[k] + x
  <2>1. Replaced(new, seq, k, x, Len(seq))
    BY DEF Replaced
  <2>2. seq \in [1 .. Len(seq) -> Int] /\ new \in [1 .. Len(seq) -> Int] /\ Len(seq) \in Nat
    BY <1>2
  <2> HIDE DEF Replaced, Adds
  <2> QED BY <1>1, <2>1, <2>2, SumChanges, ZenonT(60)
<1>4. SumOf(new) = g[Len(new)]
  BY <1>3, SumIs DEF Adds
<1> QED BY <1>1, <1>3, <1>4

Without(new, seq, k, n) == \A j \in 1 .. n - 1 : new[j] = IF j < k THEN seq[j] ELSE seq[j + 1]

LEMMA SumShrinks ==
    ASSUME NEW n \in Nat, NEW k \in 1 .. n, NEW seq \in [1 .. n -> Int], NEW new \in [1 .. n - 1 -> Int],
           Without(new, seq, k, n), NEW f \in [0 .. n -> Int], Adds(f, seq, n)
    PROVE  \E g \in [0 .. n - 1 -> Int] : Adds(g, new, n - 1) /\ g[n - 1] = f[n] - seq[k]
<1> DEFINE g == [j \in 0 .. n - 1 |-> IF j < k THEN f[j] ELSE f[j + 1] - seq[k]]
<1>1. seq[k] \in Int /\ \A j \in 0 .. n - 1 : f[j] \in Int /\ f[j + 1] \in Int
  OBVIOUS
<1>2. g \in [0 .. n - 1 -> Int] /\ g[0] = f[0]
  <2>1. 0 \in 0 .. n - 1 /\ 0 < k
    OBVIOUS
  <2>2. g[0] = f[0]
    BY <2>1
  <2>3. ASSUME NEW j \in 0 .. n - 1 PROVE (IF j < k THEN f[j] ELSE f[j + 1] - seq[k]) \in Int
    <3>1. f[j] \in Int /\ f[j + 1] \in Int
      BY <1>1
    <3> QED BY <1>1, <3>1
  <2> QED BY <2>2, <2>3
<1>3. g[n - 1] = f[n] - seq[k]
  <2>1. f[k] = f[k - 1] + seq[k]
    BY DEF Adds
  <2>2. f[k] \in Int /\ f[k - 1] \in Int /\ seq[k] \in Int
    OBVIOUS
  <2> QED BY <2>1, <2>2
<1>4. ASSUME NEW j \in 1 .. n - 1 PROVE g[j] = g[j - 1] + new[j]
  <2>4. j - 1 + 1 = j /\ j + 1 - 1 = j /\ j \in 1 .. n /\ j + 1 \in 1 .. n /\ j \in Int
    OBVIOUS
  <2>1. f[j] = f[j - 1] + seq[j] /\ f[j + 1] = f[j] + seq[j + 1]
    <3>1. \A i \in 1 .. n : f[i] = f[i - 1] + seq[i]
      BY DEF Adds
    <3>2. f[j + 1] = f[j + 1 - 1] + seq[j + 1]
      BY <2>4, <3>1
    <3> QED BY <2>4, <3>1, <3>2
  <2>2. /\ f[j - 1] \in Int /\ f[j] \in Int /\ f[j + 1] \in Int
        /\ seq[j] \in Int /\ seq[j + 1] \in Int
    BY <2>4
  <2>3. /\ g[j] = IF j < k THEN f[j] ELSE f[j + 1] - seq[k]
        /\ g[j - 1] = IF j - 1 < k THEN f[j - 1] ELSE f[j] - seq[k]
        /\ new[j] = IF j < k THEN seq[j] ELSE seq[j + 1]
    BY <2>4 DEF Without
  <2> HIDE DEF g
  <2> DEFINE fi == f[j - 1]
             fj == f[j]
             fk == f[j + 1]
             at == seq[j]
             after == seq[j + 1]
             old == seq[k]
  <2>5. fj = fi + at /\ fk = fj + after
    BY <2>1
  <2>6. /\ g[j] = IF j < k THEN fj ELSE fk - old
        /\ g[j - 1] = IF j - 1 < k THEN fi ELSE fj - old
        /\ new[j] = IF j < k THEN at ELSE after
        /\ j = k => at = old
    BY <2>3
  <2>7. fi \in Int /\ fj \in Int /\ fk \in Int /\ at \in Int /\ after \in Int /\ old \in Int /\ k \in Int
    BY <1>1, <2>2
  <2> HIDE DEF fi, fj, fk, at, after, old
  <2>8. CASE j < k
    <3>1. j - 1 < k
      BY <2>4, <2>7, <2>8
    <3>2. g[j] = fj /\ g[j - 1] = fi /\ new[j] = at
      BY <2>6, <2>8, <3>1, Zenon
    <3> QED BY <2>5, <3>2, Zenon
  <2>9. CASE j = k
    <3>1. ~(j < k) /\ j - 1 < k
      BY <2>4, <2>7, <2>9
    <3>2. g[j] = fk - old /\ g[j - 1] = fi /\ new[j] = after /\ at = old
      BY <2>6, <2>9, <3>1, Zenon
    <3>3. fk - old = fi + after
      <4>1. fk = (fi + old) + after
        BY <2>5, <3>2, Zenon
      <4> QED BY <2>7, <4>1
    <3> QED BY <3>2, <3>3, Zenon
  <2>10. CASE j > k
    <3>1. ~(j < k) /\ ~(j - 1 < k)
      BY <2>4, <2>7, <2>10
    <3>2. g[j] = fk - old /\ g[j - 1] = fj - old /\ new[j] = after
      BY <2>6, <3>1, Zenon
    <3>3. fk - old = (fj - old) + after
      BY <2>5, <2>7
    <3> QED BY <3>2, <3>3, Zenon
  <2> QED BY <2>4, <2>7, <2>8, <2>9, <2>10
<1> HIDE DEF g
<1> QED BY <1>2, <1>3, <1>4 DEF Adds

\* One element goes.
LEMMA SumRemoved ==
    ASSUME NEW seq \in Seq(Int), NEW k \in 1 .. Len(seq), NEW new \in Seq(Int),
           Len(new) = Len(seq) - 1,
           \A j \in 1 .. Len(new) : new[j] = IF j < k THEN seq[j] ELSE seq[j + 1]
    PROVE  SumOf(new) = SumOf(seq) - seq[k]
<1>1. PICK f \in [0 .. Len(seq) -> Int] : Adds(f, seq, Len(seq)) /\ SumOf(seq) = f[Len(seq)]
  BY SumFacts
<1>2. /\ Len(seq) \in Nat /\ seq \in [1 .. Len(seq) -> Int]
      /\ new \in [1 .. Len(seq) - 1 -> Int]
  <2>1. new \in [1 .. Len(new) -> Int]
    BY LenProperties
  <2> QED BY <2>1, LenProperties
<1>3. PICK g \in [0 .. Len(seq) - 1 -> Int] :
         Adds(g, new, Len(seq) - 1) /\ g[Len(seq) - 1] = f[Len(seq)] - seq[k]
  <2>1. Without(new, seq, k, Len(seq))
    BY <1>2 DEF Without
  <2> QED BY <1>1, <1>2, <2>1, SumShrinks
<1>4. SumOf(new) = g[Len(new)]
  BY <1>3, SumIs DEF Adds
<1> QED BY <1>1, <1>3, <1>4

\* One element comes.
LEMMA SumAppended ==
    ASSUME NEW seq \in Seq(Int), NEW x \in Int, NEW new \in Seq(Int),
           Len(new) = Len(seq) + 1, new[Len(new)] = x,
           \A j \in 1 .. Len(seq) : new[j] = seq[j]
    PROVE  SumOf(new) = SumOf(seq) + x
<1>1. PICK f \in [0 .. Len(seq) -> Int] : Adds(f, seq, Len(seq)) /\ SumOf(seq) = f[Len(seq)]
  BY SumFacts
<1>2. Len(seq) \in Nat /\ f[Len(seq)] \in Int
  <2>1. Len(seq) \in Nat
    BY LenProperties
  <2> QED BY <2>1
<1> DEFINE g == [j \in 0 .. Len(new) |-> IF j = Len(new) THEN f[Len(seq)] + x ELSE f[j]]
<1>3. g \in [0 .. Len(new) -> Int] /\ g[0] = 0
  BY <1>1, <1>2 DEF Adds
<1>4. \A j \in 1 .. Len(new) : g[j] = g[j - 1] + new[j]
  BY <1>1, <1>2 DEF Adds
<1>5. SumOf(new) = g[Len(new)]
  <2> HIDE DEF g
  <2> QED BY <1>3, <1>4, SumIs
<1> QED BY <1>1, <1>2, <1>5

LEMMA SumEmpty == SumOf(<<>>) = 0
<1> DEFINE g == [j \in 0 .. 0 |-> 0]
<1>1. <<>> \in Seq(Int) /\ Len(<<>>) = 0 /\ g \in [0 .. 0 -> Int] /\ g[0] = 0
  OBVIOUS
<1>2. SumOf(<<>>) = g[0]
  <2> HIDE DEF g
  <2> QED BY <1>1, SumIs
<1> QED BY <1>1, <1>2

\* No element is larger than the sum of a sequence of natural numbers.
LEMMA SumBounds ==
    ASSUME NEW seq \in Seq(Nat)
    PROVE  SumOf(seq) \in Nat /\ \A k \in 1 .. Len(seq) : seq[k] <= SumOf(seq)
<1>1. seq \in Seq(Int) /\ Len(seq) \in Nat /\ \A j \in 1 .. Len(seq) : seq[j] \in Nat
  OBVIOUS
<1>2. PICK f \in [0 .. Len(seq) -> Int] : Adds(f, seq, Len(seq)) /\ SumOf(seq) = f[Len(seq)]
  BY <1>1, SumFacts
<1>3. ASSUME NEW n \in Nat, n + 1 <= Len(seq)
      PROVE  f[n + 1] = f[n] + seq[n + 1] /\ f[n] \in Int /\ seq[n + 1] \in Nat
  <2>1. n + 1 \in 1 .. Len(seq) /\ n + 1 - 1 = n /\ n \in 0 .. Len(seq)
    BY <1>1, <1>3
  <2> QED BY <1>1, <1>2, <2>1 DEF Adds
<1> DEFINE Above(n) == f[n] >= 0 /\ \A k \in 1 .. n : f[n] >= seq[k]
           T == {n \in Nat : n <= Len(seq) => Above(n)}
<1>4. 0 \in T
  BY <1>2 DEF Adds
<1>5. ASSUME NEW n \in Nat, n \in T PROVE n + 1 \in T
  <2> SUFFICES ASSUME n + 1 <= Len(seq) PROVE Above(n + 1)
    OBVIOUS
  <2>1. f[n] >= 0 /\ \A k \in 1 .. n : f[n] >= seq[k]
    BY <1>1, <1>5
  <2>2. f[n + 1] = f[n] + seq[n + 1] /\ f[n] \in Int /\ seq[n + 1] \in Nat
    BY <1>3
  <2>3. ASSUME NEW k \in 1 .. n + 1 PROVE f[n + 1] >= seq[k]
    <3>1. seq[k] \in Nat
      BY <1>1
    <3>2. CASE k = n + 1 BY <2>1, <2>2, <3>2
    <3>3. CASE k \in 1 .. n
      <4>1. f[n] >= seq[k] BY <2>1, <3>3
      <4> QED BY <2>2, <3>1, <4>1
    <3> QED BY <3>2, <3>3
  <2> QED BY <2>1, <2>2, <2>3
<1>6. Nat \subseteq T
  <2> HIDE DEF T
  <2> QED BY <1>4, <1>5, Numbers
<1>7. Above(Len(seq))
  BY <1>1, <1>6
<1>8. SumOf(seq) \in Int
  BY <1>1, <1>2
<1> QED BY <1>1, <1>2, <1>7, <1>8

-----------------------------------------------------------------------------
(* What is true of a book while it is changed: engine.go keeps the levels, *)
(* their totals, the order index and the change feed together.             *)

Order == [id : 1 .. MaxSafe, lots : 1 .. MaxOrderLots]
Levels == [Side -> [Price -> Seq(Order)]]
Totals == [Side -> [Price -> 0 .. MaxLevelLots]]

IsBook(b) == b \in [queue : Levels, total : Totals, orders : SUBSET (1 .. MaxSafe),
                    seq : Nat, feed : Totals]

Ids(q) == {q[k].id : k \in DOMAIN q}

\* A level is in the order of arrival.
Ordered(q) == \A j \in DOMAIN q, k \in DOMAIN q : j < k => q[j].id < q[k].id

\* The index holds the resting orders, and each of them rests once.
Indexed(b) == \A id : id \in b.orders <=> \E s \in Side, p \in Price : id \in Ids(b.queue[s][p])
RestsOnce(b) ==
    \A s \in Side, t \in Side, p \in Price, r \in Price : \A id :
        id \in Ids(b.queue[s][p]) /\ id \in Ids(b.queue[t][r]) => s = t /\ p = r

Consistent(b) ==
    /\ IsBook(b)
    /\ \A s \in Side, p \in Price : /\ b.total[s][p] = LotsIn(b.queue[s][p])
                                    /\ Ordered(b.queue[s][p])
    /\ Indexed(b) /\ RestsOnce(b)
    /\ b.feed = b.total

EngineInvariant ==
    /\ Consistent(Current)
    /\ nextID \in 1 .. MaxSafe + 1 /\ nextSeq \in 1 .. MaxSafe + 1
    /\ \A id \in orders : id < nextID
    /\ Cardinality(orders) <= MaxOrders
    /\ last \in [side : Side, price : Price, lots : 0 .. MaxOrderLots, rested : 0 .. MaxOrderLots]
    /\ NotCrossed

\* What is left of a level after fills: the first d orders are gone, and only the
\* one that comes next may have given lots.
Suffix(q0, q, d) ==
    /\ d \in Nat /\ Len(q) + d = Len(q0)
    /\ \A k \in DOMAIN q : /\ q[k].id = q0[k + d].id
                           /\ k > 1 => q[k].lots = q0[k + d].lots

Better(side, r, p) == IF side = "buy" THEN r < p ELSE r > p

Done(match, side, limit) == match.left = 0 \/ Compatible(match.book, side, limit) = {}

\* What is true of the book and the lots left after any number of fills.
Underway(b0, match, side, limit, lots) ==
    LET b == match.book
        o == Opposite(side)
    IN  /\ Consistent(b) /\ match.left \in 0 .. lots
        /\ b.queue[side] = b0.queue[side] /\ b.total[side] = b0.total[side]
        /\ b.orders \subseteq b0.orders /\ b.seq >= b0.seq
        /\ \A p \in Price :
             /\ ~WithinLimit(p, side, limit) => b.queue[o][p] = b0.queue[o][p]
             /\ \E d \in Nat : Suffix(b0.queue[o][p], b.queue[o][p], d)
             /\ b.queue[o][p] # b0.queue[o][p] =>
                  \A r \in Price : Better(side, r, p) => b.queue[o][r] = <<>>
        /\ SideLots(b0.total[o]) - SideLots(b.total[o]) = lots - match.left
-----------------------------------------------------------------------------
(* One level: orders give lots, leave and join. *)

Lots(q) == [k \in DOMAIN q |-> q[k].lots]

LEMMA LotsOfLevel ==
    ASSUME NEW q \in Seq(Order)
    PROVE  /\ Lots(q) \in Seq(Nat) /\ Lots(q) \in Seq(Int) /\ Len(Lots(q)) = Len(q)
           /\ \A k \in 1 .. Len(q) : Lots(q)[k] = q[k].lots
           /\ LotsIn(q) = SumOf(Lots(q)) /\ LotsIn(q) \in Nat
           /\ \A k \in DOMAIN q : q[k].lots \in Nat \ {0} /\ q[k].lots <= LotsIn(q)
<1>1. Len(q) \in Nat /\ DOMAIN q = 1 .. Len(q) /\ \A k \in 1 .. Len(q) : q[k] \in Order
  OBVIOUS
<1>2. \A k \in 1 .. Len(q) : q[k].lots \in Nat \ {0}
  BY <1>1, EngineAssumption DEF Order
<1>3. Lots(q) = [k \in 1 .. Len(q) |-> q[k].lots]
  BY <1>1 DEF Lots
<1>4. Lots(q) \in Seq(Nat) /\ Lots(q) \in Seq(Int) /\ Len(Lots(q)) = Len(q)
  BY <1>1, <1>2, <1>3
<1>5. LotsIn(q) = SumOf(Lots(q))
  BY DEF LotsIn, Lots
<1>6. SumOf(Lots(q)) \in Nat /\ \A k \in 1 .. Len(Lots(q)) : Lots(q)[k] <= SumOf(Lots(q))
  BY <1>4, SumBounds
<1> QED BY <1>1, <1>2, <1>3, <1>4, <1>5, <1>6

LEMMA LevelGives ==
    ASSUME NEW q \in Seq(Order), NEW k \in DOMAIN q, NEW lots \in 1 .. q[k].lots, lots # q[k].lots
    PROVE  LET new == TakenLevel(q, k, lots)
           IN  /\ new \in Seq(Order) /\ Len(new) = Len(q) /\ DOMAIN new = DOMAIN q
               /\ \A j \in DOMAIN q : /\ new[j].id = q[j].id
                                      /\ new[j].lots = IF j = k THEN q[k].lots - lots ELSE q[j].lots
               /\ LotsIn(new) = LotsIn(q) - lots /\ Ids(new) = Ids(q)
<1> DEFINE new == TakenLevel(q, k, lots)
<1>1. Len(q) \in Nat /\ DOMAIN q = 1 .. Len(q) /\ \A j \in 1 .. Len(q) : q[j] \in Order
  OBVIOUS
<1>2. q[k].lots \in 1 .. MaxOrderLots /\ MaxOrderLots \in Nat
  BY <1>1, EngineAssumption DEF Order
<1>3. q[k].lots - lots \in 1 .. MaxOrderLots /\ q[k].lots - lots \in Int /\ lots \in Int
  BY <1>2
<1>4. new = [q EXCEPT ![k] = [q[k] EXCEPT !.lots = q[k].lots - lots]]
  BY DEF TakenLevel
<1> HIDE DEF new
<1>5. [q[k] EXCEPT !.lots = q[k].lots - lots] = [id |-> q[k].id, lots |-> q[k].lots - lots]
  BY <1>1 DEF Order
<1>6. [q[k] EXCEPT !.lots = q[k].lots - lots] \in Order
  BY <1>1, <1>3, <1>5 DEF Order
<1>7. new \in Seq(Order) /\ Len(new) = Len(q) /\ DOMAIN new = DOMAIN q
  BY <1>1, <1>4, <1>6, ExceptSeq
<1>8. \A j \in DOMAIN q : /\ new[j].id = q[j].id
                          /\ new[j].lots = IF j = k THEN q[k].lots - lots ELSE q[j].lots
  BY <1>1, <1>4, <1>5
<1>9. LotsIn(new) = LotsIn(q) - lots
  <2>1. /\ Lots(q) \in Seq(Int) /\ Len(Lots(q)) = Len(q) /\ LotsIn(q) = SumOf(Lots(q))
        /\ \A j \in 1 .. Len(q) : Lots(q)[j] = q[j].lots
        /\ LotsIn(q) \in Int
    BY LotsOfLevel
  <2>2. /\ Lots(new) \in Seq(Int) /\ Len(Lots(new)) = Len(q) /\ LotsIn(new) = SumOf(Lots(new))
        /\ \A j \in 1 .. Len(q) : Lots(new)[j] = new[j].lots
    BY <1>7, LotsOfLevel
  <2>3. \A j \in 1 .. Len(Lots(q)) :
          Lots(new)[j] = IF j = k THEN q[k].lots - lots ELSE Lots(q)[j]
    BY <1>1, <1>8, <2>1, <2>2
  <2>4. SumOf(Lots(new)) = SumOf(Lots(q)) - Lots(q)[k] + (q[k].lots - lots)
    <3>1. k \in 1 .. Len(Lots(q)) /\ q[k].lots - lots \in Int /\ Len(Lots(new)) = Len(Lots(q))
      BY <1>1, <1>3, <2>1, <2>2
    <3> HIDE DEF Lots
    <3> QED BY <2>1, <2>2, <2>3, <3>1, SumChanged
  <2>5. Lots(q)[k] = q[k].lots
    BY <1>1, <2>1
  <2>6. LotsIn(new) = LotsIn(q) - q[k].lots + (q[k].lots - lots)
    BY <2>1, <2>2, <2>4, <2>5
  <2>7. LotsIn(q) \in Int /\ q[k].lots \in Int /\ lots \in Int
    BY <1>2, <1>3, <2>1
  <2> QED BY <2>6, <2>7
<1>10. Ids(new) = Ids(q)
  BY <1>7, <1>8 DEF Ids
<1> QED BY <1>7, <1>8, <1>9, <1>10 DEF new

LEMMA LevelLoses ==
    ASSUME NEW q \in Seq(Order), NEW k \in DOMAIN q
    PROVE  LET new == TakenLevel(q, k, q[k].lots)
           IN  /\ new \in Seq(Order) /\ Len(new) = Len(q) - 1
               /\ \A j \in 1 .. Len(q) - 1 : new[j] = IF j < k THEN q[j] ELSE q[j + 1]
               /\ LotsIn(new) = LotsIn(q) - q[k].lots
<1> DEFINE new == TakenLevel(q, k, q[k].lots)
<1>1. Len(q) \in Nat /\ DOMAIN q = 1 .. Len(q) /\ \A j \in 1 .. Len(q) : q[j] \in Order
  OBVIOUS
<1>2. new = SubSeq(q, 1, k - 1) \o SubSeq(q, k + 1, Len(q))
  BY DEF TakenLevel, RemoveAt
<1> HIDE DEF new
<1> DEFINE a == SubSeq(q, 1, k - 1)
           c == SubSeq(q, k + 1, Len(q))
<1>3. /\ a \in Seq(Order) /\ Len(a) = k - 1
      /\ \A j \in 1 .. k - 1 : a[j] = q[j]
  BY <1>1
<1>4. /\ c \in Seq(Order) /\ Len(c) = Len(q) - k
      /\ \A j \in 1 .. Len(q) - k : c[j] = q[k + j]
  <2>1. k + 1 \in Int /\ Len(q) \in Int /\ \A i \in k + 1 .. Len(q) : q[i] \in Order
    BY <1>1
  <2>2. /\ c \in Seq(Order) /\ Len(c) = IF k + 1 <= Len(q) THEN Len(q) - (k + 1) + 1 ELSE 0
        /\ \A j \in 1 .. Len(q) - (k + 1) + 1 : c[j] = q[k + 1 + j - 1]
    BY <2>1, SubSeqProperties
  <2>3. k \in 1 .. Len(q) /\ Len(q) \in Nat /\ Len(q) - (k + 1) + 1 = Len(q) - k
    BY <1>1
  <2>4. \A j \in 1 .. Len(q) - k : k + 1 + j - 1 = k + j
    BY <2>3
  <2> HIDE DEF c
  <2>5. Len(c) = Len(q) - k
    BY <2>2, <2>3
  <2> QED BY <2>2, <2>3, <2>4, <2>5
<1> HIDE DEF a, c
<1>8. /\ new \in Seq(Order) /\ Len(new) = k - 1 + (Len(q) - k)
      /\ \A j \in 1 .. k - 1 + (Len(q) - k) : new[j] = IF j <= k - 1 THEN a[j] ELSE c[j - (k - 1)]
  <2>1. new = a \o c
    BY <1>2 DEF a, c
  <2> QED BY <1>3, <1>4, <2>1, ConcatProperties
<1>9. k \in 1 .. Len(q) /\ Len(q) \in Nat /\ k - 1 + (Len(q) - k) = Len(q) - 1
  BY <1>1
<1>5. new \in Seq(Order) /\ Len(new) = Len(q) - 1
  BY <1>8, <1>9
<1>6. ASSUME NEW j \in 1 .. Len(q) - 1 PROVE new[j] = IF j < k THEN q[j] ELSE q[j + 1]
  <2>1. new[j] = IF j <= k - 1 THEN a[j] ELSE c[j - (k - 1)]
    BY <1>8, <1>9
  <2>2. CASE j < k
    <3>1. j \in 1 .. k - 1
      BY <1>9, <2>2
    <3> QED BY <1>3, <2>1, <2>2, <3>1
  <2>3. CASE ~(j < k)
    <3>1. j - (k - 1) \in 1 .. Len(q) - k /\ k + (j - (k - 1)) = j + 1 /\ ~(j <= k - 1)
      BY <1>9, <2>3
    <3>2. c[j - (k - 1)] = q[k + (j - (k - 1))]
      BY <1>4, <3>1
    <3> QED BY <2>1, <2>3, <3>1, <3>2
  <2> QED BY <2>2, <2>3
<1>7. LotsIn(new) = LotsIn(q) - q[k].lots
  <2>1. /\ Lots(q) \in Seq(Int) /\ Len(Lots(q)) = Len(q) /\ LotsIn(q) = SumOf(Lots(q))
        /\ \A j \in 1 .. Len(q) : Lots(q)[j] = q[j].lots
    BY LotsOfLevel
  <2>2. /\ Lots(new) \in Seq(Int) /\ Len(Lots(new)) = Len(q) - 1 /\ LotsIn(new) = SumOf(Lots(new))
        /\ \A j \in 1 .. Len(q) - 1 : Lots(new)[j] = new[j].lots
    BY <1>5, LotsOfLevel
  <2>3. ASSUME NEW j \in 1 .. Len(Lots(new))
        PROVE  Lots(new)[j] = IF j < k THEN Lots(q)[j] ELSE Lots(q)[j + 1]
    <3>1. j \in 1 .. Len(q) - 1 /\ j \in 1 .. Len(q) /\ j + 1 \in 1 .. Len(q)
      BY <1>9, <2>2
    <3>2. Lots(new)[j] = new[j].lots /\ Lots(q)[j] = q[j].lots /\ Lots(q)[j + 1] = q[j + 1].lots
      BY <2>1, <2>2, <3>1
    <3> QED BY <1>6, <3>1, <3>2
  <2>4. SumOf(Lots(new)) = SumOf(Lots(q)) - Lots(q)[k]
    <3>1. k \in 1 .. Len(Lots(q)) /\ Len(Lots(new)) = Len(Lots(q)) - 1
      BY <1>1, <2>1, <2>2
    <3> QED BY <2>1, <2>2, <2>3, <3>1, SumRemoved
  <2> QED BY <1>1, <2>1, <2>2, <2>4
<1> QED BY <1>5, <1>6, <1>7 DEF new

\* Taking lots keeps the order of arrival; the index loses an order with its last lots.
LEMMA LevelTaken ==
    ASSUME NEW q \in Seq(Order), NEW k \in DOMAIN q, NEW lots \in 1 .. q[k].lots, Ordered(q)
    PROVE  LET new == TakenLevel(q, k, lots)
           IN  /\ new \in Seq(Order) /\ Ordered(new) /\ LotsIn(new) = LotsIn(q) - lots
               /\ Ids(new) = IF lots = q[k].lots THEN Ids(q) \ {q[k].id} ELSE Ids(q)
<1> DEFINE new == TakenLevel(q, k, lots)
<1>1. Len(q) \in Nat /\ DOMAIN q = 1 .. Len(q) /\ k \in 1 .. Len(q)
      /\ \A j \in 1 .. Len(q) : q[j] \in Order /\ q[j].id \in Int
  <2>1. Len(q) \in Nat /\ DOMAIN q = 1 .. Len(q) /\ \A j \in 1 .. Len(q) : q[j] \in Order
    OBVIOUS
  <2>2. \A x \in Order : x.id \in Int
    BY EngineAssumption DEF Order
  <2> QED BY <2>1, <2>2
<1>2. CASE lots # q[k].lots
  <2>1. /\ new \in Seq(Order) /\ DOMAIN new = DOMAIN q
        /\ \A j \in DOMAIN q : new[j].id = q[j].id
        /\ LotsIn(new) = LotsIn(q) - lots /\ Ids(new) = Ids(q)
    BY <1>2, LevelGives
  <2> HIDE DEF new
  <2>2. Ordered(new)
    BY <2>1 DEF Ordered
  <2> QED BY <1>2, <2>1, <2>2 DEF new
<1>3. CASE lots = q[k].lots
  <2>1. /\ new \in Seq(Order) /\ Len(new) = Len(q) - 1
        /\ \A j \in 1 .. Len(q) - 1 : new[j] = IF j < k THEN q[j] ELSE q[j + 1]
        /\ LotsIn(new) = LotsIn(q) - lots
    BY <1>3, LevelLoses
  <2> HIDE DEF new
  <2>2. DOMAIN new = 1 .. Len(q) - 1
    BY <1>1, <2>1
  <2> DEFINE from(j) == IF j < k THEN j ELSE j + 1
  <2>3. \A j \in DOMAIN new : from(j) \in DOMAIN q /\ from(j) # k /\ new[j] = q[from(j)]
    BY <1>1, <2>1, <2>2
  <2>4. \A i, j \in DOMAIN new : i < j => from(i) < from(j)
    BY <1>1, <2>2
  <2>5. Ordered(new)
    BY <2>3, <2>4 DEF Ordered
  <2>6. \A j \in DOMAIN q : q[j].id = q[k].id => j = k
    <3>1. \A i, j \in DOMAIN q : i < j => q[i].id < q[j].id
      BY DEF Ordered
    <3> QED BY <1>1, <3>1
  <2>7. Ids(new) \subseteq Ids(q) \ {q[k].id}
    BY <2>3, <2>6 DEF Ids
  <2>8. ASSUME NEW j \in DOMAIN q, q[j].id # q[k].id PROVE q[j].id \in Ids(new)
    <3>1. CASE j < k
      <4>1. j \in DOMAIN new /\ new[j] = q[j]
        BY <1>1, <2>1, <2>2, <3>1
      <4> QED BY <4>1 DEF Ids
    <3>2. CASE j > k
      <4>1. j - 1 \in DOMAIN new /\ ~(j - 1 < k) /\ j - 1 + 1 = j
        BY <1>1, <2>2, <3>2
      <4>2. new[j - 1] = q[j]
        BY <2>1, <2>2, <4>1
      <4> QED BY <4>1, <4>2 DEF Ids
    <3>3. j # k
      BY <2>8
    <3> QED BY <1>1, <3>1, <3>2, <3>3
  <2>9. Ids(q) \ {q[k].id} \subseteq Ids(new)
    BY <2>8 DEF Ids
  <2> QED BY <1>3, <2>1, <2>5, <2>7, <2>9 DEF new
<1> QED BY <1>2, <1>3

\* An order that arrives after all others joins the end.
LEMMA LevelJoined ==
    ASSUME NEW q \in Seq(Order), NEW order \in Order, Ordered(q), \A id \in Ids(q) : id < order.id
    PROVE  LET new == Append(q, order)
           IN  /\ new \in Seq(Order) /\ Ordered(new) /\ LotsIn(new) = LotsIn(q) + order.lots
               /\ Ids(new) = Ids(q) \cup {order.id}
               /\ Len(new) = Len(q) + 1 /\ DOMAIN new = 1 .. Len(q) + 1 /\ DOMAIN q = 1 .. Len(q)
               /\ new[Len(q) + 1] = order /\ \A j \in DOMAIN q : new[j] = q[j]
<1> DEFINE new == Append(q, order)
<1>1. Len(q) \in Nat /\ DOMAIN q = 1 .. Len(q) /\ \A j \in 1 .. Len(q) : q[j] \in Order
  OBVIOUS
<1>2. /\ new \in Seq(Order) /\ Len(new) = Len(q) + 1 /\ DOMAIN new = 1 .. Len(q) + 1
      /\ new[Len(q) + 1] = order /\ \A j \in DOMAIN q : new[j] = q[j]
  BY <1>1
<1> HIDE DEF new
<1>3. Ordered(new)
  <2> SUFFICES ASSUME NEW i \in DOMAIN new, NEW j \in DOMAIN new, i < j PROVE new[i].id < new[j].id
    BY DEF Ordered
  <2>1. i \in DOMAIN q /\ new[i] = q[i]
    BY <1>1, <1>2
  <2>2. CASE j = Len(q) + 1
    BY <1>2, <2>1, <2>2 DEF Ids
  <2>3. CASE j \in DOMAIN q
    BY <1>2, <2>1, <2>3 DEF Ordered
  <2> QED BY <1>1, <1>2, <2>2, <2>3
<1>4. Ids(new) = Ids(q) \cup {order.id}
  <2>1. DOMAIN new = DOMAIN q \cup {Len(q) + 1}
    BY <1>1, <1>2
  <2>2. Ids(new) \subseteq Ids(q) \cup {order.id}
    BY <1>2, <2>1 DEF Ids
  <2>3. Ids(q) \subseteq Ids(new)
    BY <1>2, <2>1 DEF Ids
  <2>4. order.id \in Ids(new)
    BY <1>2, <2>1 DEF Ids
  <2> QED BY <2>2, <2>3, <2>4
<1>5. LotsIn(new) = LotsIn(q) + order.lots
  <2>1. /\ Lots(q) \in Seq(Int) /\ Len(Lots(q)) = Len(q) /\ LotsIn(q) = SumOf(Lots(q))
        /\ \A j \in 1 .. Len(q) : Lots(q)[j] = q[j].lots
    BY LotsOfLevel
  <2>2. /\ Lots(new) \in Seq(Int) /\ Len(Lots(new)) = Len(q) + 1 /\ LotsIn(new) = SumOf(Lots(new))
        /\ \A j \in 1 .. Len(q) + 1 : Lots(new)[j] = new[j].lots
    BY <1>2, LotsOfLevel
  <2>3. Lots(new)[Len(Lots(new))] = order.lots /\ order.lots \in Int
    BY <1>1, <1>2, <2>2 DEF Order
  <2>4. \A j \in 1 .. Len(Lots(q)) : Lots(new)[j] = Lots(q)[j]
    <3> SUFFICES ASSUME NEW j \in 1 .. Len(q) PROVE Lots(new)[j] = Lots(q)[j]
      BY <2>1
    <3>1. j \in 1 .. Len(q) + 1 /\ j \in DOMAIN q
      BY <1>1
    <3>2. new[j] = q[j]
      BY <1>2, <3>1
    <3> QED BY <2>1, <2>2, <3>1, <3>2
  <2>5. Len(Lots(new)) = Len(Lots(q)) + 1
    BY <2>1, <2>2
  <2> QED BY <2>1, <2>2, <2>3, <2>4, <2>5, SumAppended
<1> QED BY <1>1, <1>2, <1>3, <1>4, <1>5 DEF new

LEMMA SuffixStays ==
    ASSUME NEW q \in Seq(Order)
    PROVE  Suffix(q, q, 0)
<1>1. Len(q) \in Nat /\ DOMAIN q = 1 .. Len(q)
  OBVIOUS
<1>2. \A k \in 1 .. Len(q) : k + 0 = k
  BY <1>1
<1> QED BY <1>1, <1>2 DEF Suffix

\* A fill takes lots off the first order of a level.
LEMMA SuffixTaken ==
    ASSUME NEW q0 \in Seq(Order), NEW q \in Seq(Order), NEW d \in Nat, Suffix(q0, q, d),
           q # <<>>, NEW lots \in 1 .. q[1].lots
    PROVE  \E e \in Nat : Suffix(q0, TakenLevel(q, 1, lots), e)
<1> DEFINE new == TakenLevel(q, 1, lots)
<1>1. /\ Len(q) \in Nat \ {0} /\ DOMAIN q = 1 .. Len(q) /\ 1 \in DOMAIN q /\ Len(q) + d = Len(q0)
      /\ \A k \in DOMAIN q : /\ q[k].id = q0[k + d].id
                             /\ k > 1 => q[k].lots = q0[k + d].lots
  BY EmptySeq DEF Suffix
<1>2. CASE lots # q[1].lots
  <2>1. /\ Len(new) = Len(q) /\ DOMAIN new = DOMAIN q
        /\ \A j \in DOMAIN q : /\ new[j].id = q[j].id
                               /\ new[j].lots = IF j = 1 THEN q[1].lots - lots ELSE q[j].lots
    BY <1>1, <1>2, LevelGives
  <2> HIDE DEF new
  <2>2. Suffix(q0, new, d)
    BY <1>1, <2>1 DEF Suffix
  <2> QED BY <2>2 DEF new
<1>3. CASE lots = q[1].lots
  <2>1. /\ new \in Seq(Order) /\ Len(new) = Len(q) - 1
        /\ \A j \in 1 .. Len(q) - 1 : new[j] = IF j < 1 THEN q[j] ELSE q[j + 1]
    BY <1>1, <1>3, LevelLoses
  <2> HIDE DEF new
  <2>2. DOMAIN new = 1 .. Len(q) - 1 /\ Len(new) + (d + 1) = Len(q0)
    <3>1. DOMAIN new = 1 .. Len(new)
      BY <2>1
    <3>2. Len(new) + (d + 1) = Len(q0)
      <4>1. Len(q) \in Nat /\ Len(q) + d = Len(q0)
        BY <1>1
      <4>2. Len(new) = Len(q) - 1
        BY <2>1
      <4> QED BY <4>1, <4>2
    <3> QED BY <2>1, <3>1, <3>2
  <2>3. ASSUME NEW k \in DOMAIN new
        PROVE  new[k].id = q0[k + (d + 1)].id /\ new[k].lots = q0[k + (d + 1)].lots
    <3>1. k + 1 \in DOMAIN q /\ k + 1 > 1 /\ k + 1 + d = k + (d + 1) /\ ~(k < 1)
      BY <1>1, <2>2
    <3>2. new[k] = q[k + 1]
      BY <2>1, <2>2, <3>1
    <3> QED BY <1>1, <3>1, <3>2
  <2>4. Suffix(q0, new, d + 1)
    BY <2>2, <2>3 DEF Suffix
  <2>5. d + 1 \in Nat
    OBVIOUS
  <2> QED BY <2>4, <2>5 DEF new
<1> QED BY <1>2, <1>3

-----------------------------------------------------------------------------
(* One change of a book keeps it consistent. *)

IsRecord(b) ==
    b = [queue |-> b.queue, total |-> b.total, orders |-> b.orders, seq |-> b.seq, feed |-> b.feed]

LEMMA BookType ==
    ASSUME NEW b, IsBook(b)
    PROVE  /\ IsRecord(b)
           /\ b.queue \in Levels /\ b.total \in Totals /\ b.orders \subseteq 1 .. MaxSafe
           /\ b.seq \in Nat /\ b.feed \in Totals
           /\ \A s \in Side, p \in Price :
                /\ b.queue[s][p] \in Seq(Order) /\ b.queue[s] \in [Price -> Seq(Order)]
                /\ b.total[s][p] \in 0 .. MaxLevelLots
BY DEF IsBook, IsRecord, Levels, Totals

LEMMA LevelSet ==
    ASSUME NEW b, IsRecord(b), NEW queues, NEW totals, NEW ids
    PROVE  [b EXCEPT !.total = totals, !.queue = queues, !.orders = ids]
             = [queue |-> queues, total |-> totals, orders |-> ids, seq |-> b.seq, feed |-> b.feed]
<1> DEFINE b1 == [b EXCEPT !.total = totals]
           b2 == [b1 EXCEPT !.queue = queues]
           b3 == [b2 EXCEPT !.orders = ids]
<1>1. b1 = [queue |-> b.queue, total |-> totals, orders |-> b.orders, seq |-> b.seq, feed |-> b.feed]
  BY DEF IsRecord
<1> HIDE DEF b1
<1>2. b2 = [queue |-> queues, total |-> totals, orders |-> b.orders, seq |-> b.seq, feed |-> b.feed]
  BY <1>1
<1> HIDE DEF b2
<1>3. b3 = [queue |-> queues, total |-> totals, orders |-> ids, seq |-> b.seq, feed |-> b.feed]
  BY <1>2
<1>4. [b EXCEPT !.total = totals, !.queue = queues, !.orders = ids] = b3
  BY Zenon DEF b1, b2
<1> HIDE DEF b3
<1> QED BY <1>3, <1>4

LEMMA Reported ==
    ASSUME NEW b, IsRecord(b), NEW s, NEW p
    PROVE  Report(b, s, p) = [queue |-> b.queue, total |-> b.total, orders |-> b.orders,
                              seq |-> b.seq + 1, feed |-> [b.feed EXCEPT ![s][p] = b.total[s][p]]]
<1> DEFINE x == [b.feed EXCEPT ![s][p] = b.total[s][p]]
           b1 == [b EXCEPT !.seq = b.seq + 1]
           b2 == [b1 EXCEPT !.feed = x]
<1>1. Report(b, s, p) = [b EXCEPT !.seq = b.seq + 1, !.feed = x]
  BY DEF Report, IsRecord
<1> HIDE DEF x
<1>2. b1 = [queue |-> b.queue, total |-> b.total, orders |-> b.orders, seq |-> b.seq + 1, feed |-> b.feed]
  BY DEF IsRecord
<1> HIDE DEF b1
<1>3. b2 = [queue |-> b.queue, total |-> b.total, orders |-> b.orders, seq |-> b.seq + 1, feed |-> x]
  BY <1>2
<1>4. [b EXCEPT !.seq = b.seq + 1, !.feed = x] = b2
  BY Zenon DEF b1
<1> HIDE DEF b2
<1> QED BY <1>1, <1>3, <1>4 DEF x

\* What Taken changes, field by field.
LEMMA TakenFields ==
    ASSUME NEW b, IsBook(b), NEW s \in Side, NEW p \in Price, NEW k, NEW lots
    PROVE  Taken(b, s, p, k, lots)
             = [queue |-> [b.queue EXCEPT ![s][p] = TakenLevel(b.queue[s][p], k, lots)],
                total |-> [b.total EXCEPT ![s][p] = b.total[s][p] - lots],
                orders |-> IF lots = b.queue[s][p][k].lots THEN b.orders \ {b.queue[s][p][k].id}
                                                           ELSE b.orders,
                seq |-> b.seq + 1,
                feed |-> [b.feed EXCEPT ![s][p] = b.total[s][p] - lots]]
<1> DEFINE order == b.queue[s][p][k]
           queues == [b.queue EXCEPT ![s][p] = TakenLevel(b.queue[s][p], k, lots)]
           totals == [b.total EXCEPT ![s][p] = b.total[s][p] - lots]
           ids == IF lots = order.lots THEN b.orders \ {order.id} ELSE b.orders
           c == [b EXCEPT
                  !.total[s][p] = @ - lots,
                  !.queue[s][p] = TakenLevel(@, k, lots),
                  !.orders = IF lots = order.lots THEN @ \ {order.id} ELSE @]
<1>1. IsRecord(b)
  BY BookType
<1>2. c = [b EXCEPT !.total = totals, !.queue = queues, !.orders = ids]
  BY <1>1 DEF IsRecord
<1>3. Taken(b, s, p, k, lots) = Report(c, s, p)
  BY DEF Taken
<1>6. totals[s][p] = b.total[s][p] - lots
  BY BookType DEF Totals
<1> HIDE DEF c, totals, queues, ids
<1>4. c = [queue |-> queues, total |-> totals, orders |-> ids, seq |-> b.seq, feed |-> b.feed]
  BY <1>1, <1>2, LevelSet
<1>5. Report(c, s, p) = [queue |-> queues, total |-> totals, orders |-> ids,
                         seq |-> b.seq + 1, feed |-> [b.feed EXCEPT ![s][p] = totals[s][p]]]
  <2>1. IsRecord(c)
    BY <1>4 DEF IsRecord
  <2> QED BY <1>4, <2>1, Reported
<1> QED BY <1>3, <1>5, <1>6 DEF totals, queues, ids

LEMMA RestedFields ==
    ASSUME NEW b, IsBook(b), NEW s \in Side, NEW p \in Price, NEW order
    PROVE  Rested(b, s, p, order)
             = [queue |-> [b.queue EXCEPT ![s][p] = Append(b.queue[s][p], order)],
                total |-> [b.total EXCEPT ![s][p] = b.total[s][p] + order.lots],
                orders |-> b.orders \cup {order.id},
                seq |-> b.seq + 1,
                feed |-> [b.feed EXCEPT ![s][p] = b.total[s][p] + order.lots]]
<1> DEFINE queues == [b.queue EXCEPT ![s][p] = Append(b.queue[s][p], order)]
           totals == [b.total EXCEPT ![s][p] = b.total[s][p] + order.lots]
           ids == b.orders \cup {order.id}
           c == [b EXCEPT
                  !.total[s][p] = @ + order.lots,
                  !.queue[s][p] = Append(@, order),
                  !.orders = @ \cup {order.id}]
<1>1. IsRecord(b)
  BY BookType
<1>2. c = [b EXCEPT !.total = totals, !.queue = queues, !.orders = ids]
  BY <1>1 DEF IsRecord
<1>3. Rested(b, s, p, order) = Report(c, s, p)
  BY DEF Rested
<1>6. totals[s][p] = b.total[s][p] + order.lots
  BY BookType DEF Totals
<1> HIDE DEF c, totals, queues, ids
<1>4. c = [queue |-> queues, total |-> totals, orders |-> ids, seq |-> b.seq, feed |-> b.feed]
  BY <1>1, <1>2, LevelSet
<1>5. Report(c, s, p) = [queue |-> queues, total |-> totals, orders |-> ids,
                         seq |-> b.seq + 1, feed |-> [b.feed EXCEPT ![s][p] = totals[s][p]]]
  <2>1. IsRecord(c)
    BY <1>4 DEF IsRecord
  <2> QED BY <1>4, <2>1, Reported
<1> QED BY <1>3, <1>5, <1>6 DEF totals, queues, ids

\* A book whose level and total change together stays consistent.
LEMMA LevelReplaced ==
    ASSUME NEW b, Consistent(b), NEW s \in Side, NEW p \in Price,
           NEW level \in Seq(Order), Ordered(level),
           NEW sum \in 0 .. MaxLevelLots, sum = LotsIn(level), NEW ids \in SUBSET (1 .. MaxSafe), NEW new,
           new = [queue |-> [b.queue EXCEPT ![s][p] = level], total |-> [b.total EXCEPT ![s][p] = sum],
                  orders |-> ids, seq |-> b.seq + 1, feed |-> [b.feed EXCEPT ![s][p] = sum]],
           Indexed(new), RestsOnce(new)
    PROVE  Consistent(new)
<1>1. IsBook(b) /\ b.feed = b.total
  BY DEF Consistent
<1>2. /\ b.queue \in Levels /\ b.total \in Totals /\ b.seq \in Nat /\ b.feed \in Totals
  BY <1>1, BookType
<1>3. IsBook(new)
  <2>1. [b.queue EXCEPT ![s][p] = level] \in Levels
    BY <1>2 DEF Levels
  <2>2. [b.total EXCEPT ![s][p] = sum] \in Totals /\ [b.feed EXCEPT ![s][p] = sum] \in Totals
    BY <1>2 DEF Totals
  <2>3. b.seq + 1 \in Nat
    BY <1>2
  <2> QED BY <2>1, <2>2, <2>3 DEF IsBook
<1>4. new.feed = new.total
  BY <1>1
<1>5. ASSUME NEW t \in Side, NEW r \in Price
      PROVE  new.total[t][r] = LotsIn(new.queue[t][r]) /\ Ordered(new.queue[t][r])
  <2>1. b.total[t][r] = LotsIn(b.queue[t][r]) /\ Ordered(b.queue[t][r])
    BY DEF Consistent
  <2>2. /\ new.queue[t][r] = IF t = s /\ r = p THEN level ELSE b.queue[t][r]
        /\ new.total[t][r] = IF t = s /\ r = p THEN sum ELSE b.total[t][r]
    BY <1>2 DEF Levels, Totals
  <2> QED BY <2>1, <2>2
<1> QED BY <1>3, <1>4, <1>5 DEF Consistent

\* What a consistent book keeps and loses when lots are taken.
TakenEffect(b, s, p, k, lots, new) ==
    /\ Consistent(new)
    /\ \A t \in Side, r \in Price :
         new.queue[t][r] = IF t = s /\ r = p THEN TakenLevel(b.queue[s][p], k, lots)
                                             ELSE b.queue[t][r]
    /\ new.queue[Opposite(s)] = b.queue[Opposite(s)]
    /\ new.total = [b.total EXCEPT ![s][p] = b.total[s][p] - lots]
    /\ b.queue[s][p][k].id \in b.orders
    /\ new.orders = IF lots = b.queue[s][p][k].lots THEN b.orders \ {b.queue[s][p][k].id}
                                                    ELSE b.orders
    /\ new.seq = b.seq + 1

LEMMA TakenKeeps ==
    ASSUME NEW b, Consistent(b), NEW s \in Side, NEW p \in Price,
           NEW k \in DOMAIN b.queue[s][p], NEW lots \in 1 .. b.queue[s][p][k].lots,
           NEW new, new = Taken(b, s, p, k, lots)
    PROVE  TakenEffect(b, s, p, k, lots, new)
<1> DEFINE q == b.queue[s][p]
           level == TakenLevel(q, k, lots)
           sum == b.total[s][p] - lots
           ids == IF lots = q[k].lots THEN b.orders \ {q[k].id} ELSE b.orders
<1>1. IsBook(b) /\ Indexed(b) /\ RestsOnce(b) /\ b.feed = b.total
      /\ b.total[s][p] = LotsIn(q) /\ Ordered(q)
  BY DEF Consistent
<1>2. /\ b.queue \in Levels /\ b.total \in Totals /\ b.orders \subseteq 1 .. MaxSafe /\ b.feed \in Totals
      /\ q \in Seq(Order) /\ b.total[s][p] \in 0 .. MaxLevelLots
  BY <1>1, BookType
<1>3. /\ level \in Seq(Order) /\ Ordered(level) /\ LotsIn(level) = LotsIn(q) - lots
      /\ Ids(level) = IF lots = q[k].lots THEN Ids(q) \ {q[k].id} ELSE Ids(q)
  <2>1. q \in Seq(Order) /\ k \in DOMAIN q /\ lots \in 1 .. q[k].lots /\ Ordered(q)
    BY <1>1, <1>2
  <2> HIDE DEF q
  <2> QED BY <2>1, LevelTaken
<1>4. sum \in 0 .. MaxLevelLots
  <2>1. q[k].lots \in Nat /\ q[k].lots <= LotsIn(q)
    BY <1>2, LotsOfLevel
  <2>2. MaxLevelLots \in Nat
    BY EngineAssumption
  <2> QED BY <1>1, <1>2, <2>1, <2>2
<1>5. new = [queue |-> [b.queue EXCEPT ![s][p] = level], total |-> [b.total EXCEPT ![s][p] = sum],
             orders |-> ids, seq |-> b.seq + 1, feed |-> [b.feed EXCEPT ![s][p] = sum]]
  BY <1>1, TakenFields
<1> HIDE DEF level, sum, ids
<1>6. \A t \in Side, r \in Price : new.queue[t][r] = IF t = s /\ r = p THEN level ELSE b.queue[t][r]
  BY <1>2, <1>5 DEF Levels
<1>7. new.queue[Opposite(s)] = b.queue[Opposite(s)]
  BY <1>2, <1>5 DEF Levels, Opposite, Side
<1>8. q[k].id \in Ids(q)
  BY DEF Ids
<1>9. q[k].id \in b.orders
  BY <1>1, <1>8 DEF Indexed
<1>10. \A t \in Side, r \in Price : \A id :
         id \in Ids(new.queue[t][r]) <=> /\ id \in Ids(b.queue[t][r])
                                         /\ ~(lots = q[k].lots /\ id = q[k].id)
  <2> SUFFICES ASSUME NEW t \in Side, NEW r \in Price, NEW id
               PROVE  id \in Ids(new.queue[t][r]) <=> /\ id \in Ids(b.queue[t][r])
                                                      /\ ~(lots = q[k].lots /\ id = q[k].id)
    OBVIOUS
  <2>1. CASE t = s /\ r = p
    BY <1>3, <1>6, <2>1
  <2>2. CASE ~(t = s /\ r = p)
    <3>1. new.queue[t][r] = b.queue[t][r]
      BY <1>6, <2>2
    <3>2. q[k].id \notin Ids(b.queue[t][r])
      BY <1>1, <1>8, <2>2 DEF RestsOnce
    <3> QED BY <3>1, <3>2
  <2> QED BY <2>1, <2>2
<1>11. Indexed(new)
  <2> SUFFICES ASSUME NEW id
               PROVE  id \in new.orders <=> \E t \in Side, r \in Price : id \in Ids(new.queue[t][r])
    BY DEF Indexed
  <2>1. id \in new.orders <=> id \in b.orders /\ ~(lots = q[k].lots /\ id = q[k].id)
    BY <1>5 DEF ids
  <2>2. id \in b.orders <=> \E t \in Side, r \in Price : id \in Ids(b.queue[t][r])
    BY <1>1 DEF Indexed
  <2> QED BY <1>10, <2>1, <2>2
<1>12. RestsOnce(new)
  BY <1>1, <1>10 DEF RestsOnce
<1>13. Consistent(new)
  <2>1. ids \in SUBSET (1 .. MaxSafe) /\ sum = LotsIn(level)
    BY <1>1, <1>2, <1>3 DEF ids, sum
  <2> QED BY <1>3, <1>4, <1>5, <1>11, <1>12, <2>1, LevelReplaced
<1>14. /\ new.total = [b.total EXCEPT ![s][p] = sum] /\ new.orders = ids /\ new.seq = b.seq + 1
  BY <1>5
<1> QED BY <1>6, <1>7, <1>9, <1>13, <1>14 DEF level, sum, ids, TakenEffect

RestedEffect(b, s, p, order, new) ==
    /\ Consistent(new)
    /\ \A t \in Side, r \in Price :
         new.queue[t][r] = IF t = s /\ r = p THEN Append(b.queue[s][p], order) ELSE b.queue[t][r]
    /\ new.queue[Opposite(s)] = b.queue[Opposite(s)]
    /\ new.total[Opposite(s)] = b.total[Opposite(s)]
    /\ new.orders = b.orders \cup {order.id}
    /\ new.seq = b.seq + 1

LEMMA RestedKeeps ==
    ASSUME NEW b, Consistent(b), NEW s \in Side, NEW p \in Price,
           NEW order \in Order, \A id \in b.orders : id < order.id,
           b.total[s][p] + order.lots <= MaxLevelLots,
           NEW new, new = Rested(b, s, p, order)
    PROVE  RestedEffect(b, s, p, order, new)
<1> DEFINE q == b.queue[s][p]
           level == Append(q, order)
           sum == b.total[s][p] + order.lots
           ids == b.orders \cup {order.id}
<1>1. IsBook(b) /\ Indexed(b) /\ RestsOnce(b) /\ b.feed = b.total
      /\ b.total[s][p] = LotsIn(q) /\ Ordered(q)
  BY DEF Consistent
<1>2. /\ b.queue \in Levels /\ b.total \in Totals /\ b.orders \subseteq 1 .. MaxSafe /\ b.feed \in Totals
      /\ q \in Seq(Order) /\ b.total[s][p] \in 0 .. MaxLevelLots
  BY <1>1, BookType
<1>3. \A t \in Side, r \in Price : \A id \in Ids(b.queue[t][r]) : id \in b.orders /\ id < order.id
  BY <1>1 DEF Indexed
<1>4. /\ level \in Seq(Order) /\ Ordered(level) /\ LotsIn(level) = LotsIn(q) + order.lots
      /\ Ids(level) = Ids(q) \cup {order.id}
  BY <1>1, <1>2, <1>3, LevelJoined
<1>5. order.lots \in Nat /\ order.id \in 1 .. MaxSafe /\ MaxLevelLots \in Nat
  BY EngineAssumption DEF Order
<1>6. sum \in 0 .. MaxLevelLots
  BY <1>2, <1>5
<1>7. new = [queue |-> [b.queue EXCEPT ![s][p] = level], total |-> [b.total EXCEPT ![s][p] = sum],
             orders |-> ids, seq |-> b.seq + 1, feed |-> [b.feed EXCEPT ![s][p] = sum]]
  <2>1. IsBook(b)
    BY <1>1
  <2>2. \A x : Rested(b, s, p, x)
             = [queue |-> [b.queue EXCEPT ![s][p] = Append(b.queue[s][p], x)],
                total |-> [b.total EXCEPT ![s][p] = b.total[s][p] + x.lots],
                orders |-> b.orders \cup {x.id},
                seq |-> b.seq + 1,
                feed |-> [b.feed EXCEPT ![s][p] = b.total[s][p] + x.lots]]
    BY <2>1, RestedFields, Zenon
  <2> QED BY <2>2
<1> HIDE DEF level, sum, ids
<1>8. \A t \in Side, r \in Price : new.queue[t][r] = IF t = s /\ r = p THEN level ELSE b.queue[t][r]
  BY <1>2, <1>7 DEF Levels
<1>9. new.queue[Opposite(s)] = b.queue[Opposite(s)] /\ new.total[Opposite(s)] = b.total[Opposite(s)]
  BY <1>2, <1>7 DEF Levels, Totals, Opposite, Side
<1>10. \A t \in Side, r \in Price : \A id :
         id \in Ids(new.queue[t][r]) <=> \/ id \in Ids(b.queue[t][r])
                                         \/ id = order.id /\ t = s /\ r = p
  BY <1>4, <1>8
<1>11. \A t \in Side, r \in Price : order.id \notin Ids(b.queue[t][r])
  <2>1. ~(order.id < order.id)
    BY <1>5
  <2> QED BY <1>3, <2>1
<1>12. Indexed(new)
  <2> SUFFICES ASSUME NEW id
               PROVE  id \in new.orders <=> \E t \in Side, r \in Price : id \in Ids(new.queue[t][r])
    BY DEF Indexed
  <2>1. id \in new.orders <=> id \in b.orders \/ id = order.id
    BY <1>7 DEF ids
  <2>2. id \in b.orders <=> \E t \in Side, r \in Price : id \in Ids(b.queue[t][r])
    BY <1>1 DEF Indexed
  <2> QED BY <1>10, <2>1, <2>2
<1>13. RestsOnce(new)
  <2> SUFFICES ASSUME NEW t \in Side, NEW u \in Side, NEW r \in Price, NEW x \in Price, NEW id,
                      id \in Ids(new.queue[t][r]), id \in Ids(new.queue[u][x])
               PROVE  t = u /\ r = x
    BY DEF RestsOnce
  <2>1. CASE id = order.id
    BY <1>10, <1>11, <2>1
  <2>2. CASE id # order.id
    <3>1. id \in Ids(b.queue[t][r]) /\ id \in Ids(b.queue[u][x])
      BY <1>10, <2>2
    <3> QED BY <1>1, <3>1 DEF RestsOnce
  <2> QED BY <2>1, <2>2
<1>14. Consistent(new)
  <2>1. ids \in SUBSET (1 .. MaxSafe) /\ sum = LotsIn(level)
    BY <1>1, <1>2, <1>4, <1>5 DEF ids, sum
  <2> QED BY <1>4, <1>6, <1>7, <1>12, <1>13, <2>1, LevelReplaced
<1>15. new.orders = ids /\ new.seq = b.seq + 1
  BY <1>7
<1> QED BY <1>8, <1>9, <1>14, <1>15 DEF level, ids, RestedEffect

LEMMA SideLotsChanged ==
    ASSUME NEW levels \in [Price -> Nat], NEW p \in Price, NEW x \in Nat
    PROVE  SideLots([levels EXCEPT ![p] = x]) = SideLots(levels) - levels[p] + x
<1> DEFINE n == MaxPrice - MinPrice + 1
           new == [levels EXCEPT ![p] = x]
           seq(f) == [i \in 1 .. n |-> f[MinPrice + i - 1]]
<1>1. n \in Nat /\ MinPrice \in Nat /\ MaxPrice \in Nat /\ p \in MinPrice .. MaxPrice
  BY EngineAssumption DEF Price
<1>2. \A i \in 1 .. n : MinPrice + i - 1 \in Price
  BY <1>1 DEF Price
<1>3. p - MinPrice + 1 \in 1 .. n /\ MinPrice + (p - MinPrice + 1) - 1 = p
  BY <1>1
<1>4. \A i \in 1 .. n : MinPrice + i - 1 = p <=> i = p - MinPrice + 1
  BY <1>1
<1>5. seq(levels) \in Seq(Int) /\ Len(seq(levels)) = n
  <2> HIDE DEF n
  <2> QED BY <1>1, <1>2
<1>6. seq(new) \in Seq(Int) /\ Len(seq(new)) = n
  <2>1. new \in [Price -> Nat]
    OBVIOUS
  <2> HIDE DEF n, new
  <2> QED BY <1>1, <1>2, <2>1
<1>7. \A i \in 1 .. n : seq(new)[i] = IF i = p - MinPrice + 1 THEN x ELSE seq(levels)[i]
  <2> HIDE DEF n
  <2> QED BY <1>2, <1>4
<1>8. seq(levels)[p - MinPrice + 1] = levels[p]
  <2> HIDE DEF n
  <2> QED BY <1>3
<1>9. SideLots(levels) = SumOf(seq(levels)) /\ SideLots(new) = SumOf(seq(new))
  BY DEF SideLots
<1> HIDE DEF seq, new, n
<1>10. SumOf(seq(new)) = SumOf(seq(levels)) - seq(levels)[p - MinPrice + 1] + x
  <2>1. p - MinPrice + 1 \in 1 .. Len(seq(levels)) /\ x \in Int
    BY <1>3, <1>5
  <2>2. Len(seq(new)) = Len(seq(levels))
    BY <1>5, <1>6
  <2>3. \A i \in 1 .. Len(seq(levels)) :
          seq(new)[i] = IF i = p - MinPrice + 1 THEN x ELSE seq(levels)[i]
    BY <1>5, <1>7
  <2> QED BY <1>5, <1>6, <2>1, <2>2, <2>3, SumChanged
<1> QED BY <1>8, <1>9, <1>10 DEF new

LEMMA SideLotsType ==
    ASSUME NEW levels \in [Price -> Nat]
    PROVE  SideLots(levels) \in Nat
<1> DEFINE n == MaxPrice - MinPrice + 1
           seq == [i \in 1 .. n |-> levels[MinPrice + i - 1]]
<1>1. n \in Nat /\ \A i \in 1 .. n : MinPrice + i - 1 \in Price
  BY EngineAssumption DEF Price
<1>2. seq \in Seq(Nat)
  <2> HIDE DEF n
  <2> QED BY <1>1
<1>3. SumOf(seq) \in Nat
  <2> HIDE DEF seq
  <2> QED BY <1>2, SumBounds
<1> QED BY <1>3 DEF SideLots

-----------------------------------------------------------------------------
(* Matching. *)

LEMMA BestPrice ==
    ASSUME NEW side \in Side, NEW prices \in SUBSET Price, prices # {}
    PROVE  /\ BestOf(side, prices) \in prices
           /\ \A r \in prices : ~Better(side, r, BestOf(side, prices))
<1> DEFINE best == BestOf(side, prices)
<1>1. Price \subseteq Nat /\ \A x \in Price : MaxPrice - x \in Nat
  BY EngineAssumption DEF Price
<1>2. CASE side = "buy"
  <2>1. \E p \in prices : \A r \in prices : p <= r
    BY <1>1, LeastNumber
  <2>2. best = CHOOSE p \in prices : \A r \in prices : p <= r
    BY <1>2 DEF BestOf
  <2> HIDE DEF best
  <2>3. best \in prices /\ \A r \in prices : best <= r
    BY <2>1, <2>2
  <2>4. ASSUME NEW r \in prices PROVE ~Better(side, r, best)
    <3>1. best <= r /\ r \in Int /\ best \in Int
      BY <1>1, <2>3
    <3>2. ~(r < best)
      BY <3>1
    <3> QED BY <1>2, <3>2 DEF Better
  <2> QED BY <2>3, <2>4 DEF best
<1>3. CASE side # "buy"
  <2> DEFINE T == {MaxPrice - x : x \in prices}
  <2>1. T \in SUBSET Nat /\ T # {}
    BY <1>1
  <2>2. PICK n \in T : \A m \in T : n <= m
    <3> HIDE DEF T
    <3> QED BY <2>1, LeastNumber
  <2>3. PICK p \in prices : n = MaxPrice - p
    BY <2>2
  <2>4. ASSUME NEW r \in prices PROVE p >= r
    <3>1. MaxPrice - p <= MaxPrice - r
      BY <2>2, <2>3
    <3>2. p \in Int /\ r \in Int /\ MaxPrice \in Int
      BY <1>1, EngineAssumption
    <3> QED BY <3>1, <3>2
  <2>5. best = CHOOSE x \in prices : \A r \in prices : x >= r
    BY <1>3 DEF BestOf
  <2> HIDE DEF best
  <2>6. best \in prices /\ \A r \in prices : best >= r
    BY <2>4, <2>5
  <2>7. ASSUME NEW r \in prices PROVE ~Better(side, r, best)
    <3>1. best >= r /\ r \in Int /\ best \in Int
      BY <1>1, <2>6
    <3>2. ~(r > best)
      BY <3>1
    <3> QED BY <1>3, <3>2 DEF Better
  <2> QED BY <2>6, <2>7 DEF best
<1> QED BY <1>2, <1>3

LEMMA Sides ==
    ASSUME NEW side \in Side
    PROVE  Opposite(side) \in Side /\ Opposite(side) # side /\ Opposite(Opposite(side)) = side
BY DEF Side, Opposite

\* A better price than one within the limit is within the limit.
LEMMA BetterWithin ==
    ASSUME NEW side \in Side, NEW limit \in Price, NEW p \in Price, NEW r \in Price,
           WithinLimit(p, side, limit), Better(side, r, p)
    PROVE  WithinLimit(r, side, limit) /\ r # p
<1>1. limit \in Int /\ p \in Int /\ r \in Int
  BY EngineAssumption DEF Price
<1> QED BY <1>1 DEF WithinLimit, Better

\* One fill, as Submit plans it: what is true of the book underway stays true, and
\* either the order is done or a maker has left.
LEMMA FillKeeps ==
    ASSUME NEW b0, IsBook(b0), NEW side \in Side, NEW limit \in Price, NEW lots \in Nat, NEW match,
           Underway(b0, match, side, limit, lots), ~Done(match, side, limit)
    PROVE  LET new == Filled(match, side, limit)
           IN  /\ Underway(b0, new, side, limit, lots)
               /\ \/ Done(new, side, limit)
                  \/ \E id \in match.book.orders : new.book.orders = match.book.orders \ {id}
<1> DEFINE o == Opposite(side)
           b == match.book
           prices == Compatible(b, side, limit)
           p == BestOf(side, prices)
           q == b.queue[o][p]
           given == Least(match.left, q[1].lots)
           c == Taken(b, o, p, 1, given)
           new == Filled(match, side, limit)
<1>1. /\ Consistent(b) /\ IsBook(b) /\ match.left \in 0 .. lots
      /\ b.queue[side] = b0.queue[side] /\ b.total[side] = b0.total[side]
      /\ b.orders \subseteq b0.orders /\ b.seq >= b0.seq
      /\ SideLots(b0.total[o]) - SideLots(b.total[o]) = lots - match.left
  BY DEF Underway, Consistent
<1>2. \A r \in Price :
        /\ ~WithinLimit(r, side, limit) => b.queue[o][r] = b0.queue[o][r]
        /\ \E d \in Nat : Suffix(b0.queue[o][r], b.queue[o][r], d)
        /\ b.queue[o][r] # b0.queue[o][r] => \A x \in Price : Better(side, x, r) => b.queue[o][x] = <<>>
  BY DEF Underway
<1>3. match.left # 0 /\ prices # {} /\ new = [book |-> c, left |-> match.left - given]
  BY DEF Done, Filled
<1>4. prices \in SUBSET Price
  BY DEF Compatible
<1>5. p \in prices /\ \A r \in prices : ~Better(side, r, p)
  <2> HIDE DEF prices
  <2> QED BY <1>3, <1>4, BestPrice
<1>6. o \in Side /\ o # side /\ Opposite(o) = side
  BY Sides
<1>7. p \in Price /\ q # <<>> /\ WithinLimit(p, side, limit)
  <2> HIDE DEF p
  <2> QED BY <1>5 DEF Compatible
<1> HIDE DEF new, c, given, p, prices, o
<1>8. q \in Seq(Order) /\ 1 \in DOMAIN q /\ q[1].lots \in Nat \ {0}
  <2>1. q \in Seq(Order)
    BY <1>1, <1>6, <1>7, BookType
  <2> HIDE DEF q
  <2>2. 1 \in DOMAIN q
    BY <1>7, <2>1, EmptySeq
  <2> QED BY <2>1, <2>2, LotsOfLevel
<1>9. given \in 1 .. q[1].lots /\ given \in 1 .. match.left /\ (given = match.left \/ given = q[1].lots)
  <2>1. \A x, y \in Nat \ {0} : Least(x, y) \in 1 .. x /\ Least(x, y) \in 1 .. y /\ Least(x, y) \in {x, y}
    BY DEF Least
  <2>2. match.left \in Nat \ {0} /\ q[1].lots \in Nat \ {0}
    BY <1>1, <1>3, <1>8
  <2> HIDE DEF q
  <2> QED BY <2>1, <2>2 DEF given
<1>10. /\ Consistent(c)
       /\ \A r \in Price :
            c.queue[o][r] = IF r = p THEN TakenLevel(q, 1, given) ELSE b.queue[o][r]
       /\ c.queue[side] = b.queue[side]
       /\ c.total = [b.total EXCEPT ![o][p] = b.total[o][p] - given]
       /\ q[1].id \in b.orders
       /\ c.orders = IF given = q[1].lots THEN b.orders \ {q[1].id} ELSE b.orders
       /\ c.seq = b.seq + 1
  <2>1. Consistent(b) /\ o \in Side /\ p \in Price /\ 1 \in DOMAIN b.queue[o][p]
        /\ given \in 1 .. b.queue[o][p][1].lots
    BY <1>1, <1>6, <1>7, <1>8, <1>9
  <2>2. TakenEffect(b, o, p, 1, given, c)
    BY <2>1, TakenKeeps, Zenon DEF c
  <2> QED BY <1>6, <2>2 DEF TakenEffect
<1>11. new.book = c /\ new.left = match.left - given
  BY <1>3
<1>12. new.left \in 0 .. lots
  BY <1>1, <1>9, <1>11
<1>13. c.total[side] = b0.total[side] /\ c.total[o] = [b.total[o] EXCEPT ![p] = b.total[o][p] - given]
  <2>1. b.total \in Totals
    BY <1>1, BookType
  <2> QED BY <1>1, <1>6, <1>7, <1>10, <2>1 DEF Totals
<1>14. SideLots(b0.total[o]) - SideLots(c.total[o]) = lots - new.left
  <2>1. b.total[o] \in [Price -> Nat] /\ b0.total[o] \in [Price -> Nat]
    <3>1. b.total \in Totals /\ b0.total \in Totals
      BY <1>1, BookType
    <3>2. 0 .. MaxLevelLots \subseteq Nat
      BY EngineAssumption
    <3> QED BY <1>6, <3>1, <3>2 DEF Totals
  <2>2. b.total[o][p] - given \in Nat
    <3>1. c.total[o][p] \in Nat
      <4>1. IsBook(c)
        BY <1>10 DEF Consistent
      <4>2. c.total[o][p] \in 0 .. MaxLevelLots
        BY <1>6, <1>7, <4>1, BookType
      <4> QED BY <4>2, EngineAssumption
    <3> QED BY <1>7, <1>13, <2>1, <3>1
  <2>3. SideLots(c.total[o]) = SideLots(b.total[o]) - b.total[o][p] + (b.total[o][p] - given)
    BY <1>7, <1>13, <2>1, <2>2, SideLotsChanged
  <2>4. SideLots(b.total[o]) \in Int /\ SideLots(b0.total[o]) \in Int /\ b.total[o][p] \in Int
    <3>1. SideLots(b.total[o]) \in Nat /\ SideLots(b0.total[o]) \in Nat
      BY <2>1, SideLotsType
    <3>2. b.total[o][p] \in Nat
      BY <1>7, <2>1
    <3> QED BY <3>1, <3>2
  <2>5. SideLots(b0.total[o]) - SideLots(b.total[o]) = lots - match.left
    BY <1>1
  <2>6. lots \in Int /\ match.left \in Int /\ given \in Int /\ new.left = match.left - given
    BY <1>1, <1>9, <1>11
  <2>7. SideLots(c.total[o]) = SideLots(b.total[o]) - given
    BY <2>3, <2>4, <2>6
  <2> QED BY <2>4, <2>5, <2>6, <2>7
<1>15. c.orders \subseteq b0.orders /\ c.seq >= b0.seq
  <2>1. b.seq \in Int /\ b0.seq \in Int
    BY <1>1, BookType
  <2>2. c.orders \subseteq b.orders /\ c.seq = b.seq + 1
    BY <1>10
  <2>3. b.orders \subseteq b0.orders /\ b.seq >= b0.seq
    BY <1>1
  <2> QED BY <2>1, <2>2, <2>3
<1>16. ASSUME NEW r \in Price
       PROVE  /\ ~WithinLimit(r, side, limit) => c.queue[o][r] = b0.queue[o][r]
              /\ \E d \in Nat : Suffix(b0.queue[o][r], c.queue[o][r], d)
              /\ c.queue[o][r] # b0.queue[o][r] =>
                   \A x \in Price : Better(side, x, r) => c.queue[o][x] = <<>>
  <2>1. CASE r = p
    <3>1. WithinLimit(r, side, limit)
      BY <1>7, <2>1
    <3>2. \E d \in Nat : Suffix(b0.queue[o][r], c.queue[o][r], d)
      <4>1. PICK d \in Nat : Suffix(b0.queue[o][p], q, d)
        BY <1>2, <1>7
      <4>2. b0.queue[o][p] \in Seq(Order)
        BY <1>6, <1>7, BookType
      <4>3. \E e \in Nat : Suffix(b0.queue[o][p], TakenLevel(q, 1, given), e)
        BY <1>7, <1>8, <1>9, <4>1, <4>2, SuffixTaken
      <4> QED BY <1>7, <1>10, <2>1, <4>3
    <3>3. ASSUME NEW x \in Price, Better(side, x, r) PROVE c.queue[o][x] = <<>>
      <4>1. WithinLimit(x, side, limit) /\ x # p /\ x \notin prices
        BY <1>5, <1>7, <2>1, <3>3, BetterWithin
      <4>2. b.queue[o][x] = <<>>
        BY <4>1 DEF prices, Compatible, o
      <4> QED BY <1>10, <4>1, <4>2
    <3> QED BY <3>1, <3>2, <3>3
  <2>2. CASE r # p
    <3>1. c.queue[o][r] = b.queue[o][r]
      BY <1>10, <2>2
    <3>2. ASSUME NEW x \in Price, Better(side, x, r), c.queue[o][r] # b0.queue[o][r]
          PROVE  c.queue[o][x] = <<>>
      <4>1. b.queue[o][x] = <<>>
        BY <1>2, <3>1, <3>2
      <4>2. x # p
        BY <1>7, <4>1
      <4> QED BY <1>10, <4>1, <4>2
    <3> QED BY <1>2, <3>1, <3>2
  <2> QED BY <2>1, <2>2
<1>17. Underway(b0, new, side, limit, lots)
  BY <1>1, <1>10, <1>11, <1>12, <1>13, <1>14, <1>15, <1>16 DEF Underway, o
<1>18. Done(new, side, limit) \/ \E id \in b.orders : new.book.orders = b.orders \ {id}
  <2>1. CASE given = match.left
    <3>1. new.left = 0
      BY <1>1, <1>11, <2>1
    <3> QED BY <3>1 DEF Done
  <2>2. CASE given = q[1].lots
    BY <1>10, <1>11, <2>2
  <2> QED BY <1>9, <2>1, <2>2
<1> QED BY <1>17, <1>18 DEF new

\* The fills of an order, one after the other.
Fills(f, n, start, side, limit) ==
    f = [k \in 0 .. n |-> IF k = 0 THEN start ELSE Filled(f[k - 1], side, limit)]

LEMMA FillsExist ==
    ASSUME NEW start, NEW side, NEW limit, NEW n \in Nat
    PROVE  \E f : Fills(f, n, start, side, limit)
<1> DEFINE T == {m \in Nat : \E f : Fills(f, m, start, side, limit)}
<1>1. 0 \in T
  <2> DEFINE f == [k \in 0 .. 0 |-> start]
  <2>1. f = [k \in 0 .. 0 |-> IF k = 0 THEN start ELSE Filled(f[k - 1], side, limit)]
    OBVIOUS
  <2>2. Fills(f, 0, start, side, limit)
    <3> HIDE DEF f
    <3> QED BY <2>1 DEF Fills
  <2> QED BY <2>2
<1>2. ASSUME NEW m \in Nat, m \in T PROVE m + 1 \in T
  <2>1. PICK f : Fills(f, m, start, side, limit)
    BY <1>2
  <2> DEFINE g == [k \in 0 .. m + 1 |-> IF k = m + 1 THEN Filled(f[m], side, limit) ELSE f[k]]
  <2>2. ASSUME NEW k \in 0 .. m + 1
        PROVE  g[k] = IF k = 0 THEN start ELSE Filled(g[k - 1], side, limit)
    <3>1. CASE k = m + 1
      <4>1. k - 1 = m /\ m \in 0 .. m + 1 /\ m # m + 1 /\ k # 0
        BY <3>1
      <4>2. g[k] = Filled(f[m], side, limit) /\ g[k - 1] = f[m]
        BY <3>1, <4>1
      <4> QED BY <4>1, <4>2
    <3>2. CASE k # m + 1
      <4>1. k \in 0 .. m /\ g[k] = f[k]
        BY <3>2
      <4>2. f[k] = IF k = 0 THEN start ELSE Filled(f[k - 1], side, limit)
        BY <2>1, <4>1 DEF Fills
      <4>3. k # 0 => k - 1 \in 0 .. m + 1 /\ k - 1 # m + 1
        BY <3>2
      <4>4. k # 0 => g[k - 1] = f[k - 1]
        BY <4>3
      <4> QED BY <4>1, <4>2, <4>4
    <3> QED BY <3>1, <3>2
  <2>3. g = [k \in 0 .. m + 1 |-> g[k]]
    OBVIOUS
  <2> HIDE DEF g
  <2>4. g = [k \in 0 .. m + 1 |-> IF k = 0 THEN start ELSE Filled(g[k - 1], side, limit)]
    BY <2>2, <2>3
  <2>5. Fills(g, m + 1, start, side, limit)
    BY <2>4 DEF Fills
  <2> QED BY <2>5
<1>3. Nat \subseteq T
  <2> HIDE DEF T
  <2> QED BY <1>1, <1>2, Numbers
<1> QED BY <1>3

LEMMA MatchedFills ==
    ASSUME NEW side, NEW limit, NEW lots, Cardinality(orders) \in Nat
    PROVE  \E f : /\ Fills(f, Cardinality(orders), [book |-> Current, left |-> lots], side, limit)
                  /\ Matched(side, limit, lots) = f[Cardinality(orders)]
<1> DEFINE n == Cardinality(orders)
           start == [book |-> Current, left |-> lots]
           f == CHOOSE g : Fills(g, n, start, side, limit)
<1>1. Fills(f, n, start, side, limit)
  <2> HIDE DEF n, start
  <2>1. n \in Nat
    BY DEF n
  <2>2. \E g : Fills(g, n, start, side, limit)
    BY <2>1, FillsExist, Zenon
  <2> QED BY <2>2, Zenon
<1>2. Matched(side, limit, lots) = f[n]
  BY DEF Matched, Fills
<1> QED BY <1>1, <1>2

\* A consistent book without orders has empty levels only.
LEMMA NoOrders ==
    ASSUME NEW b, Consistent(b), b.orders = {}, NEW s \in Side, NEW p \in Price
    PROVE  b.queue[s][p] = <<>>
<1>1. Ids(b.queue[s][p]) = {}
  BY DEF Consistent, Indexed
<1>2. b.queue[s][p] \in Seq(Order)
  BY BookType DEF Consistent
<1>3. DOMAIN b.queue[s][p] = {}
  BY <1>1 DEF Ids
<1>4. Len(b.queue[s][p]) \in Nat /\ DOMAIN b.queue[s][p] = 1 .. Len(b.queue[s][p])
  BY <1>2, LenProperties
<1>5. Len(b.queue[s][p]) = 0
  <2> SUFFICES ASSUME Len(b.queue[s][p]) # 0 PROVE FALSE
    OBVIOUS
  <2>1. 1 \in 1 .. Len(b.queue[s][p])
    BY <1>4
  <2> QED BY <1>3, <1>4, <2>1
<1> QED BY <1>2, <1>5, EmptySeq

\* After k fills either the order is done or at least k makers have left.
LEMMA FillsKeep ==
    ASSUME NEW b0, Consistent(b0), NEW side \in Side, NEW limit \in Price, NEW lots \in Nat,
           NEW n \in Nat, NEW f, Fills(f, n, [book |-> b0, left |-> lots], side, limit)
    PROVE  \A k \in 0 .. n : /\ Underway(b0, f[k], side, limit, lots)
                             /\ \/ Done(f[k], side, limit)
                                \/ Cardinality(f[k].book.orders) + k <= Cardinality(b0.orders)
<1> DEFINE start == [book |-> b0, left |-> lots]
           left(m) == Cardinality(m.book.orders)
           Ok(k) == /\ Underway(b0, f[k], side, limit, lots)
                    /\ Done(f[k], side, limit) \/ left(f[k]) + k <= Cardinality(b0.orders)
           T == {k \in Nat : k <= n => Ok(k)}
<1>1. IsBook(b0) /\ IsFiniteSet(b0.orders) /\ Cardinality(b0.orders) \in Nat
  <2>1. IsBook(b0) /\ b0.orders \subseteq 1 .. MaxSafe
    BY BookType DEF Consistent
  <2>2. IsFiniteSet(1 .. MaxSafe)
    BY FS_Interval, EngineAssumption
  <2>3. IsFiniteSet(b0.orders)
    BY <2>1, <2>2, FS_Subset
  <2> QED BY <2>1, <2>3, FS_CardinalityType
<1>2. \A k \in 0 .. n : f[k] = IF k = 0 THEN start ELSE Filled(f[k - 1], side, limit)
  BY DEF Fills
<1>3. 0 \in T
  <2>1. f[0] = start
    BY <1>2
  <2>2. Underway(b0, start, side, limit, lots)
    <3> DEFINE o == Opposite(side)
    <3>1. o \in Side
      BY Sides
    <3> HIDE DEF o
    <3>2. SideLots(b0.total[o]) \in Int
      <4>1. b0.total[o] \in [Price -> Nat]
        BY <1>1, <3>1, BookType, EngineAssumption DEF Totals
      <4>2. SideLots(b0.total[o]) \in Nat
        BY <4>1, SideLotsType
      <4> QED BY <4>2
    <3>3. SideLots(b0.total[o]) - SideLots(b0.total[o]) = lots - lots /\ lots \in 0 .. lots
      BY <3>2
    <3>4. \A p \in Price : \E d \in Nat : Suffix(b0.queue[o][p], b0.queue[o][p], d)
      BY <1>1, <3>1, BookType, SuffixStays
    <3>5. b0.seq >= b0.seq
      BY <1>1, BookType
    <3> QED BY <3>3, <3>4, <3>5 DEF Underway, o
  <2>3. left(start) + 0 <= Cardinality(b0.orders)
    BY <1>1
  <2> QED BY <2>1, <2>2, <2>3
<1>4. ASSUME NEW k \in Nat, k \in T PROVE k + 1 \in T
  <2> SUFFICES ASSUME k + 1 <= n PROVE Ok(k + 1)
    OBVIOUS
  <2>1. Ok(k) /\ f[k + 1] = Filled(f[k], side, limit)
    <3>1. k <= n /\ k + 1 \in 0 .. n /\ k + 1 # 0 /\ k + 1 - 1 = k
      OBVIOUS
    <3>2. Ok(k)
      <4> HIDE DEF Ok
      <4> QED BY <1>4, <3>1
    <3>3. f[k + 1] = Filled(f[k + 1 - 1], side, limit)
      BY <1>2, <3>1
    <3> HIDE DEF Ok
    <3> QED BY <3>1, <3>2, <3>3
  <2>2. CASE Done(f[k], side, limit)
    <3>1. Filled(f[k], side, limit) = f[k]
      BY <2>2 DEF Done, Filled
    <3> QED BY <2>1, <2>2, <3>1
  <2>3. CASE ~Done(f[k], side, limit)
    <3>1. /\ Underway(b0, f[k + 1], side, limit, lots)
          /\ \/ Done(f[k + 1], side, limit)
             \/ \E id \in f[k].book.orders : f[k + 1].book.orders = f[k].book.orders \ {id}
      BY <1>1, <2>1, <2>3, FillKeeps
    <3>2. CASE Done(f[k + 1], side, limit)
      BY <3>1, <3>2
    <3>3. CASE \E id \in f[k].book.orders : f[k + 1].book.orders = f[k].book.orders \ {id}
      <4>1. PICK id \in f[k].book.orders : f[k + 1].book.orders = f[k].book.orders \ {id}
        BY <3>3
      <4>2. IsFiniteSet(f[k].book.orders)
        BY <1>1, <2>1, FS_Subset DEF Underway
      <4>3. left(f[k]) \in Nat /\ left(f[k + 1]) = left(f[k]) - 1
        BY <4>1, <4>2, FS_RemoveElement, FS_CardinalityType
      <4>4. left(f[k]) + k <= Cardinality(b0.orders)
        BY <2>1, <2>3
      <4>5. left(f[k + 1]) + (k + 1) <= Cardinality(b0.orders)
        <5> HIDE DEF left
        <5> QED BY <1>1, <4>3, <4>4
      <4> QED BY <3>1, <4>5
    <3> QED BY <3>1, <3>2, <3>3
  <2> QED BY <2>2, <2>3
<1>5. Nat \subseteq T
  <2> HIDE DEF T
  <2> QED BY <1>3, <1>4, Numbers
<1>6. \A k \in 0 .. n : Ok(k)
  <2> HIDE DEF Ok
  <2> QED BY <1>5
<1> QED BY <1>6

\* Submit's matching: the fills that were planned are all there are.
LEMMA MatchedKeeps ==
    ASSUME Consistent(Current), NEW side \in Side, NEW limit \in Price, NEW lots \in Nat
    PROVE  /\ Underway(Current, Matched(side, limit, lots), side, limit, lots)
           /\ Done(Matched(side, limit, lots), side, limit)
<1> DEFINE n == Cardinality(orders)
           start == [book |-> Current, left |-> lots]
           end == Matched(side, limit, lots)
<1>1. Current.orders = orders
  BY DEF Current
<1>2. IsFiniteSet(orders) /\ n \in Nat
  <2>1. orders \subseteq 1 .. MaxSafe
    BY <1>1, BookType DEF Consistent
  <2>2. IsFiniteSet(1 .. MaxSafe)
    BY FS_Interval, EngineAssumption
  <2>3. IsFiniteSet(orders)
    BY <2>1, <2>2, FS_Subset
  <2> QED BY <2>3, FS_CardinalityType
<1>3. PICK f : Fills(f, n, start, side, limit) /\ end = f[n]
  BY <1>2, MatchedFills, Zenon
<1> HIDE DEF end, n
<1>4. \A k \in 0 .. n : /\ Underway(Current, f[k], side, limit, lots)
                        /\ \/ Done(f[k], side, limit)
                           \/ Cardinality(f[k].book.orders) + k <= Cardinality(Current.orders)
  BY <1>2, <1>3, FillsKeep DEF n
<1>5. /\ Underway(Current, end, side, limit, lots)
      /\ Done(end, side, limit) \/ Cardinality(end.book.orders) + n <= n
  <2>1. n \in 0 .. n /\ Cardinality(Current.orders) = n
    BY <1>1, <1>2 DEF n
  <2> QED BY <1>3, <1>4, <2>1
<1>6. CASE Cardinality(end.book.orders) + n <= n
  <2>1. Consistent(end.book) /\ end.book.orders \subseteq orders
    BY <1>1, <1>5 DEF Underway
  <2>2. IsFiniteSet(end.book.orders)
    BY <1>2, <2>1, FS_Subset
  <2>3. Cardinality(end.book.orders) \in Nat
    BY <2>2, FS_CardinalityType
  <2>4. Cardinality(end.book.orders) = 0
    BY <1>2, <1>6, <2>3
  <2>5. end.book.orders = {}
    BY <2>2, <2>4, FS_EmptySet
  <2>6. Compatible(end.book, side, limit) = {}
    BY <2>1, <2>5, NoOrders, Sides DEF Compatible
  <2> QED BY <1>5, <2>6 DEF Done, end
<1> QED BY <1>5, <1>6 DEF end

-----------------------------------------------------------------------------
(* The invariant. *)

LEMMA CurrentFields ==
    /\ Current.queue = queue /\ Current.total = total /\ Current.orders = orders
    /\ Current.seq = nextSeq /\ Current.feed = feed
BY DEF Current

LEMMA EmptyBook == Init => EngineInvariant
<1> SUFFICES ASSUME Init PROVE EngineInvariant
  OBVIOUS
<1> USE DEF Init, EmptySide
<1>1. \A s \in Side, p \in Price : queue[s][p] = <<>> /\ total[s][p] = 0
  OBVIOUS
<1>2. LotsIn(<<>>) = 0
  <2>1. [k \in DOMAIN <<>> |-> <<>>[k].lots] = <<>>
    OBVIOUS
  <2> QED BY <2>1, SumEmpty DEF LotsIn
<1>3. IsBook(Current)
  <2>1. queue \in Levels
    BY DEF Levels
  <2>2. total \in Totals /\ feed \in Totals
    BY EngineAssumption DEF Totals
  <2> HIDE DEF Init
  <2>3. orders \in SUBSET (1 .. MaxSafe) /\ nextSeq \in Nat
    BY DEF Init
  <2> QED BY <2>1, <2>2, <2>3 DEF IsBook, Current
<1>4. Ids(<<>>) = {} /\ Ordered(<<>>)
  BY DEF Ids, Ordered
<1>5. Indexed(Current) /\ RestsOnce(Current)
  BY <1>1, <1>4, CurrentFields DEF Indexed, RestsOnce
<1>6. Consistent(Current)
  <2>1. Current.feed = Current.total
    BY CurrentFields
  <2> QED BY <1>1, <1>2, <1>3, <1>4, <1>5, <2>1, CurrentFields DEF Consistent
<1>7. NotCrossed
  BY <1>1 DEF NotCrossed, Side
<1>8. Cardinality(orders) <= MaxOrders
  BY FS_EmptySet, EngineAssumption
<1>9. nextID \in 1 .. MaxSafe + 1 /\ nextSeq \in 1 .. MaxSafe + 1 /\ \A id \in orders : id < nextID
  BY EngineAssumption
<1>10. last \in [side : Side, price : Price, lots : 0 .. MaxOrderLots, rested : 0 .. MaxOrderLots]
  BY EngineAssumption DEF Side, Price
<1> QED BY <1>6, <1>7, <1>8, <1>9, <1>10 DEF EngineInvariant

\* The book after an accepted order.
After(side, limit, match) ==
    IF match.left > 0 THEN Rested(match.book, side, limit, [id |-> nextID, lots |-> match.left])
                      ELSE match.book

LEMMA AcceptedKeeps ==
    ASSUME EngineInvariant, NEW side \in Side, NEW limit \in Price, NEW lots \in 1 .. MaxOrderLots,
           NEW match, Underway(Current, match, side, limit, lots), Done(match, side, limit),
           Accepted(side, limit, match), NEW b, b = After(side, limit, match)
    PROVE  /\ Consistent(b)
           /\ b.seq \in 1 .. MaxSafe + 1
           /\ \A id \in b.orders : id < nextID + 1
           /\ Cardinality(b.orders) <= MaxOrders
           /\ b.queue[Opposite(side)] = match.book.queue[Opposite(side)]
           /\ b.total[Opposite(side)] = match.book.total[Opposite(side)]
           /\ \A p \in Price : b.queue[side][p] =
                IF match.left > 0 /\ p = limit
                  THEN Append(queue[side][p], [id |-> nextID, lots |-> match.left]) ELSE queue[side][p]
<1> DEFINE c == match.book
           order == [id |-> nextID, lots |-> match.left]
<1>1. /\ Consistent(c) /\ IsBook(c) /\ match.left \in 0 .. lots
      /\ c.queue[side] = queue[side] /\ c.total[side] = total[side]
      /\ c.orders \subseteq orders /\ c.seq >= nextSeq
  BY CurrentFields DEF Underway, Consistent
<1>2. /\ nextID \in 1 .. MaxSafe + 1 /\ nextID <= MaxSafe /\ nextSeq \in 1 .. MaxSafe + 1
      /\ MaxSafe \in Nat /\ MaxOrders \in Nat /\ MaxOrderLots \in Nat
      /\ \A id \in orders : id < nextID
      /\ c.seq \in Nat
  BY <1>1, BookType, EngineAssumption DEF EngineInvariant, Accepted
<1>3. \A id \in c.orders : id \in Int /\ id < nextID
  BY <1>1, <1>2, BookType
<1>4. IsFiniteSet(orders) /\ IsFiniteSet(c.orders)
  <2>1. orders \subseteq 1 .. MaxSafe
    BY CurrentFields, BookType DEF EngineInvariant, Consistent
  <2>2. IsFiniteSet(1 .. MaxSafe)
    BY FS_Interval, <1>2
  <2>3. IsFiniteSet(orders)
    BY <2>1, <2>2, FS_Subset
  <2> QED BY <1>1, <2>3, FS_Subset
<1>5. CASE match.left > 0
  <2>1. order \in Order /\ order.id = nextID /\ order.lots = match.left
    BY <1>1, <1>2, <1>5 DEF Order
  <2>2. c.total[side][limit] + order.lots <= MaxLevelLots
    <3>1. match.left <= MaxLevelLots - total[side][limit]
      BY <1>5 DEF Accepted
    <3>2. c.total[side][limit] = total[side][limit] /\ c.total[side][limit] \in 0 .. MaxLevelLots
      BY <1>1, BookType
    <3> QED BY <1>1, <2>1, <3>1, <3>2, EngineAssumption
  <2>3. b = Rested(c, side, limit, order)
    BY <1>5 DEF After
  <2> HIDE DEF order
  <2>4. RestedEffect(c, side, limit, order, b)
    BY <1>1, <1>3, <2>1, <2>2, <2>3, RestedKeeps
  <2>5. \A id \in b.orders : id < nextID + 1
    BY <1>2, <1>3, <2>1, <2>4 DEF RestedEffect
  <2>6. Cardinality(b.orders) <= MaxOrders
    <3>1. nextID \notin c.orders
      BY <1>2, <1>3
    <3>2. Cardinality(c.orders \cup {nextID}) = Cardinality(c.orders) + 1
      BY <1>4, <3>1, FS_AddElement
    <3>3. Cardinality(c.orders) + 1 <= MaxOrders
      BY <1>5 DEF Accepted
    <3> QED BY <2>1, <2>4, <3>2, <3>3 DEF RestedEffect
  <2>7. b.seq \in 1 .. MaxSafe + 1
    <3>1. c.seq - nextSeq + 1 <= MaxSafe - nextSeq + 1
      BY <1>5 DEF Accepted
    <3>2. b.seq = c.seq + 1
      BY <2>4 DEF RestedEffect
    <3> QED BY <1>1, <1>2, <3>1, <3>2
  <2> QED BY <1>1, <1>5, <2>4, <2>5, <2>6, <2>7 DEF RestedEffect, order
<1>6. CASE ~(match.left > 0)
  <2>1. b = c
    BY <1>6 DEF After
  <2>2. b.seq \in 1 .. MaxSafe + 1
    <3>1. c.seq - nextSeq + 0 <= MaxSafe - nextSeq + 1
      BY <1>6 DEF Accepted
    <3> QED BY <1>1, <1>2, <2>1, <3>1
  <2>3. Cardinality(b.orders) <= MaxOrders
    <3>1. Cardinality(c.orders) <= Cardinality(orders) /\ Cardinality(orders) <= MaxOrders
      BY <1>1, <1>4, FS_Subset DEF EngineInvariant
    <3>2. Cardinality(c.orders) \in Nat /\ Cardinality(orders) \in Nat
      BY <1>4, FS_CardinalityType
    <3> QED BY <1>2, <2>1, <3>1, <3>2
  <2>4. \A id \in b.orders : id < nextID + 1
    BY <1>2, <1>3, <2>1
  <2> QED BY <1>1, <1>6, <2>1, <2>2, <2>3, <2>4
<1> QED BY <1>5, <1>6

\* A level that still has orders had some before.
LEMMA SuffixNonempty ==
    ASSUME NEW q0 \in Seq(Order), NEW q \in Seq(Order), NEW d \in Nat, Suffix(q0, q, d), q # <<>>
    PROVE  q0 # <<>>
<1>1. Len(q) \in Nat /\ Len(q) # 0
  BY EmptySeq
<1>2. Len(q0) = Len(q) + d
  BY DEF Suffix
<1>3. Len(q0) # 0
  BY <1>1, <1>2
<1> QED BY <1>3

\* A price of the own side meets no price of the other that is not within it.
LEMMA Apart ==
    ASSUME NEW side \in Side, NEW p \in Price, NEW r \in Price
    PROVE  WithinLimit(r, side, p) <=> IF side = "buy" THEN ~(p < r) ELSE ~(r < p)
<1>1. p \in Int /\ r \in Int
  BY EngineAssumption DEF Price
<1> QED BY <1>1 DEF WithinLimit

Uncrossed(q) ==
    \A side \in Side : \A p, r \in Price :
        q[side][p] # <<>> /\ q[Opposite(side)][r] # <<>> => ~WithinLimit(r, side, p)

LEMMA UncrossedIsNotCrossed == NotCrossed <=> Uncrossed(queue)
<1>1. NotCrossed => Uncrossed(queue)
  <2> SUFFICES ASSUME NotCrossed, NEW side \in Side, NEW p \in Price, NEW r \in Price,
                      queue[side][p] # <<>>, queue[Opposite(side)][r] # <<>>
               PROVE  ~WithinLimit(r, side, p)
    BY DEF Uncrossed
  <2>1. CASE side = "buy"
    BY <2>1, Apart DEF NotCrossed, Opposite
  <2>2. CASE side = "sell"
    BY <2>2, Apart DEF NotCrossed, Opposite
  <2> QED BY <2>1, <2>2 DEF Side
<1>2. Uncrossed(queue) => NotCrossed
  <2> SUFFICES ASSUME Uncrossed(queue), NEW p \in Price, NEW r \in Price,
                      queue["buy"][p] # <<>>, queue["sell"][r] # <<>>
               PROVE  p < r
    BY DEF NotCrossed
  <2>1. "buy" \in Side /\ Opposite("buy") = "sell"
    BY DEF Side, Opposite
  <2>2. ~WithinLimit(r, "buy", p)
    BY <2>1 DEF Uncrossed
  <2> QED BY <2>1, <2>2, Apart
<1> QED BY <1>1, <1>2

\* Matching goes on until nothing within the limit is left, and only then an order rests.
LEMMA AcceptedUncrossed ==
    ASSUME NEW b0, Consistent(b0), Uncrossed(b0.queue), NEW side \in Side, NEW limit \in Price,
           NEW lots, NEW match, Underway(b0, match, side, limit, lots), Done(match, side, limit),
           NEW b, Consistent(b), b.queue[Opposite(side)] = match.book.queue[Opposite(side)],
           \A p \in Price : b.queue[side][p] # <<>> =>
                b0.queue[side][p] # <<>> \/ (match.left # 0 /\ p = limit)
    PROVE  Uncrossed(b.queue)
<1> DEFINE o == Opposite(side)
<1>1. o \in Side /\ o # side /\ Opposite(o) = side
  BY Sides
<1>2. ASSUME NEW r \in Price, b.queue[o][r] # <<>>
      PROVE  /\ b0.queue[o][r] # <<>>
             /\ match.left # 0 => ~WithinLimit(r, side, limit)
  <2>1. \E d \in Nat : Suffix(b0.queue[o][r], match.book.queue[o][r], d)
    BY DEF Underway
  <2>2. b.queue[o][r] = match.book.queue[o][r]
    OBVIOUS
  <2>3. b0.queue[o][r] \in Seq(Order) /\ b.queue[o][r] \in Seq(Order)
    BY <1>1, BookType DEF Consistent
  <2>4. b0.queue[o][r] # <<>>
    BY <1>2, <2>1, <2>2, <2>3, SuffixNonempty
  <2>5. match.left # 0 => ~WithinLimit(r, side, limit)
    BY <1>2, <2>2 DEF Done, Compatible
  <2> QED BY <2>4, <2>5
<1>3. ASSUME NEW p \in Price, NEW r \in Price, b.queue[side][p] # <<>>, b.queue[o][r] # <<>>
      PROVE  ~WithinLimit(r, side, p)
  <2>1. b0.queue[o][r] # <<>> /\ (match.left # 0 => ~WithinLimit(r, side, limit))
    BY <1>2, <1>3
  <2>2. CASE b0.queue[side][p] # <<>>
    BY <2>1, <2>2 DEF Uncrossed
  <2>3. CASE match.left # 0 /\ p = limit
    BY <2>1, <2>3
  <2> QED BY <1>3, <2>2, <2>3
<1>4. \A p, r \in Price : WithinLimit(p, o, r) => WithinLimit(r, side, p)
  <2> SUFFICES ASSUME NEW p \in Price, NEW r \in Price, WithinLimit(p, o, r)
               PROVE  WithinLimit(r, side, p)
    OBVIOUS
  <2>1. p \in Int /\ r \in Int
    BY EngineAssumption DEF Price
  <2> QED BY <2>1 DEF WithinLimit, Side, Opposite
<1> SUFFICES ASSUME NEW t \in Side, NEW p \in Price, NEW r \in Price,
                    b.queue[t][p] # <<>>, b.queue[Opposite(t)][r] # <<>>
             PROVE  ~WithinLimit(r, t, p)
  BY DEF Uncrossed
<1>5. CASE t = side
  BY <1>3, <1>5
<1>6. CASE t = o
  <2>1. ~WithinLimit(p, side, r)
    BY <1>1, <1>3, <1>6
  <2> QED BY <1>4, <1>6, <2>1
<1> QED BY <1>1, <1>5, <1>6 DEF Side

LEMMA Became ==
    ASSUME NEW b, IsBook(b), Becomes(b)
    PROVE  Current' = b
<1>1. queue' = b.queue /\ total' = b.total /\ orders' = b.orders /\ nextSeq' = b.seq /\ feed' = b.feed
  BY DEF Becomes
<1>2. IsRecord(b)
  BY BookType
<1> QED BY <1>1, <1>2 DEF Current, IsRecord

LEMMA SubmitKeeps ==
    ASSUME EngineInvariant, NEW side \in Side, NEW limit \in Price, NEW lots \in 1 .. MaxOrderLots,
           Submit(side, limit, lots)
    PROVE  EngineInvariant'
<1> DEFINE match == Matched(side, limit, lots)
           b == After(side, limit, match)
<1>1. Consistent(Current) /\ lots \in Nat /\ MaxSafe \in Nat
  BY EngineAssumption DEF EngineInvariant
<1>2. /\ Underway(Current, match, side, limit, lots) /\ Done(match, side, limit)
      /\ match.left \in 0 .. lots
  <2>1. Underway(Current, match, side, limit, lots) /\ Done(match, side, limit)
    BY <1>1, MatchedKeeps
  <2> HIDE DEF match
  <2> QED BY <2>1 DEF Underway
<1>3. /\ Accepted(side, limit, match) /\ Becomes(b) /\ nextID' = nextID + 1
      /\ last' = [side |-> side, price |-> limit, lots |-> lots, rested |-> match.left]
  BY DEF Submit, After
<1> HIDE DEF match, b
<1>4. /\ Consistent(b) /\ b.seq \in 1 .. MaxSafe + 1 /\ \A id \in b.orders : id < nextID + 1
      /\ Cardinality(b.orders) <= MaxOrders
      /\ b.queue[Opposite(side)] = match.book.queue[Opposite(side)]
      /\ \A p \in Price : b.queue[side][p] =
           IF match.left > 0 /\ p = limit
             THEN Append(queue[side][p], [id |-> nextID, lots |-> match.left]) ELSE queue[side][p]
  BY <1>2, <1>3, AcceptedKeeps DEF b
<1>5. Current' = b
  BY <1>3, <1>4, Became DEF Consistent
<1>6. Uncrossed(b.queue)
  <2>1. Uncrossed(Current.queue)
    BY UncrossedIsNotCrossed, CurrentFields DEF EngineInvariant
  <2>2. \A p \in Price : b.queue[side][p] # <<>> =>
          Current.queue[side][p] # <<>> \/ (match.left # 0 /\ p = limit)
    BY <1>2, <1>4, CurrentFields
  <2> QED BY <1>1, <1>2, <1>4, <2>1, <2>2, AcceptedUncrossed
<1>7. queue' = b.queue /\ orders' = b.orders /\ nextSeq' = b.seq
  BY <1>3 DEF Becomes
<1>8. NotCrossed'
  <2>1. Uncrossed(queue)'
    BY <1>6, <1>7 DEF Uncrossed
  <2> QED BY <2>1, UncrossedIsNotCrossed, PTL
<1>9. nextID' \in 1 .. MaxSafe + 1
  <2>1. nextID <= MaxSafe /\ nextID \in 1 .. MaxSafe + 1
    BY <1>3 DEF Accepted, EngineInvariant
  <2> QED BY <1>1, <1>3, <2>1
<1>10. last' \in [side : Side, price : Price, lots : 0 .. MaxOrderLots, rested : 0 .. MaxOrderLots]
  <2>1. lots \in 0 .. MaxOrderLots /\ match.left \in 0 .. MaxOrderLots
    BY <1>2, EngineAssumption
  <2> QED BY <1>3, <2>1
<1>11. Consistent(Current)'
  BY <1>4, <1>5 DEF Consistent, IsBook, Indexed, RestsOnce
<1> QED BY <1>3, <1>4, <1>7, <1>8, <1>9, <1>10, <1>11 DEF EngineInvariant

LEMMA CancelKeeps ==
    ASSUME EngineInvariant, NEW s \in Side, NEW p \in Price, NEW k \in DOMAIN queue[s][p], Cancel(s, p, k)
    PROVE  EngineInvariant'
<1> DEFINE lots == queue[s][p][k].lots
           b == Taken(Current, s, p, k, lots)
<1>1. /\ nextSeq <= MaxSafe /\ Becomes(b) /\ nextID' = nextID /\ last' = last
  BY DEF Cancel
<1>2. lots \in 1 .. lots
  <2>1. queue[s][p] \in Seq(Order)
    BY CurrentFields, BookType DEF EngineInvariant, Consistent
  <2>2. lots \in Nat \ {0}
    BY <2>1, LotsOfLevel
  <2> HIDE DEF lots
  <2> QED BY <2>2
<1>3. TakenEffect(Current, s, p, k, lots, b)
  <2>1. Consistent(Current) /\ k \in DOMAIN Current.queue[s][p] /\ lots \in 1 .. Current.queue[s][p][k].lots
    BY <1>2, CurrentFields DEF EngineInvariant
  <2> QED BY <2>1, TakenKeeps, Zenon
<1> HIDE DEF b, lots
<1>4. /\ Consistent(b) /\ b.orders \subseteq orders /\ b.seq = nextSeq + 1
      /\ \A t \in Side, r \in Price : t # s \/ r # p => b.queue[t][r] = queue[t][r]
  BY <1>3, CurrentFields DEF TakenEffect
<1>5. Current' = b
  BY <1>1, <1>4, Became DEF Consistent
<1>6. queue' = b.queue /\ orders' = b.orders /\ nextSeq' = b.seq
  BY <1>1 DEF Becomes
<1>7. Consistent(Current)'
  BY <1>4, <1>5 DEF Consistent, IsBook, Indexed, RestsOnce
<1>8. nextSeq' \in 1 .. MaxSafe + 1
  BY <1>1, <1>4, <1>6, EngineAssumption DEF EngineInvariant
<1>9. Cardinality(orders') <= MaxOrders
  <2>1. orders \subseteq 1 .. MaxSafe
    BY CurrentFields, BookType DEF EngineInvariant, Consistent
  <2>2. IsFiniteSet(1 .. MaxSafe)
    BY FS_Interval, EngineAssumption
  <2>3. IsFiniteSet(orders)
    BY <2>1, <2>2, FS_Subset
  <2>4. /\ Cardinality(orders') \in Nat /\ Cardinality(orders) \in Nat
        /\ Cardinality(orders') <= Cardinality(orders)
    BY <1>4, <1>6, <2>3, FS_Subset, FS_CardinalityType
  <2>5. Cardinality(orders) <= MaxOrders /\ MaxOrders \in Nat
    BY EngineAssumption DEF EngineInvariant
  <2> QED BY <2>4, <2>5
<1>10. NotCrossed'
  <2>1. \A t \in Side, r \in Price : queue'[t][r] # <<>> => queue[t][r] # <<>>
    BY <1>4, <1>6
  <2> QED BY <2>1 DEF NotCrossed, EngineInvariant, Side
<1> QED BY <1>1, <1>4, <1>6, <1>7, <1>8, <1>9, <1>10 DEF EngineInvariant

\* Every record of the engine agrees with the others in every state, for all limits:
\* this is what the four properties rest on.
THEOREM EngineInvariance == Spec => []EngineInvariant
<1>1. Init => EngineInvariant
  BY EmptyBook
<1>2. EngineInvariant /\ [Next]_vars => EngineInvariant'
  <2> SUFFICES ASSUME EngineInvariant, [Next]_vars PROVE EngineInvariant'
    OBVIOUS
  <2>1. CASE \E side \in Side, limit \in Price, lots \in 1 .. MaxOrderLots : Submit(side, limit, lots)
    BY <2>1, SubmitKeeps
  <2>2. CASE \E s \in Side, p \in Price : \E k \in DOMAIN queue[s][p] : Cancel(s, p, k)
    BY <2>2, CancelKeeps
  <2>3. CASE UNCHANGED vars
    BY <2>3 DEF vars, EngineInvariant, Consistent, IsBook, Indexed, RestsOnce, Current, NotCrossed
  <2> QED BY <2>1, <2>2, <2>3 DEF Next
<1> QED BY <1>1, <1>2, PTL DEF Spec

\* What could trade has traded: no resting buy meets a resting sell.
THEOREM BookNeverCrosses == Spec => []NotCrossed
<1>1. EngineInvariant => NotCrossed
  BY DEF EngineInvariant
<1> QED BY <1>1, EngineInvariance, PTL

\* The level changes alone reproduce the book.
THEOREM FeedRebuildsBook == Spec => []FeedReproducesBook
<1>1. EngineInvariant => FeedReproducesBook
  BY CurrentFields DEF EngineInvariant, Consistent, FeedReproducesBook
<1> QED BY <1>1, EngineInvariance, PTL

-----------------------------------------------------------------------------
(* The order index counts the resting orders. *)

LEMMA FewOrders ==
    ASSUME NEW S, S \subseteq 1 .. MaxSafe
    PROVE  IsFiniteSet(S) /\ Cardinality(S) \in Nat
<1>1. MaxSafe \in Int /\ 1 \in Int
  BY EngineAssumption
<1>2. IsFiniteSet(1 .. MaxSafe)
  BY <1>1, FS_Interval
<1>3. IsFiniteSet(S)
  BY <1>2, FS_Subset
<1> QED BY <1>3, FS_CardinalityType

\* An ID is in a level once.
LEMMA IdOnce ==
    ASSUME NEW q \in Seq(Order), Ordered(q), NEW i \in DOMAIN q, NEW j \in DOMAIN q, q[i].id = q[j].id
    PROVE  i = j
<1>1. i \in Int /\ j \in Int /\ q[i] \in Order /\ q[j] \in Order
  OBVIOUS
<1>2. \A x \in Order : ~(x.id < x.id)
  <2>1. \A x \in Order : x.id \in Int
    BY EngineAssumption DEF Order
  <2> QED BY <2>1
<1>3. ~(q[i].id < q[j].id) /\ ~(q[j].id < q[i].id)
  BY <1>1, <1>2
<1>4. ~(i < j) /\ ~(j < i)
  BY <1>3 DEF Ordered
<1> QED BY <1>1, <1>4

\* The orders of one level are no more than the index holds.
LEMMA LevelLength ==
    ASSUME EngineInvariant, NEW s \in Side, NEW p \in Price
    PROVE  Len(queue[s][p]) <= MaxOrders
<1> DEFINE q == queue[s][p]
           n == Len(q)
           f == [k \in 1 .. n |-> q[k].id]
<1>1. /\ q \in Seq(Order) /\ Ordered(q) /\ n \in Nat /\ DOMAIN q = 1 .. n
      /\ orders \subseteq 1 .. MaxSafe /\ \A id \in Ids(q) : id \in orders
  BY CurrentFields, BookType DEF EngineInvariant, Consistent, Indexed
<1>2. f \in [1 .. n -> orders]
  BY <1>1 DEF Ids
<1>3. ASSUME NEW i \in 1 .. n, NEW j \in 1 .. n, f[i] = f[j] PROVE i = j
  <2>1. q[i].id = q[j].id /\ i \in DOMAIN q /\ j \in DOMAIN q
    BY <1>1, <1>3
  <2> HIDE DEF q
  <2> QED BY <1>1, <2>1, IdOnce
<1>4. f \in Injection(1 .. n, orders)
  <2> HIDE DEF f
  <2> QED BY <1>2, <1>3 DEF Injection, IsInjective
<1>5. IsFiniteSet(orders)
  BY <1>1, FewOrders
<1>6. Cardinality(1 .. n) <= Cardinality(orders)
  BY <1>4, <1>5, FS_Injection
<1>7. Cardinality(1 .. n) = n
  BY <1>1, FS_Interval
<1>8. Cardinality(orders) \in Nat /\ Cardinality(orders) <= MaxOrders /\ MaxOrders \in Nat
  BY <1>5, FS_CardinalityType, EngineAssumption DEF EngineInvariant
<1> QED BY <1>1, <1>6, <1>7, <1>8

LEMMA RestingOrders ==
    ASSUME EngineInvariant
    PROVE  /\ \A s \in Side, p \in Price : \A k \in DOMAIN queue[s][p] : <<s, p, k>> \in Resting
           /\ orders = {OrderAt(r).id : r \in Resting}
           /\ \A r \in Resting, x \in Resting : OrderAt(r).id = OrderAt(x).id => r = x
           /\ IsFiniteSet(orders) /\ Cardinality(orders) = Cardinality(Resting)
<1>1. /\ Indexed(Current) /\ RestsOnce(Current)
      /\ \A s \in Side, p \in Price : queue[s][p] \in Seq(Order) /\ Ordered(queue[s][p])
  BY CurrentFields, BookType DEF EngineInvariant, Consistent
<1>2. ASSUME NEW s \in Side, NEW p \in Price, NEW k \in DOMAIN queue[s][p]
      PROVE  <<s, p, k>> \in Resting
  <2>1. k \in 1 .. Len(queue[s][p]) /\ Len(queue[s][p]) \in Nat
    BY <1>1
  <2>2. k \in 1 .. MaxOrders
    BY <2>1, LevelLength, EngineAssumption
  <2> QED BY <2>2 DEF Resting
<1>3. ASSUME NEW r \in Resting
      PROVE  /\ r = <<r[1], r[2], r[3]>> /\ r[1] \in Side /\ r[2] \in Price /\ r[3] \in DOMAIN queue[r[1]][r[2]]
             /\ OrderAt(r).id \in Ids(queue[r[1]][r[2]])
  BY DEF Resting, OrderAt, Ids
<1>4. {OrderAt(r).id : r \in Resting} \subseteq orders
  BY <1>1, <1>3, CurrentFields DEF Indexed
<1>5. ASSUME NEW id \in orders PROVE \E r \in Resting : OrderAt(r).id = id
  <2>1. PICK s \in Side, p \in Price : id \in Ids(queue[s][p])
    BY <1>1, CurrentFields DEF Indexed
  <2>2. PICK k \in DOMAIN queue[s][p] : id = queue[s][p][k].id
    BY <2>1 DEF Ids
  <2>3. OrderAt(<<s, p, k>>).id = id
    BY <2>2 DEF OrderAt
  <2> QED BY <1>2, <2>3
<1>6. ASSUME NEW r \in Resting, NEW x \in Resting, OrderAt(r).id = OrderAt(x).id PROVE r = x
  <2>1. r[1] = x[1] /\ r[2] = x[2]
    <3>1. /\ OrderAt(r).id \in Ids(queue[r[1]][r[2]]) /\ OrderAt(r).id \in Ids(queue[x[1]][x[2]])
          /\ r[1] \in Side /\ x[1] \in Side /\ r[2] \in Price /\ x[2] \in Price
      BY <1>3, <1>6
    <3>2. \A s, t \in Side : \A p, q \in Price : \A id :
            id \in Ids(queue[s][p]) /\ id \in Ids(queue[t][q]) => s = t /\ p = q
      BY <1>1, CurrentFields DEF RestsOnce
    <3> DEFINE id == OrderAt(r).id
               s == r[1]
               t == x[1]
               p == r[2]
               y == x[2]
    <3>3. id \in Ids(queue[s][p]) /\ id \in Ids(queue[t][y]) /\ s \in Side /\ t \in Side /\ p \in Price /\ y \in Price
      BY <3>1
    <3> HIDE DEF id, s, t, p, y
    <3>4. s = t /\ p = y
      BY <3>2, <3>3
    <3> QED BY <3>4 DEF s, t, p, y
  <2>2. /\ r[3] \in DOMAIN queue[r[1]][r[2]] /\ x[3] \in DOMAIN queue[r[1]][r[2]]
        /\ queue[r[1]][r[2]][r[3]].id = queue[r[1]][r[2]][x[3]].id
    BY <1>3, <1>6, <2>1 DEF OrderAt
  <2>3. queue[r[1]][r[2]] \in Seq(Order) /\ Ordered(queue[r[1]][r[2]])
    BY <1>1, <1>3
  <2>4. r[3] = x[3]
    BY <2>2, <2>3, IdOnce
  <2> QED BY <1>3, <2>1, <2>4
<1>7. IsFiniteSet(orders)
  <2>1. orders \subseteq 1 .. MaxSafe
    BY CurrentFields, BookType DEF EngineInvariant, Consistent
  <2> QED BY <2>1, FewOrders
<1>8. Cardinality(orders) = Cardinality(Resting)
  <2> DEFINE f == [r \in Resting |-> OrderAt(r).id]
  <2>1. f \in [Resting -> orders]
    BY <1>4
  <2>2. f \in Injection(Resting, orders)
    <3>1. \A r, x \in Resting : f[r] = f[x] => r = x
      BY <1>6
    <3> HIDE DEF f
    <3> QED BY <2>1, <3>1 DEF Injection, IsInjective
  <2>3. f \in Surjection(Resting, orders)
    <3>1. \A id \in orders : \E r \in Resting : f[r] = id
      BY <1>5
    <3> HIDE DEF f
    <3> QED BY <2>1, <3>1 DEF Surjection
  <2> HIDE DEF f
  <2> QED BY <1>7, <2>2, <2>3, FS_Injection
<1> QED BY <1>2, <1>4, <1>5, <1>6, <1>7, <1>8

\* Totals, levels and index agree, and the index stays within MaxOrders.
THEOREM RecordsAlwaysAgree == Spec => []RecordsAgree
<1>1. EngineInvariant => RecordsAgree
  <2> SUFFICES ASSUME EngineInvariant PROVE RecordsAgree
    OBVIOUS
  <2>1. IsBook(Current) /\ Consistent(Current)
    BY DEF EngineInvariant, Consistent
  <2>2. /\ queue \in Levels /\ total \in Totals /\ feed \in Totals /\ orders \subseteq 1 .. MaxSafe
    BY <2>1, BookType, CurrentFields
  <2>3. TypeOK
    BY <2>2 DEF TypeOK, EngineInvariant, Levels, Totals, Order
  <2>4. ASSUME NEW s \in Side, NEW p \in Price
        PROVE  /\ total[s][p] = LotsIn(queue[s][p])
               /\ \A k \in 2 .. Len(queue[s][p]) : queue[s][p][k - 1].id < queue[s][p][k].id
    <3>1. total[s][p] = LotsIn(queue[s][p]) /\ Ordered(queue[s][p]) /\ queue[s][p] \in Seq(Order)
      BY <2>1, BookType, CurrentFields DEF Consistent
    <3>2. \A k \in 2 .. Len(queue[s][p]) : k \in DOMAIN queue[s][p] /\ k - 1 \in DOMAIN queue[s][p] /\ k - 1 < k
      BY <3>1
    <3> QED BY <3>1, <3>2 DEF Ordered
  <2> QED BY <2>3, <2>4, RestingOrders DEF RecordsAgree, EngineInvariant
<1> QED BY <1>1, EngineInvariance, PTL

-----------------------------------------------------------------------------
(* Price-time priority. *)

\* Lots of a resting order after a step: those of the order with its ID, if it still rests.
LEMMA LotsStill ==
    ASSUME NEW r \in Resting, queue'[r[1]][r[2]] \in Seq(Order), Ordered(queue'[r[1]][r[2]]),
           NEW k \in DOMAIN queue'[r[1]][r[2]], queue'[r[1]][r[2]][k].id = OrderAt(r).id
    PROVE  LotsAfter(r) = queue'[r[1]][r[2]][k].lots
<1> DEFINE q == queue'[r[1]][r[2]]
           found == {j \in DOMAIN q : q[j].id = OrderAt(r).id}
<1>1. found = {k}
  <2>1. ASSUME NEW j \in DOMAIN q, q[j].id = OrderAt(r).id PROVE j = k
    <3>1. q[j].id = q[k].id
      BY <2>1
    <3> QED BY <3>1, IdOnce
  <2> QED BY <2>1
<1>2. LotsAfter(r) = IF found = {} THEN 0 ELSE q[CHOOSE j \in found : TRUE].lots
  BY DEF LotsAfter
<1> HIDE DEF found, q
<1>3. (CHOOSE j \in found : TRUE) = k
  BY <1>1
<1> QED BY <1>1, <1>2, <1>3 DEF q

LEMMA LotsGone ==
    ASSUME NEW r, \A k \in DOMAIN queue'[r[1]][r[2]] : queue'[r[1]][r[2]][k].id # OrderAt(r).id
    PROVE  LotsAfter(r) = 0
<1>1. {k \in DOMAIN queue'[r[1]][r[2]] : queue'[r[1]][r[2]][k].id = OrderAt(r).id} = {}
  OBVIOUS
<1> QED BY <1>1 DEF LotsAfter

\* In a level that lost its first orders, an order that gave has no order before it.
LEMMA SuffixPriority ==
    ASSUME NEW q0 \in Seq(Order), Ordered(q0), NEW q \in Seq(Order), NEW d \in Nat, Suffix(q0, q, d),
           NEW j \in DOMAIN q0, NEW i \in DOMAIN q0, i < j,
           NEW k \in DOMAIN q, q[k].id = q0[i].id
    PROVE  \E m \in DOMAIN q : q[m].id = q0[j].id /\ q[m].lots = q0[j].lots
<1>1. /\ Len(q) \in Nat /\ Len(q0) \in Nat /\ DOMAIN q = 1 .. Len(q) /\ DOMAIN q0 = 1 .. Len(q0)
  BY LenProperties
<1>2. /\ Len(q) + d = Len(q0)
      /\ \A n \in DOMAIN q : /\ q[n].id = q0[n + d].id
                             /\ n > 1 => q[n].lots = q0[n + d].lots
  BY DEF Suffix
<1>3. k + d \in DOMAIN q0 /\ k \in Int /\ k >= 1 /\ i \in Int /\ j \in Int
  BY <1>1, <1>2
<1>4. k + d = i
  <2>1. q0[k + d].id = q0[i].id
    BY <1>2
  <2> QED BY <1>3, <2>1, IdOnce
<1>5. j - d \in DOMAIN q /\ j - d > 1 /\ j - d + d = j
  <2>1. Len(q) + d = Len(q0)
    BY <1>2
  <2> QED BY <1>1, <1>3, <1>4, <2>1
<1>6. q[j - d].id = q0[j - d + d].id /\ q[j - d].lots = q0[j - d + d].lots
  BY <1>2, <1>5
<1> QED BY <1>5, <1>6

LEMMA AppendKeeps ==
    ASSUME NEW q \in Seq(Order), NEW order, NEW j \in DOMAIN q
    PROVE  j \in DOMAIN Append(q, order) /\ Append(q, order)[j] = q[j]
<1>1. q \in Seq(Order \cup {order}) /\ order \in Order \cup {order} /\ j \in 1 .. Len(q) /\ Len(q) \in Nat
  OBVIOUS
<1> QED BY <1>1

LEMMA SubmitPriority ==
    ASSUME EngineInvariant, EngineInvariant', NEW side \in Side, NEW limit \in Price,
           NEW lots \in 1 .. MaxOrderLots, Submit(side, limit, lots)
    PROVE  /\ \A r \in Resting : LotsAfter(r) # OrderAt(r).lots =>
                /\ r[1] = Opposite(last'.side) /\ WithinLimit(r[2], last'.side, last'.price)
                /\ \A x \in Resting : Ahead(x, r) => LotsAfter(x) = 0
           /\ LET gave == SideLots(total[Opposite(last'.side)]) - SideLots(total'[Opposite(last'.side)])
              IN  gave + last'.rested = last'.lots
<1> DEFINE match == Matched(side, limit, lots)
           b == After(side, limit, match)
           o == Opposite(side)
<1>1. Consistent(Current) /\ lots \in Nat
  BY DEF EngineInvariant
<1>2. /\ Underway(Current, match, side, limit, lots) /\ Done(match, side, limit)
      /\ match.left \in 0 .. lots
  <2>1. Underway(Current, match, side, limit, lots) /\ Done(match, side, limit)
    BY <1>1, MatchedKeeps
  <2> HIDE DEF match
  <2> QED BY <2>1 DEF Underway
<1>3. /\ Accepted(side, limit, match) /\ Becomes(b)
      /\ last' = [side |-> side, price |-> limit, lots |-> lots, rested |-> match.left]
  BY DEF Submit, After
<1> HIDE DEF match, b
<1>4. /\ b.queue[o] = match.book.queue[o] /\ b.total[o] = match.book.total[o]
      /\ \A p \in Price : b.queue[side][p] =
           IF match.left > 0 /\ p = limit
             THEN Append(queue[side][p], [id |-> nextID, lots |-> match.left]) ELSE queue[side][p]
  BY <1>2, <1>3, AcceptedKeeps DEF b
<1>5. queue' = b.queue /\ total' = b.total
  BY <1>3 DEF Becomes
<1>6. last'.side = side /\ last'.price = limit /\ last'.lots = lots /\ last'.rested = match.left
  BY <1>3
<1>7. o \in Side /\ o # side /\ \A s \in Side : s = side \/ s = o
  BY Sides DEF Side
<1>8. /\ SideLots(total[o]) - SideLots(match.book.total[o]) = lots - match.left
      /\ \A p \in Price :
           /\ ~WithinLimit(p, side, limit) => match.book.queue[o][p] = queue[o][p]
           /\ \E d \in Nat : Suffix(queue[o][p], match.book.queue[o][p], d)
           /\ match.book.queue[o][p] # queue[o][p] =>
                \A r \in Price : Better(side, r, p) => match.book.queue[o][r] = <<>>
  BY <1>2, CurrentFields DEF Underway
<1>9. \A s \in Side, p \in Price :
        /\ queue[s][p] \in Seq(Order) /\ Ordered(queue[s][p])
        /\ queue'[s][p] \in Seq(Order) /\ Ordered(queue'[s][p])
  <2>1. \A s \in Side, p \in Price : queue[s][p] \in Seq(Order) /\ Ordered(queue[s][p])
    BY <1>1, CurrentFields, BookType DEF Consistent
  <2>2. IsBook(b) /\ \A s \in Side, p \in Price : Ordered(b.queue[s][p])
    <3>1. Consistent(b)
      BY <1>2, <1>3, AcceptedKeeps DEF b
    <3> QED BY <3>1 DEF Consistent
  <2> QED BY <1>5, <2>1, <2>2, BookType
<1>10. (SideLots(total[o]) - SideLots(total'[o])) + match.left = lots
  <2>1. total'[o] = match.book.total[o]
    BY <1>4, <1>5
  <2>2. SideLots(total[o]) - SideLots(total'[o]) = lots - match.left
    BY <1>8, <2>1
  <2> QED BY <1>1, <1>2, <2>2
<1>11. ASSUME NEW r \in Resting, LotsAfter(r) # OrderAt(r).lots
       PROVE  /\ r[1] = o /\ WithinLimit(r[2], side, limit)
              /\ \A x \in Resting : Ahead(x, r) => LotsAfter(x) = 0
  <2>1. r[1] \in Side /\ r[2] \in Price /\ r[3] \in DOMAIN queue[r[1]][r[2]]
        /\ OrderAt(r) = queue[r[1]][r[2]][r[3]]
    BY DEF Resting, OrderAt
  <2>2. ~(r[3] \in DOMAIN queue'[r[1]][r[2]] /\ queue'[r[1]][r[2]][r[3]] = OrderAt(r))
    BY <1>9, <1>11, <2>1, LotsStill
  <2>3. r[1] = o
    <3> SUFFICES ASSUME r[1] = side PROVE FALSE
      BY <1>7, <2>1
    <3>1. queue'[side][r[2]] = queue[side][r[2]] \/
          \E order : queue'[side][r[2]] = Append(queue[side][r[2]], order)
      BY <1>4, <1>5, <2>1
    <3>2. queue[side][r[2]] \in Seq(Order)
      BY <1>9, <2>1
    <3>3. ASSUME NEW order, queue'[side][r[2]] = Append(queue[side][r[2]], order)
          PROVE  r[3] \in DOMAIN queue'[side][r[2]] /\ queue'[side][r[2]][r[3]] = queue[side][r[2]][r[3]]
      <4>1. r[3] \in DOMAIN queue[side][r[2]]
        BY <2>1
      <4> QED BY <3>2, <3>3, <4>1, AppendKeeps
    <3> QED BY <2>1, <2>2, <3>1, <3>3
  <2> DEFINE p == r[2]
             q0 == queue[o][p]
             q == queue'[o][p]
  <2>4. q = match.book.queue[o][p] /\ q0 \in Seq(Order) /\ Ordered(q0) /\ q \in Seq(Order) /\ Ordered(q)
    BY <1>4, <1>5, <1>7, <1>9, <2>1
  <2>5. q # q0
    BY <2>1, <2>2, <2>3
  <2>6. WithinLimit(p, side, limit)
    BY <1>8, <2>1, <2>4, <2>5
  <2>7. ASSUME NEW x \in Resting, Ahead(x, r) PROVE LotsAfter(x) = 0
    <3>1. /\ x[1] = o /\ x[2] \in Price /\ x[3] \in DOMAIN queue[o][x[2]]
          /\ OrderAt(x) = queue[o][x[2]][x[3]]
          /\ \/ x[2] = p /\ x[3] < r[3]
             \/ Better(side, x[2], p)
      BY <1>7, <2>3, <2>7 DEF Resting, OrderAt, Ahead, Better, Opposite, Side
    <3>2. CASE Better(side, x[2], p)
      <4>1. queue'[x[1]][x[2]] = <<>>
        BY <1>4, <1>5, <1>8, <2>1, <2>4, <2>5, <3>1, <3>2
      <4>2. DOMAIN queue'[x[1]][x[2]] = {}
        BY <4>1
      <4> QED BY <4>2, LotsGone
    <3>3. CASE x[2] = p /\ x[3] < r[3]
      <4>1. ASSUME NEW k \in DOMAIN q, q[k].id = OrderAt(x).id PROVE FALSE
        <5>1. PICK d \in Nat : Suffix(q0, q, d)
          BY <1>8, <2>1, <2>4
        <5>2. x[3] \in DOMAIN q0 /\ r[3] \in DOMAIN q0 /\ q[k].id = q0[x[3]].id /\ x[3] < r[3]
          BY <2>1, <2>3, <3>1, <3>3, <4>1
        <5>3. \E m \in DOMAIN q : q[m].id = q0[r[3]].id /\ q[m].lots = q0[r[3]].lots
          <6> DEFINE i == x[3]
                     j == r[3]
          <6>1. i \in DOMAIN q0 /\ j \in DOMAIN q0 /\ q[k].id = q0[i].id /\ i < j
            BY <5>2
          <6>2. q0 \in Seq(Order) /\ Ordered(q0) /\ q \in Seq(Order) /\ d \in Nat /\ k \in DOMAIN q
            BY <2>4, <4>1
          <6> HIDE DEF q, q0, i, j
          <6>3. \E m \in DOMAIN q : q[m].id = q0[j].id /\ q[m].lots = q0[j].lots
            BY <5>1, <6>1, <6>2, SuffixPriority
          <6> QED BY <6>3 DEF j
        <5>4. PICK m \in DOMAIN q : q[m].id = OrderAt(r).id /\ q[m].lots = OrderAt(r).lots
          BY <2>1, <2>3, <5>3
        <5>5. LotsAfter(r) = q[m].lots
          BY <2>3, <2>4, <5>4, LotsStill
        <5> QED BY <1>11, <5>4, <5>5
      <4> QED BY <3>1, <3>3, <4>1, LotsGone
    <3> QED BY <3>1, <3>2, <3>3
  <2> QED BY <2>3, <2>6, <2>7
<1> QED BY <1>6, <1>10, <1>11

\* Makers give in the order of price and time, only within the limit, and what they
\* give and what rests is the whole order.
THEOREM PriorityKept == Spec => PriceTimePriority
<1> DEFINE Fair ==
      /\ \A r \in Resting : LotsAfter(r) # OrderAt(r).lots =>
           /\ r[1] = Opposite(last'.side) /\ WithinLimit(r[2], last'.side, last'.price)
           /\ \A x \in Resting : Ahead(x, r) => LotsAfter(x) = 0
      /\ LET gave == SideLots(total[Opposite(last'.side)]) - SideLots(total'[Opposite(last'.side)])
         IN  gave + last'.rested = last'.lots
<1>1. EngineInvariant /\ EngineInvariant' /\ [Next]_vars => [nextID' # nextID => Fair]_vars
  <2> SUFFICES ASSUME EngineInvariant, EngineInvariant', [Next]_vars, nextID' # nextID PROVE Fair
    OBVIOUS
  <2>1. CASE \E side \in Side, limit \in Price, lots \in 1 .. MaxOrderLots : Submit(side, limit, lots)
    BY <2>1, SubmitPriority
  <2>2. CASE \E s \in Side, p \in Price : \E k \in DOMAIN queue[s][p] : Cancel(s, p, k)
    BY <2>2 DEF Cancel
  <2>3. CASE UNCHANGED vars
    BY <2>3 DEF vars
  <2> QED BY <2>1, <2>2, <2>3 DEF Next
<1>2. [][Next]_vars /\ []EngineInvariant => [][nextID' # nextID => Fair]_vars
  BY <1>1, PTL
<1> QED BY <1>2, EngineInvariance, PTL DEF Spec, PriceTimePriority

=============================================================================
