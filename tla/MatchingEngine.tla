--------------------------- MODULE MatchingEngine ---------------------------
(***************************************************************************)
(* The matching engine, backend/internal/matching/engine.go: limit orders  *)
(* with price-time priority, bounded levels and a bounded number of        *)
(* resting orders, and the numbered level changes every other copy of the  *)
(* book is built from.                                                     *)
(*                                                                         *)
(* Submit and Cancel check everything before they change anything; a call  *)
(* that returns an error changes nothing and is not a step.  Submit plans  *)
(* its fills and then takes them one by one; here the fills are taken from *)
(* a copy of the book as they are found, the checks look at that copy, and *)
(* it becomes the book only if they succeed.                               *)
(***************************************************************************)
EXTENDS Integers, Sequences, FiniteSets, SequencesExt

CONSTANTS
    MinPrice, MaxPrice,     \* Limits
    MaxOrderLots,
    MaxLevelLots,
    MaxOrders,
    MaxSafe                 \* maxSafeInteger: the last order ID and book sequence number

ASSUME EngineAssumption ==
    /\ {MinPrice, MaxPrice, MaxOrderLots, MaxLevelLots, MaxOrders, MaxSafe} \subseteq Nat \ {0}
    /\ MinPrice < MaxPrice
    /\ MaxOrderLots <= MaxLevelLots /\ MaxLevelLots <= MaxSafe

VARIABLES
    queue,      \* [Side -> [Price -> the resting orders, first in first out]]
    total,      \* [Side -> [Price -> totalLots of the level, 0 without one]]
    orders,     \* IDs of the order index
    nextID,     \* nextOrderID
    nextSeq,    \* nextBookSeq
    feed,       \* a book built from the level changes alone
    last        \* the last accepted order: its side, limit, lots and lots rested

vars == <<queue, total, orders, nextID, nextSeq, feed, last>>

Side == {"buy", "sell"}
Price == MinPrice .. MaxPrice
Opposite(side) == IF side = "buy" THEN "sell" ELSE "buy"

EmptySide(nothing) == [s \in Side |-> [p \in Price |-> nothing]]
Least(x, y) == IF x < y THEN x ELSE y

\* The sum of a sequence of numbers.
SumOf(seq) ==
    LET sum[k \in 0 .. Len(seq)] == IF k = 0 THEN 0 ELSE sum[k - 1] + seq[k]
    IN  sum[Len(seq)]

\* The book and its copy as one value, and the book of this state.
Current == [queue |-> queue, total |-> total, orders |-> orders, seq |-> nextSeq, feed |-> feed]

Becomes(book) ==
    /\ queue' = book.queue /\ total' = book.total /\ orders' = book.orders
    /\ nextSeq' = book.seq /\ feed' = book.feed

Init ==
    /\ queue = EmptySide(<<>>) /\ total = EmptySide(0) /\ feed = EmptySide(0)
    /\ orders = {}
    /\ nextID = 1 /\ nextSeq = 1
    /\ last = [side |-> "buy", price |-> MinPrice, lots |-> 0, rested |-> 0]

-----------------------------------------------------------------------------
(* Changing a book. *)

\* Mutant: a level that is gone is not reported.
ReportLevels(book, s, p) ==
    [book EXCEPT !.seq = @ + 1,
                 !.feed[s][p] = IF book.total[s][p] = 0 THEN @ ELSE book.total[s][p]]

\* nextLevelChange: the change takes a number, and the copy the lots of the level.
Report(book, s, p) ==
    [book EXCEPT !.seq = @ + 1, !.feed[s][p] = book.total[s][p]]

\* The k-th order of a level gives lots, and leaves with its last one.
TakenLevel(q, k, lots) ==
    IF lots = q[k].lots THEN RemoveAt(q, k) ELSE [q EXCEPT ![k].lots = @ - lots]

\* Mutant: the total of the level stays.
TakenOffOrder(book, s, p, k, lots) ==
    LET order == book.queue[s][p][k]
    IN  Report([book EXCEPT
                  !.queue[s][p] = TakenLevel(@, k, lots),
                  !.orders = IF lots = order.lots THEN @ \ {order.id} ELSE @], s, p)

\* The same in all records of the book: the total, the level and the order index.
Taken(book, s, p, k, lots) ==
    LET order == book.queue[s][p][k]
    IN  Report([book EXCEPT
                  !.total[s][p] = @ - lots,
                  !.queue[s][p] = TakenLevel(@, k, lots),
                  !.orders = IF lots = order.lots THEN @ \ {order.id} ELSE @], s, p)

\* What is left of an order joins the end of its level.
Rested(book, s, p, order) ==
    Report([book EXCEPT
              !.total[s][p] = @ + order.lots,
              !.queue[s][p] = Append(@, order),
              !.orders = @ \cup {order.id}], s, p)

-----------------------------------------------------------------------------
(* Matching. *)

\* Mutant: an order at the same price does not match.
StrictlyCompatible(book, side, limit) ==
    {p \in Price : /\ book.queue[Opposite(side)][p] # <<>>
                   /\ IF side = "buy" THEN p < limit ELSE p > limit}

WithinLimit(p, side, limit) == IF side = "buy" THEN p <= limit ELSE p >= limit

\* compatibleOppositePrices
Compatible(book, side, limit) ==
    {p \in Price : book.queue[Opposite(side)][p] # <<>> /\ WithinLimit(p, side, limit)}

\* Mutant: the price that is worst for the taker comes first.
WorstOf(side, prices) ==
    CHOOSE p \in prices : \A q \in prices : IF side = "buy" THEN p >= q ELSE p <= q

BestOf(side, prices) ==
    CHOOSE p \in prices : \A q \in prices : IF side = "buy" THEN p <= q ELSE p >= q

\* One more fill: the first order of the best level gives what is left or all it has.
Filled(match, side, limit) ==
    LET prices == Compatible(match.book, side, limit)
        p == BestOf(side, prices)
        lots == Least(match.left, match.book.queue[Opposite(side)][p][1].lots)
    IN  IF match.left = 0 \/ prices = {} THEN match
        ELSE [book |-> Taken(match.book, Opposite(side), p, 1, lots), left |-> match.left - lots]

\* planFills and the fills of Submit: the book and the lots left without a
\* counterpart.  There are not more fills than orders.
Matched(side, limit, lots) ==
    LET match[k \in 0 .. Cardinality(orders)] ==
            IF k = 0 THEN [book |-> Current, left |-> lots] ELSE Filled(match[k - 1], side, limit)
    IN  match[Cardinality(orders)]

\* The checks Submit makes before it changes anything: the number of resting
\* orders, the lots of the level, order IDs and book sequence numbers.
Accepted(side, limit, match) ==
    /\ nextID <= MaxSafe
    /\ match.left > 0 =>
         /\ Cardinality(match.book.orders) + 1 <= MaxOrders
         /\ match.left <= MaxLevelLots - total[side][limit]
    /\ match.book.seq - nextSeq + (IF match.left > 0 THEN 1 ELSE 0) <= MaxSafe - nextSeq + 1

-----------------------------------------------------------------------------

Submit(side, limit, lots) ==
    LET match == Matched(side, limit, lots)
        rest == [id |-> nextID, lots |-> match.left]
    IN  /\ Accepted(side, limit, match)
        /\ nextID' = nextID + 1
        /\ Becomes(IF match.left > 0 THEN Rested(match.book, side, limit, rest) ELSE match.book)
        /\ last' = [side |-> side, price |-> limit, lots |-> lots, rested |-> match.left]

Cancel(s, p, k) ==
    /\ nextSeq <= MaxSafe
    /\ Becomes(Taken(Current, s, p, k, queue[s][p][k].lots))
    /\ UNCHANGED <<nextID, last>>

Next ==
    \/ \E side \in Side, limit \in Price, lots \in 1 .. MaxOrderLots : Submit(side, limit, lots)
    \/ \E s \in Side, p \in Price : \E k \in DOMAIN queue[s][p] : Cancel(s, p, k)

Spec == Init /\ [][Next]_vars

-----------------------------------------------------------------------------

Resting == {r \in Side \X Price \X (1 .. MaxOrders) : r[3] \in DOMAIN queue[r[1]][r[2]]}
OrderAt(r) == queue[r[1]][r[2]][r[3]]

\* Every variable has its type.
TypeOK ==
    /\ queue \in [Side -> [Price -> Seq([id : 1 .. MaxSafe, lots : 1 .. MaxOrderLots])]]
    /\ total \in [Side -> [Price -> 0 .. MaxLevelLots]]
    /\ feed \in [Side -> [Price -> 0 .. MaxLevelLots]]
    /\ orders \subseteq 1 .. MaxSafe
    /\ nextID \in 1 .. MaxSafe + 1 /\ nextSeq \in 1 .. MaxSafe + 1
    /\ last \in [side : Side, price : Price, lots : 0 .. MaxOrderLots, rested : 0 .. MaxOrderLots]

\* No resting buy meets a resting sell: whatever could trade has traded.
NotCrossed ==
    \A b \in Price, a \in Price : queue["buy"][b] # <<>> /\ queue["sell"][a] # <<>> => b < a

LotsIn(q) == SumOf([k \in DOMAIN q |-> q[k].lots])

\* The engine's redundant records agree: the total of a level is the sum of its
\* orders, the index holds exactly the resting orders and not too many, and
\* every level is in the order of arrival.
RecordsAgree ==
    /\ TypeOK
    /\ \A s \in Side, p \in Price :
         /\ total[s][p] = LotsIn(queue[s][p])
         /\ \A k \in 2 .. Len(queue[s][p]) : queue[s][p][k - 1].id < queue[s][p][k].id
    /\ orders = {OrderAt(r).id : r \in Resting}
    /\ Cardinality(orders) = Cardinality(Resting) /\ Cardinality(orders) <= MaxOrders
    /\ \A id \in orders : id < nextID

\* The level changes alone, applied in order, reproduce the book: every copy
\* built from ranges of them (delivery, browser) starts from this.
FeedReproducesBook == feed = total

Ahead(r, x) == /\ r[1] = x[1]
               /\ \/ r[2] = x[2] /\ r[3] < x[3]
                  \/ IF r[1] = "sell" THEN r[2] < x[2] ELSE r[2] > x[2]

\* Lots of a resting order after the step.
LotsAfter(r) ==
    LET q == queue'[r[1]][r[2]]
        found == {k \in DOMAIN q : q[k].id = OrderAt(r).id}
    IN  IF found = {} THEN 0 ELSE q[CHOOSE k \in found : TRUE].lots

\* All lots of one side of the book.
SideLots(levels) == SumOf([i \in 1 .. MaxPrice - MinPrice + 1 |-> levels[MinPrice + i - 1]])

\* In an accepted order, a maker gives lots only within the taker's limit and
\* only when every order with priority over it is gone; what the other side gives
\* and what rests is the whole order.
PriceTimePriority ==
    [][nextID' # nextID =>
         /\ \A r \in Resting : LotsAfter(r) # OrderAt(r).lots =>
              /\ r[1] = Opposite(last'.side) /\ WithinLimit(r[2], last'.side, last'.price)
              /\ \A x \in Resting : Ahead(x, r) => LotsAfter(x) = 0
         /\ LET gave == SideLots(total[Opposite(last'.side)]) - SideLots(total'[Opposite(last'.side)])
            IN  gave + last'.rested = last'.lots]_vars

=============================================================================
