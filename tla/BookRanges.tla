----------------------------- MODULE BookRanges -----------------------------
(***************************************************************************)
(* The level-change log of one market session and the sequence ranges the  *)
(* server cuts from it.                                                    *)
(*                                                                         *)
(* The matching engine numbers every level change; change n replaces the   *)
(* quantity of one price level.  The publication holds the book after some *)
(* change and only the newest changes.  A connection at cursor `sent` gets *)
(* every level touched in (sent, published] with its final quantity, or is *)
(* told that its cursor has expired (backend/internal/delivery/batch.go).  *)
(*                                                                         *)
(* A level stands for a (side, price) pair and a quantity of 0 for an      *)
(* absent level.                                                           *)
(***************************************************************************)
EXTENDS Integers, Sequences, FiniteSets

CONSTANTS
    Level,          \* the (side, price) pairs a change can touch
    MaxLots,        \* quantities are 0..MaxLots
    ValidBooks,     \* the books isValidBook accepts: depth in bounds, uncrossed
    Retain          \* how many changes a publication keeps (BookChanges)

Lots == 0 .. MaxLots
Book == [Level -> Lots]
EmptyBook == [l \in Level |-> 0]

ASSUME RangesAssumption ==
    /\ MaxLots \in Nat \ {0}
    /\ Retain \in Nat \ {0}
    /\ ValidBooks \subseteq Book
    /\ EmptyBook \notin ValidBooks

(***************************************************************************)
(* `book` and `published` annotate a change for the properties: the book   *)
(* once the change is applied, and whether a publication ended at it.      *)
(***************************************************************************)
Change == [level : Level, lots : Lots, book : Book, published : BOOLEAN]

\* The book after the first n changes of a log.
BookAt(log, n) == IF n = 0 THEN EmptyBook ELSE log[n].book

\* The engine replaces one level by a different quantity and numbers the change.
Mutate(log, l, q) ==
    Append(log, [level |-> l, lots |-> q, published |-> FALSE,
                 book |-> [BookAt(log, Len(log)) EXCEPT ![l] = q]])

\* The levels touched by changes a..b.
Touched(log, a, b) == {log[k].level : k \in a .. b}

\* The last change of a..b that touches level l.
LastTouch(log, l, a, b) ==
    CHOOSE k \in a .. b : /\ log[k].level = l
                          /\ \A j \in k + 1 .. b : log[j].level # l

\* Mutant: the first quantity of a level wins, not the last.
FirstTouch(log, l, a, b) ==
    CHOOSE k \in a .. b : /\ log[k].level = l
                          /\ \A j \in a .. k - 1 : log[j].level # l
FirstBookRange(log, pub, sent) ==
    [from |-> sent + 1, to |-> pub,
     lots |-> [l \in Touched(log, sent + 1, pub) |->
                 log[FirstTouch(log, l, sent + 1, pub)].lots]]

\* The range from a cursor to the publication: final absolute quantities.
BuildBookRange(log, pub, sent) ==
    [from |-> sent + 1, to |-> pub,
     lots |-> [l \in Touched(log, sent + 1, pub) |->
                 log[LastTouch(log, l, sent + 1, pub)].lots]]

\* The oldest change the publication still holds.
FirstRetained(pub) == IF pub > Retain THEN pub - Retain + 1 ELSE 1

\* The publication no longer holds change sent + 1.
CursorExpired(pub, sent) == FirstRetained(pub) > sent + 1

-----------------------------------------------------------------------------
(* What the annotations and the ranges mean, for the invariants. *)

\* Publications are valid books at the numbered ends of the log, and a level
\* keeps its quantity through changes that do not touch it.
LogOK(log, pub) ==
    /\ pub <= Len(log)
    /\ pub > 0 => log[pub].published
    /\ \A k \in 1 .. Len(log) :
         /\ log[k].lots = log[k].book[log[k].level]
         /\ log[k].published => k <= pub /\ log[k].book \in ValidBooks
    /\ \A m \in 0 .. Len(log), n \in 0 .. Len(log), l \in Level :
         (m <= n /\ \A k \in m + 1 .. n : log[k].level # l)
           => BookAt(log, m)[l] = BookAt(log, n)[l]

\* A range carries exactly the levels touched in from..to with their quantities
\* at to, where a publication ended.
RangeOK(log, pub, r) ==
    /\ 1 <= r.from /\ r.from <= r.to /\ r.to <= pub
    /\ log[r.to].published
    /\ DOMAIN r.lots = Touched(log, r.from, r.to)
    /\ \A l \in DOMAIN r.lots : r.lots[l] = log[r.to].book[l]

=============================================================================
