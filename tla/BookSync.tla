------------------------------ MODULE BookSync ------------------------------
(***************************************************************************)
(* The browser's order-book synchroniser, web/src/engines/book-sync.ts, as *)
(* functions from its state to its next state.                             *)
(*                                                                         *)
(* A state is a record with the fields of the class.  Session and          *)
(* expectedSeq are null in the code where they are None here; the first    *)
(* real session and the first real expected sequence number are 1.  A      *)
(* returned fetchSnapshot effect is always a new generation, or a Start.   *)
(***************************************************************************)
EXTENDS BookRanges

CONSTANTS
    MaxBuffered,    \* ranges held while a snapshot is pending
    MaxAttempts     \* snapshot requests of one recovery episode

ASSUME SyncAssumption == MaxBuffered \in Nat /\ MaxAttempts \in Nat \ {0}

None == 0

BookRange == [from : Nat, to : Nat, lots : UNION {[S -> Lots] : S \in SUBSET Level}]

SyncState ==
    [session : Nat, status : {"idle", "buffering", "synced", "failed"},
     generation : Nat, expectedSeq : Nat, attemptsUsed : 0 .. MaxAttempts,
     buffered : Seq(BookRange), book : Book]

\* The state of a freshly constructed BookSync.
NewBookSync ==
    [session |-> None, status |-> "idle", generation |-> 0, expectedSeq |-> None,
     attemptsUsed |-> 0, buffered |-> <<>>, book |-> EmptyBook]

\* Mutant: the book of the session before stays on show.
KeepShown(b, s) ==
    [b EXCEPT !.session = s, !.status = "buffering", !.attemptsUsed = 1,
              !.generation = @ + 1, !.buffered = <<>>]

\* Begin a recovery episode for a session: forget the book, ask for a snapshot.
Start(b, s) ==
    [session |-> s, status |-> "buffering",
     generation |-> IF b.session = s THEN b.generation + 1 ELSE 1,
     expectedSeq |-> None, attemptsUsed |-> 1, buffered |-> <<>>,
     book |-> EmptyBook]

\* Spend the next attempt of the episode on a new snapshot, or give up.  The
\* book on show and its expectedSeq stay.
RequestSnapshot(b) ==
    IF b.session = None \/ b.attemptsUsed >= MaxAttempts
    THEN [b EXCEPT !.status = "failed", !.buffered = <<>>]
    ELSE [b EXCEPT !.attemptsUsed = @ + 1, !.generation = @ + 1,
                   !.status = "buffering", !.buffered = <<>>]

\* The book with every level of the range replaced.
ApplyRange(book, r) ==
    [l \in Level |-> IF l \in DOMAIN r.lots THEN r.lots[l] ELSE book[l]]

-----------------------------------------------------------------------------
(***************************************************************************)
(* Replay of the buffered ranges over a snapshot.  The loop keeps          *)
(* nextExpected = snapshot.seq + 1, then to + 1 of each range it applies;  *)
(* since a range with to < nextExpected is skipped, nextExpected before    *)
(* range i is the greatest of seq + 1 and to + 1 over the earlier ranges.  *)
(***************************************************************************)

\* Range i of the buffer reaches past everything before it, so it is applied.
Replayed(buf, seq, i) == /\ buf[i].to > seq
                         /\ \A j \in 1 .. i - 1 : buf[j].to < buf[i].to

\* Range i starts past everything before it, so changes are missing.
GapAt(buf, seq, i) == /\ Replayed(buf, seq, i)
                      /\ buf[i].from > seq + 1
                      /\ \A j \in 1 .. i - 1 : buf[i].from > buf[j].to + 1

\* The quantity of level l once ranges 1..n are replayed over the snapshot.
ReplayedLots(buf, snap, n, l) ==
    LET writers == {i \in 1 .. n : Replayed(buf, snap.seq, i) /\ l \in DOMAIN buf[i].lots}
    IN  IF writers = {} THEN snap.book[l]
        ELSE buf[CHOOSE i \in writers : \A j \in writers : j <= i].lots[l]

ReplayedBook(buf, snap, n) == [l \in Level |-> ReplayedLots(buf, snap, n, l)]

\* nextExpected when the loop ends.
ReplayedExpected(buf, seq) ==
    LET ends == {seq + 1} \cup {buf[i].to + 1 : i \in 1 .. Len(buf)}
    IN  CHOOSE e \in ends : \A f \in ends : f <= e

\* The snapshot is a valid book, no range leaves a gap, and the book is valid
\* after each applied range.
ReplayOK(buf, snap) ==
    /\ snap.book \in ValidBooks
    /\ \A i \in 1 .. Len(buf) :
         Replayed(buf, snap.seq, i) =>
            /\ ~GapAt(buf, snap.seq, i)
            /\ ReplayedBook(buf, snap, i) \in ValidBooks

Synced(b, book, expected) ==
    [b EXCEPT !.book = book, !.expectedSeq = expected, !.status = "synced",
              !.attemptsUsed = 0, !.buffered = <<>>]

\* Mutant: the snapshot is shown without the ranges that arrived meanwhile.
SnapshotOnly(b, snap, gen) ==
    IF \/ snap.session # b.session \/ gen # b.generation \/ b.status # "buffering"
    THEN b
    ELSE IF ~ReplayOK(b.buffered, snap) THEN RequestSnapshot(b)
    ELSE Synced(b, snap.book, ReplayedExpected(b.buffered, snap.seq))

\* A snapshot of the current generation becomes the book, with the ranges that
\* arrived while it was on its way replayed over it.
ReceiveSnapshot(b, snap, gen) ==
    IF \/ snap.session # b.session \/ gen # b.generation \/ b.status # "buffering"
    THEN b
    ELSE IF ~ReplayOK(b.buffered, snap) THEN RequestSnapshot(b)
    ELSE Synced(b, ReplayedBook(b.buffered, snap, Len(b.buffered)),
                ReplayedExpected(b.buffered, snap.seq))

\* A live range of session s: apply it, ignore it, hold it, or find that changes are missing.
ReceiveRange(b, s, r) ==
    IF s # b.session THEN b
    ELSE IF b.status = "synced"
    THEN IF r.to < b.expectedSeq THEN b
         ELSE IF r.from > b.expectedSeq THEN RequestSnapshot(b)
         ELSE IF ApplyRange(b.book, r) \notin ValidBooks THEN RequestSnapshot(b)
         ELSE [b EXCEPT !.book = ApplyRange(@, r), !.expectedSeq = r.to + 1]
    ELSE IF b.status # "buffering" THEN b
    ELSE IF Len(b.buffered) + 1 > MaxBuffered THEN RequestSnapshot(b)
    ELSE [b EXCEPT !.buffered = Append(@, r)]

\* The snapshot request of the current generation failed.
Failed(b, gen) ==
    IF gen # b.generation \/ b.status # "buffering" THEN b ELSE RequestSnapshot(b)

-----------------------------------------------------------------------------
\* A state is right, for the invariants, when its ranges and the book it shows
\* are true pieces of the history of its session: `log` and `pub` give the log
\* and the last published change of every session.
SyncRight(b, log, pub) ==
    /\ b.session = None => b.expectedSeq = None /\ b.buffered = <<>>
    /\ b.status = "synced" => b.expectedSeq # None
    /\ \A i \in 1 .. Len(b.buffered) : RangeOK(log[b.session], pub[b.session], b.buffered[i])
    /\ b.expectedSeq # None =>
         /\ b.expectedSeq - 1 \in 1 .. pub[b.session]
         /\ log[b.session][b.expectedSeq - 1].published
         /\ b.book = log[b.session][b.expectedSeq - 1].book

=============================================================================
