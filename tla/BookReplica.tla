---------------------------- MODULE BookReplica -----------------------------
(***************************************************************************)
(* What the order-book pipeline promises, without cursors, sockets or      *)
(* snapshots: the market publishes valid books, numbered upwards within a  *)
(* session; a viewer shows nothing or one published book, and only ever    *)
(* moves to a later book of the same session or to a later session.        *)
(***************************************************************************)
EXTENDS Integers

CONSTANTS Session,      \* session numbers, later processes have larger ones
          ValidBooks    \* the books a market may publish

VARIABLES history,      \* [Session -> the publications of the session so far]
          view          \* the book on show, or Nothing

Publication == [seq : Nat \ {0}, book : ValidBooks]
Nothing == [session |-> 0]

Init == /\ history = [s \in Session |-> {}]
        /\ view = Nothing

\* The newest session publishes its next book.
Publish(s) ==
    \E p \in history'[s] :
        /\ p \in Publication
        /\ \A q \in history[s] : q.seq < p.seq
        /\ \A t \in Session : t > s => history[t] = {}
        /\ history' = [history EXCEPT ![s] = @ \cup {p}]
        /\ UNCHANGED view

\* The viewer shows a published book that is not older than the one on show.
Show(s) ==
    \E p \in history[s] :
        /\ view # Nothing => /\ s >= view.session
                             /\ s = view.session => p.seq >= view.seq
        /\ view' = [session |-> s, seq |-> p.seq, book |-> p.book]
        /\ UNCHANGED history

\* A bootstrap clears the screen.
Clear == view' = Nothing /\ UNCHANGED history

Next == \/ \E s \in Session : Publish(s) \/ Show(s)
        \/ Clear

Spec == Init /\ [][Next]_<<history, view>>

=============================================================================
