---------------------------- MODULE RequestOwner ----------------------------
(***************************************************************************)
(* RequestOwner (web/src/net/request-owner.ts): one request of the browser *)
(* with its attempts.  A new attempt makes the earlier ones out of date;   *)
(* their answers arrive all the same.                                      *)
(*                                                                         *)
(* The object is one record, as its methods call each other and accept may *)
(* call back into it (a history that does not fit selects anew).  A load   *)
(* in flight is known by its generation.                                   *)
(***************************************************************************)
EXTENDS Naturals, FiniteSets

CONSTANTS
    MaxAttempts,    \* the delays: an attempt without delay, and the rest
    Task,           \* what start and recover are given
    MaxGeneration   \* bound: generations of a run

ASSUME RequestAssumption ==
    /\ {MaxAttempts, MaxGeneration} \subseteq Nat \ {0}
    /\ "none" \notin Task

VARIABLES
    owner,      \* the object
    accepted    \* ghost: what the last accepted answer belonged to

vars == <<owner, accepted>>

NoTask == "none"

Status == {"idle", "loading", "ready", "failed"}

Owner0 == [status |-> "idle", generation |-> 0, attempts |-> 0, task |-> NoTask, timers |-> {},
           live |-> {}, flights |-> {}, disposed |-> FALSE, tries |-> 0]

Init == owner = Owner0 /\ accepted = [task |-> NoTask, generation |-> 0]

-----------------------------------------------------------------------------

\* The load is aborted (live: not aborted), the timer cleared.
Invalidate(o) == [o EXCEPT !.generation = @ + 1, !.live = {}, !.timers = {}]

\* The load of the current generation begins; tries is a ghost that counts them.
Load(o) ==
    [o EXCEPT !.flights = @ \cup {[generation |-> o.generation, task |-> o.task]},
              !.live = @ \cup {o.generation}, !.tries = @ + 1]

Exhausted(o) == [o EXCEPT !.status = "failed"]

NoneLeft(o) == o.attempts = MaxAttempts

NextAttempt(o) ==
    LET i == Invalidate(o)
        n == [i EXCEPT !.attempts = @ + 1, !.status = "loading"]
    IN  IF o.task = NoTask \/ o.disposed THEN o
        ELSE IF NoneLeft(o) THEN Exhausted(i)
        ELSE IF o.attempts = 0 THEN Load(n)
        ELSE [n EXCEPT !.timers = {n.generation}]

\* start, and retry with the task there is.
Start(o, t) == NextAttempt([o EXCEPT !.task = t, !.attempts = 0, !.tries = 0])

\* A recovery goes on with the budget of its episode.
Recover(o, t) == NextAttempt([o EXCEPT !.task = t])

Clear(o, preserve) ==
    LET i == [Invalidate(o) EXCEPT !.status = "idle"]
    IN  IF preserve THEN i ELSE [i EXCEPT !.attempts = 0, !.tries = 0]

Dispose(o) == Clear([o EXCEPT !.disposed = TRUE], FALSE)

\* Mutant: any answer will do while the owner loads.
IsLoading(o, generation) == ~o.disposed /\ o.status = "loading"

IsCurrent(o, generation) == ~o.disposed /\ generation = o.generation

Ready(o) == [o EXCEPT !.status = "ready", !.attempts = 0, !.tries = 0, !.live = {}]

\* A load has ended; the answer of an attempt that is out of date is dropped.
Settled(o, f) == [o EXCEPT !.flights = @ \ {f}]

-----------------------------------------------------------------------------

Bounded == owner.generation < MaxGeneration

\* start(task), recover(task), recover(), retry(), cancel, dispose.
Starts(t) == ~owner.disposed /\ owner' = Start(owner, t) /\ UNCHANGED accepted
Recovers(t) == ~owner.disposed /\ owner' = Recover(owner, t) /\ UNCHANGED accepted
Retries == owner.task # NoTask /\ Starts(owner.task)
Cancels(preserve) == ~owner.disposed /\ owner' = Clear(owner, preserve) /\ UNCHANGED accepted
Disposes == ~owner.disposed /\ owner' = Dispose(owner) /\ UNCHANGED accepted

TimerFires(g) ==
    /\ g \in owner.timers
    /\ owner' = IF IsCurrent(owner, g) THEN Load([owner EXCEPT !.timers = {}])
                ELSE [owner EXCEPT !.timers = @ \ {g}]
    /\ UNCHANGED accepted

\* The answer of an attempt that is out of date, or its failure, is ignored.
SettlesLate(f) ==
    /\ f \in owner.flights /\ ~IsCurrent(owner, f.generation)
    /\ owner' = Settled(owner, f) /\ UNCHANGED accepted

\* A failed load, or an answer that does not fit.
Fails(f) ==
    /\ f \in owner.flights /\ IsCurrent(owner, f.generation)
    /\ owner' = NextAttempt(Settled(owner, f)) /\ UNCHANGED accepted

Succeeds(f) ==
    /\ f \in owner.flights /\ IsCurrent(owner, f.generation)
    /\ owner' = Ready(Settled(owner, f)) /\ accepted' = f

\* Accepting the answer makes its user recover with another task.
SucceedsAndRecovers(f, t) ==
    /\ f \in owner.flights /\ IsCurrent(owner, f.generation)
    /\ owner' = Recover(Settled(owner, f), t) /\ accepted' = f

Call ==
    /\ Bounded
    /\ \/ \E t \in Task : Starts(t) \/ Recovers(t)
       \/ Retries \/ Disposes \/ \E preserve \in BOOLEAN : Cancels(preserve)

Settle == \E f \in owner.flights : Fails(f) \/ Succeeds(f) \/ SettlesLate(f)

Timer == \E g \in owner.timers : TimerFires(g)

Next == Call \/ Settle \/ Timer \/ \E f \in owner.flights, t \in Task : Bounded /\ SucceedsAndRecovers(f, t)

Spec == Init /\ [][Next]_vars

-----------------------------------------------------------------------------

\* Every part of the object has its type.
TypeOK ==
    /\ owner \in [status : Status, generation : Nat, attempts : 0 .. MaxAttempts,
                  task : Task \cup {NoTask}, timers : SUBSET Nat, live : SUBSET Nat,
                  flights : SUBSET [generation : Nat, task : Task], disposed : BOOLEAN, tries : Nat]
    /\ accepted \in [generation : Nat, task : Task \cup {NoTask}]

\* docs/protocol.md: one pending request each.  A load that is not aborted, or a
\* timer, and never both or two of them; an owner says "loading" exactly as long
\* as there is one.
OnePending ==
    /\ owner.status = "loading" <=> owner.live \cup owner.timers # {}
    /\ \A g, h \in owner.live \cup owner.timers : g = h
    /\ owner.live \cap owner.timers = {}

\* Whatever sequence of recoveries, failures and cancellations: no more than the
\* attempts of one episode are loaded until one is started or has succeeded.
BudgetHolds == owner.tries <= MaxAttempts

\* An answer is accepted only for the task in force, and only while it is awaited.
AcceptedInForce ==
    [][accepted' # accepted =>
         /\ accepted'.task = owner.task /\ accepted'.generation \in owner.live
         /\ owner.status = "loading"]_vars

=============================================================================
