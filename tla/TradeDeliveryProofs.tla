-------------------------- MODULE TradeDeliveryProofs --------------------------
(***************************************************************************)
(* Theorems about RequestOwner, for any number of attempts and tasks and   *)
(* any sequence of calls, timers and answers, and about TradeDelivery,     *)
(* which embeds it: for any limits, any number of trades and server        *)
(* processes and any interleaving of the two paths.                        *)
(***************************************************************************)
EXTENDS TradeDelivery, FiniteSetTheorems, SequenceTheorems, WellFoundedInduction, TLAPS

Loads == [generation : Nat, task : Task]
LoadSets == SUBSET Loads
Gens == SUBSET Nat
Counts == 0 .. MaxAttempts
Tasks == Task \cup {NoTask}

Owners ==
    [status : Status, generation : Nat, attempts : Counts, task : Tasks, timers : Gens,
     live : Gens, flights : LoadSets, disposed : BOOLEAN, tries : Nat]

\* What every method may rely on, in the middle of a handler too: no load is of
\* a generation yet to come, and every load was an attempt.
Base(o) ==
    /\ o \in Owners
    /\ \A f \in o.flights : f.generation <= o.generation
    /\ o.tries <= o.attempts

\* What holds between events: a timer or a load belongs to the current
\* generation, and so the answer that is still awaited to the task in force.
Steady(o) ==
    /\ o.live \subseteq {o.generation} /\ o.timers \subseteq {o.generation}
    /\ o.live = {} \/ o.timers = {}
    /\ o.status = "loading" <=> o.live \cup o.timers # {}
    /\ o.timers # {} => o.tries < o.attempts
    /\ o.live \cup o.timers # {} => o.task \in Task /\ ~o.disposed
    /\ \A f \in o.flights :
          f.generation = o.generation => f.task = o.task /\ o.live = {o.generation}

OK(o) == Base(o) /\ Steady(o)

\* The inductive invariant.
RInv == OK(owner) /\ accepted \in [generation : Nat, task : Tasks]

-----------------------------------------------------------------------------
(* Small sets that the methods write. *)

LEMMA Values ==
    /\ {"idle", "loading", "ready", "failed"} \subseteq Status
    /\ 0 \in Counts /\ 0 \in Nat /\ MaxAttempts \in Nat
    /\ {} \in Gens /\ {} \in LoadSets /\ NoTask \in Tasks /\ Task \subseteq Tasks
    /\ NoTask \notin Task
    /\ \A g \in Nat : {g} \in Gens /\ g + 1 \in Nat
    /\ \A a \in Counts : a \in Nat /\ (a # MaxAttempts => a + 1 \in Counts)
BY RequestAssumption DEF Status, Counts, Gens, LoadSets, Tasks, NoTask

LEMMA Fields ==
    ASSUME NEW o \in Owners
    PROVE  /\ o.status \in Status /\ o.generation \in Nat /\ o.attempts \in Counts
           /\ o.task \in Tasks /\ o.timers \in Gens /\ o.live \in Gens
           /\ o.flights \in LoadSets /\ o.disposed \in BOOLEAN /\ o.tries \in Nat
           /\ o.attempts \in Nat /\ \A f \in o.flights : f \in Loads /\ f.generation \in Nat
<1>1. /\ o.status \in Status /\ o.generation \in Nat /\ o.attempts \in Counts
      /\ o.task \in Tasks /\ o.timers \in Gens /\ o.live \in Gens
      /\ o.flights \in LoadSets /\ o.disposed \in BOOLEAN /\ o.tries \in Nat
  BY DEF Owners
<1> QED BY <1>1, Values DEF LoadSets, Loads

LEMMA InitOK == Init => RInv
<1> SUFFICES ASSUME Init PROVE RInv
  OBVIOUS
<1>1. Owner0 \in Owners
  BY Values DEF Owner0, Owners
<1>2. Base(Owner0) /\ Steady(Owner0)
  BY <1>1 DEF Owner0, Base, Steady
<1>3. accepted \in [generation : Nat, task : Tasks]
  BY Values DEF Init
<1> QED BY <1>2, <1>3 DEF Init, RInv, OK

\* Invalidating leaves no timer and no load of the new generation.
LEMMA InvalidateFresh ==
    ASSUME NEW o, Base(o)
    PROVE  /\ Base(Invalidate(o))
           /\ Invalidate(o).live = {} /\ Invalidate(o).timers = {}
           /\ \A f \in Invalidate(o).flights : f.generation # Invalidate(o).generation
           /\ Invalidate(o).status = o.status /\ Invalidate(o).attempts = o.attempts
           /\ Invalidate(o).task = o.task /\ Invalidate(o).disposed = o.disposed
           /\ Invalidate(o).tries = o.tries
<1> DEFINE i == Invalidate(o)
<1>1. o \in Owners /\ o.generation \in Nat /\ o.generation + 1 \in Nat
  BY Fields, Values DEF Base
<1>2. i \in Owners
  BY <1>1, Values DEF Invalidate, Owners
<1>3. /\ i.generation = o.generation + 1 /\ i.live = {} /\ i.timers = {} /\ i.flights = o.flights
      /\ i.status = o.status /\ i.attempts = o.attempts /\ i.task = o.task
      /\ i.disposed = o.disposed /\ i.tries = o.tries
  BY <1>1 DEF Invalidate, Owners
<1> HIDE DEF i
<1>4. \A f \in i.flights : f.generation < i.generation
  BY <1>1, <1>3, Fields DEF Base
<1>5. Base(i)
  BY <1>1, <1>2, <1>3, <1>4, Fields DEF Base
<1> QED BY <1>1, <1>2, <1>3, <1>4, <1>5, Fields DEF i

\* A load for a task in force.
LEMMA LoadOK ==
    ASSUME NEW o, Base(o), o.task \in Task, o.status = "loading", ~o.disposed, o.timers = {},
           o.live = {}, o.tries < o.attempts, \A f \in o.flights : f.generation # o.generation
    PROVE  OK(Load(o))
<1> DEFINE f0 == [generation |-> o.generation, task |-> o.task]
           l == Load(o)
<1>1. o \in Owners /\ o.generation \in Nat /\ o.tries \in Nat /\ o.attempts \in Nat
  BY Fields DEF Base
<1>2. o.flights \cup {f0} \in LoadSets /\ {o.generation} \in Gens /\ o.tries + 1 \in Nat
  BY <1>1, Fields, Values DEF LoadSets, Loads
<1>3. l = [o EXCEPT !.flights = o.flights \cup {f0}, !.live = {o.generation}, !.tries = o.tries + 1]
  BY DEF Load
<1>4. l \in Owners
  BY <1>1, <1>2, <1>3 DEF Owners
<1>5. /\ l.flights = o.flights \cup {f0} /\ l.live = {o.generation} /\ l.tries = o.tries + 1
      /\ l.generation = o.generation /\ l.attempts = o.attempts /\ l.timers = {}
      /\ l.task = o.task /\ l.status = "loading" /\ l.disposed = o.disposed
  BY <1>1, <1>3 DEF Owners
<1> HIDE DEF l
<1>6. Base(l)
  BY <1>1, <1>4, <1>5 DEF Base
<1>7. Steady(l)
  BY <1>1, <1>5 DEF Steady
<1> QED BY <1>6, <1>7 DEF OK, l

\* The next attempt of an owner with a task is a load, a timer, or the end.
LEMMA NextAttemptOK ==
    ASSUME NEW o, Base(o), o.task \in Task, ~o.disposed
    PROVE  OK(NextAttempt(o))
<1> DEFINE i == Invalidate(o)
           n == [i EXCEPT !.attempts = @ + 1, !.status = "loading"]
           x == [i EXCEPT !.status = "failed"]
           w == [n EXCEPT !.timers = {n.generation}]
<1>1. /\ o.task # NoTask /\ o.attempts \in Counts /\ i \in Owners /\ Base(i)
      /\ i.live = {} /\ i.timers = {} /\ \A f \in i.flights : f.generation # i.generation
      /\ i.attempts = o.attempts /\ i.task = o.task /\ i.disposed = o.disposed
      /\ i.generation \in Nat /\ i.tries \in Nat /\ i.tries <= i.attempts
  BY InvalidateFresh, Fields, Values DEF Base
<1>2. NextAttempt(o) = IF o.attempts = MaxAttempts THEN x ELSE IF o.attempts = 0 THEN Load(n) ELSE w
  BY <1>1 DEF NextAttempt, NoneLeft, Exhausted
<1> HIDE DEF i
<1>3. CASE o.attempts = MaxAttempts
  <2>1. x \in Owners /\ x.status = "failed" /\ x.live = {} /\ x.timers = {} /\ x.flights = i.flights
        /\ x.generation = i.generation /\ x.tries = i.tries /\ x.attempts = i.attempts
    BY <1>1, Values DEF Owners
  <2> HIDE DEF x
  <2>2. Base(x) /\ Steady(x)
    BY <1>1, <2>1 DEF Base, Steady
  <2> QED BY <1>2, <1>3, <2>2 DEF OK
<1>4. CASE o.attempts # MaxAttempts
  <2>1. i.attempts + 1 \in Counts /\ i.attempts \in Nat
    BY <1>1, <1>4, Values
  <2>2. n \in Owners /\ n.status = "loading" /\ n.live = {} /\ n.timers = {} /\ n.flights = i.flights
        /\ n.generation = i.generation /\ n.tries = i.tries /\ n.attempts = i.attempts + 1
        /\ n.task = o.task /\ n.disposed = o.disposed
    BY <1>1, <2>1, Values DEF Owners
  <2>3. w \in Owners /\ w.status = "loading" /\ w.live = {} /\ w.timers = {n.generation}
        /\ w.flights = n.flights /\ w.generation = n.generation /\ w.tries = n.tries
        /\ w.attempts = n.attempts /\ w.task = o.task /\ w.disposed = o.disposed
    BY <1>1, <2>2, Values DEF Owners
  <2> HIDE DEF n, w
  <2>4. Base(n)
    BY <1>1, <2>1, <2>2 DEF Base
  <2>5. n.tries < n.attempts
    BY <1>1, <2>1, <2>2
  <2>6. OK(Load(n))
    BY <1>1, <2>2, <2>4, <2>5, LoadOK
  <2>7. Base(w) /\ Steady(w)
    BY <1>1, <2>2, <2>3, <2>4, <2>5 DEF Base, Steady
  <2> QED BY <1>2, <1>4, <2>6, <2>7 DEF OK
<1> QED BY <1>3, <1>4

LEMMA StartOK ==
    ASSUME NEW o, Base(o), ~o.disposed, NEW t \in Task
    PROVE  OK(Start(o, t))
<1> DEFINE s == [o EXCEPT !.task = t, !.attempts = 0, !.tries = 0]
<1>1. /\ s \in Owners /\ s.task = t /\ s.attempts = 0 /\ s.tries = 0 /\ s.disposed = o.disposed
      /\ s.flights = o.flights /\ s.generation = o.generation
  BY Values DEF Base, Owners
<1> HIDE DEF s
<1>2. OK(NextAttempt(s))
  BY <1>1, NextAttemptOK DEF Base
<1> QED BY <1>2 DEF Start, s

LEMMA RecoverOK ==
    ASSUME NEW o, Base(o), ~o.disposed, NEW t \in Task
    PROVE  OK(Recover(o, t))
<1> DEFINE s == [o EXCEPT !.task = t]
<1>1. /\ s \in Owners /\ s.task = t /\ s.attempts = o.attempts /\ s.tries = o.tries
      /\ s.disposed = o.disposed /\ s.flights = o.flights /\ s.generation = o.generation
  BY Values DEF Base, Owners
<1> HIDE DEF s
<1>2. OK(NextAttempt(s))
  BY <1>1, NextAttemptOK DEF Base
<1> QED BY <1>2 DEF Recover, s

LEMMA ClearOK ==
    ASSUME NEW o, Base(o), NEW preserve \in BOOLEAN
    PROVE  OK(Clear(o, preserve))
<1> DEFINE i == [Invalidate(o) EXCEPT !.status = "idle"]
           z == [i EXCEPT !.attempts = 0, !.tries = 0]
<1>1. /\ i \in Owners /\ i.status = "idle" /\ i.live = {} /\ i.timers = {}
      /\ \A f \in i.flights : f.generation # i.generation
      /\ \A f \in i.flights : f.generation <= i.generation
      /\ i.tries <= i.attempts
  BY InvalidateFresh, Values DEF Base, Owners
<1>2. /\ z \in Owners /\ z.status = "idle" /\ z.live = {} /\ z.timers = {} /\ z.flights = i.flights
      /\ z.generation = i.generation /\ z.attempts = 0 /\ z.tries = 0
  BY <1>1, Values DEF Owners
<1>3. Clear(o, preserve) = IF preserve THEN i ELSE z
  BY DEF Clear
<1> HIDE DEF i, z
<1>4. OK(i)
  BY <1>1 DEF OK, Base, Steady
<1>5. OK(z)
  BY <1>1, <1>2 DEF OK, Base, Steady
<1> QED BY <1>3, <1>4, <1>5

\* The fields after a load has been taken out of those in flight.
LEMMA SettledFields ==
    ASSUME NEW o \in Owners, NEW f
    PROVE  LET s == Settled(o, f)
           IN  /\ s \in Owners /\ s.flights = o.flights \ {f} /\ s.status = o.status
               /\ s.generation = o.generation /\ s.attempts = o.attempts /\ s.task = o.task
               /\ s.timers = o.timers /\ s.live = o.live /\ s.disposed = o.disposed
               /\ s.tries = o.tries
<1>1. o.flights \ {f} \in LoadSets
  BY Fields DEF LoadSets
<1> QED BY <1>1 DEF Settled, Owners

LEMMA SettledOK ==
    ASSUME NEW o, OK(o), NEW f
    PROVE  OK(Settled(o, f))
BY SettledFields DEF OK, Base, Steady

\* An awaited answer belongs to the task in force.
LEMMA AwaitedInForce ==
    ASSUME NEW o, OK(o), NEW f \in o.flights, IsCurrent(o, f.generation)
    PROVE  f.task = o.task /\ f.generation \in o.live /\ o.status = "loading" /\ o.task \in Task
           /\ ~o.disposed /\ f \in Loads
BY Fields DEF OK, Base, Steady, IsCurrent

LEMMA ReadyOK ==
    ASSUME NEW o, OK(o), NEW f \in o.flights, IsCurrent(o, f.generation)
    PROVE  OK(Ready(Settled(o, f)))
<1> DEFINE s == Settled(o, f)
           r == Ready(s)
<1>1. \A g \in s.flights : g.generation # s.generation
  <2> SUFFICES ASSUME NEW g \in o.flights, g.generation = o.generation
               PROVE  g = f
    BY SettledFields DEF OK, Base
  <2>1. g \in Loads /\ f \in Loads /\ g.task = f.task /\ g.generation = f.generation
    BY AwaitedInForce, Fields DEF OK, Base, Steady, IsCurrent
  <2> QED BY <2>1 DEF Loads
<1>2. s \in Owners /\ s.timers = {} /\ \A g \in s.flights : g.generation <= s.generation
  BY SettledFields, AwaitedInForce DEF OK, Base, Steady
<1> HIDE DEF s
<1>3. /\ r \in Owners /\ r.status = "ready" /\ r.live = {} /\ r.timers = {} /\ r.attempts = 0
      /\ r.tries = 0 /\ r.flights = s.flights /\ r.generation = s.generation
  BY <1>2, Values DEF Ready, Owners
<1> HIDE DEF r
<1>4. OK(r)
  BY <1>1, <1>2, <1>3 DEF OK, Base, Steady
<1> QED BY <1>4 DEF r, s

-----------------------------------------------------------------------------

\* Only dispose() disposes of the owner.
LEMMA LoadKeeps ==
    ASSUME NEW o \in Owners PROVE Load(o).disposed = o.disposed
BY DEF Load, Owners

LEMMA NextAttemptKeeps ==
    ASSUME NEW o, Base(o) PROVE NextAttempt(o).disposed = o.disposed
<1> DEFINE i == Invalidate(o)
           n == [i EXCEPT !.attempts = @ + 1, !.status = "loading"]
           x == [i EXCEPT !.status = "failed"]
           w == [n EXCEPT !.timers = {n.generation}]
<1>1. i \in Owners /\ i.disposed = o.disposed /\ i.attempts = o.attempts
  BY InvalidateFresh DEF Base
<1>2. \/ NextAttempt(o) = o
      \/ NextAttempt(o) = x
      \/ NextAttempt(o) = Load(n) /\ o.attempts # MaxAttempts
      \/ NextAttempt(o) = w
  BY DEF NextAttempt, NoneLeft, Exhausted
<1> HIDE DEF i
<1>3. x.disposed = o.disposed /\ n.disposed = o.disposed /\ w.disposed = o.disposed
  BY <1>1 DEF Owners
<1>4. o.attempts # MaxAttempts => n \in Owners
  BY <1>1, Values DEF Owners
<1> HIDE DEF n, x, w
<1> QED BY <1>2, <1>3, <1>4, LoadKeeps

LEMMA CallsKeep ==
    ASSUME NEW o, Base(o), NEW t \in Task
    PROVE  Start(o, t).disposed = o.disposed /\ Recover(o, t).disposed = o.disposed
<1> DEFINE s == [o EXCEPT !.task = t, !.attempts = 0, !.tries = 0]
           r == [o EXCEPT !.task = t]
<1>1. /\ s \in Owners /\ s.flights = o.flights /\ s.generation = o.generation
      /\ s.attempts = 0 /\ s.tries = 0
  BY Values DEF Base, Owners
<1>2. /\ r \in Owners /\ r.flights = o.flights /\ r.generation = o.generation
      /\ r.attempts = o.attempts /\ r.tries = o.tries
  BY Values DEF Base, Owners
<1>3. s.disposed = o.disposed /\ r.disposed = o.disposed
  BY DEF Base, Owners
<1> HIDE DEF s, r
<1>4. Base(s) /\ Base(r)
  BY <1>1, <1>2 DEF Base
<1>5. NextAttempt(s).disposed = o.disposed /\ NextAttempt(r).disposed = o.disposed
  BY <1>3, <1>4, NextAttemptKeeps
<1> QED BY <1>5 DEF Start, Recover, s, r

LEMMA AnswersKeep ==
    ASSUME NEW o, Base(o), NEW preserve \in BOOLEAN, NEW f
    PROVE  /\ Clear(o, preserve).disposed = o.disposed
           /\ NextAttempt(Settled(o, f)).disposed = o.disposed
           /\ Ready(Settled(o, f)).disposed = o.disposed
           /\ Settled(o, f).disposed = o.disposed
<1>1. Clear(o, preserve).disposed = o.disposed
  <2> DEFINE i == Invalidate(o)
             z == [i EXCEPT !.status = "idle"]
             y == [z EXCEPT !.attempts = 0, !.tries = 0]
  <2>1. i \in Owners /\ i.disposed = o.disposed
    BY InvalidateFresh DEF Base
  <2> HIDE DEF i
  <2>2. z \in Owners
    BY <2>1, Values DEF Owners
  <2>3. z.disposed = i.disposed
    BY <2>1 DEF Owners
  <2> HIDE DEF z
  <2>4. y.disposed = z.disposed
    BY <2>2 DEF Owners
  <2>5. Clear(o, preserve) = IF preserve THEN z ELSE y
    BY DEF Clear, i, z, y
  <2> QED BY <2>1, <2>3, <2>4, <2>5
<1>2. /\ Settled(o, f) \in Owners /\ Base(Settled(o, f))
      /\ Settled(o, f).disposed = o.disposed
  BY SettledFields DEF Base
<1>3. NextAttempt(Settled(o, f)).disposed = o.disposed
  BY <1>2, NextAttemptKeeps
<1>4. Ready(Settled(o, f)).disposed = Settled(o, f).disposed
  <2>1. PICK q \in Owners : q = Settled(o, f)
    BY <1>2
  <2>2. Ready(q).disposed = q.disposed
    BY DEF Ready, Owners
  <2> QED BY <2>1, <2>2
<1> QED BY <1>1, <1>2, <1>3, <1>4

\* Every call and every answer, beyond the bound on generations too.
Event ==
    \/ \E t \in Task : Starts(t) \/ Recovers(t)
    \/ Retries \/ Disposes \/ \E preserve \in BOOLEAN : Cancels(preserve)
    \/ Settle \/ Timer \/ \E f \in owner.flights, t \in Task : SucceedsAndRecovers(f, t)

LEMMA NextIsEvent == Next => Event
BY DEF Next, Call, Event

LEMMA StepOK == RInv /\ [Event]_vars => RInv'
<1> SUFFICES ASSUME RInv, [Event]_vars PROVE RInv'
  OBVIOUS
<1>0. OK(owner) /\ Base(owner) /\ owner \in Owners
  BY DEF RInv, OK, Base
<1>1. CASE UNCHANGED vars
  BY <1>1 DEF vars, RInv, OK, Base, Steady
<1>2. ASSUME NEW t \in Task, Starts(t) PROVE RInv'
  BY <1>0, <1>2, StartOK DEF Starts, RInv
<1>3. ASSUME NEW t \in Task, Recovers(t) PROVE RInv'
  BY <1>0, <1>3, RecoverOK DEF Recovers, RInv
<1>4. CASE Retries
  <2>1. owner.task \in Task
    BY <1>0, <1>4, Fields DEF Retries, Tasks
  <2> QED BY <1>2, <1>4, <2>1 DEF Retries
<1>5. CASE Disposes
  <2>1. Base([owner EXCEPT !.disposed = TRUE])
    BY <1>0 DEF Base, Owners
  <2> QED BY <1>5, <2>1, ClearOK DEF Disposes, Dispose, RInv
<1>6. ASSUME NEW preserve \in BOOLEAN, Cancels(preserve) PROVE RInv'
  BY <1>0, <1>6, ClearOK DEF Cancels, RInv
<1>7. ASSUME NEW f \in owner.flights, Fails(f) PROVE RInv'
  <2>1. Base(Settled(owner, f)) /\ Settled(owner, f).task \in Task /\ ~Settled(owner, f).disposed
    BY <1>0, <1>7, SettledOK, SettledFields, AwaitedInForce DEF Fails, OK
  <2> QED BY <1>7, <2>1, NextAttemptOK DEF Fails, RInv
<1>8. ASSUME NEW f \in owner.flights, Succeeds(f) PROVE RInv'
  <2>1. f \in [generation : Nat, task : Tasks]
    BY <1>0, <1>8, AwaitedInForce, Values DEF Succeeds, Loads
  <2> QED BY <1>0, <1>8, <2>1, ReadyOK DEF Succeeds, RInv
<1>9. ASSUME NEW f \in owner.flights, SettlesLate(f) PROVE RInv'
  BY <1>0, <1>9, SettledOK DEF SettlesLate, RInv
<1>10. ASSUME NEW f \in owner.flights, NEW t \in Task, SucceedsAndRecovers(f, t) PROVE RInv'
  <2>1. f \in [generation : Nat, task : Tasks]
    BY <1>0, <1>10, AwaitedInForce, Values DEF SucceedsAndRecovers, Loads
  <2>2. Base(Settled(owner, f)) /\ ~Settled(owner, f).disposed
    BY <1>0, <1>10, SettledOK, SettledFields, AwaitedInForce DEF SucceedsAndRecovers, OK
  <2> QED BY <1>10, <2>1, <2>2, RecoverOK DEF SucceedsAndRecovers, RInv
<1>11. ASSUME NEW g \in owner.timers, TimerFires(g) PROVE RInv'
  <2> DEFINE o == [owner EXCEPT !.timers = {}]
  <2>1. IsCurrent(owner, g)
    BY <1>0, Fields DEF OK, Steady, IsCurrent
  <2>2. /\ o \in Owners /\ o.timers = {} /\ o.task = owner.task /\ o.status = owner.status
        /\ o.disposed = owner.disposed /\ o.live = owner.live /\ o.tries = owner.tries
        /\ o.attempts = owner.attempts /\ o.flights = owner.flights
        /\ o.generation = owner.generation
    BY <1>0, Values DEF Owners
  <2>3. owner' = Load(o) /\ UNCHANGED accepted
    BY <1>11, <2>1 DEF TimerFires
  <2> HIDE DEF o
  <2>4. OK(Load(o))
    BY <1>0, <2>2, LoadOK DEF OK, Base, Steady
  <2> QED BY <2>3, <2>4 DEF RInv
<1> QED
  BY <1>1, <1>2, <1>3, <1>4, <1>5, <1>6, <1>7, <1>8, <1>9, <1>10, <1>11 DEF Event, Settle, Timer

\* The load or timer in force is of the present generation, superseded loads are
\* of earlier ones (request-owner.ts).
THEOREM RequestInvariance == Spec => []RInv
<1>1. [Next]_vars => [Event]_vars
  BY NextIsEvent
<1> QED BY <1>1, InitOK, StepOK, PTL DEF Spec

\* Type correctness of the request owner.
THEOREM RequestTypeCorrect == Spec => []TypeOK
<1>1. RInv => TypeOK
  BY DEF RInv, OK, Base, Owners, TypeOK, Loads, LoadSets, Gens, Counts, Tasks
<1> QED BY <1>1, RequestInvariance, PTL

\* One timer or one load that is not aborted, exactly while the owner loads.
THEOREM OneRequest == Spec => []OnePending
<1>1. RInv => OnePending
  BY Fields DEF RInv, OK, Base, Steady, OnePending
<1> QED BY <1>1, RequestInvariance, PTL

\* No sequence of failures and recoveries loads more often than the budget allows.
THEOREM BudgetKept == Spec => []BudgetHolds
<1>1. RInv => BudgetHolds
  BY Fields, RequestAssumption DEF RInv, OK, Base, BudgetHolds, Counts
<1> QED BY <1>1, RequestInvariance, PTL

InForce == accepted' # accepted =>
             /\ accepted'.task = owner.task /\ accepted'.generation \in owner.live
             /\ owner.status = "loading"

LEMMA EventInForce == RInv /\ [Event]_vars => [InForce]_vars
<1> SUFFICES ASSUME RInv, Event, accepted' # accepted PROVE InForce
  BY DEF InForce
<1>1. PICK f \in owner.flights : IsCurrent(owner, f.generation) /\ accepted' = f
  BY DEF Event, Settle, Timer, Starts, Recovers, Retries, Disposes, Cancels, Fails, Succeeds,
         SettlesLate, SucceedsAndRecovers, TimerFires
<1> QED BY <1>1, AwaitedInForce DEF RInv, InForce

\* An answer out of date is never accepted.
THEOREM LateAnswersDropped == Spec => AcceptedInForce
<1>1. RInv /\ [Next]_vars => [InForce]_vars
  BY NextIsEvent, EventInForce
<1> QED BY <1>1, RequestInvariance, PTL DEF Spec, AcceptedInForce, InForce

-----------------------------------------------------------------------------
(* Newest, and the trades of an update. *)

LEMMA TradeNumbers ==
    /\ Retain \in Nat \ {0} /\ Batch \in Nat \ {0} /\ RestLimit \in Nat /\ Keep \in Nat
    /\ MaxTrade \in Nat /\ MaxSession \in Nat \ {0}
BY TradeAssumption

Above(S, t) == {u \in S : u > t}

LEMMA NewestIs ==
    ASSUME NEW S, NEW n
    PROVE  Newest(S, n) = {t \in S : Cardinality(Above(S, t)) < n}
BY DEF Newest, Above

\* A nonempty set of naturals has a least element.
LEMMA LeastOf ==
    ASSUME NEW T \in SUBSET Nat, T # {}
    PROVE  \E n \in T : \A m \in T : n <= m
<1>1. IsWellFoundedOn(OpToRel(<, Nat), Nat)
  BY NatLessThanWellFounded
<1>2. PICK n \in T : \A m \in T : <<m, n>> \notin OpToRel(<, Nat)
  BY <1>1, WFMin, Zenon
<1>3. \A m \in T : ~(m < n)
  BY <1>2 DEF OpToRel
<1> QED
  BY <1>3

\* A nonempty finite set of naturals has a greatest one: the one above which the
\* fewest are.
LEMMA GreatestOf ==
    ASSUME NEW S \in SUBSET Nat, IsFiniteSet(S), S # {}
    PROVE  \E g \in S : \A m \in S : m <= g
<1> DEFINE D == {d \in Nat : \E t \in S : d = Cardinality(Above(S, t))}
<1>1. \A t \in S : IsFiniteSet(Above(S, t)) /\ Cardinality(Above(S, t)) \in Nat
  <2> TAKE t \in S
  <2>1. Above(S, t) \in SUBSET S
    BY DEF Above
  <2> QED BY <2>1, FS_Subset, FS_CardinalityType
<1>2. D # {}
  BY <1>1
<1>3. PICK d \in D : \A e \in D : d <= e
  BY <1>2, LeastOf
<1>4. PICK g \in S : d = Cardinality(Above(S, g))
  BY <1>3
<1>5. ASSUME NEW m \in S, m > g PROVE FALSE
  <2>1. /\ \A u \in S : u > m => u > g
        /\ m \in Above(S, g) /\ m \notin Above(S, m)
    BY <1>5 DEF Above
  <2>4. Above(S, m) \in SUBSET Above(S, g)
    BY <2>1 DEF Above
  <2>2. Cardinality(Above(S, m)) < Cardinality(Above(S, g))
    BY <1>1, <2>1, <2>4, FS_Subset
  <2>3. Cardinality(Above(S, m)) \in D
    BY <1>1
  <2> QED BY <1>1, <1>3, <1>4, <2>2, <2>3
<1> QED BY <1>5

LEMMA EndsOfPair ==
    ASSUME NEW x \in Int, NEW y \in Int
    PROVE  /\ Max({x, y}) = IF x >= y THEN x ELSE y
           /\ Min({x, y}) = IF x <= y THEN x ELSE y
BY DEF Max, Min

LEMMA EndsOfInterval ==
    ASSUME NEW a \in Int, NEW b \in Int, a <= b
    PROVE  Min(a .. b) = a /\ Max(a .. b) = b
<1>1. a \in a .. b /\ b \in a .. b
  OBVIOUS
<1>2. \A x \in a .. b : (\A y \in a .. b : x <= y) <=> x = a
  BY <1>1
<1>3. \A x \in a .. b : (\A y \in a .. b : x >= y) <=> x = b
  BY <1>1
<1> QED BY <1>1, <1>2, <1>3 DEF Max, Min

LEMMA WindowIs ==
    /\ Window \in Nat \ {0} /\ Window <= Retain /\ Window <= Batch
    /\ Window = Retain \/ Window = Batch
BY TradeNumbers, EndsOfPair DEF Window

\* The newest of an interval are its end.
LEMMA NewestOfInterval ==
    ASSUME NEW a \in Nat, NEW b \in Nat, NEW n \in Nat
    PROVE  Newest(a .. b, n) = {t \in a .. b : b < t + n}
<1>1. ASSUME NEW t \in a .. b
      PROVE  Cardinality(Above(a .. b, t)) < n <=> b < t + n
  <2>1. t \in Int /\ t + 1 \in Int /\ b \in Int /\ t <= b
    OBVIOUS
  <2>2. Above(a .. b, t) = t + 1 .. b
    BY DEF Above
  <2>3. Cardinality(t + 1 .. b) = IF t + 1 > b THEN 0 ELSE b - (t + 1) + 1
    BY <2>1, FS_Interval, Zenon
  <2>4. Cardinality(t + 1 .. b) = b - t
    BY <2>1, <2>3
  <2> QED BY <2>1, <2>2, <2>4
<1> QED BY <1>1, NewestIs

\* The first trade of an update after the cursor s that ends at b.
Cut(s, b) == IF s + Window < b THEN b + 1 - Window ELSE s + 1

LEMMA UnseenIs ==
    ASSUME pub \in Nat, NEW s \in Nat, s < pub
    PROVE  /\ Unseen(s) = Cut(s, pub) .. pub
           /\ Cut(s, pub) \in Nat /\ s < Cut(s, pub) /\ Cut(s, pub) <= pub
           /\ pub < Cut(s, pub) + Window
           /\ s + 1 < Cut(s, pub) => pub + 1 = Cut(s, pub) + Window
<1> DEFINE c == IF s + Retain < pub THEN pub + 1 - Retain ELSE s + 1
<1>1. c \in Nat /\ c >= 1
  BY TradeNumbers
<1>2. {t \in Retained(pub) : t > s} = c .. pub
  <2>1. Retained(pub) = {t \in 1 .. pub : pub < t + Retain}
    BY NewestOfInterval, TradeNumbers DEF Retained
  <2> QED BY <2>1, TradeNumbers
<1>3. Unseen(s) = {t \in c .. pub : pub < t + Batch}
  <2>1. Unseen(s) = Newest(c .. pub, Batch)
    BY <1>2 DEF Unseen
  <2> HIDE DEF c
  <2> QED BY <1>1, <2>1, NewestOfInterval, TradeNumbers
<1>4. /\ Cut(s, pub) \in Nat /\ s < Cut(s, pub) /\ Cut(s, pub) <= pub
      /\ pub < Cut(s, pub) + Window
      /\ s + 1 < Cut(s, pub) => pub + 1 = Cut(s, pub) + Window
  BY WindowIs DEF Cut
<1>5. \A t \in c .. pub : pub < t + Batch <=> t >= Cut(s, pub)
  BY WindowIs, TradeNumbers DEF Cut
<1>6. c <= Cut(s, pub)
  BY WindowIs, TradeNumbers DEF Cut
<1> HIDE DEF c
<1> QED BY <1>1, <1>3, <1>4, <1>5, <1>6

\* Of a finite set at most n are the newest n.
LEMMA NewestBound ==
    \A n \in Nat : \A S \in SUBSET Nat : IsFiniteSet(S) =>
        /\ IsFiniteSet(Newest(S, n)) /\ Cardinality(Newest(S, n)) \in Nat
        /\ Cardinality(Newest(S, n)) <= n
        /\ n <= Cardinality(S) => Cardinality(Newest(S, n)) = n
<1> DEFINE Right(S, n) ==
             /\ IsFiniteSet(Newest(S, n)) /\ Cardinality(Newest(S, n)) \in Nat
             /\ Cardinality(Newest(S, n)) <= n
             /\ n <= Cardinality(S) => Cardinality(Newest(S, n)) = n
           Wrong == {n \in Nat : \E S \in SUBSET Nat : IsFiniteSet(S) /\ ~Right(S, n)}
<1> SUFFICES ASSUME Wrong # {} PROVE FALSE
  OBVIOUS
<1>1. PICK n \in Wrong : \A m \in Wrong : n <= m
  BY LeastOf
<1>3. n \in Nat /\ \A m \in Nat : m < n => m \notin Wrong
  BY <1>1
<1>2. PICK S \in SUBSET Nat : IsFiniteSet(S) /\ ~Right(S, n)
  BY <1>1
<1> HIDE DEF Wrong
<1>4. \A t \in S : IsFiniteSet(Above(S, t)) /\ Cardinality(Above(S, t)) \in Nat
  <2> TAKE t \in S
  <2>1. Above(S, t) \in SUBSET S
    BY DEF Above
  <2> QED BY <1>2, <2>1, FS_Subset, FS_CardinalityType
<1>5. Newest(S, n) \in SUBSET S
  BY DEF Newest
<1>6. IsFiniteSet(Newest(S, n)) /\ Cardinality(Newest(S, n)) \in Nat /\ Cardinality(S) \in Nat
  BY <1>2, <1>5, FS_Subset, FS_CardinalityType
<1>7. n # 0
  <2> SUFFICES ASSUME n = 0 PROVE FALSE
    OBVIOUS
  <2>1. Newest(S, 0) = {}
    <3> \A t \in S : ~(Cardinality(Above(S, t)) < 0)
      BY <1>4
    <3> QED BY NewestIs
  <2>2. Cardinality(Newest(S, n)) = 0
    BY <2>1, FS_EmptySet
  <2> QED BY <1>2, <1>6, <2>2
<1>8. S # {}
  <2> SUFFICES ASSUME S = {} PROVE FALSE
    OBVIOUS
  <2>1. Newest(S, n) = {} /\ Cardinality(S) = 0
    BY FS_EmptySet DEF Newest
  <2>2. Cardinality(Newest(S, n)) = 0
    BY <2>1, FS_EmptySet
  <2> QED BY <1>2, <1>3, <1>6, <1>7, <2>1, <2>2
<1>9. PICK g \in S : \A m \in S : m <= g
  BY <1>2, <1>8, GreatestOf
<1> DEFINE R == S \ {g}
<1>10. R \in SUBSET Nat /\ IsFiniteSet(R) /\ Cardinality(R) = Cardinality(S) - 1
  BY <1>2, FS_RemoveElement
<1>11. n - 1 \in Nat /\ Right(R, n - 1)
  <2>1. n - 1 \in Nat /\ n - 1 \notin Wrong
    BY <1>3, <1>7
  <2> HIDE DEF R
  <2> QED BY <1>10, <2>1 DEF Wrong
<1>12. ASSUME NEW t \in R
       PROVE  Cardinality(Above(S, t)) < n <=> Cardinality(Above(R, t)) < n - 1
  <2>1. t < g /\ t \in S
    BY <1>2, <1>9
  <2>2. Above(S, t) = Above(R, t) \cup {g}
    BY <2>1 DEF Above
  <2>5. Above(R, t) \in SUBSET R /\ g \notin Above(R, t)
    BY DEF Above
  <2>3. IsFiniteSet(Above(R, t)) /\ Cardinality(Above(R, t)) \in Nat
    BY <1>10, <2>5, FS_Subset, FS_CardinalityType
  <2>4. Cardinality(Above(S, t)) = Cardinality(Above(R, t)) + 1
    BY <2>2, <2>3, <2>5, FS_AddElement
  <2> QED BY <1>3, <2>3, <2>4
<1>13. Above(S, g) = {}
  <2> \A u \in S : ~(u > g)
    BY <1>9
  <2> QED BY DEF Above
<1>14. g \in Newest(S, n)
  <2>1. Cardinality(Above(S, g)) < n
    BY <1>3, <1>7, <1>13, FS_EmptySet
  <2> QED BY <2>1, NewestIs
<1>15. Newest(S, n) = Newest(R, n - 1) \cup {g}
  <2>1. /\ Newest(S, n) = {t \in S : Cardinality(Above(S, t)) < n}
        /\ Newest(R, n - 1) = {t \in R : Cardinality(Above(R, t)) < n - 1}
    BY NewestIs
  <2> QED BY <1>12, <1>14, <2>1
<1>16. g \notin Newest(R, n - 1)
  BY DEF Newest
<1> HIDE DEF R
<1>17. Cardinality(Newest(S, n)) = Cardinality(Newest(R, n - 1)) + 1
  BY <1>11, <1>15, <1>16, FS_AddElement
<1> QED BY <1>2, <1>3, <1>6, <1>10, <1>11, <1>17

\* What a trim has left out, the next one would leave out too.
LEMMA NewestOfMore ==
    ASSUME NEW A \in SUBSET Nat, IsFiniteSet(A), NEW B \in SUBSET Nat, IsFiniteSet(B), NEW n \in Nat
    PROVE  Newest(Newest(A, n) \cup B, n) = Newest(A \cup B, n)
<1> DEFINE K == Newest(A, n)
           U == A \cup B
           V == K \cup B
<1>1. IsFiniteSet(U) /\ U \in SUBSET Nat
  BY FS_Union
<1>2. K \in SUBSET A /\ V \in SUBSET U
  BY DEF Newest
<1>3. IsFiniteSet(K) /\ Cardinality(K) \in Nat /\ (n <= Cardinality(A) => Cardinality(K) = n)
  BY NewestBound
<1>4. K = {t \in A : Cardinality(Above(A, t)) < n}
  BY NewestIs
<1>5. Newest(V, n) = {t \in V : Cardinality(Above(V, t)) < n}
  BY NewestIs
<1>6. Newest(U, n) = {t \in U : Cardinality(Above(U, t)) < n}
  BY NewestIs
<1>7. \A t \in U : /\ Above(A, t) \in SUBSET A /\ Above(A, t) \in SUBSET Above(U, t)
                   /\ Above(V, t) \in SUBSET Above(U, t) /\ Above(U, t) \in SUBSET U
  BY <1>2 DEF Above
<1> HIDE DEF K, U, V
<1>8. \A t \in U : IsFiniteSet(Above(U, t)) /\ Cardinality(Above(U, t)) \in Nat
  BY <1>1, <1>7, FS_Subset, FS_CardinalityType
<1>9. \A t \in U : /\ IsFiniteSet(Above(A, t)) /\ Cardinality(Above(A, t)) \in Nat
                   /\ Cardinality(Above(A, t)) <= Cardinality(Above(U, t))
                   /\ IsFiniteSet(Above(V, t)) /\ Cardinality(Above(V, t)) \in Nat
                   /\ Cardinality(Above(V, t)) <= Cardinality(Above(U, t))
  BY <1>7, <1>8, FS_Subset, FS_CardinalityType
<1>10. ASSUME NEW t \in Newest(U, n) PROVE t \in Newest(V, n)
  <2>1. t \in U /\ Cardinality(Above(U, t)) < n
    BY <1>6
  <2>2. Cardinality(Above(A, t)) < n /\ Cardinality(Above(V, t)) < n
    BY <1>8, <1>9, <2>1
  <2>3. t \in V
    BY <1>4, <2>1, <2>2 DEF U, V
  <2> QED BY <1>5, <2>2, <2>3
<1>11. ASSUME NEW t \in Newest(V, n) PROVE t \in Newest(U, n)
  <2>1. t \in V /\ t \in U /\ Cardinality(Above(V, t)) < n /\ t \in Nat
    BY <1>1, <1>2, <1>5
  <2>2. CASE \A u \in A : u > t => u \in K
    <3>1. Above(U, t) = Above(V, t)
      BY <1>2, <2>2 DEF Above, U, V
    <3> QED BY <1>6, <2>1, <3>1
  <2>3. ASSUME NEW u \in A, u > t, u \notin K PROVE FALSE
    <3>1. u \in U /\ u \in Nat
      BY DEF U
    <3>2. n <= Cardinality(Above(A, u))
      BY <1>4, <1>9, <2>3, <3>1
    <3>3. n <= Cardinality(A)
      BY <1>7, <1>9, <3>1, <3>2, FS_Subset, FS_CardinalityType
    <3>4. Cardinality(K) = n
      BY <1>3, <3>3
    <3>5. ASSUME NEW v \in K PROVE v > u
      <4>1. v \in A /\ v \in U /\ v \in Nat /\ Cardinality(Above(A, v)) < n
        BY <1>4 DEF U
      <4>2. SUFFICES ASSUME v <= u PROVE FALSE
        BY <3>1, <4>1
      <4>3. \A w \in A : w > u => w > v
        BY <3>1, <4>1, <4>2
      <4>4. Above(A, u) \in SUBSET Above(A, v)
        BY <4>3 DEF Above
      <4>5. Cardinality(Above(A, u)) <= Cardinality(Above(A, v))
        BY <1>9, <4>1, <4>4, FS_Subset
      <4> QED BY <1>9, <3>1, <3>2, <4>1, <4>5
    <3>6. \A v \in K : v > t
      BY <1>2, <2>1, <2>3, <3>1, <3>5
    <3>7. K \in SUBSET Above(V, t)
      BY <3>6 DEF Above, V
    <3>8. Cardinality(K) <= Cardinality(Above(V, t))
      BY <1>9, <2>1, <3>7, FS_Subset
    <3> QED BY <1>9, <2>1, <3>4, <3>8
  <2> QED BY <2>2, <2>3
<1>12. Newest(V, n) = Newest(U, n)
  <2>1. \A t : t \in Newest(V, n) <=> t \in Newest(U, n)
    BY <1>10, <1>11
  <2> QED BY <2>1, Zenon
<1> QED BY <1>12 DEF K, U, V

-----------------------------------------------------------------------------
(* The request in TradeDelivery. *)

\* The page does to its request what any user of a RequestOwner may do, and
\* never disposes of it.
LEMMA RequestSteps ==
    ASSUME RInv, ~owner.disposed, [TradeNext]_tradeVars
    PROVE  [Event]_vars /\ ~owner.disposed'
<1>1. Base(owner) /\ owner \in Owners
  BY DEF RInv, OK, Base
<1>2. CASE UNCHANGED <<owner, accepted>>
  BY <1>2 DEF vars
<1>3. CASE Connect
  <2>1. PICK t \in Task : owner' = Recover(owner, t) \/ owner' = Start(owner, t)
    BY <1>3 DEF Connect
  <2> QED BY <1>1, <1>3, <2>1, CallsKeep DEF Connect, Event, Starts, Recovers
<1>4. CASE RetriesLive
  BY <1>1, <1>4, CallsKeep DEF RetriesLive, Event, Starts
<1>5. CASE Disconnects
  BY <1>1, <1>5, AnswersKeep DEF Disconnects, Event, Cancels
<1>6. CASE TimerRuns
  <2>1. PICK g \in owner.timers : TimerFires(g)
    BY <1>6 DEF TimerRuns, Timer
  <2>2. Event
    BY <1>6 DEF TimerRuns, Event
  <2>3. owner'.disposed = owner.disposed
    <3>1. PICK o \in Owners : o = [owner EXCEPT !.timers = {}]
      BY <1>1, Values DEF Owners
    <3>3. o.disposed = owner.disposed
      BY <1>1, <3>1 DEF Owners
    <3>2. [owner EXCEPT !.timers = @ \ {g}].disposed = owner.disposed
      BY <1>1 DEF Owners
    <3> QED BY <2>1, <3>1, <3>2, <3>3, LoadKeeps DEF TimerFires
  <2> QED BY <2>2, <2>3
<1>7. ASSUME NEW f \in owner.flights, Fails(f) \/ Succeeds(f) \/ SettlesLate(f)
      PROVE  Event /\ ~owner'.disposed
  <2>1. Event
    BY <1>7 DEF Event, Settle
  <2>2. /\ NextAttempt(Settled(owner, f)).disposed = owner.disposed
        /\ Ready(Settled(owner, f)).disposed = owner.disposed
        /\ Settled(owner, f).disposed = owner.disposed
    BY <1>1, TRUE \in BOOLEAN, AnswersKeep, Zenon
  <2> QED BY <1>7, <2>1, <2>2 DEF Fails, Succeeds, SettlesLate
<1>8. CASE RequestFails
  BY <1>7, <1>8 DEF RequestFails
<1>9. CASE RequestArrives
  BY <1>7, <1>9 DEF RequestArrives
<1> QED
  BY <1>2, <1>3, <1>4, <1>5, <1>6, <1>8, <1>9
  DEF TradeNext, tradeVars, Trade, Publish, Flush, Capture, Deliver, Disconnect, Notice, Restart

\* The request of the page keeps what RequestOwner promises.
LEMMA RequestKept ==
    ASSUME RInv, ~owner.disposed, [TradeNext]_tradeVars
    PROVE  RInv' /\ ~owner.disposed' /\ [InForce]_vars
BY RequestSteps, StepOK, EventInForce

-----------------------------------------------------------------------------
(* What the page merges. *)

LEMMA FiniteTrades ==
    ASSUME NEW S \in SUBSET (1 .. MaxTrade)
    PROVE  IsFiniteSet(S) /\ S \in SUBSET Nat /\ Cardinality(S) \in Nat
<1>0. 1 \in Int /\ MaxTrade \in Int
  BY TradeNumbers
<1>1. IsFiniteSet(1 .. MaxTrade)
  BY <1>0, FS_Interval, Zenon
<1>2. IsFiniteSet(S)
  BY <1>1, FS_Subset, Zenon
<1>3. Cardinality(S) \in Nat
  BY <1>2, FS_CardinalityType, Zenon
<1> QED BY <1>2, <1>3

\* Whatever the page is given, it keeps the newest of all it was given.
LEMMA MergeIs ==
    ASSUME NEW p \in PageState, p.ids = Newest(p.got, Keep), NEW trades \in SUBSET (1 .. MaxTrade)
    PROVE  LET m == Merge(p, p.session, trades)
           IN  /\ m \in PageState /\ m.session = p.session /\ m.counted = p.counted
               /\ m.skipped = p.skipped /\ m.live = p.live
               /\ m.got = p.got \cup trades /\ m.ids = Newest(p.got \cup trades, Keep)
<1> DEFINE K == Trim(p.ids \cup trades)
           G == p.got \cup trades
           m == [p EXCEPT !.ids = K, !.got = G]
<1>1. Merge(p, p.session, trades) = m
  BY DEF Merge
<1>2. p.got \in SUBSET (1 .. MaxTrade) /\ G \in SUBSET (1 .. MaxTrade)
  BY DEF PageState
<1>3. K = Newest(G, Keep)
  BY <1>2, FiniteTrades, NewestOfMore, TradeNumbers DEF Trim
<1>4. K \in SUBSET (1 .. MaxTrade)
  BY <1>2, <1>3 DEF Newest
<1> HIDE DEF K
<1>5. m \in PageState
  BY <1>2, <1>4 DEF PageState
<1>6. /\ m.session = p.session /\ m.counted = p.counted /\ m.skipped = p.skipped
      /\ m.live = p.live /\ m.got = G /\ m.ids = K
  BY DEF PageState
<1> QED BY <1>1, <1>3, <1>5, <1>6

LEMMA UpdateEnds ==
    ASSUME NEW u, UpdateOK(u)
    PROVE  /\ To(u) \in Nat /\ From(u) \in Nat /\ 1 <= From(u) /\ From(u) <= To(u)
           /\ To(u) <= MaxTrade /\ Window \in Nat
BY TradeNumbers, WindowIs DEF UpdateOK

\* Omissions are counted once, whatever the update overlaps.
LEMMA SkippedOnce ==
    ASSUME NEW p \in PageState, NEW u \in Update, UpdateOK(u), Before(u) <= p.counted
    PROVE  NewlySkipped(p, u) = IF From(u) <= p.counted THEN 0 ELSE From(u) - 1 - p.counted
<1>1. p.counted \in Nat /\ u.skipped \in Nat
  BY DEF PageState, Update
<1>2. From(u) \in Nat
  BY UpdateEnds
<1> DEFINE gap == From(u) - p.counted - 1
           more == IF 0 >= gap THEN 0 ELSE gap
<1>3. Max({0, gap}) = more
  BY <1>1, <1>2, EndsOfPair
<1>4. Min({u.skipped, more}) = IF u.skipped <= more THEN u.skipped ELSE more
  <2>1. more \in Int /\ u.skipped \in Int
    BY <1>1, <1>2
  <2> HIDE DEF more
  <2> QED BY <2>1, EndsOfPair
<1>5. NewlySkipped(p, u) = Min({u.skipped, more})
  BY <1>3 DEF NewlySkipped, From
<1> QED BY <1>1, <1>2, <1>4, <1>5 DEF Before

\* The page after an update: the newest trades are there, and the counts are exact.
LEMMA ReceiveOK ==
    ASSUME NEW p \in PageState, NEW u \in Update, UpdateOK(u),
           Before(u) <= p.counted, p.counted <= To(u),
           p.ids = Newest(p.got, Keep),
           p.live \subseteq 1 .. p.counted,
           \A t \in 1 .. p.counted : p.counted < t + Window => t \in p.live,
           p.skipped = p.counted - Cardinality(p.live)
    PROVE  LET r == Receive(p, u)
           IN  /\ r \in PageState /\ r.session = p.session /\ r.counted = To(u)
               /\ r.got = p.got \cup u.trades /\ r.ids = Newest(r.got, Keep)
               /\ r.live \subseteq 1 .. r.counted
               /\ \A t \in 1 .. r.counted : r.counted < t + Window => t \in r.live
               /\ r.skipped = r.counted - Cardinality(r.live)
<1>1. /\ p.counted \in Nat /\ p.skipped \in Nat /\ u.skipped \in Nat
      /\ p.live \in SUBSET (1 .. MaxTrade) /\ u.trades \in SUBSET (1 .. MaxTrade)
  BY DEF PageState, Update
<1>2. /\ To(u) \in Nat /\ From(u) \in Nat /\ 1 <= From(u) /\ From(u) <= To(u)
      /\ To(u) <= MaxTrade /\ Window \in Nat /\ u.trades = From(u) .. To(u)
      /\ To(u) < From(u) + Window /\ (u.skipped > 0 => To(u) + 1 = From(u) + Window)
  BY UpdateEnds DEF UpdateOK
<1> DEFINE m == Merge(p, p.session, u.trades)
           k == p.skipped + NewlySkipped(p, u)
           L == p.live \cup u.trades
           c == Max({p.counted, To(u)})
           r == [m EXCEPT !.skipped = k, !.counted = c, !.live = L]
<1>3. /\ m \in PageState /\ m.session = p.session /\ m.counted = p.counted
      /\ m.skipped = p.skipped /\ m.live = p.live
      /\ m.got = p.got \cup u.trades /\ m.ids = Newest(p.got \cup u.trades, Keep)
  BY <1>1, MergeIs
<1>4. Receive(p, u) = r
  BY <1>3 DEF Receive, To
<1>5. c = To(u)
  BY <1>1, <1>2, EndsOfPair
<1>6. NewlySkipped(p, u) = IF From(u) <= p.counted THEN 0 ELSE From(u) - 1 - p.counted
  BY SkippedOnce
<1>7. L \in SUBSET (1 .. MaxTrade) /\ k \in Nat
  BY <1>1, <1>2, <1>6
<1>8. k = To(u) - Cardinality(L)
  <2>1. IsFiniteSet(p.live) /\ Cardinality(p.live) \in Nat
    BY <1>1, FiniteTrades
  <2> DEFINE a == IF From(u) <= p.counted THEN p.counted + 1 ELSE From(u)
  <2>2. a \in Nat /\ a <= To(u) + 1
    BY <1>1, <1>2
  <2>3. L = p.live \cup (a .. To(u))
    <3>1. CASE From(u) <= p.counted
      <4>1. \A t \in From(u) .. p.counted : t \in p.live
        BY <1>1, <1>2, <3>1
      <4> QED BY <1>1, <1>2, <3>1, <4>1
    <3>2. CASE ~(From(u) <= p.counted)
      BY <1>2, <3>2
    <3> QED BY <3>1, <3>2
  <2>4. \A t \in p.live : t < a
    BY <1>1, <1>2
  <2> HIDE DEF L
  <2>5. IsFiniteSet(a .. To(u)) /\ Cardinality(a .. To(u)) = To(u) + 1 - a
    <3> HIDE DEF a
    <3>0. a \in Int /\ To(u) \in Int
      BY <1>2, <2>2
    <3>1. Cardinality(a .. To(u)) = IF a > To(u) THEN 0 ELSE To(u) - a + 1
      BY <3>0, FS_Interval, Zenon
    <3>2. IsFiniteSet(a .. To(u))
      BY <3>0, FS_Interval, Zenon
    <3> QED BY <1>2, <2>2, <3>1, <3>2
  <2>6. p.live \cap (a .. To(u)) = {}
    <3> HIDE DEF a
    <3> QED BY <1>1, <2>2, <2>4
  <2>7. Cardinality(L) = Cardinality(p.live) + (To(u) + 1 - a)
    <3> HIDE DEF a
    <3>1. Cardinality(L) = Cardinality(p.live) + Cardinality(a .. To(u)) - Cardinality(p.live \cap (a .. To(u)))
      BY <2>1, <2>3, <2>5, FS_Union, Zenon
    <3>2. Cardinality(p.live \cap (a .. To(u))) = 0
      BY <2>6, FS_EmptySet
    <3> QED BY <1>2, <2>1, <2>2, <2>5, <3>1, <3>2
  <2> QED BY <1>1, <1>2, <1>6, <2>1, <2>7
<1>9. L \subseteq 1 .. To(u)
  BY <1>1, <1>2
<1>10. ASSUME NEW t \in 1 .. To(u), To(u) < t + Window PROVE t \in L
  <2>1. CASE t >= From(u)
    BY <1>2, <2>1
  <2>2. CASE t < From(u)
    <3>1. u.skipped = 0
      BY <1>1, <1>2, <1>10, <2>2
    <3>2. t \in 1 .. p.counted /\ p.counted < t + Window
      BY <1>1, <1>2, <1>10, <2>2, <3>1 DEF Before
    <3> QED BY <3>2
  <2> QED BY <1>2, <2>1, <2>2
<1> HIDE DEF m, k, L, c
<1>11. r \in PageState
  BY <1>2, <1>3, <1>5, <1>7 DEF PageState
<1>12. /\ r.session = m.session /\ r.got = m.got /\ r.ids = m.ids /\ r.counted = c
       /\ r.skipped = k /\ r.live = L
  BY <1>3 DEF PageState
<1> HIDE DEF r
<1> QED BY <1>3, <1>4, <1>5, <1>8, <1>9, <1>10, <1>11, <1>12

-----------------------------------------------------------------------------
(* The steps of TradeDelivery. *)

LEMMA TradeInitOK == TradeInit => RInv /\ TInv
<1> SUFFICES ASSUME TradeInit PROVE RInv /\ TInv
  OBVIOUS
<1>1. RInv
  BY InitOK DEF TradeInit
<1>2. ~owner.disposed
  BY DEF TradeInit, Init, Owner0
<1>3. /\ session = 1 /\ last = [s \in 1 .. MaxSession |-> 0] /\ pub = 0
      /\ conn = [state |-> "down", sent |-> 0]
      /\ page = [session |-> 0, ids |-> {}, counted |-> 0, skipped |-> 0, got |-> {}, live |-> {}]
      /\ wire = <<>> /\ captured = {}
  BY DEF TradeInit, Down, FreshPage
<1>4. /\ session \in 1 .. MaxSession /\ last \in [1 .. MaxSession -> 0 .. MaxTrade]
      /\ last[session] = 0
  BY <1>3, TradeNumbers
<1>5. /\ pub \in 0 .. last[session]
      /\ conn \in [state : {"down", "up", "lost"}, sent : 0 .. pub]
  BY <1>3, <1>4
<1>6. page \in PageState
  BY <1>3, TradeNumbers DEF PageState
<1>7. wire \in Seq(Update) /\ captured \subseteq Answer /\ AnswersFit
  BY <1>3, EmptySeq DEF AnswersFit
<1>8. NewestAreKept /\ OwnSessionOnly
  BY <1>3 DEF NewestAreKept, Newest, OwnSessionOnly
<1>9. UpdatesJoin /\ PageJoins
  BY <1>3 DEF UpdatesJoin, PageJoins
<1>10. PageCounts
  BY <1>3, FS_EmptySet DEF PageCounts, SkippedIsExact
<1> QED BY <1>1, <1>2, <1>4, <1>5, <1>6, <1>7, <1>8, <1>9, <1>10 DEF TInv

\* A step that leaves the page alone.
LEMMA SamePage ==
    ASSUME NewestAreKept, PageCounts, page \in PageState, page' = page
    PROVE  NewestAreKept' /\ PageCounts' /\ (page \in PageState)'
BY DEF NewestAreKept, PageCounts, SkippedIsExact

LEMMA TradeKeeps ==
    ASSUME TInv, NEW n \in 1 .. 2, Trade(n), ~owner'.disposed PROVE TInv'
<1>1. /\ session \in 1 .. MaxSession /\ last \in [1 .. MaxSession -> 0 .. MaxTrade]
      /\ pub \in 0 .. last[session]
      /\ last' = [last EXCEPT ![session] = @ + n] /\ last[session] + n <= MaxTrade
      /\ UNCHANGED <<session, pub, conn, wire, captured, page>>
      /\ MaxTrade \in Nat
  BY TradeNumbers DEF TInv, Trade
<1>2. /\ last' \in [1 .. MaxSession -> 0 .. MaxTrade]
      /\ \A s \in 1 .. MaxSession : last[s] \in Nat /\ last'[s] \in Nat /\ last[s] <= last'[s]
  BY <1>1
<1>3. PageJoins'
  <2>1. page.counted \in Nat
    BY DEF TInv, PageState
  <2>2. page.session # 0 => page.session \in 1 .. MaxSession
    BY <1>1, TradeNumbers DEF TInv, PageJoins
  <2> QED BY <1>1, <1>2, <2>1, <2>2 DEF TInv, PageJoins
<1>4. UpdatesJoin'
  <2>1. ASSUME NEW i \in DOMAIN wire
        PROVE  /\ UpdateOK(wire[i]) /\ To(wire[i]) <= last'[page.session]
               /\ conn.state = "up" => To(wire[i]) <= pub
    <3>1. wire # <<>>
      BY <2>1
    <3>2. page.session \in 1 .. MaxSession
      BY <1>1, <3>1, TradeNumbers DEF TInv, UpdatesJoin, PageJoins
    <3>3. /\ UpdateOK(wire[i]) /\ To(wire[i]) <= last[page.session]
          /\ conn.state = "up" => To(wire[i]) <= pub
      BY DEF TInv, UpdatesJoin
    <3> QED BY <1>2, <3>2, <3>3, UpdateEnds
  <2> QED BY <1>1, <2>1 DEF TInv, UpdatesJoin
<1>5. OwnSessionOnly'
  <2> SUFFICES ASSUME page.session # 0, NEW t \in page.got PROVE t \in 1 .. last'[page.session]
    BY <1>1 DEF OwnSessionOnly
  <2>1. page.session \in 1 .. MaxSession /\ t \in 1 .. last[page.session]
    BY <1>1, TradeNumbers DEF TInv, PageJoins, OwnSessionOnly
  <2> QED BY <1>2, <2>1
<1>6. AnswersFit'
  <2> SUFFICES ASSUME NEW a \in captured
               PROVE  a.session \in 1 .. session /\ a.trades \subseteq 1 .. last'[a.session] /\ ValidAnswer(a)
    BY <1>1 DEF AnswersFit
  <2>1. a.session \in 1 .. session /\ a.trades \subseteq 1 .. last[a.session] /\ ValidAnswer(a)
    BY DEF TInv, AnswersFit
  <2> QED BY <1>1, <1>2, <2>1
<1>7. (pub \in 0 .. last[session])' /\ (conn \in [state : {"down", "up", "lost"}, sent : 0 .. pub])'
  BY <1>1, <1>2 DEF TInv
<1> QED BY <1>1, <1>2, <1>3, <1>4, <1>5, <1>6, <1>7, SamePage DEF TInv

LEMMA PublishKeeps ==
    ASSUME TInv, Publish, ~owner'.disposed PROVE TInv'
<1>1. /\ session \in 1 .. MaxSession /\ last \in [1 .. MaxSession -> 0 .. MaxTrade]
      /\ pub \in 0 .. last[session] /\ pub' = last[session]
      /\ conn \in [state : {"down", "up", "lost"}, sent : 0 .. pub]
      /\ UNCHANGED <<session, last, conn, wire, captured, page>>
  BY DEF TInv, Publish, server
<1>2. last[session] \in Nat /\ pub \in Nat /\ pub <= pub' /\ pub' \in 0 .. last[session]
  BY <1>1, TradeNumbers
<1>3. conn \in [state : {"down", "up", "lost"}, sent : 0 .. pub']
  BY <1>1, <1>2
<1>4. PageJoins'
  <2>1. page.counted \in Nat
    BY DEF TInv, PageState
  <2> QED BY <1>1, <1>2, <2>1 DEF TInv, PageJoins
<1>5. OwnSessionOnly' /\ AnswersFit'
  BY <1>1 DEF TInv, OwnSessionOnly, AnswersFit
<1>6. UpdatesJoin'
  <2>1. ASSUME NEW i \in DOMAIN wire
        PROVE  /\ UpdateOK(wire[i]) /\ To(wire[i]) <= last[page.session]
               /\ conn.state = "up" => To(wire[i]) <= pub'
    BY <1>2, UpdateEnds DEF TInv, UpdatesJoin
  <2> QED BY <1>1, <2>1 DEF TInv, UpdatesJoin
<1> QED BY <1>1, <1>2, <1>3, <1>4, <1>5, <1>6, SamePage DEF TInv

LEMMA FlushKeeps ==
    ASSUME TInv, Flush, ~owner'.disposed PROVE TInv'
<1> DEFINE T == Unseen(conn.sent)
           a == Cut(conn.sent, pub)
           u == [trades |-> T, skipped |-> pub - conn.sent - Cardinality(T)]
<1>1. /\ session \in 1 .. MaxSession /\ last \in [1 .. MaxSession -> 0 .. MaxTrade]
      /\ pub \in 0 .. last[session]
      /\ conn \in [state : {"down", "up", "lost"}, sent : 0 .. pub]
      /\ conn.state = "up" /\ pub > conn.sent /\ wire' = Append(wire, u)
      /\ conn' = [conn EXCEPT !.sent = Max(T)]
      /\ UNCHANGED <<session, last, pub, captured, page>>
      /\ MaxTrade \in Nat /\ wire \in Seq(Update)
  BY TradeNumbers DEF TInv, Flush, server
<1>2. /\ pub \in Nat /\ conn.sent \in Nat /\ conn.sent < pub /\ pub <= last[session]
      /\ last[session] <= MaxTrade /\ last[session] \in Nat
  BY <1>1
<1>3. /\ T = a .. pub /\ a \in Nat /\ conn.sent < a /\ a <= pub /\ pub < a + Window
      /\ conn.sent + 1 < a => pub + 1 = a + Window
  BY <1>2, UnseenIs
<1> HIDE DEF T, a
<1>4. Min(T) = a /\ Max(T) = pub
  BY <1>2, <1>3, EndsOfInterval
<1>5. Cardinality(T) = pub + 1 - a
  <2>1. a \in Int /\ pub \in Int /\ ~(a > pub)
    BY <1>2, <1>3
  <2>2. Cardinality(a .. pub) = IF a > pub THEN 0 ELSE pub - a + 1
    BY <2>1, FS_Interval, Zenon
  <2> QED BY <1>2, <1>3, <2>1, <2>2
<1>6. u \in Update
  <2>1. T \in SUBSET (1 .. MaxTrade)
    BY <1>1, <1>2, <1>3
  <2>2. pub - conn.sent - Cardinality(T) \in Nat
    BY <1>2, <1>3, <1>5
  <2> QED BY <2>1, <2>2 DEF Update
<1>7. u.trades = T /\ u.skipped = a - 1 - conn.sent /\ From(u) = a /\ To(u) = pub
  BY <1>2, <1>3, <1>4, <1>5 DEF From, To
<1> HIDE DEF u
<1>8. Before(u) = conn.sent
  BY <1>2, <1>3, <1>7 DEF Before
<1>9. UpdateOK(u)
  BY <1>2, <1>3, <1>7, TradeNumbers, WindowIs, SMTT(30) DEF UpdateOK
<1>10. /\ wire' \in Seq(Update) /\ Len(wire') = Len(wire) + 1 /\ Len(wire) \in Nat
       /\ wire'[Len(wire) + 1] = u /\ \A i \in 1 .. Len(wire) : wire'[i] = wire[i]
       /\ wire' # <<>>
  BY <1>1, <1>6, AppendProperties, LenProperties
<1>11. DOMAIN wire = 1 .. Len(wire) /\ DOMAIN wire' = 1 .. Len(wire) + 1
  BY <1>1, <1>10, LenProperties
<1>12. conn' \in [state : {"down", "up", "lost"}, sent : 0 .. pub] /\ conn'.sent = pub /\ conn'.state = "up"
  BY <1>1, <1>2, <1>4
<1>13. page.session = session /\ page.counted <= pub /\ page.counted \in Nat
  BY <1>1 DEF TInv, PageJoins, PageState
<1>14. UpdatesJoin'
  <2>1. ASSUME NEW i \in DOMAIN wire'
        PROVE  UpdateOK(wire'[i]) /\ To(wire'[i]) <= last[session] /\ To(wire'[i]) <= pub
    <3>1. CASE i \in 1 .. Len(wire)
      BY <1>1, <1>10, <1>11, <1>13, <3>1 DEF TInv, UpdatesJoin
    <3>2. CASE i = Len(wire) + 1
      BY <1>2, <1>7, <1>9, <1>10, <3>2
    <3> QED BY <1>10, <1>11, <2>1, <3>1, <3>2
  <2>2. wire # <<>> => Len(wire) >= 1 /\ conn.sent = To(wire[Len(wire)])
    BY <1>1, <1>10, LenProperties, EmptySeq DEF TInv, UpdatesJoin
  <2>3. ASSUME NEW i \in 1 .. Len(wire') - 1 PROVE Before(wire'[i + 1]) = To(wire'[i])
    <3>1. CASE i \in 1 .. Len(wire) - 1
      <4>1. i \in 1 .. Len(wire) /\ i + 1 \in 1 .. Len(wire)
        BY <1>10, <3>1
      <4> QED BY <1>10, <3>1, <4>1 DEF TInv, UpdatesJoin
    <3>2. CASE i = Len(wire)
      <4>1. wire # <<>>
        BY <2>3, <3>2, <1>10, <1>11
      <4>2. i \in 1 .. Len(wire)
        BY <2>3, <3>2, <1>10
      <4> QED BY <1>8, <1>10, <2>2, <3>2, <4>1, <4>2
    <3> QED BY <1>10, <2>3, <3>1, <3>2
  <2>4. Before(wire'[1]) <= page.counted /\ page.counted <= To(wire'[1])
    <3>1. CASE wire = <<>>
      <4>1. Len(wire) = 0 /\ wire'[1] = u
        BY <1>10, <3>1
      <4>2. conn.sent <= page.counted
        BY <3>1 DEF TInv, UpdatesJoin
      <4> QED BY <1>7, <1>8, <1>13, <4>1, <4>2
    <3>2. CASE wire # <<>>
      <4>1. wire'[1] = wire[1]
        BY <1>10, <2>2, <3>2
      <4> QED BY <3>2, <4>1 DEF TInv, UpdatesJoin
    <3> QED BY <3>1, <3>2
  <2> QED BY <1>1, <1>7, <1>10, <1>12, <1>13, <2>1, <2>3, <2>4 DEF UpdatesJoin
<1>15. PageJoins' /\ OwnSessionOnly' /\ AnswersFit'
  BY <1>1, <1>12 DEF TInv, PageJoins, OwnSessionOnly, AnswersFit
<1> QED BY <1>1, <1>10, <1>12, <1>14, <1>15, SamePage DEF TInv

LEMMA CaptureKeeps ==
    ASSUME TInv, RInv, Capture, ~owner'.disposed PROVE TInv'
<1>1. /\ session \in 1 .. MaxSession /\ last \in [1 .. MaxSession -> 0 .. MaxTrade]
      /\ UNCHANGED <<session, last, pub, conn, wire, page>>
      /\ MaxTrade \in Nat /\ MaxSession \in Nat
  BY TradeNumbers DEF TInv, Capture, server
<1> DEFINE T == Newest(Retained(last[session]), RestLimit)
<1>2. PICK f \in owner.flights :
          captured' = captured \cup {[generation |-> f.generation, session |-> session, trades |-> T]}
  BY DEF Capture
<1>3. f.generation \in Nat
  BY Fields DEF RInv, OK, Base
<1>4. /\ Retained(last[session]) \in SUBSET (1 .. last[session])
      /\ T \in SUBSET Retained(last[session]) /\ T \in SUBSET (1 .. last[session])
      /\ 1 .. last[session] \in SUBSET (1 .. MaxTrade)
  <2>1. Retained(last[session]) \in SUBSET (1 .. last[session])
    BY DEF Retained, Newest
  <2>2. T \in SUBSET Retained(last[session])
    BY DEF Newest
  <2> HIDE DEF T
  <2>3. 1 .. last[session] \in SUBSET (1 .. MaxTrade)
    BY <1>1
  <2> QED BY <2>1, <2>2, <2>3
<1>5. Cardinality(T) <= RestLimit
  <2>1. Retained(last[session]) \in SUBSET Nat /\ IsFiniteSet(Retained(last[session]))
    BY <1>4, FiniteTrades
  <2> QED BY <2>1, NewestBound, TradeNumbers
<1> HIDE DEF T
<1> DEFINE a0 == [generation |-> f.generation, session |-> session, trades |-> T]
<1>6. a0 \in Answer
  BY <1>1, <1>3, <1>4 DEF Answer
<1>7. a0.session \in 1 .. session /\ a0.trades \subseteq 1 .. last[a0.session] /\ ValidAnswer(a0)
  BY <1>1, <1>4, <1>5 DEF ValidAnswer
<1>8. captured' = captured \cup {a0}
  BY <1>2
<1> HIDE DEF a0
<1>9. captured' \subseteq Answer /\ AnswersFit'
  BY <1>1, <1>6, <1>7, <1>8 DEF TInv, AnswersFit
<1>10. UpdatesJoin' /\ PageJoins' /\ OwnSessionOnly'
  BY <1>1 DEF TInv, UpdatesJoin, PageJoins, OwnSessionOnly
<1> QED BY <1>1, <1>9, <1>10, SamePage DEF TInv

LEMMA DeliverKeeps ==
    ASSUME TInv, Deliver, ~owner'.disposed PROVE TInv'
<1> DEFINE u == wire[1]
<1>1. /\ session \in 1 .. MaxSession /\ last \in [1 .. MaxSession -> 0 .. MaxTrade]
      /\ pub \in 0 .. last[session]
      /\ conn \in [state : {"down", "up", "lost"}, sent : 0 .. pub]
      /\ UNCHANGED <<session, last, pub, conn, captured>>
      /\ wire \in Seq(Update) /\ wire # <<>> /\ wire' = Tail(wire) /\ page' = Receive(page, Head(wire))
      /\ page \in PageState /\ MaxSession \in Nat /\ MaxTrade \in Nat
  BY TradeNumbers DEF TInv, Deliver, server
<1>2. /\ Len(wire) \in Nat /\ Len(wire) >= 1 /\ Head(wire) = u /\ u \in Update
      /\ wire' \in Seq(Update) /\ Len(wire') = Len(wire) - 1
      /\ \A i \in 1 .. Len(wire) - 1 : wire'[i] = wire[i + 1]
      /\ DOMAIN wire = 1 .. Len(wire) /\ DOMAIN wire' = 1 .. Len(wire) - 1
  <2>1. Len(wire) \in Nat /\ Len(wire) >= 1 /\ DOMAIN wire = 1 .. Len(wire)
    BY <1>1, LenProperties, EmptySeq
  <2>2. Head(wire) = u /\ u \in Update
    BY <1>1, <2>1, HeadTailProperties, ElementOfSeq
  <2>3. /\ wire' \in Seq(Update) /\ Len(wire') = Len(wire) - 1
        /\ \A i \in 1 .. Len(wire) - 1 : wire'[i] = wire[i + 1]
    BY <1>1, HeadTailProperties
  <2>4. DOMAIN wire' = 1 .. Len(wire')
    BY <2>3, LenProperties
  <2> QED BY <2>1, <2>2, <2>3, <2>4
<1>3. /\ UpdateOK(u) /\ To(u) <= last[page.session] /\ conn.state # "down"
      /\ Before(u) <= page.counted /\ page.counted <= To(u)
      /\ conn.state = "up" => conn.sent = To(wire[Len(wire)])
      /\ conn.state # "up" => conn.sent = 0
  BY <1>1, <1>2 DEF TInv, UpdatesJoin
<1>4. /\ page' \in PageState /\ page'.session = page.session /\ page'.counted = To(u)
      /\ page'.got = page.got \cup u.trades /\ page'.ids = Newest(page'.got, Keep)
      /\ page'.live \subseteq 1 .. page'.counted
      /\ \A t \in 1 .. page'.counted : page'.counted < t + Window => t \in page'.live
      /\ page'.skipped = page'.counted - Cardinality(page'.live)
  <2>1. /\ page.ids = Newest(page.got, Keep) /\ page.live \subseteq 1 .. page.counted
        /\ \A t \in 1 .. page.counted : page.counted < t + Window => t \in page.live
        /\ page.skipped = page.counted - Cardinality(page.live)
    BY DEF TInv, NewestAreKept, PageCounts, SkippedIsExact
  <2> HIDE DEF u
  <2> QED BY <1>1, <1>2, <1>3, <2>1, ReceiveOK
<1>5. page.session # 0 /\ page.session \in 1 .. MaxSession
  BY <1>1, <1>3 DEF TInv, PageJoins
<1>6. /\ To(u) \in Nat /\ From(u) \in Nat /\ 1 <= From(u) /\ u.trades = From(u) .. To(u)
      /\ To(u) <= last[page.session]
  BY <1>3, UpdateEnds DEF UpdateOK
<1>7. OwnSessionOnly'
  <2>1. page.got \subseteq 1 .. last[page.session]
    BY <1>5 DEF TInv, OwnSessionOnly
  <2>2. last[page.session] \in Nat
    BY <1>1, <1>5
  <2>3. u.trades \subseteq 1 .. last[page.session]
    BY <1>6, <2>2
  <2> QED BY <1>1, <1>4, <2>1, <2>3 DEF OwnSessionOnly
<1>8. PageJoins'
  <2>1. page.session = session => To(u) <= pub
    BY <1>1, <1>2, <1>3 DEF TInv, UpdatesJoin, PageJoins
  <2> HIDE DEF u
  <2> QED BY <1>1, <1>4, <1>5, <1>6, <2>1 DEF TInv, PageJoins
<1>9. UpdatesJoin'
  <2>1. ASSUME NEW i \in DOMAIN wire'
        PROVE  /\ UpdateOK(wire'[i]) /\ To(wire'[i]) <= last[page.session]
               /\ conn.state = "up" => To(wire'[i]) <= pub
    <3>1. i + 1 \in DOMAIN wire /\ wire'[i] = wire[i + 1]
      BY <1>2, <2>1
    <3> QED BY <3>1 DEF TInv, UpdatesJoin
  <2>2. ASSUME NEW i \in 1 .. Len(wire') - 1 PROVE Before(wire'[i + 1]) = To(wire'[i])
    <3>1. /\ i \in 1 .. Len(wire) - 1 /\ i + 1 \in 1 .. Len(wire) - 1
          /\ wire'[i] = wire[i + 1] /\ wire'[i + 1] = wire[(i + 1) + 1]
      BY <1>2, <2>2
    <3> QED BY <3>1 DEF TInv, UpdatesJoin
  <2>3. ASSUME wire' # <<>>
        PROVE  /\ Before(wire'[1]) <= To(u) /\ To(u) <= To(wire'[1])
               /\ conn.state = "up" => conn.sent = To(wire'[Len(wire')])
    <3>1. Len(wire) >= 2
      BY <1>2, <2>3, EmptySeq
    <3>2. 1 \in 1 .. Len(wire) - 1 /\ wire'[1] = wire[1 + 1] /\ 2 \in DOMAIN wire
      BY <1>2, <3>1
    <3>3. Before(wire[1 + 1]) = To(u) /\ UpdateOK(wire[1 + 1])
      BY <3>2 DEF TInv, UpdatesJoin
    <3>4. wire[1 + 1].skipped \in Nat
      <4>1. wire[2] \in Update
        BY <1>1, <1>2, <3>2, ElementOfSeq
      <4> QED BY <4>1 DEF Update
    <3>5. To(u) <= To(wire[1 + 1])
      BY <1>6, <3>3, <3>4, UpdateEnds DEF Before
    <3>6. Len(wire) - 1 \in 1 .. Len(wire) - 1 /\ wire'[Len(wire')] = wire[Len(wire)]
      BY <1>2, <3>1
    <3> QED BY <1>3, <1>6, <3>2, <3>3, <3>5, <3>6
  <2>4. wire' = <<>> => conn.sent <= To(u)
    <3> SUFFICES ASSUME wire' = <<>> PROVE conn.sent <= To(u)
      OBVIOUS
    <3>1. Len(wire) = 1
      BY <1>2
    <3> QED BY <1>1, <1>3, <1>6, <3>1
  <2> HIDE DEF u
  <2> QED BY <1>1, <1>3, <1>4, <2>1, <2>2, <2>3, <2>4 DEF UpdatesJoin
<1>10. NewestAreKept' /\ PageCounts'
  BY <1>4 DEF NewestAreKept, PageCounts, SkippedIsExact
<1>11. AnswersFit'
  BY <1>1 DEF TInv, AnswersFit
<1> QED BY <1>1, <1>2, <1>4, <1>7, <1>8, <1>9, <1>10, <1>11 DEF TInv

LEMMA ConnectKeeps ==
    ASSUME TInv, Connect, ~owner'.disposed PROVE TInv'
<1>1. /\ session \in 1 .. MaxSession /\ last \in [1 .. MaxSession -> 0 .. MaxTrade]
      /\ pub \in 0 .. last[session] /\ pub \in Nat /\ conn.state = "down"
      /\ conn' = [state |-> "up", sent |-> 0]
      /\ page' = IF page.session = session THEN page ELSE FreshPage(session)
      /\ UNCHANGED <<session, last, pub, wire, captured>>
      /\ wire = <<>> /\ page \in PageState /\ page.counted \in Nat
  BY DEF TInv, Connect, server, UpdatesJoin, PageState
<1>2. conn' \in [state : {"down", "up", "lost"}, sent : 0 .. pub]
  BY <1>1
<1> DEFINE q == FreshPage(session)
<1>3. /\ q \in PageState /\ q.session = session /\ q.ids = {} /\ q.got = {} /\ q.live = {}
      /\ q.counted = 0 /\ q.skipped = 0
  BY <1>1, TradeNumbers DEF FreshPage, PageState
<1> HIDE DEF q
<1>4. Newest({}, Keep) = {} /\ Cardinality({}) = 0
  BY FS_EmptySet DEF Newest
<1>5. page' = IF page.session = session THEN page ELSE q
  BY <1>1 DEF q
<1>6. page' \in PageState /\ page'.session = session /\ page'.counted \in Nat
  BY <1>1, <1>3, <1>5 DEF PageState
<1>7. NewestAreKept' /\ PageCounts'
  <2>1. CASE page.session = session
    BY <1>5, <2>1 DEF TInv, NewestAreKept, PageCounts, SkippedIsExact
  <2>2. CASE page.session # session
    <3>1. page' = q
      BY <1>5, <2>2
    <3>2. NewestAreKept'
      BY <1>3, <1>4, <3>1 DEF NewestAreKept
    <3>3. SkippedIsExact'
      BY <1>3, <1>4, <3>1 DEF SkippedIsExact
    <3>4. page'.live \subseteq 1 .. page'.counted /\ 1 .. page'.counted = {}
      BY <1>3, <3>1
    <3> QED BY <3>2, <3>3, <3>4 DEF PageCounts
  <2> QED BY <2>1, <2>2
<1>8. OwnSessionOnly'
  BY <1>1, <1>3, <1>5 DEF TInv, OwnSessionOnly
<1>9. PageJoins'
  <2>1. page'.counted <= pub /\ page'.counted <= last[session]
    <3>1. last[session] \in Nat /\ 0 <= last[session]
      BY <1>1, TradeNumbers
    <3> QED BY <1>1, <1>3, <1>5, <3>1 DEF TInv, PageJoins
  <2> QED BY <1>1, <1>6, <2>1 DEF PageJoins
<1>10. UpdatesJoin'
  <2>1. DOMAIN wire = {} /\ Len(wire) = 0
    BY <1>1
  <2> QED BY <1>1, <1>6, <2>1 DEF UpdatesJoin
<1>11. AnswersFit'
  BY <1>1 DEF TInv, AnswersFit
<1> QED BY <1>1, <1>2, <1>6, <1>7, <1>8, <1>9, <1>10, <1>11 DEF TInv

LEMMA DisconnectsKeeps ==
    ASSUME TInv, Disconnects, ~owner'.disposed PROVE TInv'
<1>1. /\ conn' = [state |-> "down", sent |-> 0] /\ wire' = <<>> /\ pub \in 0 .. last[session]
      /\ last \in [1 .. MaxSession -> 0 .. MaxTrade] /\ session \in 1 .. MaxSession
      /\ UNCHANGED <<session, last, pub, captured, page>> /\ page.counted \in Nat
  BY DEF TInv, Disconnects, server, Down, PageState
<1>2. conn' \in [state : {"down", "up", "lost"}, sent : 0 .. pub]
  BY <1>1
<1>3. wire' \in Seq(Update) /\ DOMAIN wire' = {} /\ Len(wire') = 0
  BY <1>1, EmptySeq
<1>4. UpdatesJoin'
  BY <1>1, <1>3 DEF UpdatesJoin
<1>5. PageJoins' /\ OwnSessionOnly' /\ AnswersFit'
  BY <1>1 DEF TInv, PageJoins, OwnSessionOnly, AnswersFit
<1> QED BY <1>1, <1>2, <1>3, <1>4, <1>5, SamePage DEF TInv

LEMMA RestartKeeps ==
    ASSUME TInv, Restart, ~owner'.disposed PROVE TInv'
<1>1. /\ session \in 1 .. MaxSession /\ session < MaxSession /\ session' = session + 1 /\ pub' = 0
      /\ last \in [1 .. MaxSession -> 0 .. MaxTrade] /\ MaxSession \in Nat /\ MaxTrade \in Nat
      /\ UNCHANGED <<last, wire, captured, page>>
      /\ conn \in [state : {"down", "up", "lost"}, sent : 0 .. pub]
      /\ conn' = IF conn.state = "up" THEN [conn EXCEPT !.state = "lost", !.sent = 0] ELSE conn
      /\ conn.state # "up" => conn.sent = 0
      /\ page.counted \in Nat
  BY TradeNumbers DEF TInv, Restart, UpdatesJoin, PageState
<1>2. session' \in 1 .. MaxSession /\ pub' \in 0 .. last'[session']
  BY <1>1
<1>3. /\ conn' \in [state : {"down", "up", "lost"}, sent : 0 .. pub']
      /\ conn'.sent = 0 /\ conn'.state # "up" /\ (conn'.state = "down" <=> conn.state = "down")
  <2>1. CASE conn.state = "up"
    <3>1. conn' = [state |-> "lost", sent |-> 0]
      BY <1>1, <2>1
    <3>2. 0 \in 0 .. pub'
      BY <1>1
    <3> QED BY <2>1, <3>1, <3>2
  <2>2. CASE conn.state # "up"
    <3>1. conn' = conn /\ pub' = 0
      BY <1>1, <2>2
    <3>2. conn \in [state : {"down", "up", "lost"}, sent : 0 .. 0] /\ conn.sent = 0
      BY <1>1, <2>2
    <3> QED BY <2>2, <3>1, <3>2
  <2> QED BY <2>1, <2>2
<1>4. UpdatesJoin'
  BY <1>1, <1>3 DEF TInv, UpdatesJoin
<1>5. PageJoins'
  BY <1>1, <1>3 DEF TInv, PageJoins
<1>6. OwnSessionOnly' /\ AnswersFit'
  BY <1>1 DEF TInv, OwnSessionOnly, AnswersFit
<1> QED BY <1>1, <1>2, <1>3, <1>4, <1>5, <1>6, SamePage DEF TInv

\* Answers that have ended or been cancelled.
LEMMA FewerAnswers ==
    ASSUME TInv, captured' \subseteq captured,
           UNCHANGED <<session, last, pub, conn, wire, page>>, ~owner'.disposed
    PROVE  TInv'
<1>1. captured' \subseteq Answer /\ AnswersFit'
  BY DEF TInv, AnswersFit
<1>2. UpdatesJoin' /\ PageJoins' /\ OwnSessionOnly'
  BY DEF TInv, UpdatesJoin, PageJoins, OwnSessionOnly
<1> QED BY <1>1, <1>2, SamePage DEF TInv

LEMMA RequestArrivesKeeps ==
    ASSUME TInv, RequestArrives, ~owner'.disposed PROVE TInv'
<1>1. PICK a \in captured :
          /\ captured' = captured \ {a}
          /\ \/ page' = page
             \/ FitsSession(a) /\ page' = Merge(page, page.session, a.trades)
  BY DEF RequestArrives
<1>2. UNCHANGED <<session, last, pub, conn, wire>>
  BY DEF RequestArrives, server
<1>3. CASE page' = page
  BY <1>1, <1>2, <1>3, FewerAnswers
<1>4. CASE FitsSession(a) /\ page' = Merge(page, page.session, a.trades)
  <2>1. /\ a.session = page.session /\ a \in Answer /\ a.trades \in SUBSET (1 .. MaxTrade)
        /\ a.trades \subseteq 1 .. last[page.session]
    BY <1>4 DEF FitsSession, TInv, AnswersFit, Answer
  <2>2. /\ page' \in PageState /\ page'.session = page.session /\ page'.counted = page.counted
        /\ page'.skipped = page.skipped /\ page'.live = page.live
        /\ page'.got = page.got \cup a.trades /\ page'.ids = Newest(page'.got, Keep)
    BY <1>4, <2>1, MergeIs DEF TInv, NewestAreKept
  <2>3. NewestAreKept' /\ PageCounts'
    BY <2>2 DEF TInv, NewestAreKept, PageCounts, SkippedIsExact
  <2>4. OwnSessionOnly'
    BY <1>2, <2>1, <2>2 DEF TInv, OwnSessionOnly
  <2>5. captured' \subseteq Answer /\ AnswersFit'
    BY <1>1, <1>2 DEF TInv, AnswersFit
  <2>6. UpdatesJoin' /\ PageJoins'
    BY <1>2, <2>2 DEF TInv, UpdatesJoin, PageJoins
  <2> QED BY <1>2, <2>2, <2>3, <2>4, <2>5, <2>6 DEF TInv
<1> QED BY <1>1, <1>3, <1>4

LEMMA TradeStepOK ==
    ASSUME RInv, TInv, [TradeNext]_tradeVars PROVE RInv' /\ TInv'
<1>1. RInv' /\ ~owner'.disposed
  BY RequestKept DEF TInv
<1>2. ASSUME UNCHANGED <<session, last, pub, conn, wire, page>>, captured' \subseteq captured
      PROVE  TInv'
  BY <1>1, <1>2, FewerAnswers
<1>3. CASE UNCHANGED tradeVars
  BY <1>1, <1>2, <1>3 DEF tradeVars
<1>4. CASE RetriesLive
  BY <1>1, <1>2, <1>4 DEF RetriesLive, server
<1>5. CASE TimerRuns
  BY <1>1, <1>2, <1>5 DEF TimerRuns, server
<1>6. CASE RequestFails
  BY <1>1, <1>2, <1>6 DEF RequestFails, server
<1>7. ASSUME NEW n \in 1 .. 2, Trade(n) PROVE TInv'
  BY <1>1, <1>7, TradeKeeps
<1>8. CASE Disconnect \/ Notice
  BY <1>1, <1>8, DisconnectsKeeps DEF Disconnect, Notice
<1> QED
  BY <1>1, <1>3, <1>4, <1>5, <1>6, <1>7, <1>8, PublishKeeps, FlushKeeps, CaptureKeeps, DeliverKeeps,
     ConnectKeeps, RestartKeeps, RequestArrivesKeeps DEF TradeNext

\* What the page has counted, what is on the socket and the cursor of the
\* connection join, across reconnects and restarts of the server.
THEOREM TradeInvariance == TradeSpec => [](RInv /\ TInv)
<1>1. RInv /\ TInv /\ [TradeNext]_tradeVars => (RInv /\ TInv)'
  BY TradeStepOK
<1> QED BY <1>1, TradeInitOK, PTL DEF TradeSpec

\* Each omitted trade is counted once per session, across reconnects.
THEOREM OmissionsAreExact == TradeSpec => []SkippedIsExact
<1>1. RInv /\ TInv => SkippedIsExact
  BY DEF TInv, PageCounts
<1> QED BY <1>1, TradeInvariance, PTL

\* The page keeps the newest of the trades of its session whichever path brought
\* them, and what is on its way passes its decoders.
THEOREM TradesAreKept == TradeSpec => []TradeInv
<1>1. ASSUME RInv, TInv PROVE TradeInv
  <2>1. TypeOK /\ BudgetHolds
    BY <1>1, Fields, RequestAssumption
    DEF RInv, OK, Base, Owners, TypeOK, Loads, LoadSets, Gens, Counts, Tasks, BudgetHolds
  <2>2. ASSUME NEW i \in DOMAIN wire
        PROVE  /\ wire[i].trades \subseteq 1 .. MaxTrade /\ wire[i].skipped \in 0 .. MaxTrade
               /\ ValidUpdate(wire[i])
    <3> DEFINE u == wire[i]
    <3>1. u \in Update /\ UpdateOK(u)
      BY <1>1, ElementOfSeq, LenProperties DEF TInv, UpdatesJoin
    <3> HIDE DEF u
    <3>2. /\ u.trades = From(u) .. To(u) /\ u.skipped < From(u) /\ To(u) < From(u) + Window
          /\ u.skipped \in Nat /\ u.trades \in SUBSET (1 .. MaxTrade)
      BY <3>1 DEF UpdateOK, Update
    <3>3. Cardinality(u.trades) = To(u) - From(u) + 1
      <4>1. From(u) \in Int /\ To(u) \in Int /\ ~(From(u) > To(u))
        BY <3>1, UpdateEnds
      <4>2. Cardinality(From(u) .. To(u)) = IF From(u) > To(u) THEN 0 ELSE To(u) - From(u) + 1
        BY <4>1, FS_Interval, Zenon
      <4> QED BY <3>2, <4>1, <4>2
    <3>4. Cardinality(u.trades) \in 1 .. Batch /\ u.skipped \in 0 .. MaxTrade
      BY <3>1, <3>2, <3>3, UpdateEnds, WindowIs, TradeNumbers
    <3> QED BY <3>2, <3>4 DEF ValidUpdate, u
  <2>3. Cardinality(page.ids) <= Keep
    <3>1. page.ids = Newest(page.got, Keep) /\ page.got \in SUBSET (1 .. MaxTrade)
      BY <1>1 DEF TInv, NewestAreKept, PageState
    <3> QED BY <3>1, FiniteTrades, NewestBound, TradeNumbers
  <2>4. page.ids \cup page.got \cup page.live \subseteq 1 .. MaxTrade
    BY <1>1 DEF TInv, PageState
  <2>5. \A a \in captured : a.trades \subseteq 1 .. MaxTrade /\ ValidAnswer(a)
    BY <1>1 DEF TInv, AnswersFit, Answer
  <2>6. TradeTypeOK
    BY <1>1, <2>1, <2>2, <2>3, <2>4, <2>5 DEF TInv, TradeTypeOK
  <2> QED BY <1>1, <2>1, <2>2, <2>5, <2>6 DEF TInv, TradeInv, TradesAreDecoded
<1> QED BY <1>1, TradeInvariance, PTL

\* The page accepts an answer only for the request in force.
THEOREM TradeAnswersInForce == TradeSpec => AcceptedInForce
<1>1. RInv /\ TInv /\ [TradeNext]_tradeVars => [InForce]_vars
  BY RequestKept DEF TInv
<1> QED BY <1>1, TradeInvariance, PTL DEF TradeSpec, AcceptedInForce, InForce

=============================================================================
