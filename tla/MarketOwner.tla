----------------------------- MODULE MarketOwner -----------------------------
(***************************************************************************)
(* The goroutine that owns the market (backend/internal/market/owner.go):  *)
(* Start with its warm-up, the run loop between clock and captures, the    *)
(* bounded capture queue of the REST handlers, and Close.                  *)
(*                                                                         *)
(* Four kinds of goroutine meet here: the one that calls Start and becomes *)
(* the loop, the one that calls Close, and the callers of Capture...       *)
(* Market data is a revision: work is the last event applied, current the  *)
(* last one published.  A book capture is a copy of current; an answer     *)
(* here is a history or trades capture, which is cut from the working      *)
(* state.  The real clock never closes its channel of ticks.               *)
(***************************************************************************)
EXTENDS Naturals, Sequences

CONSTANTS
    Caller,         \* REST handlers
    QueueSize,      \* captureQueueSize
    MaxCaptures,    \* maxCapturesPerStep
    Warmup,         \* events of the warm-up
    MaxRev          \* bound: events of a run

ASSUME OwnerAssumption ==
    /\ {QueueSize, MaxCaptures, Warmup, MaxRev} \subseteq Nat \ {0}
    /\ Warmup <= MaxRev
    /\ "gone" \notin Caller

VARIABLES
    state,      \* the flags of ownerState: running, closed; stop # nil; the run context is done
    starter,    \* the goroutine in Start
    loop,       \* the goroutine in run
    due,        \* events left of the step the loop is applying
    closer,     \* the goroutine in Close
    finish,     \* progress of finish(): "no", "drain", "done" (done is closed)
    work,       \* workRev
    current,    \* MarketRev of the publication, 0 without one
    captures,   \* captures since the last tick taken
    tick,       \* a tick waits in the clock's channel
    queue,      \* reqs: the callers waiting, Gone for one that gave up
    caller,     \* [Caller -> "idle", "checked", "waiting"]
    answer,     \* [Caller -> revision of its last answer]
    waited      \* ghost: captures handled since the waiting tick arrived

flow == <<starter, loop, closer, finish>>
market == <<due, work, current>>
requests == <<queue, caller, answer>>
clock == <<captures, tick, waited>>
vars == <<state, flow, market, requests, clock>>

Gone == "gone"

Init ==
    /\ state = [running |-> FALSE, closed |-> FALSE, stop |-> FALSE, cancelled |-> FALSE]
    /\ starter = "idle" /\ loop = "none" /\ closer = "idle" /\ finish = "no"
    /\ due = 0 /\ work = 0 /\ current = 0
    /\ captures = 0 /\ tick = FALSE /\ waited = 0
    /\ queue = <<>>
    /\ caller = [c \in Caller |-> "idle"] /\ answer = [c \in Caller |-> 0]

-----------------------------------------------------------------------------
(* Start *)

\* The context is examined before the lock is taken.
StartChecks ==
    /\ starter = "idle"
    /\ starter' = IF state.cancelled THEN "refused" ELSE "entered"
    /\ UNCHANGED <<state, loop, closer, finish, market, requests, clock>>

StartLocks ==
    /\ starter = "entered"
    /\ IF state.running \/ state.closed
       THEN starter' = "refused" /\ UNCHANGED state
       ELSE /\ starter' = "warm"
            /\ state' = [state EXCEPT !.running = TRUE, !.stop = TRUE]
    /\ UNCHANGED <<loop, closer, finish, market, requests, clock>>

\* The warm-up looks at the context before every event and at its end.
WarmUpChecks ==
    /\ starter = "warm"
    /\ starter' = IF state.cancelled THEN "finishing"
                  ELSE IF work < Warmup THEN "applying"
                  ELSE "publishing"
    /\ UNCHANGED <<state, loop, closer, finish, market, requests, clock>>

WarmUpApplies ==
    /\ starter = "applying" /\ starter' = "warm"
    /\ work' = work + 1
    /\ UNCHANGED <<state, loop, closer, finish, due, current, requests, clock>>

\* publish: a closed owner keeps its last publication.
PublishWork == current' = IF state.closed THEN current ELSE work

\* The first publication, and the loop starts.
StartPublishes ==
    /\ starter = "publishing" /\ starter' = "returned"
    /\ PublishWork
    /\ loop' = "top"
    /\ UNCHANGED <<state, closer, finish, due, work, requests, clock>>

-----------------------------------------------------------------------------
(* run *)

Loop(from, to) == loop = from /\ loop' = to

\* The head of the loop looks at the context before it selects.
LoopTop ==
    /\ Loop("top", IF state.cancelled THEN "exit" ELSE "select")
    /\ UNCHANGED <<state, starter, closer, finish, market, requests, clock>>

SelectDone ==
    /\ state.cancelled
    /\ Loop("select", "exit")
    /\ UNCHANGED <<state, starter, closer, finish, market, requests, clock>>

\* The select takes a tick; due counts the steps that have become due.
SelectTick ==
    /\ tick /\ tick' = FALSE
    /\ captures' = 0 /\ waited' = 0
    /\ \E d \in 0 .. MaxRev - work :
          /\ due' = d
          /\ Loop("select", IF d = 0 THEN "top" ELSE "advance")
    /\ UNCHANGED <<state, starter, closer, finish, work, current, requests>>

\* Before every due event a look at the context; a cancelled step is not published.
AdvanceChecks ==
    /\ Loop("advance", IF state.cancelled THEN "exit" ELSE "apply")
    /\ due' = IF state.cancelled THEN 0 ELSE due
    /\ UNCHANGED <<state, starter, closer, finish, work, current, requests, clock>>

AdvanceApplies ==
    /\ Loop("apply", IF due = 1 THEN "publish" ELSE "advance")
    /\ work' = work + 1 /\ due' = due - 1
    /\ UNCHANGED <<state, starter, closer, finish, current, requests, clock>>

LoopPublishes ==
    /\ Loop("publish", "top")
    /\ PublishWork
    /\ UNCHANGED <<state, starter, closer, finish, due, work, requests, clock>>

\* Mutants: a ninth capture; a capture while a step is not yet published.
OneTooMany == loop = "select" /\ captures <= MaxCaptures
BeforePublishing == loop \in {"select", "publish"} /\ captures < MaxCaptures

\* After MaxCaptures the loop waits for the clock only.
MayCapture == loop = "select" /\ captures < MaxCaptures

Answer(c, rev) ==
    /\ caller' = [caller EXCEPT ![c] = "idle"]
    /\ answer' = [answer EXCEPT ![c] = rev]

\* handleCapture: nobody waits any more for a request that was given up.
SelectCapture ==
    /\ MayCapture
    /\ loop' = IF loop = "select" THEN "top" ELSE loop
    /\ queue # <<>> /\ queue' = Tail(queue)
    /\ IF Head(queue) = Gone THEN UNCHANGED <<caller, answer>> ELSE Answer(Head(queue), work)
    /\ captures' = captures + 1
    /\ waited' = IF tick THEN waited + 1 ELSE waited
    /\ UNCHANGED <<state, starter, closer, finish, market, tick>>

\* The clock's channel holds one tick.
TimePasses ==
    /\ ~tick /\ tick' = TRUE
    /\ loop \notin {"none", "ended"}
    /\ UNCHANGED <<state, flow, market, requests, captures, waited>>

-----------------------------------------------------------------------------
(* Close and finish *)

\* What Close has to do itself after it has marked the owner closed.
AfterMark == IF state.stop THEN "cancelling" ELSE "finishing"

CloseMarks ==
    /\ closer = "idle" /\ closer' = AfterMark
    /\ state' = [state EXCEPT !.closed = TRUE, !.running = FALSE]
    /\ UNCHANGED <<starter, loop, finish, market, requests, clock>>

CloseCancels ==
    /\ closer = "cancelling" /\ closer' = "waiting"
    /\ state' = [state EXCEPT !.cancelled = state.stop]
    /\ UNCHANGED <<starter, loop, finish, market, requests, clock>>

\* Close returns when done is closed, or earlier with the error of its own context.
CloseReturns ==
    /\ closer = "waiting"
    /\ \/ finish = "done" /\ closer' = "returned"
       \/ finish # "done" /\ closer' = "gaveUp"
    /\ UNCHANGED <<state, starter, loop, finish, market, requests, clock>>

\* The context that Start was given ends (App.Close).
ContextEnds ==
    /\ ~state.cancelled
    /\ state' = [state EXCEPT !.cancelled = TRUE]
    /\ UNCHANGED <<flow, market, requests, clock>>

\* Who calls finish: a cancelled warm-up, the loop when it ends, a Close
\* without a loop.
Finisher ==
    \/ starter = "finishing" /\ starter' = "returned" /\ UNCHANGED <<loop, closer>>
    \/ loop = "exit" /\ loop' = "ended" /\ UNCHANGED <<starter, closer>>
    \/ closer = "finishing" /\ closer' = "waiting" /\ UNCHANGED <<starter, loop>>

FinishMarks ==
    /\ Finisher
    /\ finish = "no" /\ finish' = "drain"
    /\ state' = [state EXCEPT !.closed = TRUE, !.running = FALSE]
    /\ UNCHANGED <<market, requests, clock>>

\* Mutant: pending captures are left in the queue.
LeavePending == queue

\* failPendingCaptures takes requests until the queue is empty.
Pending == IF queue = <<>> THEN <<>> ELSE Tail(queue)

Told == IF Head(queue) = Gone THEN caller ELSE [caller EXCEPT ![Head(queue)] = "idle"]

\* One pending capture is failed.
FinishDrains ==
    /\ finish = "drain" /\ Pending # queue
    /\ queue' = Pending
    /\ caller' = Told
    /\ UNCHANGED <<state, flow, market, answer, clock>>

\* The queue was found empty, and done is closed.
FinishEnds ==
    /\ finish = "drain" /\ Pending = queue
    /\ finish' = "done"
    /\ UNCHANGED <<state, starter, loop, closer, market, requests, clock>>

-----------------------------------------------------------------------------
(* capture *)

\* Ready, except that a publication may also be too old.
Ready == state.running /\ ~state.closed /\ current # 0

\* A handler finds the owner ready and not closed, and lets go of the lock
\* (transport/http.go asks Ready first; what was ready stays so until it is closed).
CaptureChecks(c) ==
    /\ caller[c] = "idle" /\ Ready
    /\ caller' = [caller EXCEPT ![c] = "checked"]
    /\ UNCHANGED <<state, flow, market, queue, answer, clock>>

HasRoom == Len(queue) < QueueSize

\* It sends without blocking: a full queue is "busy".
CaptureSends(c) ==
    /\ caller[c] = "checked"
    /\ IF HasRoom
       THEN caller' = [caller EXCEPT ![c] = "waiting"] /\ queue' = Append(queue, c)
       ELSE caller' = [caller EXCEPT ![c] = "idle"] /\ UNCHANGED queue
    /\ UNCHANGED <<state, flow, market, answer, clock>>

\* Its deadline passes or its client goes away; the request stays in the queue.
GiveUp(c) ==
    /\ caller[c] = "waiting"
    /\ caller' = [caller EXCEPT ![c] = "idle"]
    /\ queue' = [k \in DOMAIN queue |-> IF queue[k] = c THEN Gone ELSE queue[k]]
    /\ UNCHANGED <<state, flow, market, answer, clock>>

-----------------------------------------------------------------------------

StartStep == StartChecks \/ StartLocks \/ WarmUpChecks \/ WarmUpApplies \/ StartPublishes
LoopStep == LoopTop \/ SelectDone \/ SelectTick \/ AdvanceChecks \/ AdvanceApplies
            \/ LoopPublishes
CloseStep == CloseCancels \/ FinishMarks \/ FinishDrains \/ FinishEnds

Next ==
    \/ StartStep \/ LoopStep \/ SelectCapture \/ TimePasses
    \/ CloseMarks \/ CloseStep \/ CloseReturns \/ ContextEnds
    \/ \E c \in Caller : CaptureChecks(c) \/ CaptureSends(c) \/ GiveUp(c)

\* Every goroutine runs on and the clock ticks; select is fair to a request
\* that is ready again and again, as it picks at random.  Nobody has to close
\* the owner, and no deadline has to pass.
Spec == /\ Init /\ [][Next]_vars
        /\ WF_vars(StartStep) /\ WF_vars(LoopStep) /\ WF_vars(TimePasses)
        /\ WF_vars(CloseStep) /\ SF_vars(SelectCapture)

-----------------------------------------------------------------------------

Warming == {"warm", "applying", "publishing"}

\* Every variable has its type, and the queue its bound.
TypeOK ==
    /\ state \in [running : BOOLEAN, closed : BOOLEAN, stop : BOOLEAN, cancelled : BOOLEAN]
    /\ starter \in {"idle", "entered", "refused"} \cup Warming \cup {"finishing", "returned"}
    /\ loop \in {"none", "top", "select", "advance", "apply", "publish", "exit", "ended"}
    /\ closer \in {"idle", "cancelling", "finishing", "waiting", "returned", "gaveUp"}
    /\ finish \in {"no", "drain", "done"}
    /\ due \in Nat /\ work \in 0 .. MaxRev /\ current \in 0 .. work
    /\ captures \in 0 .. MaxCaptures /\ waited \in Nat /\ tick \in BOOLEAN
    /\ queue \in Seq(Caller \cup {Gone}) /\ Len(queue) <= QueueSize
    /\ caller \in [Caller -> {"idle", "checked", "waiting"}]
    /\ answer \in [Caller -> 0 .. MaxRev]

\* However many requests come in, a tick waits for MaxCaptures of them at most
\* (the two branches of run).
ClockWaitsAtMost == waited <= MaxCaptures

\* Queue and callers agree: exactly those who wait have a request, and one only
\* (capture and respond share nothing else), unless they missed the drain.
WaitersAreQueued ==
    \A c \in Caller :
       /\ caller[c] = "waiting" <=> \E k \in DOMAIN queue : queue[k] = c
       /\ \A j, k \in DOMAIN queue : queue[j] = c /\ queue[k] = c => j = k

\* A history or trades capture agrees with the publication the connections get
\* (handleCapture runs between steps only), until the owner is closing.
AnswersMatchPublication ==
    [][\A c \in Caller : answer'[c] # answer[c] => answer'[c] = current \/ state.closed]_vars

\* What a closed owner has published stays (publish under the lock).
ClosedKeepsPublication == [][state.closed => current' = current]_vars

\* Once done is closed nobody works on the market: neither a warm-up nor a loop
\* is left behind by a Close that has returned.
NothingAfterDone == [][finish = "done" => UNCHANGED <<work, current>>]_vars

\* A request that is in the queue before the drain ends is answered or failed
\* even if its deadline never passes.
CapturesEnd ==
    \A c \in Caller : (caller[c] = "waiting" /\ finish # "done") ~> caller[c] # "waiting"

=============================================================================
