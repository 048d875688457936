------------------------------ MODULE Bulkhead ------------------------------
(***************************************************************************)
(* One compartment of services/bulkhead/semaphore.py: a seat count, a      *)
(* queue of waiting threads and coroutines, and a list of operations       *)
(* queued without the compartment lock, which every lock holder applies    *)
(* before it unlocks and looks at again afterwards.  A call asks for one   *)
(* seat once, and is its own waiter.  One step per hold-free piece of      *)
(* code: each pending operation, each wake and the unlocking are steps of  *)
(* their own, because release appends without the lock at any moment.      *)
(* Coroutines of one loop interleave here more finely than the loop runs   *)
(* them.                                                                   *)
(***************************************************************************)
EXTENDS Integers, Sequences, FiniteSets

CONSTANTS
    Calls,
    Patient,        \* the calls that wait: a timeout above zero, and for a
                    \*   thread no event loop running on it
    Readers,        \* the calls that read the state, in their seat or after
    Loops,
    LoopOf,         \* the event loop of each coroutine
    MaxConcurrent,
    Faults,         \* "leave": waits end by a signal's exception, a cancel
                    \*   or the garbage collector; "timer": a loop's timer
                    \*   fires before the deadline; "loop": loops stop
    NoCall

ASSUME BulkheadAssumption ==
    /\ IsFiniteSet(Calls)
    /\ MaxConcurrent \in Nat \ {0}
    /\ DOMAIN LoopOf \subseteq Calls
    /\ \A c \in DOMAIN LoopOf : LoopOf[c] \in Loops
    /\ NoCall \notin Calls

VARIABLES
    lock,           \* who holds the compartment lock
    taken,
    line,           \* the waiters: queued, who is ahead of whom, woken, and
                    \*   signal: the token is free or the future resolved
    pending,        \* the operations queued without the lock
    lost_wakes,     \* wakes the lock holder still has to pass on
    at,             \* where each call is in the lock protocol
    stage,          \* where each call is on its way through the compartment
    expired,        \* the waiters whose deadline has passed
    early,          \* bound: one early timer per call
    noted,          \* the readers that have read the state
    loop

vars == <<lock, taken, line, pending, lost_wakes, at, stage, expired, early, noted, loop>>
callVars == <<expired, early, noted, loop>>

Coroutines == DOMAIN LoopOf

Line == [queued : SUBSET Calls, ahead : [Calls -> SUBSET Calls],
         woken : SUBSET Calls, signal : SUBSET Calls]

\* A seat given back, or a waiter leaving; the code does not record whose
\* seat it is.
SeatReturned(c) == [op |-> "seat", of |-> c]
Leaves(c) == [op |-> "leave", of |-> c]
Op == [op : {"seat", "leave"}, of : Calls]

Point == {"rest", "enter", "body", "exit", "apply", "unlock", "check", "try"}
Stage == {"new", "waiting", "awake", "running", "released", "refused", "left"}

Init ==
    /\ lock = NoCall
    /\ taken = 0
    /\ line = [queued |-> {}, ahead |-> [c \in Calls |-> {}], woken |-> {}, signal |-> {}]
    /\ pending = <<>>
    /\ lost_wakes = 0
    /\ at = [c \in Calls |-> "rest"]
    /\ stage = [c \in Calls |-> "new"]
    /\ expired = {}
    /\ early = {}
    /\ noted = {}
    /\ loop = [l \in Loops |-> "running"]

\* A thread always can; a coroutine only while its loop runs.
can_run(c) == c \in Coroutines => loop[LoopOf[c]] = "running"
loop_closed(c) == c \in Coroutines /\ loop[LoopOf[c]] = "closed"

-----------------------------------------------------------------------------
(* The waiter queue. *)

unqueue(q, S) ==
    [q EXCEPT !.queued = @ \ S,
              !.ahead = [c \in Calls |-> IF c \in S THEN {} ELSE q.ahead[c] \ S]]

enqueue(q, c) == [q EXCEPT !.queued = @ \cup {c}, !.ahead[c] = q.queued]

unwoken(q) == q.queued \ q.woken

\* Every unwoken waiter is tried until one absorbs the wake: those behind
\* the first that can run are not reached.
reached(q) ==
    {c \in unwoken(q) : ~ \E d \in q.ahead[c] : d \in unwoken(q) /\ can_run(d)}

wake_next(q) ==
    LET hit == {c \in reached(q) : ~ loop_closed(c)}
    IN [unqueue(q, reached(q) \ hit) EXCEPT !.woken = @ \cup hit, !.signal = @ \cup hit]

\* Mutant: a fresh wait starts on the old token.
rearm_old_token(q, c) == [q EXCEPT !.woken = @ \ {c}]

rearm(q, c) == [q EXCEPT !.woken = @ \ {c}, !.signal = @ \ {c}]

\* A coroutine's wait only ends with its future done.
needs_rearm(q, c) == c \in q.woken \/ c \in Coroutines

requeue(q, c) ==
    IF needs_rearm(q, c) \/ c \notin q.queued
    THEN enqueue(rearm(unqueue(q, {c}), c), c)
    ELSE q

\* Out of the queue, whatever wake they had taken from them.
remove(q, S) == [unqueue(q, S) EXCEPT !.woken = @ \ S]

\* Mutant: the wake of a waiter that leaves goes with it.
drop_waiter_silently(q, c) == remove(q, {c})

drop_waiter(q, c) == IF c \in q.woken THEN wake_next(remove(q, {c})) ELSE remove(q, {c})

dead == {c \in line.queued : loop_closed(c) \/ c \in expired}

-----------------------------------------------------------------------------
(* The lock protocol. *)

Goes(c, point) == at' = [at EXCEPT ![c] = point]

Enter(c) ==
    /\ at[c] = "rest" /\ can_run(c)
    /\ \/ stage[c] \in {"new", "awake"}
       \/ stage[c] \in {"running", "released", "refused"} /\ c \in Readers \ noted
    /\ lock = NoCall /\ lock' = c
    /\ Goes(c, "enter")
    /\ UNCHANGED <<taken, line, pending, lost_wakes, stage, callVars>>

Settling(c) == at[c] \in {"enter", "exit", "apply"}

seat_back(n) == IF n > 0 THEN n - 1 ELSE n

ApplySeat(c) ==
    /\ Settling(c) /\ pending # <<>> /\ Head(pending).op = "seat"
    /\ pending' = Tail(pending)
    /\ taken' = seat_back(taken)
    /\ line' = IF taken > 0 THEN wake_next(line) ELSE line
    /\ UNCHANGED <<lock, lost_wakes, at, stage, callVars>>

ApplyLeave(c) ==
    /\ Settling(c) /\ pending # <<>> /\ Head(pending).op = "leave"
    /\ pending' = Tail(pending)
    /\ line' = drop_waiter(line, Head(pending).of)
    /\ UNCHANGED <<lock, taken, lost_wakes, at, stage, callVars>>

Prune(c) ==
    /\ Settling(c) /\ pending = <<>>
    /\ line' = remove(line, dead)
    /\ lost_wakes' = Cardinality(dead \cap line.woken)
    /\ Goes(c, IF at[c] = "enter" THEN "body" ELSE "unlock")
    /\ UNCHANGED <<lock, taken, pending, stage, callVars>>

PassOn(c) ==
    /\ lock = c /\ lost_wakes > 0
    /\ line' = wake_next(line)
    /\ lost_wakes' = lost_wakes - 1
    /\ UNCHANGED <<lock, taken, pending, at, stage, callVars>>

\* Mutant: a refused call returns without unlocking.
unlocked_unless_refused(c) == IF stage[c] = "refused" THEN c ELSE NoCall

unlocked(c) == NoCall

\* Mutant: the pending list is not looked at again after unlocking.
after_unlock_done == "rest"

after_unlock == "check"

Unlock(c) ==
    /\ at[c] = "unlock" /\ lost_wakes = 0
    /\ lock' = unlocked(c)
    /\ Goes(c, after_unlock)
    /\ UNCHANGED <<taken, line, pending, lost_wakes, stage, callVars>>

Check(c) ==
    /\ at[c] = "check"
    /\ Goes(c, IF pending = <<>> THEN "rest" ELSE "try")
    /\ UNCHANGED <<lock, taken, line, pending, lost_wakes, stage, callVars>>

TryLock(c) ==
    /\ at[c] = "try"
    /\ IF lock = NoCall THEN lock' = c /\ Goes(c, "apply")
                        ELSE lock' = lock /\ Goes(c, "rest")
    /\ UNCHANGED <<taken, line, pending, lost_wakes, stage, callVars>>

-----------------------------------------------------------------------------
(* What a call does under the lock. *)

Decides(c, from) == at[c] = "body" /\ lost_wakes = 0 /\ stage[c] \in from /\ Goes(c, "exit")

Becomes(c, s) == stage' = [stage EXCEPT ![c] = s]

\* A waiter is forgotten when its call is through with waiting.
Forget(c) ==
    /\ expired' = expired \ {c} /\ early' = early \ {c}
    /\ UNCHANGED <<noted, loop>>

\* Mutant: one seat too many.
seat_free_at_limit == taken <= MaxConcurrent

seat_free == taken < MaxConcurrent

TakeSeat(c) ==
    /\ Decides(c, {"new", "awake"}) /\ seat_free
    /\ taken' = taken + 1
    /\ line' = [remove(line, {c}) EXCEPT !.signal = @ \ {c}]
    /\ Becomes(c, "running")
    /\ Forget(c)
    /\ UNCHANGED <<lock, pending, lost_wakes>>

TurnAway(c) ==
    /\ Decides(c, {"new"}) /\ ~ seat_free /\ c \notin Patient
    /\ Becomes(c, "refused")
    /\ UNCHANGED <<lock, taken, line, pending, lost_wakes, callVars>>

Wait(c) ==
    /\ Decides(c, {"new"}) /\ ~ seat_free /\ c \in Patient
    /\ line' = enqueue(line, c)
    /\ Becomes(c, "waiting")
    /\ UNCHANGED <<lock, taken, pending, lost_wakes, callVars>>

WaitAgain(c) ==
    /\ Decides(c, {"awake"}) /\ ~ seat_free /\ c \notin expired
    /\ line' = requeue(line, c)
    /\ Becomes(c, "waiting")
    /\ UNCHANGED <<lock, taken, pending, lost_wakes, callVars>>

GiveUp(c) ==
    /\ Decides(c, {"awake"}) /\ ~ seat_free /\ c \in expired
    /\ line' = drop_waiter(line, c)
    /\ Becomes(c, "refused")
    /\ Forget(c)
    /\ UNCHANGED <<lock, taken, pending, lost_wakes>>

get_state(c) ==
    /\ Decides(c, {"running", "released", "refused"})
    /\ noted' = noted \cup {c}
    /\ UNCHANGED <<lock, taken, line, pending, lost_wakes, stage, expired, early, loop>>

-----------------------------------------------------------------------------
(* What happens without the lock. *)

\* Both append to the pending list and then try the lock once.
Queues(c, op) ==
    /\ at[c] = "rest"
    /\ pending' = Append(pending, op)
    /\ Goes(c, "check")
    /\ UNCHANGED <<lock, taken, line, lost_wakes, callVars>>

\* Also in the finally of a coroutine the garbage collector finalizes.
release(c) ==
    /\ stage[c] = "running"
    /\ Queues(c, SeatReturned(c))
    /\ Becomes(c, "released")

Leave(c) ==
    /\ "leave" \in Faults /\ stage[c] = "waiting"
    /\ Queues(c, Leaves(c))
    /\ Becomes(c, "left")

\* The wait ends: the token was taken or the future resolved, or time is up.
WakeUp(c) ==
    /\ at[c] = "rest" /\ stage[c] = "waiting" /\ can_run(c)
    /\ c \in line.signal \cup expired
    /\ line' = [line EXCEPT !.signal = @ \ {c}]
    /\ Becomes(c, "awake")
    /\ UNCHANGED <<lock, taken, pending, lost_wakes, at, callVars>>

TimerFiresEarly(c) ==
    /\ "timer" \in Faults /\ c \in Coroutines \ early
    /\ at[c] = "rest" /\ stage[c] = "waiting" /\ can_run(c)
    /\ early' = early \cup {c}
    /\ Becomes(c, "awake")
    /\ UNCHANGED <<lock, taken, line, pending, lost_wakes, at, expired, noted, loop>>

PassDeadline(c) ==
    /\ stage[c] \in {"waiting", "awake"} /\ c \notin expired
    /\ expired' = expired \cup {c}
    /\ UNCHANGED <<lock, taken, line, pending, lost_wakes, at, stage, early, noted, loop>>

\* A loop stops between steps of its coroutines; a stopped one may resume.
TurnLoop(l) ==
    /\ "loop" \in Faults
    /\ \A c \in Coroutines : LoopOf[c] = l => at[c] = "rest"
    /\ \E s \in {"running", "stopped", "closed"} :
        /\ <<loop[l], s>> \in {<<"running", "stopped">>, <<"stopped", "running">>, <<"stopped", "closed">>}
        /\ loop' = [loop EXCEPT ![l] = s]
    /\ UNCHANGED <<lock, taken, line, pending, lost_wakes, at, stage, expired, early, noted>>

-----------------------------------------------------------------------------
Proceeds(c) ==
    \/ Enter(c) \/ ApplySeat(c) \/ ApplyLeave(c) \/ Prune(c) \/ PassOn(c)
    \/ TakeSeat(c) \/ TurnAway(c) \/ Wait(c) \/ WaitAgain(c) \/ GiveUp(c) \/ get_state(c)
    \/ Unlock(c) \/ Check(c) \/ TryLock(c)

Next ==
    \/ \E c \in Calls :
        Proceeds(c) \/ release(c) \/ Leave(c) \/ WakeUp(c) \/ TimerFiresEarly(c) \/ PassDeadline(c)
    \/ \E l \in Loops : TurnLoop(l)

Spec == Init /\ [][Next]_vars

\* Threads and running loops are scheduled and protected calls end: what a
\* call can do next it does.  Nothing is assumed of deadlines, so none is
\* needed for a waiter to be served.
Fairness == \A c \in Calls : WF_vars(Proceeds(c) \/ release(c) \/ WakeUp(c))

FairSpec == Spec /\ Fairness

-----------------------------------------------------------------------------
\* Every part of the compartment keeps its type; the seat count does not
\* fall below zero.
TypeOK ==
    /\ lock \in Calls \cup {NoCall}
    /\ taken \in Nat
    /\ line \in Line
    /\ pending \in Seq(Op)
    /\ lost_wakes \in Nat
    /\ at \in [Calls -> Point]
    /\ stage \in [Calls -> Stage]
    /\ expired \subseteq Calls /\ early \subseteq Calls /\ noted \subseteq Calls
    /\ loop \in [Loops -> {"running", "stopped", "closed"}]

\* "an operation queued here is never stranded": while the list is not
\* empty, some call holds the lock or is about to look at the list.
NothingStranded ==
    pending # <<>> => lock # NoCall \/ \E c \in Calls : at[c] \in {"check", "try"}

\* The waiters a wake is on its way to, or that are up and will look.
Alerted == {c \in line.queued \cap line.woken : c \in line.signal \/ stage[c] = "awake"}

\* No wake is lost: when seats are free, as many waiters are alerted, or
\* wakes still to be passed on, as seats are free, unless every waiter is
\* alerted already.
NoLostWake ==
    \/ MaxConcurrent <= taken + lost_wakes + Cardinality(Alerted)
    \/ line.queued \subseteq Alerted

\* A waiter that is queued and not woken has its token taken: waking it
\* never releases a free lock, which would raise in the lock holder, and
\* its next wait blocks.
TokenFresh == line.signal \cap line.queued \subseteq line.woken

\* While the loops run, a waiter is not left behind: it comes to run or
\* leaves, even if no deadline ever passes.
WaiterServed ==
    \A c \in Patient : stage[c] = "waiting" ~>
        stage[c] \notin {"waiting", "awake"} \/ \E l \in Loops : loop[l] # "running"

Running == {c \in Calls : stage[c] = "running"}
Returning == {c \in Calls : \E i \in 1..Len(pending) : pending[i] = SeatReturned(c)}

Semaphore == INSTANCE CountingSemaphore WITH
    held <- Running,
    returning <- Returning,
    refused <- {c \in Calls : stage[c] = "refused"}

\* The compartment implements a counting semaphore: never more than the
\* limit run, and a call is refused only while every seat is out.
CountsSeats == Semaphore!Spec
=============================================================================
