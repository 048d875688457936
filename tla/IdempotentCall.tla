--------------------------- MODULE IdempotentCall ---------------------------
(***************************************************************************)
(* Calls that share one idempotency key: the gate's check-and-acquire      *)
(* (core/idempotency_gate.py), the guard and hook around the protected     *)
(* function (resilience/policies/idempotency.py) and the timeout stage     *)
(* that abandons running work (resilience/policies/timeout.py).            *)
(*                                                                         *)
(* Every call is one attempt of one process to run the function under the  *)
(* key; each cache operation, lock hold and end of a piece of work is one  *)
(* step.  A process has a clock of its own: the store's clock plus a skew. *)
(***************************************************************************)
EXTENDS IdempotencyRecord, WorkScope

CONSTANTS
    ExecutionTTLs,   \* the execution windows the calls ask for
    MemoryTTL,       \* gate_memory_ttl_seconds
    Faults,          \* which of "cache", "crash", "cancel", "close" may happen
    MaxTime          \* bound: the modelled time

ASSUME CallAssumption ==
    /\ ExecutionTTLs \subseteq Nat
    /\ MemoryTTL \in Nat
    /\ MaxTime \in Nat

VARIABLES
    record,      \* the key's record in the cache
    now,         \* the store's clock
    skew,        \* skew[c]: how far the clock of c's process runs ahead
    ttl,         \* ttl[c]: the execution window c asks for
    pc,          \* pc[c]: what c does next
    started,     \* started[c]: started_at of the claim c builds
    threshold,   \* threshold[c]: stale_before of c's takeover
    cancelled,   \* cancelled[c]: c was cancelled while it claimed
    work,        \* work[c][p]: the piece p of c's work
    waiting,     \* waiting[c]: the attempt c waits for
    scope,       \* scope[c]: what c abandoned
    outcome      \* outcome[c]: the mark c has decided on

callVars == <<started, threshold, cancelled, outcome>>
workVars == <<work, waiting, scope>>
vars == <<record, now, skew, ttl, pc, callVars, workVars>>

CallPc ==
    {"idle", "setnx", "get", "setnx_again", "takeover", "running", "deferred",
     "mark", "over"}

PieceState == {"none", "queued", "running", "returned", "raised"}

\* The type of every variable.
TypeOK ==
    /\ record \in Record
    /\ now \in 0..MaxTime
    /\ skew \in [Calls -> 0..ClockSkewTolerance]
    /\ ttl \in [Calls -> ExecutionTTLs]
    /\ pc \in [Calls -> CallPc]
    /\ started \in [Calls -> Int]
    /\ threshold \in [Calls -> Int]
    /\ cancelled \in [Calls -> BOOLEAN]
    /\ work \in [Calls -> [Pieces -> PieceState]]
    /\ waiting \in [Calls -> SUBSET Own]
    /\ scope \in [Calls -> Scope]
    /\ outcome \in [Calls -> {"failed", "completed"}]

Init ==
    /\ record = NoRecord
    /\ now = 0
    /\ skew \in [Calls -> 0..ClockSkewTolerance]
    /\ ttl \in [Calls -> ExecutionTTLs]
    /\ pc = [c \in Calls |-> "idle"]
    /\ started = [c \in Calls |-> 0]
    /\ threshold = [c \in Calls |-> 0]
    /\ cancelled = [c \in Calls |-> FALSE]
    /\ work = [c \in Calls |-> [p \in Pieces |-> "none"]]
    /\ waiting = [c \in Calls |-> {}]
    /\ scope = [c \in Calls |-> NewScope]
    /\ outcome = [c \in Calls |-> "failed"]

-----------------------------------------------------------------------------
env == <<now, skew, ttl>>

At(c, label) == pc[c] = label

Goto(c, label) == pc' = [pc EXCEPT ![c] = label]

clock(c) == now + skew[c]

-----------------------------------------------------------------------------
(* Claiming the key: _check_and_acquire.                                   *)

\* The record is built once, before the first cache operation.
BuildRecord(c) ==
    /\ At(c, "idle")
    /\ started' = [started EXCEPT ![c] = clock(c)]
    /\ Goto(c, "setnx")
    /\ UNCHANGED <<env, record, threshold, cancelled, outcome, workVars>>

\* c owns the key.  A call cancelled meanwhile never runs: its claim is
\* released as failed.
Claimed(c) ==
    /\ record' = executing(c, started[c], now + ttl[c])
    /\ Goto(c, IF cancelled[c] THEN "mark" ELSE "running")
    /\ UNCHANGED <<env, callVars, workVars>>

Turn(c, label) ==
    /\ Goto(c, label)
    /\ UNCHANGED <<env, record, callVars, workVars>>

SetNx(c) ==
    /\ pc[c] \in {"setnx", "setnx_again"}
    /\ IF ~is_live(record, now) THEN Claimed(c)
       ELSE Turn(c, IF At(c, "setnx") THEN "get" ELSE "over")

GetExisting(c) ==
    LET stale == stale_before(clock(c), ttl[c]) IN
    /\ At(c, "get")
    /\ IF ~is_live(record, now) THEN Turn(c, "setnx_again")
       ELSE IF \/ record.status = "failed"
               \/ record.status = "executing" /\ record.started_at < stale
       THEN /\ threshold' = [threshold EXCEPT ![c] = stale]
            /\ Goto(c, "takeover")
            /\ UNCHANGED <<env, record, started, cancelled, outcome, workVars>>
       ELSE Turn(c, "over")

TakeOver(c) ==
    /\ At(c, "takeover")
    /\ IF takeable(record, now, threshold[c]) THEN Claimed(c)
       ELSE Turn(c, "over")

\* The cache fails while c claims.  A write may have been applied although
\* its answer was lost.  The guard refuses the call (or, when told to fail
\* open, runs it outside the key): the key hears no more of it.
CacheFault(c) ==
    /\ "cache" \in Faults
    /\ pc[c] \in {"setnx", "get", "setnx_again", "takeover"}
    /\ \/ UNCHANGED record
       \/ /\ pc[c] \in {"setnx", "setnx_again"} /\ ~is_live(record, now)
          /\ record' = executing(c, started[c], now + ttl[c])
       \/ /\ At(c, "takeover") /\ takeable(record, now, threshold[c])
          /\ record' = executing(c, started[c], now + ttl[c])
    /\ Goto(c, "over")
    /\ UNCHANGED <<env, callVars, workVars>>

\* The task is cancelled while the store answers; the claim runs on.
CancelClaim(c) ==
    /\ "cancel" \in Faults
    /\ pc[c] \in {"setnx", "get", "setnx_again", "takeover"}
    /\ ~cancelled[c]
    /\ cancelled' = [cancelled EXCEPT ![c] = TRUE]
    /\ UNCHANGED <<env, record, pc, started, threshold, outcome, workVars>>

-----------------------------------------------------------------------------
(* Running the function: the timeout stage and what it abandons.           *)

Held == <<env, record, started, threshold, cancelled>>

\* An attempt is submitted to the executor; the call waits for it.
StartAttempt(c) ==
    /\ At(c, "running") /\ waiting[c] = {}
    /\ \E p \in Own :
          /\ work[c][p] = "none"
          /\ work' = [work EXCEPT ![c][p] = "queued"]
          /\ waiting' = [waiting EXCEPT ![c] = {p}]
    /\ UNCHANGED <<Held, pc, scope, outcome>>

RunPiece(c) ==
    /\ \E p \in Pieces : work[c][p] = "queued"
                         /\ work' = [work EXCEPT ![c][p] = "running"]
    /\ UNCHANGED <<Held, pc, waiting, scope, outcome>>

\* Something running inside the call abandons a piece of its own.
AbandonNested(c) ==
    /\ \E p \in Pieces : work[c][p] = "running"
    /\ \E p \in Nested :
          /\ work[c][p] = "none"
          /\ work' = [work EXCEPT ![c][p] = "running"]
          /\ scope' = [scope EXCEPT ![c] = add(@, p)]
    /\ UNCHANGED <<Held, pc, waiting, outcome>>

\* A piece ends.  The end of the last piece a closed scope holds settles the
\* key, on the thread that ran it.
EndPiece(c) ==
    \E p \in Pieces, returned \in BOOLEAN :
        LET s == scope[c]
            after == fold(s, p, returned)
            settled == s.settles /\ after.sealed /\ ~s.sealed
        IN
        /\ work[c][p] = "running"
        /\ work' = [work EXCEPT ![c][p] = IF returned THEN "returned" ELSE "raised"]
        /\ scope' = [scope EXCEPT ![c] = after]
        /\ IF settled
           THEN /\ Goto(c, "mark")
                /\ outcome' = [outcome EXCEPT ![c] =
                                 IF own_succeeded(after) THEN "completed" ELSE "failed"]
           ELSE UNCHANGED <<pc, outcome>>
        /\ UNCHANGED <<Held, waiting>>

\* The attempt returned: the hook closes the scope and marks completed.
Succeed(c) ==
    /\ At(c, "running")
    /\ \E p \in waiting[c] : work[c][p] = "returned"
    /\ scope' = [scope EXCEPT ![c] = close(@, FALSE)]
    /\ waiting' = [waiting EXCEPT ![c] = {}]
    /\ outcome' = [outcome EXCEPT ![c] = "completed"]
    /\ Goto(c, "mark")
    /\ UNCHANGED <<Held, work>>

\* The attempt raised: a retry may follow.
AttemptRaised(c) ==
    /\ At(c, "running")
    /\ \E p \in waiting[c] : work[c][p] = "raised"
    /\ waiting' = [waiting EXCEPT ![c] = {}]
    /\ UNCHANGED <<Held, pc, work, scope, outcome>>

\* record_abandoned, with no enclosing scope: work still running joins the
\* scope; work that ended in the instant before is folded at once with its
\* outcome.
recorded(c, p) ==
    IF work[c][p] = "running" THEN add(scope[c], p)
    ELSE fold(add(scope[c], p), p, work[c][p] = "returned")

\* A thread's timeout or an interruption of its wait: a queued attempt is
\* cancelled, anything else is recorded.
TimeOut(c) ==
    /\ At(c, "running")
    /\ \E p \in waiting[c] :
          IF work[c][p] = "queued"
          THEN work' = [work EXCEPT ![c][p] = "raised"] /\ UNCHANGED scope
          ELSE scope' = [scope EXCEPT ![c] = recorded(c, p)] /\ UNCHANGED work
    /\ waiting' = [waiting EXCEPT ![c] = {}]
    /\ UNCHANGED <<Held, pc, outcome>>

\* A coroutine's timeout cancels it: nothing of the attempt is left running.
TimeOutAsync(c) ==
    /\ At(c, "running")
    /\ \E p \in waiting[c] :
          /\ work[c][p] \in {"queued", "running"}
          /\ work' = [work EXCEPT ![c][p] = "raised"]
    /\ waiting' = [waiting EXCEPT ![c] = {}]
    /\ UNCHANGED <<Held, pc, scope, outcome>>

-----------------------------------------------------------------------------
(* Settling the key.                                                       *)

\* The call did not return: mark now if nothing it abandoned runs, else when
\* the last piece ends (_settle_sync and its twins).
GiveUp(c) ==
    LET s == scope[c] IN
    /\ At(c, "running") /\ waiting[c] = {}
    /\ scope' = [scope EXCEPT ![c] = close(s, TRUE)]
    /\ Goto(c, IF close_settles_now(s) THEN "mark" ELSE "deferred")
    /\ outcome' = [outcome EXCEPT ![c] =
                     IF own_succeeded(s) THEN "completed" ELSE "failed"]
    /\ UNCHANGED <<Held, work, waiting>>

\* GeneratorExit: the coroutine is finalized, only its scope is closed.
CloseOnly(c) ==
    /\ "close" \in Faults
    /\ At(c, "running")
    /\ work' = [work EXCEPT ![c] =
                  [p \in Pieces |->
                     IF p \in waiting[c] /\ @[p] \in {"queued", "running"}
                     THEN "raised" ELSE @[p]]]
    /\ scope' = [scope EXCEPT ![c] = close(@, FALSE)]
    /\ waiting' = [waiting EXCEPT ![c] = {}]
    /\ Goto(c, "over")
    /\ UNCHANGED <<Held, outcome>>

\* mark_completed / mark_failed, scoped to the claim.
Mark(c) ==
    /\ At(c, "mark")
    /\ record' = IF mark_lands(record, now, c)
                 THEN marked(outcome[c], now + MemoryTTL) ELSE record
    /\ Goto(c, "over")
    /\ UNCHANGED <<env, callVars, workVars>>

\* The mark fails: logged, and the claim is left to its window.
MarkFault(c) ==
    /\ "cache" \in Faults
    /\ At(c, "mark")
    /\ Turn(c, "over")

\* The process dies, and everything it runs with it.
Crash(c) ==
    /\ "crash" \in Faults
    /\ pc[c] # "idle"
    /\ \/ pc[c] # "over"
       \/ \E p \in Pieces : work[c][p] \in {"queued", "running"}
    /\ work' = [work EXCEPT ![c] = [p \in Pieces |->
                   IF @[p] \in {"queued", "running"} THEN "raised" ELSE @[p]]]
    /\ waiting' = [waiting EXCEPT ![c] = {}]
    /\ Goto(c, "over")
    /\ UNCHANGED <<env, record, callVars, scope>>

Tick ==
    /\ now < MaxTime
    /\ now' = now + 1
    /\ UNCHANGED <<record, skew, ttl, pc, callVars, workVars>>

-----------------------------------------------------------------------------
ClaimStep(c) ==
    \/ BuildRecord(c) \/ SetNx(c) \/ GetExisting(c) \/ TakeOver(c)
    \/ CacheFault(c) \/ CancelClaim(c)

RunStep(c) ==
    \/ StartAttempt(c) \/ Succeed(c) \/ AttemptRaised(c)
    \/ TimeOut(c) \/ TimeOutAsync(c) \/ GiveUp(c) \/ CloseOnly(c)

PieceStep(c) == RunPiece(c) \/ AbandonNested(c) \/ EndPiece(c)

Next ==
    \/ \E c \in Calls : \/ ClaimStep(c) \/ RunStep(c) \/ PieceStep(c)
                        \/ Mark(c) \/ MarkFault(c) \/ Crash(c)
    \/ Tick

Spec == Init /\ [][Next]_vars

\* Threads and tasks are scheduled, and a piece of work that runs ends.
Fairness ==
    \A c \in Calls :
        WF_vars(ClaimStep(c) \/ RunStep(c)) /\ WF_vars(PieceStep(c))
            /\ WF_vars(Mark(c))

FairSpec == Spec /\ Fairness

-----------------------------------------------------------------------------
(* Properties.                                                             *)

\* Something of c may still produce its side effect.
Active(c) == At(c, "running") \/ \E p \in Pieces : work[c][p] = "running"

\* When c began to claim, on the store's clock.
began(c) == started[c] - skew[c]

Claims(c) == pc[c] \in {"setnx", "setnx_again", "takeover"} /\ pc'[c] = "running"

\* The shortest execution window a call of the key asks for, counted from the
\* moment d began, is over.
WindowOver(d) == \E c \in Calls : now > began(d) + ttl[c]

\* No call is let through while work of another one under the same key still
\* runs, abandoned work included, before the execution window is over: the
\* key is neither released early by a failure mark nor taken over by a process
\* whose clock runs ahead.  A claim is judged by the window of the call that
\* wants the key, so where the calls ask for different windows the shortest
\* one counts.  (After a completed mark the memory window decides.)
WindowHonored ==
    [][\A c, d \in Calls :
          c # d /\ Claims(c) /\ Active(d)
          => \/ WindowOver(d)
             \/ At(d, "over") /\ outcome[d] = "completed"]_vars

\* A completed record blocks every repeat for its whole memory window:
\* neither a takeover nor a late mark of an earlier claim replaces it.
CompletedStands ==
    [][record.status = "completed" /\ is_live(record, now)
          => record' = record]_vars

\* A key is marked completed only if an attempt of the call that marks it
\* returned, at once or after it had been abandoned.
CompletedMeansReturned ==
    [][record'.status = "completed" /\ record' # record
          => \E c \in Calls : /\ At(c, "mark")
                              /\ \E p \in Own : work[c][p] = "returned"]_vars

\* A scope settles when nothing it could hold runs any more: no piece,
\* however deeply it was abandoned, outlives the settlement unseen.
NothingRunsUnheld ==
    \A c \in Calls : scope[c].sealed =>
        \A p \in Pieces : work[c][p] \notin {"queued", "running"}

\* A call whose mark waits for abandoned work does mark once that work ends.
DeferredMarkMade == \A c \in Calls : At(c, "deferred") ~> At(c, "over")

\* A deferred mark never waits for nothing: the scope keeps the callback that
\* makes it, and a piece whose end runs that callback is still running.
MarkOwed ==
    \A c \in Calls : At(c, "deferred") =>
        /\ scope[c].settles
        /\ \E p \in scope[c].running : work[c][p] = "running"

=============================================================================
