--------------------------- MODULE CircuitBreaker ---------------------------
(***************************************************************************)
(* One circuit breaker in one process: the service's admission and outcome *)
(* recording (services/circuit_breaker/service.py), the operator controls  *)
(* and the two periodic sweeps (manual_control.py, service.py), over the   *)
(* repository row and the outcome window.                                  *)
(*                                                                         *)
(* A caller is a thread that runs protected calls one after another.  The  *)
(* repository and the window each have a lock of their own and nothing     *)
(* holds both, so one step is one critical section of one of the two (or   *)
(* one lock-free read), and everything a thread carries from one section   *)
(* to the next may be stale when it is used.                               *)
(***************************************************************************)
EXTENDS CircuitBreakerRow, OutcomeWindow

CONSTANTS
    OverrideTTLs,   \* the override lifetimes an operator may choose
    Lanes,          \* which actors besides the callers are present
    MaxTime,        \* bound: the clock's last reading
    MaxCount        \* bound: no call starts once a counter of the row reaches it

ASSUME ServiceAssumption ==
    /\ OverrideTTLs \subseteq Nat \ {0}
    /\ MaxTime \in Nat
    /\ MaxCount \in Nat

VARIABLES
    row,        \* the stored row (repository)
    win,        \* the outcome window
    now,        \* the clock
    frozen,     \* the automatic-transition freeze is in force
    pc,         \* pc[t]: the next critical section of caller t
    held,       \* held[t]: the row caller t read or got back last
    fired,      \* fired[t]: t made a transition it has yet to announce
    probes,     \* trial calls admitted since the half-open window began
    op,         \* the operator's next critical section
    op_row,     \* the row the operator read
    sweeping,   \* the recovery sweep holds a due snapshot of the row
    expiring    \* the expiry sweep found the override lapsed

callerVars == <<pc, held, fired>>
laneVars == <<op, op_row, sweeping, expiring>>
vars == <<row, win, now, frozen, callerVars, probes, laneVars>>

CallerPc ==
    {"idle", "adm_read", "adm_decide", "acquire", "trial", "denied", "reject",
     "running", "succ_read", "succ_decide", "succ_close", "succ_append",
     "succ_reset", "fail_read", "fail_decide", "fail_open", "fail_begin",
     "fail_record", "fail_end", "fail_observe", "fail_append",
     "fail_evaluate", "trip", "trip_clear", "observe_attempt"}

OperatorPc == {"idle", "clear", "reset_slots", "reset_clear", "extend", "bump"}

\* The type of every variable.
TypeOK ==
    /\ row \in CircuitBreakerStateData
    /\ win \in Window
    /\ now \in 0..MaxTime
    /\ frozen \in BOOLEAN
    /\ pc \in [Callers -> CallerPc]
    /\ held \in [Callers -> CircuitBreakerStateData]
    /\ fired \in [Callers -> BOOLEAN]
    /\ probes \in Nat
    /\ op \in OperatorPc
    /\ op_row \in CircuitBreakerStateData
    /\ sweeping \in BOOLEAN
    /\ expiring \in BOOLEAN

Init ==
    /\ row = NewRow
    /\ win = NewWindow
    /\ now = 0
    /\ frozen = FALSE
    /\ pc = [t \in Callers |-> "idle"]
    /\ held = [t \in Callers |-> NewRow]
    /\ fired = [t \in Callers |-> FALSE]
    /\ probes = 0
    /\ op = "idle"
    /\ op_row = NewRow
    /\ sweeping = FALSE
    /\ expiring = FALSE

-----------------------------------------------------------------------------
(* Shorthands for the steps of a caller.                                   *)

env == <<now, frozen, laneVars>>

At(t, label) == pc[t] = label

Goto(t, label) ==
    pc' = [pc EXCEPT ![t] = label] /\ UNCHANGED env

\* The call is over: what the caller held goes out of scope.
Finish(t) ==
    /\ Goto(t, "idle")
    /\ held' = [held EXCEPT ![t] = NewRow]
    /\ fired' = [fired EXCEPT ![t] = FALSE]

Keep == UNCHANGED <<held, fired>>

Hold(t, r) == held' = [held EXCEPT ![t] = r]

\* The stored row is replaced; probes restarts with each half-open window.
Store(r) ==
    /\ row' = r
    /\ probes' = IF row.state = "half_open" /\ r.state = "half_open"
                 THEN probes ELSE 0

RowKept == UNCHANGED <<row, probes>>

\* Observe the held state under the epoch captured before it was read.
observe_read(t) == observe_state(win, held[t].state, is_current(win, t))

-----------------------------------------------------------------------------
(* Admission: _evaluate_admission.                                         *)

StartCall(t) ==
    /\ At(t, "idle")
    /\ row.failure_count < MaxCount
    /\ row.success_count < MaxCount
    /\ win' = epoch_of(win, t)
    /\ Goto(t, "adm_read")
    /\ Keep /\ RowKept

ReadRow(t, from, to) ==
    /\ At(t, from)
    /\ Hold(t, row)
    /\ Goto(t, to)
    /\ RowKept /\ UNCHANGED <<win, fired>>

AdmitClosed(t) ==
    /\ At(t, "adm_decide")
    /\ held[t].state = "closed"
    /\ win' = observe_read(t)
    /\ Goto(t, "running")
    /\ Keep /\ RowKept

AdmitNotClosed(t) ==
    /\ At(t, "adm_decide")
    /\ held[t].state # "closed"
    /\ win' = observe_read(t)
    /\ Goto(t, IF admission_refusal_reason(held[t], now, frozen) = "none"
               THEN "acquire" ELSE "reject")
    /\ Keep /\ RowKept

AcquireSlot(t) ==
    LET after == try_acquire_half_open_slot(row, now) IN
    /\ At(t, "acquire")
    /\ row' = after
    /\ probes' = IF starts_window(row, now) THEN 1
                 ELSE IF slot_allowed(row, now) THEN probes + 1 ELSE probes
    /\ Hold(t, [held[t] EXCEPT !.state = after.state])
    /\ fired' = [fired EXCEPT ![t] = row.state # after.state]
    /\ Goto(t, IF slot_allowed(row, now) THEN "trial" ELSE "denied")
    /\ UNCHANGED win

\* The trial call carries no epoch: its success always takes the slow path.
StartTrial(t) ==
    /\ At(t, "trial")
    /\ win' = forget_epoch(observe_state(win, held[t].state, TRUE), t)
    /\ Hold(t, [NewRow EXCEPT !.state = held[t].state])
    /\ fired' = [fired EXCEPT ![t] = FALSE]
    /\ Goto(t, "running")
    /\ RowKept

DenySlot(t) ==
    /\ At(t, "denied")
    /\ held[t].state # "closed"
    /\ win' = observe_state(win, held[t].state, TRUE)
    /\ Goto(t, "reject")
    /\ Keep /\ RowKept

\* The row was closed by someone else meanwhile: a refusal, but no evidence.
DenyClosed(t) ==
    /\ At(t, "denied")
    /\ held[t].state = "closed"
    /\ win' = forget_epoch(observe_state(win, held[t].state, TRUE), t)
    /\ Finish(t)
    /\ RowKept

RecordRejection(t) ==
    /\ At(t, "reject")
    /\ win' = forget_epoch(IF is_manual_pin_active(held[t], now) THEN win
                           ELSE record_rejection(win), t)
    /\ Finish(t)
    /\ RowKept

\* A cancelled call records no outcome and gives its trial slot back to
\* nobody.
CancelCall(t) ==
    /\ At(t, "running")
    /\ win' = forget_epoch(win, t)
    /\ Finish(t)
    /\ RowKept

-----------------------------------------------------------------------------
(* record_success.                                                         *)

MayAppendReadFree(t) ==
    /\ held[t].state = "closed"
    /\ ~is_manual_pin_active(held[t], now)
    /\ held[t].failure_count = 0
    /\ may_append_read_free(win, t)

SucceedReadFree(t) ==
    /\ At(t, "running")
    /\ MayAppendReadFree(t)
    /\ win' = forget_epoch(record_success_if_epoch(win, t), t)
    /\ Finish(t)
    /\ RowKept

SucceedSlow(t) ==
    /\ At(t, "running")
    /\ ~MayAppendReadFree(t)
    /\ win' = epoch_of(win, t)
    /\ Goto(t, "succ_read")
    /\ Keep /\ RowKept

\* A pinned row, an OPEN row and a frozen half-open row record nothing.
SuccessIgnored(t) ==
    \/ is_manual_pin_active(held[t], now)
    \/ held[t].state = "open"
    \/ held[t].state = "half_open" /\ frozen

DecideSuccess(t) ==
    /\ At(t, "succ_decide")
    /\ IF SuccessIgnored(t)
       THEN win' = forget_epoch(observe_read(t), t) /\ Finish(t)
       ELSE /\ win' = observe_read(t)
            /\ Goto(t, IF held[t].state = "half_open"
                       THEN "succ_close" ELSE "succ_append")
            /\ Keep
    /\ RowKept

CloseCheck(t) ==
    LET after == record_success_with_close_check(row) IN
    /\ At(t, "succ_close")
    /\ Store(after)
    /\ Hold(t, after)
    /\ fired' = [fired EXCEPT ![t] = did_close(row)]
    /\ Goto(t, "observe_attempt")
    /\ UNCHANGED win

AppendSuccess(t) ==
    /\ At(t, "succ_append")
    /\ win' = forget_epoch(record_success_if_epoch(win, t), t)
    /\ IF held[t].failure_count = 0 THEN Finish(t)
       ELSE Goto(t, "succ_reset") /\ Keep
    /\ RowKept

ResetFailures(t) ==
    /\ At(t, "succ_reset")
    /\ Store(reset_failures_keep_open(row))
    /\ Finish(t)
    /\ UNCHANGED win

\* The result of an atomic primitive is observed without as_of, and the
\* transition it made, if any, is announced (audit entry and event).
ObserveAttempt(t) ==
    /\ At(t, "observe_attempt")
    /\ win' = forget_epoch(observe_state(win, held[t].state, TRUE), t)
    /\ Finish(t)
    /\ RowKept

-----------------------------------------------------------------------------
(* record_failure and _trip_circuit_open.                                  *)

Fail(t) ==
    /\ At(t, "running")
    /\ win' = epoch_of(win, t)
    /\ Goto(t, "fail_read")
    /\ Keep /\ RowKept

\* Mutant: the half-open failure path skips the freeze check.
FailureIgnored_unfrozen(t) == is_manual_pin_active(held[t], now)

FailureIgnored(t) ==
    \/ is_manual_pin_active(held[t], now)
    \/ held[t].state = "half_open" /\ frozen

DecideFailure(t) ==
    /\ At(t, "fail_decide")
    /\ win' = forget_epoch(observe_read(t), t)
    /\ IF FailureIgnored(t) THEN Finish(t)
       ELSE /\ Goto(t, IF held[t].state = "half_open"
                       THEN "fail_open" ELSE "fail_begin")
            /\ Keep
    /\ RowKept

OpenCheck(t) ==
    LET after == record_failure_with_open_check(row, now) IN
    /\ At(t, "fail_open")
    /\ Store(after)
    /\ Hold(t, after)
    /\ fired' = [fired EXCEPT ![t] = did_open(row)]
    /\ Goto(t, "observe_attempt")
    /\ UNCHANGED win

BeginWrite(t) ==
    /\ At(t, "fail_begin")
    /\ win' = begin_write(win, t)
    /\ Goto(t, "fail_record")
    /\ Keep /\ RowKept

CountFailure(t) ==
    /\ At(t, "fail_record")
    /\ Store(record_failure(row))
    /\ Hold(t, record_failure(row))
    /\ Goto(t, "fail_end")
    /\ UNCHANGED <<win, fired>>

EndWrite(t) ==
    /\ At(t, "fail_end")
    /\ win' = end_write(win, t)
    /\ Goto(t, "fail_observe")
    /\ Keep /\ RowKept

\* Only a row still CLOSED is rate evidence, and only it can trip.
ObserveCounted(t) ==
    /\ At(t, "fail_observe")
    /\ win' = observe_state(win, held[t].state, TRUE)
    /\ IF held[t].state = "closed" THEN Goto(t, "fail_append") /\ Keep
       ELSE Finish(t)
    /\ RowKept

AppendFailure(t) ==
    /\ At(t, "fail_append")
    /\ win' = record_outcome_failure(win)
    /\ Goto(t, "fail_evaluate")
    /\ Keep /\ RowKept

EvaluateTrip(t) ==
    /\ At(t, "fail_evaluate")
    /\ IF evaluate_trip(win, held[t].failure_count) /\ ~frozen
       THEN Goto(t, "trip") /\ Keep
       ELSE Finish(t)
    /\ RowKept /\ UNCHANGED win

Trip(t) ==
    LET after == trip_to_open(row, held[t].failure_count, now) IN
    /\ At(t, "trip")
    /\ Store(after)
    /\ Hold(t, after)
    /\ fired' = [fired EXCEPT ![t] = did_trip(row, now)]
    /\ Goto(t, IF is_manual_pin_active(row, now)
               THEN "trip_clear" ELSE "observe_attempt")
    /\ UNCHANGED win

ClearAfterPinnedTrip(t) ==
    /\ At(t, "trip_clear")
    /\ win' = clear(win)
    /\ Finish(t)
    /\ RowKept

-----------------------------------------------------------------------------
(* Operator controls: each is a sequence of critical sections too.         *)

OperatorGoto(label) ==
    op' = label /\ UNCHANGED <<now, frozen, callerVars, sweeping, expiring>>

ForceOpen ==
    /\ op = "idle" /\ "force_open" \in Lanes
    /\ \E ttl \in OverrideTTLs : Store(atomic_force_open(row, now, ttl))
    /\ OperatorGoto("clear")
    /\ UNCHANGED <<win, op_row>>

ForceClose ==
    /\ op = "idle" /\ "force_close" \in Lanes
    /\ \E ttl \in OverrideTTLs : Store(atomic_force_close(row, now, ttl))
    /\ OperatorGoto("clear")
    /\ UNCHANGED <<win, op_row>>

Reset ==
    /\ op = "idle" /\ "reset" \in Lanes
    /\ Store(atomic_reset(row))
    /\ OperatorGoto("reset_clear")
    /\ UNCHANGED <<win, op_row>>

ClearAfterForce ==
    /\ op = "clear"
    /\ win' = clear(win)
    /\ OperatorGoto("reset_slots")
    /\ RowKept /\ UNCHANGED op_row

ResetSlotsAfterForce ==
    /\ op = "reset_slots"
    /\ Store(reset_half_open_count(row))
    /\ OperatorGoto("idle")
    /\ UNCHANGED <<win, op_row>>

ClearAfterReset ==
    /\ op = "reset_clear"
    /\ win' = clear(win)
    /\ OperatorGoto("idle")
    /\ RowKept /\ UNCHANGED op_row

\* extend_manual_override reads the row (bound: an override that already
\* outlives the modelled time is not extended), ...
ReadForExtension ==
    /\ op = "idle" /\ "extend" \in Lanes
    /\ row.manually_controlled
    /\ row.manual_override_expires_at <= MaxTime
    /\ op_row' = row
    /\ OperatorGoto("extend")
    /\ RowKept /\ UNCHANGED win

\* ... writes back the state it read with a later expiry, ...
WriteExtension ==
    LET expiry == op_row.manual_override_expires_at
        base == IF expiry = None \/ expiry < now THEN now ELSE expiry
    IN
    /\ op = "extend"
    /\ \E ttl \in OverrideTTLs :
          Store(set_manual_control(row, op_row.state, base + ttl, now))
    /\ op_row' = NewRow
    /\ OperatorGoto("bump")
    /\ UNCHANGED win

\* ... and moves the epoch.
BumpAfterExtension ==
    /\ op = "bump"
    /\ win' = bump(win)
    /\ OperatorGoto("idle")
    /\ RowKept /\ UNCHANGED op_row

\* manual_control("auto"): the flag is cleared and nothing else.
ReturnToAuto ==
    /\ op = "idle" /\ "auto" \in Lanes
    /\ Store(clear_manual_control(row))
    /\ OperatorGoto("idle")
    /\ UNCHANGED <<win, op_row>>

-----------------------------------------------------------------------------
(* Periodic sweeps.                                                        *)

SweepKeeps == UNCHANGED <<win, now, frozen, callerVars, op, op_row>>

\* check_recovery_transitions: filter a snapshot, ask the freeze once, ...
SnapshotForRecovery ==
    /\ "recovery" \in Lanes /\ ~sweeping
    /\ is_due_for_recovery(row, now) /\ ~frozen
    /\ sweeping' = TRUE
    /\ RowKept /\ SweepKeeps /\ UNCHANGED expiring

\* ... then write each due row.
MoveToHalfOpen ==
    /\ sweeping
    /\ Store(update_state_half_open(row))
    /\ sweeping' = FALSE
    /\ SweepKeeps /\ UNCHANGED expiring

\* check_and_expire_manual_overrides: revalidate against the stored row, ...
RevalidateLapsed ==
    /\ "expiry" \in Lanes /\ ~expiring
    /\ row.manually_controlled
    /\ ~is_manual_pin_active(row, now)
    /\ ~is_pin_lift_due(row, now)
    /\ expiring' = TRUE
    /\ RowKept /\ SweepKeeps /\ UNCHANGED sweeping

\* ... then clear the flag.
ClearLapsed ==
    /\ expiring
    /\ Store(clear_manual_control(row))
    /\ expiring' = FALSE
    /\ SweepKeeps /\ UNCHANGED sweeping

-----------------------------------------------------------------------------
Tick ==
    /\ now < MaxTime
    /\ now' = now + 1
    /\ UNCHANGED <<row, win, frozen, callerVars, probes, laneVars>>

\* Freeze mode is switched by the governance layer, outside this component.
ToggleFreeze ==
    /\ "freeze" \in Lanes
    /\ frozen' = ~frozen
    /\ UNCHANGED <<row, win, now, callerVars, probes, laneVars>>

Admission(t) ==
    \/ StartCall(t)
    \/ ReadRow(t, "adm_read", "adm_decide")
    \/ AdmitClosed(t) \/ AdmitNotClosed(t)
    \/ AcquireSlot(t) \/ StartTrial(t)
    \/ DenySlot(t) \/ DenyClosed(t) \/ RecordRejection(t)

Success(t) ==
    \/ SucceedReadFree(t) \/ SucceedSlow(t)
    \/ ReadRow(t, "succ_read", "succ_decide")
    \/ DecideSuccess(t) \/ CloseCheck(t)
    \/ AppendSuccess(t) \/ ResetFailures(t)

Failure(t) ==
    \/ Fail(t)
    \/ ReadRow(t, "fail_read", "fail_decide")
    \/ DecideFailure(t) \/ OpenCheck(t)
    \/ BeginWrite(t) \/ CountFailure(t) \/ EndWrite(t)
    \/ ObserveCounted(t) \/ AppendFailure(t) \/ EvaluateTrip(t)
    \/ Trip(t) \/ ClearAfterPinnedTrip(t)

CallerStep(t) ==
    Admission(t) \/ Success(t) \/ Failure(t) \/ ObserveAttempt(t)
        \/ CancelCall(t)

OperatorStep ==
    \/ ForceOpen \/ ForceClose \/ Reset
    \/ ClearAfterForce \/ ResetSlotsAfterForce \/ ClearAfterReset
    \/ ReadForExtension \/ WriteExtension \/ BumpAfterExtension
    \/ ReturnToAuto

SweepStep ==
    \/ SnapshotForRecovery \/ MoveToHalfOpen
    \/ RevalidateLapsed \/ ClearLapsed

Next ==
    \/ \E t \in Callers : CallerStep(t)
    \/ OperatorStep
    \/ SweepStep
    \/ Tick
    \/ ToggleFreeze

Spec == Init /\ [][Next]_vars

\* Threads are scheduled, calls return or are cancelled, traffic keeps
\* arriving and time passes.
Fairness ==
    /\ WF_vars(Tick)
    /\ \A t \in Callers : WF_vars(CallerStep(t))

FairSpec == Spec /\ Fairness

-----------------------------------------------------------------------------
(* Properties.                                                             *)

StepOf(t) == pc'[t] # pc[t]

OperatorMoves == op' # op \/ op_row' # op_row

\* An operator's override is in force on the stored row.
Pinned == is_manual_pin_active(row, now)

\* Whatever a caller carries from a stale read, its step moves the stored
\* row only along the breaker's diagram.  In particular a success that was
\* admitted CLOSED never turns a trip that landed meanwhile back to CLOSED
\* (record_success: "a success never erases a trip").
CallersFollowDiagram ==
    [][\A t \in Callers : StepOf(t) =>
          \/ row'.state = row.state
          \/ <<row.state, row'.state>> \in
                {<<"closed", "open">>, <<"open", "half_open">>,
                 <<"half_open", "open">>, <<"half_open", "closed">>}]_vars

\* A caller announces a transition exactly when its own step made it: of the
\* callers racing on one transition, one emits the event (did_open and
\* did_close are the single-fire gates), and no transition goes unannounced.
AnnouncedByItsMaker ==
    [][\A t \in Callers : StepOf(t) =>
          (fired'[t] /\ ~fired[t] <=> row'.state # row.state)]_vars

\* The read-free success path never skips a consecutive-count reset that is
\* due: when it appends against a CLOSED row, the stored count is zero, even
\* though the row it decided on was read before the call ran
\* (record_success: the reset "is never skipped on a count that has since
\* climbed").
ResetNeverSkipped ==
    [][\A t \in Callers :
          At(t, "running") /\ MayAppendReadFree(t) /\ pc'[t] = "idle"
             /\ win'.ring # win.ring /\ row.state = "closed"
          => row.failure_count = 0]_vars

\* An operator's Allow stands until it lapses: no caller moves a pinned CLOSED
\* row, however late a failure decided before the override arrives at its trip
\* (trip_to_open's pin check).  Only the operator does, and the recovery sweep,
\* whose update_state writes HALF_OPEN over whatever became of its snapshot.
AllowStands ==
    [][row.state = "closed" /\ Pinned /\ row'.state # "closed"
          => OperatorMoves \/ (sweeping /\ row'.state = "half_open")]_vars

\* A half-open window admits at most half_open_max_calls trial calls between
\* its start (or its stuck-window restart) and its end.
ProbeBudget == row.state = "half_open" => probes <= HalfOpenMaxCalls

\* The stamps from which recovery is computed are there, and none is ahead of
\* the clock: an OPEN row has the time its cool-down began, without which no
\* admission would ever leave OPEN, and a row with trial slots taken has the
\* time its window began, so that a full window can be judged stuck.
StampsPresent ==
    /\ row.state = "open" => row.opened_at \in 0..now
    /\ row.half_open_request_count > 0 => row.half_open_window_started_at \in 0..now

Decided == {"acquire", "succ_close", "fail_open", "trip"}

\* Freeze mode holds every breaker in its state: a caller or sweep that had
\* not passed its freeze check when the freeze began passes none while it
\* lasts, so once the ones already past it are through, only an operator
\* moves the row.
FreezeHolds ==
    [][frozen /\ frozen' =>
          /\ \A t \in Callers : pc'[t] \in Decided => pc[t] \in Decided
          /\ sweeping' => sweeping
          /\ (\A t \in Callers : pc[t] \notin Decided) /\ ~sweeping
                => row'.state = row.state \/ OperatorMoves]_vars

\* Past the count of a failure, on the way to the trip it may call for.
Tripping == {"fail_end", "fail_observe", "fail_append", "fail_evaluate", "trip"}

\* A CLOSED row whose consecutive count has reached the threshold is never left
\* to itself: a caller that counted up to the threshold is on its way to the
\* trip, whatever successes, trips and recoveries interleave with it.
TripOwed ==
    row.state = "closed" /\ row.failure_count >= FailureThreshold =>
        \E t \in Callers : /\ pc[t] \in Tripping
                           /\ held[t].state = "closed"
                           /\ held[t].failure_count >= FailureThreshold

\* A consecutive-failure count at the threshold is acted on: the caller that
\* counted it trips the breaker unless the row has moved or the count has
\* been reset meanwhile.
ThresholdTrips ==
    (row.state = "closed" /\ row.failure_count >= FailureThreshold) ~>
        (row.state # "closed" \/ row.failure_count < FailureThreshold)

\* An OPEN breaker whose cool-down ends is probed by the traffic that keeps
\* arriving; no sweep is needed for it.
OpenIsProbed ==
    (row.state = "open" /\ row.opened_at + RecoveryTimeout <= MaxTime) ~>
        (row.state # "open")

\* A full half-open window is left or restarted even if every one of its
\* trial calls was cancelled and reported nothing.  Windows that start too
\* late to become stuck before the clock's bound are left out.
FullWindowEnds ==
    LET full ==
          /\ row.state = "half_open"
          /\ row.half_open_request_count >= HalfOpenMaxCalls
          /\ row.half_open_window_started_at \in 0..(MaxTime - StuckTimeout - 1)
    IN  full ~> ~full

=============================================================================
