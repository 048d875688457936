------------------------- MODULE CircuitBreakerRow -------------------------
(***************************************************************************)
(* The stored circuit-breaker row of one service name and the primitives   *)
(* of the in-memory repository (adapters/memory/circuit_breaker.py).       *)
(*                                                                         *)
(* Every repository method holds the adapter's lock from its first read to *)
(* its last write, so a primitive is a function from the stored row (and   *)
(* the clock) to the row it leaves behind.  Times are clock readings; None *)
(* is the absent timestamp.  Audit columns (controlled_by, reason,         *)
(* last_failure_at, updated_at) decide nothing and are left out.           *)
(***************************************************************************)
EXTENDS Integers

CONSTANTS
    HalfOpenMaxCalls,   \* half_open_max_calls: trial slots per window
    StuckTimeout,       \* half_open_stuck_timeout_seconds
    RecoveryTimeout,    \* recovery_timeout: cool-down of an OPEN row
    SuccessThreshold    \* success_threshold: trial successes that close

ASSUME RowAssumption ==
    /\ HalfOpenMaxCalls \in Nat \ {0}
    /\ StuckTimeout \in Nat
    /\ RecoveryTimeout \in Nat
    /\ SuccessThreshold \in Nat \ {0}

None == -1

CircuitState == {"closed", "open", "half_open"}

Timestamp == Nat \cup {None}

CircuitBreakerStateData ==
    [state                       : CircuitState,
     failure_count               : Nat,
     success_count               : Nat,
     opened_at                   : Timestamp,
     manually_controlled         : BOOLEAN,
     manual_override_expires_at  : Timestamp,
     half_open_request_count     : Nat,
     half_open_window_started_at : Timestamp]

NewRow ==
    [state                       |-> "closed",
     failure_count               |-> 0,
     success_count               |-> 0,
     opened_at                   |-> None,
     manually_controlled         |-> FALSE,
     manual_override_expires_at  |-> None,
     half_open_request_count     |-> 0,
     half_open_window_started_at |-> None]

-----------------------------------------------------------------------------
(* Reading a row: the override rules and the recovery gate.                *)

is_manual_pin_active(r, now) ==
    /\ r.manually_controlled
    /\ \/ r.manual_override_expires_at = None
       \/ r.manual_override_expires_at > now

is_operator_block_in_force(r, now) ==
    r.state = "open" /\ is_manual_pin_active(r, now)

\* A lapsed operator block nobody has lifted yet: the OPEN was written no
\* later than the override's expiry.
is_pin_lift_due(r, now) ==
    /\ r.manually_controlled
    /\ r.state = "open"
    /\ r.manual_override_expires_at # None
    /\ r.manual_override_expires_at <= now
    /\ \/ r.opened_at = None
       \/ r.opened_at <= r.manual_override_expires_at

\* Mutant: the cool-down must be exceeded, not reached.
admission_refusal_reason_strict(r, now, frozen) ==
    IF \/ is_operator_block_in_force(r, now)
       \/ /\ r.state = "open"
          /\ ~is_pin_lift_due(r, now)
          /\ \/ r.opened_at = None
             \/ now - r.opened_at <= RecoveryTimeout
    THEN "open"
    ELSE IF frozen THEN "frozen" ELSE "none"

\* _admission_refusal_reason: "none" lets the call try for a trial slot.
admission_refusal_reason(r, now, frozen) ==
    IF \/ is_operator_block_in_force(r, now)
       \/ /\ r.state = "open"
          /\ ~is_pin_lift_due(r, now)
          /\ \/ r.opened_at = None
             \/ now - r.opened_at < RecoveryTimeout
    THEN "open"
    ELSE IF frozen THEN "frozen" ELSE "none"

\* The recovery sweep's filter: it reads the raw flag, not the predicate.
is_due_for_recovery(r, now) ==
    /\ r.state = "open"
    /\ ~r.manually_controlled
    /\ r.opened_at # None
    /\ now - r.opened_at >= RecoveryTimeout

-----------------------------------------------------------------------------
(* Automatic primitives.                                                   *)

record_failure(r) == [r EXCEPT !.failure_count = @ + 1]

\* Mutant: the reset writes CLOSED over whatever is stored.
reset_failures_over_trip(r) ==
    [r EXCEPT !.state = "closed", !.failure_count = 0]

\* update_state("closed", failure_count = 0, keep_open = True)
reset_failures_keep_open(r) ==
    IF r.state = "closed" THEN [r EXCEPT !.failure_count = 0] ELSE r

\* update_state("half_open", success_count = 0): no guard on the stored row.
update_state_half_open(r) ==
    [r EXCEPT !.state = "half_open", !.success_count = 0]

did_open(r) == r.state = "half_open"

record_failure_with_open_check(r, now) ==
    IF did_open(r)
    THEN [r EXCEPT !.state = "open",
                   !.failure_count = 0,
                   !.success_count = 0,
                   !.opened_at = now,
                   !.half_open_request_count = 0,
                   !.half_open_window_started_at = None]
    ELSE r

\* Mutant: the close check forgets the stored state.
did_close_any_state(r) == r.success_count + 1 >= SuccessThreshold

did_close(r) ==
    r.state = "half_open" /\ r.success_count + 1 >= SuccessThreshold

record_success_with_close_check(r) ==
    IF did_close(r)
    THEN [r EXCEPT !.state = "closed",
                   !.failure_count = 0,
                   !.success_count = 0,
                   !.opened_at = None,
                   !.half_open_request_count = 0,
                   !.half_open_window_started_at = None]
    ELSE [r EXCEPT !.success_count = @ + 1]

\* Mutant: the trip forgets the override.
did_trip_over_pin(r, now) == r.state = "closed"

did_trip(r, now) == r.state = "closed" /\ ~is_manual_pin_active(r, now)

\* A trip replaces a lapsed override by a plain automatic OPEN.
trip_to_open(r, failures, now) ==
    IF did_trip(r, now)
    THEN [state                       |-> "open",
          failure_count               |-> failures,
          success_count               |-> 0,
          opened_at                   |-> now,
          manually_controlled         |-> FALSE,
          manual_override_expires_at  |-> None,
          half_open_request_count     |-> 0,
          half_open_window_started_at |-> None]
    ELSE r

\* Mutant: only a missing watermark counts as stuck.
is_window_stuck_without_age(r, now) ==
    /\ r.state = "half_open"
    /\ r.half_open_request_count >= HalfOpenMaxCalls
    /\ r.half_open_window_started_at = None

\* A maxed-out window whose trial calls never reported back.
is_window_stuck(r, now) ==
    /\ r.state = "half_open"
    /\ r.half_open_request_count >= HalfOpenMaxCalls
    /\ \/ r.half_open_window_started_at = None
       \/ now - r.half_open_window_started_at > StuckTimeout

starts_window(r, now) == r.state = "open" \/ is_window_stuck(r, now)

\* Mutant: off by one at the limit.
slot_allowed_at_limit(r, now) ==
    \/ starts_window(r, now)
    \/ r.state = "half_open" /\ r.half_open_request_count <= HalfOpenMaxCalls

slot_allowed(r, now) ==
    \/ starts_window(r, now)
    \/ r.state = "half_open" /\ r.half_open_request_count < HalfOpenMaxCalls

try_acquire_half_open_slot(r, now) ==
    IF starts_window(r, now)
    THEN [r EXCEPT !.state = "half_open",
                   !.success_count = 0,
                   !.half_open_request_count = 1,
                   !.half_open_window_started_at = now]
    ELSE IF slot_allowed(r, now)
         THEN [r EXCEPT !.half_open_request_count = @ + 1,
                        !.half_open_window_started_at = IF @ = None THEN now ELSE @]
         ELSE r

\* Mutant: the reset forgets the count.
reset_half_open_count_watermark_only(r) ==
    [r EXCEPT !.half_open_window_started_at = None]

reset_half_open_count(r) ==
    [r EXCEPT !.half_open_request_count = 0,
              !.half_open_window_started_at = None]

-----------------------------------------------------------------------------
(* Operator primitives.                                                    *)

atomic_force_open(r, now, ttl) ==
    [reset_half_open_count(r) EXCEPT
        !.state = "open",
        !.opened_at = now,
        !.manually_controlled = TRUE,
        !.manual_override_expires_at = now + ttl]

atomic_force_close(r, now, ttl) ==
    [NewRow EXCEPT
        !.manually_controlled = TRUE,
        !.manual_override_expires_at = now + ttl]

atomic_reset(r) == NewRow

set_manual_control(r, st, expires, now) ==
    [r EXCEPT !.state = st,
              !.opened_at = IF st = "open" THEN now ELSE @,
              !.manually_controlled = TRUE,
              !.manual_override_expires_at = expires]

clear_manual_control(r) ==
    [r EXCEPT !.manually_controlled = FALSE,
              !.manual_override_expires_at = None]

=============================================================================
