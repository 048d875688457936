--------------------------- MODULE OutcomeWindow ---------------------------
(***************************************************************************)
(* The per-process call-outcome window of one service name                 *)
(* (services/circuit_breaker/outcome_window.py) and the trip predicate.    *)
(*                                                                         *)
(* Every mutation takes the window's one lock, so each method is a         *)
(* function from window to window.  The epoch only grows and is only ever  *)
(* compared for equality with a value a caller captured earlier; the model *)
(* keeps exactly that comparison: current is the set of callers whose      *)
(* captured epoch still equals the window's.  Moving the epoch empties it. *)
(* The in-flight counter is kept as the set of callers inside the bracket. *)
(***************************************************************************)
EXTENDS Integers, Sequences, FiniteSets

CONSTANTS
    Callers,                \* the threads that share the window
    WindowSize,             \* sliding_window_size
    FailureThreshold,       \* failure_threshold: consecutive failures
    FailureRateThreshold,   \* failure_rate_threshold, in percent; 0 disables
    MinimumCalls            \* minimum_calls

ASSUME WindowAssumption ==
    /\ WindowSize \in Nat
    /\ FailureThreshold \in Nat \ {0}
    /\ FailureRateThreshold \in 0..100
    /\ MinimumCalls \in Nat

FAILURE_OUTCOME == 1
SUCCESS_OUTCOME == 0

Window ==
    [ring      : Seq({FAILURE_OUTCOME, SUCCESS_OUTCOME}),
     last_seen : {"none", "closed", "open", "half_open"},
     in_flight : SUBSET Callers,
     current   : SUBSET Callers]

NewWindow ==
    [ring |-> <<>>, last_seen |-> "none", in_flight |-> {}, current |-> {}]

\* epoch_of: the caller captures the epoch.
epoch_of(w, t) == [w EXCEPT !.current = @ \cup {t}]

\* The caller's capture goes out of scope.
forget_epoch(w, t) == [w EXCEPT !.current = @ \ {t}]

is_current(w, t) == t \in w.current

bump(w) == [w EXCEPT !.current = {}]

\* A deque with maxlen drops its leftmost outcome when it overflows.
append_outcome(w, outcome) ==
    [w EXCEPT !.ring = IF Len(@) < WindowSize THEN Append(@, outcome)
                       ELSE Tail(Append(@, outcome))]

record_rejection(w) == append_outcome(w, FAILURE_OUTCOME)

record_outcome_failure(w) == bump(append_outcome(w, FAILURE_OUTCOME))

\* Mutant: the fast path ignores a failure write in flight.
may_append_read_free_ignoring_writes(w, t) == is_current(w, t)

\* record_success_if_epoch with require_no_write_in_flight
may_append_read_free(w, t) == w.in_flight = {} /\ is_current(w, t)

record_success_if_epoch(w, t) ==
    IF is_current(w, t) THEN append_outcome(w, SUCCESS_OUTCOME) ELSE w

begin_write(w, t) == [w EXCEPT !.in_flight = @ \cup {t}]

end_write(w, t) == bump([w EXCEPT !.in_flight = @ \ {t}])

clear(w) == bump([w EXCEPT !.ring = <<>>])

\* valid: no as_of was given, or the epoch has not moved since it was read.
observe_state(w, st, valid) ==
    IF w.last_seen = st \/ ~valid THEN w
    ELSE IF w.last_seen = "none" THEN [w EXCEPT !.last_seen = st]
    ELSE bump([w EXCEPT !.last_seen = st,
                        !.ring = IF st = "closed" THEN <<>> ELSE @])

window_failures(w) ==
    Cardinality({i \in DOMAIN w.ring : w.ring[i] = FAILURE_OUTCOME})

\* Mutant: the count must exceed the threshold.
evaluate_trip_strict(w, consecutive) ==
    \/ /\ FailureRateThreshold > 0
       /\ Len(w.ring) > 0
       /\ Len(w.ring) >= MinimumCalls
       /\ window_failures(w) * 100 >= FailureRateThreshold * Len(w.ring)
    \/ consecutive > FailureThreshold

evaluate_trip(w, consecutive) ==
    \/ /\ FailureRateThreshold > 0
       /\ Len(w.ring) > 0
       /\ Len(w.ring) >= MinimumCalls
       /\ window_failures(w) * 100 >= FailureRateThreshold * Len(w.ring)
    \/ consecutive >= FailureThreshold

=============================================================================
