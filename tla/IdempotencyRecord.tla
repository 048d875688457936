-------------------------- MODULE IdempotencyRecord --------------------------
(***************************************************************************)
(* The record of one idempotency key in the cache, and the atomic cache    *)
(* operations the gate performs on it (adapters/cache/memory_adapter.py).  *)
(* A claim's identifier is the call that took it.                          *)
(***************************************************************************)
EXTENDS Integers

CONSTANTS
    Calls,                \* the calls that share the key
    ClockSkewTolerance    \* clock_skew_tolerance_seconds

ASSUME RecordAssumption ==
    "none" \notin Calls /\ ClockSkewTolerance \in Nat

NoRecord ==
    [status |-> "absent", claim_id |-> "none", started_at |-> 0, expires_at |-> 0]

\* Only a claim carries a claim_id and a started_at.
Record ==
    {NoRecord}
    \cup [status : {"executing"}, claim_id : Calls,
          started_at : Int, expires_at : Int]
    \cup [status : {"completed", "failed"}, claim_id : {"none"},
          started_at : {0}, expires_at : Int]

executing(c, started, expires) ==
    [status |-> "executing", claim_id |-> c,
     started_at |-> started, expires_at |-> expires]

\* The record a mark writes carries no claim_id.
marked(status, expires) ==
    [status |-> status, claim_id |-> "none",
     started_at |-> 0, expires_at |-> expires]

\* is_expired: strictly after its expiry.
is_live(r, now) == r.status # "absent" /\ now <= r.expires_at

\* Mutant: the threshold forgets the clock-skew margin.
stale_before_without_margin(clock, ttl) == clock - ttl

\* _stale_before, on the clock of the process that asks.
stale_before(clock, ttl) == clock - ttl - ClockSkewTolerance

\* Mutant: the takeover trusts the record the caller read.
takeable_unchecked(r, now, threshold) == TRUE

\* cas_takeover replaces a failed record or a stale claim.
takeable(r, now, threshold) ==
    /\ is_live(r, now)
    /\ \/ r.status = "failed"
       \/ r.status = "executing" /\ r.started_at < threshold

\* cas_dict_field on claim_id
mark_lands(r, now, c) == is_live(r, now) /\ r.claim_id = c

=============================================================================
