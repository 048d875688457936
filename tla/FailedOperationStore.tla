------------------------ MODULE FailedOperationStore ------------------------
(***************************************************************************)
(* One dead-letter entry and the operations of its repository that a       *)
(* replay uses (adapters/memory/failed_operation.py).  Each runs under the *)
(* repository's lock, so each is one atomic change of the entry.           *)
(***************************************************************************)
EXTENDS Integers

CONSTANTS
    MaxReplayAttempts,    \* max_replay_attempts, the cap an acquisition asks
    CapturedCaps          \* its values when the entry may have been captured

ASSUME StoreAssumption ==
    MaxReplayAttempts \in Nat \ {0} /\ CapturedCaps \subseteq Nat \ {0}

Status == {"pending", "replaying", "resolved", "requires_review"}

Entry == [status : Status, retry_count : 0..MaxReplayAttempts, max_retries : CapturedCaps]

\* The cap of the day is stored with the entry.
Captured(cap) == [status |-> "pending", retry_count |-> 0, max_retries |-> cap]

\* try_acquire_for_replay: whether it answers with the entry ...
acquirable(e, force) ==
    IF force THEN e.status \in {"pending", "requires_review"}
             ELSE e.status = "pending" /\ e.retry_count < MaxReplayAttempts

\* ... and the entry it answers with.
acquired_entry(e, force) ==
    [e EXCEPT !.status = "replaying", !.retry_count = IF force THEN 1 ELSE @ + 1]

\* Where an entry goes whose replay did not succeed.
unresolved(e) == IF e.retry_count >= e.max_retries THEN "requires_review" ELSE "pending"

\* complete_replay does not ask who completes, nor what the status was.
complete_replay(e, success) ==
    [e EXCEPT !.status = IF success THEN "resolved" ELSE unresolved(e)]

\* Mutant: the give-back does not ask whose attempt the entry is at.
holds_attempt_unfenced(e, count) == e.status = "replaying"

\* return_replay_attempt is fenced on the count its acquisition returned.
holds_attempt(e, count) == e.status = "replaying" /\ e.retry_count = count

return_replay_attempt(e, count) == [e EXCEPT !.retry_count = count - 1]

\* Mutant: an entry interrupted on its last attempt goes back to the queue.
release_to_queue(e) == [e EXCEPT !.status = "pending"]

\* release_stale_replaying, of an entry older than the cutoff.
release(e) == [e EXCEPT !.status = unresolved(e)]

=============================================================================
