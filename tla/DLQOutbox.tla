------------------------------ MODULE DLQOutbox ------------------------------
(***************************************************************************)
(* The asynchronous capture path of the dead-letter queue: the threads     *)
(* that capture a failed call (services/dlq_capture/service.py), the       *)
(* outbox they put it into, the thread that drains the outbox              *)
(* (services/dlq_outbox/worker.py), the health probe that respawns a dead  *)
(* drainer (meta/health_probe.py) and the teardown at process exit         *)
(* (services/dlq_outbox/outbox.py).                                        *)
(*                                                                         *)
(* Every entry is captured by a thread of its own.  The drainer's counters *)
(* are kept as the sets of the entries they count.  Initially the outbox   *)
(* has been set up by init() and its drainer runs.                         *)
(***************************************************************************)
EXTENDS RingBuffer, FiniteSets

CONSTANTS
    BatchSize,          \* DLQOutboxSettings.batch_size
    BackoffThreshold,   \* _FAILURE_BACKOFF_THRESHOLD
    MaxRestarts,        \* bound: respawns of the drainer
    Faults              \* which faults may happen: subset of AllFaults

AllFaults == {
    "soft",     \* the store fails and the local fallback keeps the entry
    "reject",   \* the store and the fallback fail
    "raise",    \* the writer raises
    "crash",    \* a BaseException ends the drainer's thread
    "dump"      \* the emergency dump does not write an entry
}

ASSUME OutboxAssumption ==
    /\ BatchSize \in Nat \ {0}
    /\ BackoffThreshold \in Nat \ {0}
    /\ MaxRestarts \in Nat
    /\ Faults \subseteq AllFaults

VARIABLES
    capture,              \* per entry: where its capturing thread stands
    ring,                 \* _buffer
    writer,               \* the drainer's program counter
    last_pass,            \* the drainer has left its loop
    pending_batch,        \* _pending_batch
    pending_index,        \* _pending_index
    in_flight,            \* _in_flight
    any_failed,           \* local of _flush_batch
    consecutive_failures,
    seen_dropped,         \* _last_seen_dropped
    counted,              \* the drainer's and the dump's counters
    stop_event,           \* _stop_event, and is_stopping set just before it
    probe,                \* the health probe's program counter
    restarts,
    worker_dead,          \* _worker_dead
    teardown_started,     \* _teardown_started
    teardown,             \* program counter of stop_outbox_for_shutdown
    handed,               \* what the emergency dump has still to write
    before_dropped,       \* total_dropped at the teardown's first reading
    reported_dropped,     \* the drops the teardown warned about
    late,                 \* history: put after the rescue had taken the ring
    stranded,             \* history: lost to a crash of the drainer
    rescued_tail          \* history: the batch tail the rescue handed over

captureVars == <<capture, ring, late>>
batchVars == <<pending_batch, pending_index, in_flight, any_failed>>
writerVars == <<writer, last_pass, batchVars, consecutive_failures, seen_dropped>>
probeVars == <<probe, restarts>>
flagVars == <<worker_dead, teardown_started>>
teardownVars ==
    <<stop_event, teardown, handed, before_dropped, reported_dropped, rescued_tail>>
vars == <<captureVars, writerVars, counted, probeVars, flagVars, teardownVars, stranded>>

Counters == {"written", "soft_failed", "failed", "dumped", "residual"}

\* The popped entries the drainer has not resolved.
pending == After(pending_batch, pending_index)
Handed == After(handed, 0)
Accepted == {e \in Entries : capture[e] = "accepted"}

Rescued == teardown \in {"dumping", "done"}
Attempts == counted["written"] \cup counted["soft_failed"] \cup counted["failed"]
Dumps == counted["dumped"] \cup counted["residual"]

TypeOK ==
    /\ capture \in [Entries -> {"idle", "checked", "coerced", "accepted",
                                "stored", "refused"}]
    /\ RingType(ring)
    /\ writer \in {"loop", "pop", "count", "write", "resolve", "observe",
                   "exited", "crashed"}
    /\ pending_batch \in Seq(Entries) /\ pending_index \in 0..Len(pending_batch)
    /\ in_flight \in Nat /\ consecutive_failures \in Nat
    /\ last_pass \in BOOLEAN /\ any_failed \in BOOLEAN /\ stop_event \in BOOLEAN
    /\ worker_dead \in BOOLEAN /\ teardown_started \in BOOLEAN
    /\ seen_dropped \subseteq ring.dropped
    /\ counted \in [Counters -> SUBSET Entries]
    /\ probe \in {"watch", "died", "spawned"} /\ restarts \in 0..MaxRestarts
    /\ teardown \in {"none", "begun", "measured", "joining", "dumping", "done"}
    /\ handed \in Seq(Entries)
    /\ before_dropped \subseteq Entries /\ reported_dropped \subseteq Entries
    /\ late \subseteq Entries /\ stranded \subseteq Entries /\ rescued_tail \subseteq Entries

Init ==
    /\ capture = [e \in Entries |-> "idle"]
    /\ ring = EmptyRing
    /\ writer = "loop" /\ last_pass = FALSE
    /\ pending_batch = <<>> /\ pending_index = 0 /\ in_flight = 0
    /\ any_failed = FALSE /\ consecutive_failures = 0 /\ seen_dropped = {}
    /\ counted = [c \in Counters |-> {}]
    /\ stop_event = FALSE
    /\ probe = "watch" /\ restarts = 0
    /\ worker_dead = FALSE /\ teardown_started = FALSE
    /\ teardown = "none" /\ handed = <<>>
    /\ before_dropped = {} /\ reported_dropped = {}
    /\ late = {} /\ stranded = {} /\ rescued_tail = {}

-----------------------------------------------------------------------------
(* The capturing threads *)

\* _dispatch_to_outbox asks is_worker_dead first.
CheckWorker(e) ==
    /\ capture[e] = "idle"
    /\ capture' = [capture EXCEPT ![e] = IF worker_dead THEN "coerced" ELSE "checked"]
    /\ UNCHANGED <<ring, late, writerVars, counted, probeVars, flagVars, teardownVars, stranded>>

\* Put: the answer from that question may be old by now.
Put(e) ==
    /\ capture[e] = "checked"
    /\ capture' = [capture EXCEPT ![e] = "accepted"]
    /\ ring' = put(ring, e)
    /\ late' = IF Rescued THEN late \cup {e} ELSE late
    /\ UNCHANGED <<writerVars, counted, probeVars, flagVars, teardownVars, stranded>>

\* store_failure(mode="sync") on the caller's thread, which gets the answer.
StoreSync(e) ==
    /\ capture[e] = "coerced"
    /\ \E answer \in {"stored"} \cup (IF "reject" \in Faults THEN {"refused"} ELSE {}) :
           capture' = [capture EXCEPT ![e] = answer]
    /\ UNCHANGED <<ring, late, writerVars, counted, probeVars, flagVars, teardownVars, stranded>>

-----------------------------------------------------------------------------
(* The drainer *)

Turn(top, next) ==
    /\ writer = "loop" /\ top
    /\ writer' = next
    /\ UNCHANGED <<captureVars, batchVars, consecutive_failures, seen_dropped,
                   counted, probeVars, flagVars, teardownVars, stranded>>

\* The loop ends when it finds the stop event set.
LeaveLoop == Turn(stop_event, "pop") /\ last_pass' = TRUE

\* Mutant: a partial batch is never due.
FlushFullBatch == Turn(~stop_event /\ size(ring) >= BatchSize, "pop") /\ UNCHANGED last_pass

\* _drain_once: a full batch, or any once the flush interval has elapsed.
FlushDue == Turn(~stop_event /\ size(ring) > 0, "pop") /\ UNCHANGED last_pass

\* _drain_once: nothing, or a partial batch that is not yet due.
NotDue == Turn(~stop_event /\ size(ring) < BatchSize, "observe") /\ UNCHANGED last_pass

\* _pop_and_publish: popped and published in one scope of the batch lock.
pop_and_publish ==
    LET n == IF last_pass THEN 4 * BatchSize ELSE BatchSize
    IN  /\ pending_batch' = batch_of(ring, n)
        /\ ring' = get_batch(ring, n)
        /\ pending_index' = 0

\* A batch published over an unresolved tail forgets that tail: the drainer
\* that popped it has crashed, and this is its replacement.
Pop ==
    /\ writer = "pop"
    /\ pop_and_publish
    /\ stranded' = stranded \cup pending
    /\ writer' = IF last_pass /\ pending_batch' = <<>> THEN "observe" ELSE "count"
    /\ UNCHANGED <<capture, late, last_pass, in_flight, any_failed, consecutive_failures,
                   seen_dropped, counted, probeVars, flagVars, teardownVars>>

\* _flush_batch begins: only now is the batch counted as in flight.
Count ==
    /\ writer = "count"
    /\ in_flight' = in_flight + Len(pending_batch)
    /\ any_failed' = FALSE
    /\ writer' = "write"
    /\ UNCHANGED <<captureVars, last_pass, pending_batch, pending_index,
                   consecutive_failures, seen_dropped, counted, probeVars,
                   flagVars, teardownVars, stranded>>

Attempted == pending_batch[pending_index + 1]

\* _record_writer_result and the except clause: the counter an attempt goes to.
Outcomes ==
    {[counter |-> "written", raised |-> FALSE]}
    \cup (IF "soft" \in Faults THEN {[counter |-> "soft_failed", raised |-> FALSE]} ELSE {})
    \cup (IF "reject" \in Faults THEN {[counter |-> "failed", raised |-> FALSE]} ELSE {})
    \cup (IF "raise" \in Faults THEN {[counter |-> "failed", raised |-> TRUE]} ELSE {})

\* The writer attempts the entry and its outcome is counted.
WriteEntry ==
    /\ writer = "write" /\ pending_index < Len(pending_batch)
    /\ \E o \in Outcomes :
           /\ counted' = [counted EXCEPT ![o.counter] = @ \cup {Attempted}]
           /\ any_failed' = (any_failed \/ o.raised)
    /\ writer' = "resolve"
    /\ UNCHANGED <<captureVars, last_pass, pending_batch, pending_index, in_flight,
                   consecutive_failures, seen_dropped, probeVars, flagVars,
                   teardownVars, stranded>>

\* The finally clause of an attempt.
resolve_one ==
    /\ in_flight' = in_flight - 1
    /\ pending_index' = pending_index + 1

Resolve ==
    /\ writer = "resolve"
    /\ resolve_one
    /\ writer' = "write"
    /\ UNCHANGED <<captureVars, last_pass, pending_batch, any_failed,
                   consecutive_failures, seen_dropped, counted, probeVars,
                   flagVars, teardownVars, stranded>>

\* A BaseException leaves the writer: the finally clause runs, no counter
\* does, and the thread ends.  Whether the entry was stored is not known.
Crash ==
    /\ "crash" \in Faults
    /\ writer = "write" /\ pending_index < Len(pending_batch)
    /\ resolve_one
    /\ writer' = "crashed"
    /\ stranded' = stranded \cup {Attempted}
    /\ UNCHANGED <<captureVars, last_pass, pending_batch, any_failed,
                   consecutive_failures, seen_dropped, counted, probeVars,
                   flagVars, teardownVars>>

\* _flush_batch ends: a batch with a raise extends the run of failures.
Settle ==
    /\ writer = "write" /\ pending_index = Len(pending_batch)
    /\ consecutive_failures' = IF any_failed THEN consecutive_failures + 1 ELSE 0
    /\ writer' = "observe"
    /\ UNCHANGED <<captureVars, last_pass, batchVars, seen_dropped, counted,
                   probeVars, flagVars, teardownVars, stranded>>

\* Mutant: no observation after the last batch.
observed_drops_in_loop == IF last_pass THEN seen_dropped ELSE ring.dropped

\* _observe_drop_window: the drops since the last observation are accounted.
observed_drops == ring.dropped

\* The end of an iteration, its wait included; after the last pass, the end
\* of the thread.
Observe ==
    /\ writer = "observe"
    /\ seen_dropped' = observed_drops
    /\ writer' = IF last_pass THEN "exited" ELSE "loop"
    /\ UNCHANGED <<captureVars, last_pass, batchVars, consecutive_failures,
                   counted, probeVars, flagVars, teardownVars, stranded>>

is_alive == writer \notin {"exited", "crashed"}
is_backing_off == consecutive_failures >= BackoffThreshold

-----------------------------------------------------------------------------
(* The health probe *)

\* DAEMON_WORKER_DIED is emitted once per death, unless the worker is stopping.
NoticeDeath ==
    /\ probe = "watch" /\ writer = "crashed" /\ ~stop_event
    /\ worker_dead' = TRUE
    /\ probe' = "died"
    /\ UNCHANGED <<captureVars, writerVars, counted, restarts, teardown_started,
                   teardownVars, stranded>>

\* restart_callback is _spawn_thread: nothing is in flight in a new thread.
Respawn ==
    /\ probe = "died" /\ restarts < MaxRestarts
    /\ writer' = "loop" /\ last_pass' = FALSE /\ in_flight' = 0
    /\ restarts' = restarts + 1
    /\ probe' = "spawned"
    /\ UNCHANGED <<captureVars, pending_batch, pending_index, any_failed,
                   consecutive_failures, seen_dropped, counted, flagVars,
                   teardownVars, stranded>>

\* Mutant: the respawn clears the coercion whatever else goes on.
respawned_flag_cleared == FALSE

\* _on_daemon_worker_respawned clears the coercion, except in a teardown.
respawned_flag == worker_dead /\ teardown_started

AnnounceRespawn ==
    /\ probe = "spawned"
    /\ worker_dead' = respawned_flag
    /\ probe' = "watch"
    /\ UNCHANGED <<captureVars, writerVars, counted, restarts, teardown_started,
                   teardownVars, stranded>>

-----------------------------------------------------------------------------
(* The teardown at process exit *)

\* stop_outbox_for_shutdown: producers are coerced before anything else.
BeginTeardown ==
    /\ teardown = "none"
    /\ worker_dead' = TRUE /\ teardown_started' = TRUE
    /\ teardown' = "begun"
    /\ UNCHANGED <<captureVars, writerVars, counted, probeVars, stop_event, handed,
                   before_dropped, reported_dropped, rescued_tail, stranded>>

\* The first reading of the statistics.
Measure ==
    /\ teardown = "begun"
    /\ before_dropped' = ring.dropped
    /\ teardown' = "measured"
    /\ UNCHANGED <<captureVars, writerVars, counted, probeVars, flagVars, stop_event,
                   handed, reported_dropped, rescued_tail, stranded>>

\* The flush phase waits for the drainer until its deadline, or not at all,
\* so it may end at any time; then stop() tells the drainer to stop.
StopWriter ==
    /\ teardown = "measured"
    /\ stop_event' = TRUE
    /\ teardown' = "joining"
    /\ UNCHANGED <<captureVars, writerVars, counted, probeVars, flagVars, handed,
                   before_dropped, reported_dropped, rescued_tail, stranded>>

\* Mutant: only what is left in the ring is rescued.
to_rescue_ring == ring.items

\* Mutant: the whole of the drainer's batch is rescued.
to_rescue_batch == pending_batch \o ring.items

\* The unresolved tail of the drainer's batch, then the ring.
to_rescue ==
    SubSeq(pending_batch, pending_index + 1, Len(pending_batch)) \o ring.items

\* The join returns, or times out with the drainer still running; then tail
\* and ring are taken in one scope of the batch lock.
Rescue ==
    /\ teardown = "joining"
    /\ handed' = to_rescue
    /\ rescued_tail' = pending
    /\ ring' = drain_all(ring)
    /\ teardown' = "dumping"
    /\ UNCHANGED <<capture, late, writerVars, counted, probeVars, flagVars, stop_event,
                   before_dropped, reported_dropped, stranded>>

\* One turn of the dump's loop; an entry it does not write, for a failed tier
\* or a passed deadline, is residual.
DumpEntry ==
    /\ teardown = "dumping" /\ handed # <<>>
    /\ \E c \in {"dumped"} \cup (IF "dump" \in Faults THEN {"residual"} ELSE {}) :
           counted' = [counted EXCEPT ![c] = @ \cup {Head(handed)}]
    /\ handed' = Tail(handed)
    /\ UNCHANGED <<captureVars, writerVars, probeVars, flagVars, stop_event, teardown,
                   before_dropped, reported_dropped, rescued_tail, stranded>>

\* The second reading of the statistics, and the report.
Conclude ==
    /\ teardown = "dumping" /\ handed = <<>>
    /\ reported_dropped' = ring.dropped \ before_dropped
    /\ teardown' = "done"
    /\ UNCHANGED <<captureVars, writerVars, counted, probeVars, flagVars, stop_event,
                   handed, before_dropped, rescued_tail, stranded>>

-----------------------------------------------------------------------------
Capturing == \E e \in Entries : CheckWorker(e) \/ Put(e) \/ StoreSync(e)
Draining ==
    LeaveLoop \/ FlushDue \/ NotDue \/ Pop \/ Count \/ WriteEntry \/ Resolve \/ Settle \/ Observe
Probing == NoticeDeath \/ Respawn \/ AnnounceRespawn
TearingDown ==
    Measure \/ StopWriter \/ Rescue \/ DumpEntry \/ Conclude

Next == Capturing \/ Draining \/ Crash \/ Probing \/ BeginTeardown \/ TearingDown

Spec == Init /\ [][Next]_vars

\* The threads of the process run; nothing makes a teardown begin, a capture
\* happen or the drainer crash.  The probe's checks are periodic.  last_flush
\* is reset by a flush alone, so a partial batch is due sooner or later however
\* often it was found not due.
Fairness ==
    /\ WF_vars(Draining) /\ SF_vars(FlushDue)
    /\ WF_vars(Probing) /\ WF_vars(TearingDown)

FairSpec == Spec /\ Fairness

-----------------------------------------------------------------------------
(* The ledger this implements *)

Kept == counted["written"] \cup counted["soft_failed"] \cup counted["dumped"]
Lost == (counted["failed"] \cup counted["residual"] \cup ring.dropped \cup stranded) \ Kept
Held == (InRing(ring) \cup pending \cup Handed) \ (Kept \cup Lost)

Ledger == INSTANCE CaptureLedger WITH held <- Held, kept <- Kept, lost <- Lost

\* The outbox implements the ledger: whatever the threads do, an entry leaves
\* ring, batch and dump only by being kept or counted as lost, a kept entry is
\* never given up, and an entry gives way to a newcomer only when a full
\* buffer of entries is held.
LedgerSpec == Ledger!Spec

-----------------------------------------------------------------------------
\* An accepted entry is on the ring, in the drainer's batch or in the hands of
\* the dump until it is counted by a counter; and once the rescue has taken
\* ring and batch, being in the ring or the batch is not enough: the process
\* may end as soon as the teardown is done.  The exceptions are what a crash
\* of the drainer stranded and what was put after the rescue.
NothingVanishes ==
    \A e \in Accepted :
        \/ e \in Attempts \cup Dumps \cup Handed \cup ring.dropped \cup late \cup stranded
        \/ ~Rescued /\ e \in InRing(ring) \cup pending

\* An entry is both attempted by the drainer and dumped only if it was in the
\* unresolved tail of the drainer's batch at the rescue; and no entry is on
\* the ring again once it has been popped.
DoubleOnlyIfRescued ==
    /\ Attempts \cap (Dumps \cup Handed) \subseteq rescued_tail
    /\ InRing(ring) \cap (Attempts \cup Dumps \cup Handed \cup pending) = {}

\* From the moment the teardown has begun no capture is sent to the ring, even
\* if the probe respawns the drainer and announces it during the teardown.
CoercionHolds ==
    [][teardown_started =>
          \A e \in Entries : capture[e] = "idle" => capture'[e] # "checked"]_vars

\* The drainer is dead and the bound on respawns is used up.
GivenUp == writer = "crashed" /\ (restarts = MaxRestarts \/ stop_event)

\* Every drop is accounted by an observation of the drainer or warned about by
\* the teardown, drops in the last wait before a stop included; except while
\* no drainer is left to observe.
DropsSurface ==
    \A e \in Entries :
        e \in ring.dropped \ late ~> e \in seen_dropped \cup reported_dropped \/ GivenUp

\* When a process ends, no drop has gone unseen: the drainer's last observation
\* and the teardown's two readings leave no gap between them.  The exceptions
\* are the entries put after the rescue and the drops of a crashed drainer.
DropsAccounted ==
    teardown = "done" /\ writer = "exited"
        => ring.dropped \ late \subseteq seen_dropped \cup reported_dropped

\* What a crashed drainer had popped and not resolved: published still, for a
\* rescue to find, but no drainer goes back to it.
Orphaned == IF writer \in {"count", "write", "resolve"} THEN {} ELSE pending

\* Every accepted entry is attempted, dumped or dropped in the end: an idle
\* drainer does not leave a partial batch, and a respawned or stopped one does
\* not leave the ring.  The exceptions are the entries of NothingVanishes, the
\* batch of a crashed drainer, and the ring of a drainer that is dead for good
\* in a process that never tears down.
CaptureSettles ==
    \A e \in Entries :
        e \in Accepted ~>
            \/ e \in Attempts \cup Dumps \cup ring.dropped \cup late
            \/ e \in stranded \cup Orphaned
            \/ GivenUp /\ teardown = "none"

=============================================================================
