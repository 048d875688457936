# Baldur in TLA+

Baldur wraps calls to unreliable dependencies. A protected call passes through a
circuit breaker, retries, a timeout, optionally an idempotency key, and what
fails for good is captured and replayed later. These modules model the parts of
that path in which threads, processes and operators interleave, check them with
TLC on small instances, and prove the main results with TLAPS for every value of
the constants. Paths below are relative to `src/src/baldur/`.

## The system and its parts

| part | code | here |
|---|---|---|
| circuit breaker service, operator controls, sweeps | `services/circuit_breaker/{service,manual_control,policy,outcome_window}.py` | `CircuitBreaker`, `OutcomeWindow` |
| the stored row and its atomic operations | `adapters/memory/circuit_breaker.py` | `CircuitBreakerRow` |
| idempotency gate, guard and hook | `core/idempotency_gate.py`, `resilience/policies/idempotency.py` | `IdempotentCall` |
| the key's record in the cache | `adapters/cache/memory_adapter.py` | `IdempotencyRecord` |
| work abandoned by a timeout | `core/abandoned_work.py`, `resilience/policies/timeout.py` | `WorkScope`, `IdempotentCall` |
| dead-letter capture and its outbox | `services/dlq_capture`, `services/dlq_outbox`, `audit/ring_buffer.py`, `meta/health_probe.py` | `RingBuffer`, `DLQOutbox`, `CaptureLedger` |
| request tracking, drain and process exit | `core/shutdown_coordinator.py`, `api/django/middleware`, `adapters/gunicorn/hooks.py`, `services/dlq_outbox/shutdown.py` | `GracefulShutdown` |
| dead-letter entries and their replays | `adapters/memory/failed_operation.py`, `services/replay_service`, `services/dlq_read/entry_operations.py` | `FailedOperationStore`, `Replay` |
| bulkhead compartment | `services/bulkhead/semaphore.py` | `Bulkhead`, `CountingSemaphore` |
| audit write-ahead log and the worker that drains it | `audit/wal`, `audit/sync_worker.py` | `AuditLog` |
| everything else | see "Not modelled" | not modelled |

`PROJECT.json` lists every part under "components" with the reason it is not
modelled, and the hazards of the modelled parts at the lines where they bite.

## Circuit breaker

Admission reads the stored row, decides, and for a breaker that is not CLOSED
asks the repository for a trial slot. The result of the call is recorded later:
a success may append to the outcome window without reading the row, if the
window's epoch says nothing happened since admission; a failure increments the
row's consecutive count, appends to the window, evaluates the thresholds and
trips the breaker. An operator forces the breaker open or closed for a time
(a *pin*), resets it, extends the pin or returns it to automatic; two sweeps
expire pins and open trial windows. Repository and window have a lock each and
nothing holds both, so every lock hold is one step of the model, and what a
thread carries across steps may be stale.

- `CircuitBreakerRow`: the row as a record; each atomic repository operation that
  calls, operator and sweeps use as an operator from row to row. Time stamps are
  clock readings. The repository's other operations are listed under "What is
  left out".
- `OutcomeWindow`: the ring, the in-flight writes and the last state seen. The
  epoch is a counter of which the code only ever compares "moved since I read
  it", so the model keeps `current`, the set of callers whose captured epoch is
  still current, and an epoch move empties it. No bound on epochs is needed.
- `CircuitBreaker`: the callers (`pc`, the row each one `held`, whether it has
  `fired` a transition it must announce), the operator, the sweeps, the freeze
  switch and the clock. `Lanes` selects which actors besides the callers exist.
- `CircuitBreakerClaims`: a statement of the repository contract that is refuted.
- `MCCircuitBreaker`: the module the runs start from.

`probes` is a history variable: the trial calls admitted in the present
half-open window.

| run | instance | what it shows |
|---|---|---|
| `cb_calls` | 2 callers, fair, time 0..2; 491,425 states | Callers move the row along the diagram only; the maker of a transition, and nobody else, announces it; a trial window admits at most its budget; the read-free success path never skips a due reset; a CLOSED row at its threshold has a caller on its way to the trip. A reached threshold is acted on, an OPEN breaker is probed, a full trial window ends. |
| `cb_overrides` | 1 caller, all controls, both sweeps, freeze; 3,073,748 states | Only an operator, or the recovery sweep from its snapshot, moves a pinned CLOSED row; once those past their check are through, a freeze holds the row; an OPEN row has the time its cool-down began and taken slots the time their window began, under every control. |

Bounds. Two callers suffice for each race found in the code, all of which are
between the holder of a stale row and one other actor; the properties that are
proved hold for any number. In `cb_calls` a failure threshold of 2, a rate of 50
per cent and two calls at least let each trigger fire without the other: a
success and a failure trip by rate, two failures around an emptied window by
count. `HalfOpenMaxCalls` 1 makes the trial window full after one probe. `MaxTime`
2 with a cool-down of 1 allows a trip, a probe, a second trip and its probe.
`MaxCount` only stops new calls from starting: a call that has started always
runs to its end. `cb_overrides` trips at the first failure and spends its bound
on the controls. The breaker may stop when these bounds are reached, hence
`CHECK_DEADLOCK FALSE`.

Fairness. `cb_calls` assumes weak fairness of each caller and of the clock:
operating-system threads are scheduled, calls return or are cancelled, traffic
continues. No sweep and no operator is assumed. `MaxCount` is a bound on new
calls and so works against these properties, never for them: were it reached too
early, the run would fail.

## Idempotent calls

A call under a key builds a claim and stores it with setnx. If a record exists
it reads it, and takes it over by compare-and-swap when it is failed, or is a
claim older than the execution window plus the clock-skew tolerance. It then runs
the function. An attempt that times out cannot be stopped: it is recorded in the
call's work scope, as is what nested calls abandon, and the key is settled
(completed or failed) only when the last such piece has ended. Marks are scoped
to the claim's identifier.

- `IdempotencyRecord`: the record and the cache operations as operators.
- `WorkScope`: one call's scope as a value; add, fold and close are single lock
  holds. A call has no enclosing call, so there is no chain of scopes.
- `IdempotentCall`: `Calls` on one key, each in a process whose clock runs
  `skew[c]` ahead of the store's; the pieces of its work, own attempts and
  nested pieces; faults: a cache error with the write applied or not, a crash, a
  cancellation during the claim, a coroutine that is finalized.
- `MCIdempotentCall`: the instance, with the symmetry of the calls.

A call is one execution attempt of one process, so retries by a client are
further members of `Calls`. A call refused by the guard and one that runs
outside the key after a cache error (fail-open) both end at `over`: neither
touches the record again.

| run | instance | what it shows |
|---|---|---|
| `idem_window` | 2 calls, 1 attempt, 1 nested piece, windows 1 and 2, tolerance 1, cache errors, crashes and cancellations; 3,997,980 states | Nobody is let through beside a call that still works until the shortest execution window in use is over since its claim; completed means an attempt returned; a completed record stands for its memory window. |
| `idem_work` | 1 call, 2 attempts, 2 nested pieces, close and crash, fair; 35,646 states | The scope settles only when nothing of the call runs; a mark left to abandoned work is made when the work ends. |

Bounds. Two calls are a holder and a competitor. A scope belongs to one call and
no other call touches it, so `idem_work` spends its bound on pieces instead: two
attempts and two nested pieces give every order of abandoning, ending and
closing, a finalized coroutine's included. Time runs past window plus tolerance, so that takeovers happen, and each call
picks its window, so that one takes over a claim made for a longer window. Calls
end, hence `CHECK_DEADLOCK FALSE`.

Fairness. `idem_work` assumes that threads are scheduled and that work that runs
ends. Without the second the mark is never made, as the code intends: the claim
then lapses with its window.

## Dead-letter capture and its outbox

A failed call is captured by its own thread. Unless the outbox is known to be
dead or is being torn down, the thread puts the entry on a bounded ring, which
evicts its oldest entry when full; otherwise it stores the entry itself. One
drainer thread pops a batch, publishes it for a rescue to find, writes entry by
entry and counts. A `BaseException` ends the thread; the health probe sees that,
marks the outbox dead and starts another. At process exit the teardown marks it
dead for good, asks the drainer to stop, waits for a while, and then takes what
is left of ring and batch and dumps it, while the drainer may still be writing.

- `RingBuffer`: the ring, one operator per lock hold.
- `DLQOutbox`: capturing threads, drainer, probe and teardown. Each counter is
  the set of the entries it counts, so that it has the counter's value and also
  says which entries they were.
- `CaptureLedger`: what capture promises, without threads: an accepted entry is
  held until it is kept or lost, a kept one stays kept, and one gives way to a
  newcomer only while a full buffer is held. `DLQOutbox` implements it with
  `held`, `kept` and `lost` read off ring, batch, dump and counters.
- `MCDLQOutbox`: three entries.

| run | instance | what it shows |
|---|---|---|
| `outbox` | 3 entries, ring of 2, batches of 2, one respawn, failing writes and dumps, crashes, fair; 251,735 states | The ledger is implemented; nothing accepted vanishes, a crash's batch and entries put after the rescue aside; an entry is both written and dumped only from the tail the rescue took; when teardown and drainer are through, the two have reported every drop; drops surface; captures settle. |

Bounds. Three entries overflow a ring of two and leave a batch with a written and
an unwritten entry while the third arrives. One respawn puts a new drainer behind
an old one's batch. A back-off threshold of 1 lets a single failure back off.
Entries that the store refuses and the fallback keeps (`"soft"`) or does not keep
(`"reject"`) differ from a raising writer only in the counter; the proofs cover
them.

Fairness. Threads run and the probe's checks are periodic. A partial batch is
found due by strong fairness: only a flush resets the flush interval, so it
is over sooner or later however often it was found not to be. Nothing makes a
capture, a crash or a teardown happen.

## Requests, drain and process exit

`GracefulShutdown` extends `DLQOutbox` with the process around it. A request is
admitted by one middleware and tracked by the next, may capture a failure and
ends. A signal, a call or the host's exit hook starts the end: the coordinator
refuses new requests, those for a liveness path excepted, polls until the tracked
ones are gone or a deadline has passed, calls the handlers, the outbox's teardown
among them, and re-raises the signal; a host that owns the exit tears the outbox
down itself, possibly at the same time. Sets of requests stand for the coordinator's counts. `Exits` says who
owns the exit; Init chooses one. A call may begin the drain under either.

| run | instance | what it shows |
|---|---|---|
| `shutdown` | 2 requests, one of which fails and one of which is a liveness probe, own identifiers, both kinds of exit, a raising writer, fair; 936,011 states | Whichever exit path ends the process, no accepted entry is left behind; what requests capture that a clean drain waited for is in time; drained and aborted requests add up; a process told to end ends, unless a call began its drain and the signal comes after the drain is over. |

`ShutdownEnds` needs its exception. A drain begun by `initiate_shutdown()` finds no
exit armed at its end and leaves the process up, as the code means it to. The first
signal after that arms an exit, `initiate_shutdown` answers that the shutdown has
begun, and no drain is left to read what was armed: the process stays up until a
second signal. Without the exception TLC finds this behaviour.

Bounds. One request can hold up the drain while the other, a probe, ends, or begins
too late, or begins after the drain. The proofs are for any set of probes. A crash
of the drainer is the business of `outbox`, and the proofs make no assumption on
faults. Fairness: drain, main thread and teardown run and time
passes. No request need end, no drainer need run, no signal need come.

## Dead-letter entries and their replays

A replay acquires its entry by compare-and-set, which counts an attempt; a sweep
or a trial then asks for the idempotency key of that attempt; the job runs; the
key is marked, the entry completed or the attempt given back. An operator
retries, or force-redrives with a fresh budget, without the key. A periodic
release returns entries that have been replaying for too long; it outlasts the
time limit of a task but not an operator's process, so a replay may go on after
its entry was taken from it.

- `FailedOperationStore`: the entry's status, its retry count and the cap stored
  with it, one operator per repository operation a replay uses. There are two caps:
  an acquisition asks the cap in force (`MaxReplayAttempts`); a completion and the
  release ask the one that was in force when the entry was captured, which Init
  takes from `CapturedCaps`.
- `Replay`: the replays of one entry by `Workers`, each on the lanes it serves,
  with deaths, expired keys, faults of store and gate, and jobs that go on after
  their replay was cut off. `lost` is the history of replays whose entry was
  taken; `charged` and `slipped` count the jobs of the present budget and what
  was given back to it from an earlier one.
- `MCReplay`: a task worker under a limit, and an operator's process with every
  lane.

| run | instance | what it shows |
|---|---|---|
| `replay` | 2 workers, all lanes, cap 2, captured under cap 1, 2 or 3, one force-redrive, two trials or refusals, fair; 683,311 states | No job runs beside itself unless an entry was taken from a replay; resolved means a job succeeded, and is undone only by a replay that had lost the entry; a budget is kept; the entry settles as resolved or under review, or stays in the queue because the cap was lowered after its capture. |

Bounds. One replay and a competitor; a cap of 2 gives a first and a last attempt;
one force-redrive gives a second budget into which an earlier replay may give
back. Stored caps of 1, 2 and 3 are a raised, an unchanged and a lowered cap. `MaxFree`
bounds trials and refused jobs together, because each gives its attempt back and
could go on for ever; that `EntrySettles` holds is therefore said of an entry whose
job is not refused for ever. The cap in force does not change during a behaviour,
and no cap is set for the entry's domain, which would keep sweeps from choosing it.
Fairness: the release and the sweeps are scheduled tasks, and a task under
a limit ends or dies. The operator's process is not assumed to do anything.

## Bulkhead

A compartment has a seat count, a queue of waiting threads and coroutines, and a
lock. A seat is given back, and a waiter leaves, without waiting for the lock:
the operation is appended to a list, and whoever can take the lock applies the
list. A holder that unlocks looks at the list again, so that an operation
appended in between is not left there. A wake frees a thread's token or resolves
a coroutine's future on its loop, which may have stopped or closed.

- `Bulkhead`: one step per piece of code between two points where another
  thread can interfere: each list operation, each wake and the unlock are steps
  of their own.
- `CountingSemaphore`: what the compartment promises: at most `MaxConcurrent`
  seats are out, and a call is refused only while all are. `Bulkhead` implements
  it; a seat on the list is on its way back, and still out.
- `MCBulkhead`: a thread with an immediate verdict, a waiting thread, a waiting
  coroutine that also reads the state.

| run | instance | what it shows |
|---|---|---|
| `bulkhead` | 3 calls, 1 seat, 1 loop, all faults, fair; 378,415 states | The counting semaphore is implemented; no queued operation is stranded; no wake is lost; a wake never frees a free token; every waiter is served or leaves while its loop runs, whether or not a deadline passes. |

Bounds. A call asks once, so three calls are a holder, a waiter and one that
comes, leaves or is woken between the two; the invariants are proved for any
number of calls and seats. A timer fires early at most once per call. Fairness:
what a call can do next it does. Deadlines are assumed neither to pass nor to
stay away. A loop that stops excuses the waiters.

## Audit write-ahead log

Every process appends its audit entries to files of its own in a shared
directory; a file's name carries the process identifier and the time it was
opened. A full file is closed and the oldest beyond `max_files` are deleted,
delivered or not. The worker of the process reads the lowest `batch_size` records
above its cursor and for each one looks for a mark in the idempotency cache, logs
the entry to the central store and sets the mark. The cursor follows the leading
run of successes: after a failure the cycle goes on, and the cursor stays. After
a cycle that delivered something, closed files whose records are all at or below
the cursor are deleted. Before its first cycle a worker absorbs the files of
processes that have ended, once. It never moves or deletes those.

- `AuditLog`: files, counters and cursor of each process, and the worker with a
  step for each of check, log and mark. Processes start (the record counter is
  recovered from the last file, the cursor is not), fork (the child keeps both),
  end anywhere, also between a new file's header and its first record, and
  identifiers are used again. A file is its number in name order. `home`,
  `ended`, `capped`, `repeatable` and `overlaid` are history variables.
- `MCAuditLog`: the instance.

| run | instance | what it shows |
|---|---|---|
| `audit_log` | 2 identifiers, 2 entries, files of 2 records, 1 kept file, batches of 2, 2 starts, 1 lost mark, fair; 37,328 states | An entry is delivered, cut by `max_files`, or in a file above its process's cursor; it is delivered twice only if its mark was lost, its deliverer died between row and mark, or two processes absorbed it at a time; a running process delivers what it wrote. |

Bounds. Two entries give a batch whose first entry fails and whose second
succeeds, in one file or, when a process restarts, in two. Two starts are a
process and its restart, its fork, its absorber or its respawned worker. The
invariants are proved for any number of all of these.

Fairness. The worker's thread is scheduled. A destination is wired, and takes a
given entry, again and again if it is asked again and again: strong fairness,
because each refusal takes the worker elsewhere. Nothing makes a process start,
stop or write. Processes may all end, hence `CHECK_DEADLOCK FALSE`.

Taken as given. A write is one step under the WAL's lock. The destination's
`log()` either stores the entry and returns, or raises and stores nothing. A mark
is keyed by number and checksum, taken to be different for different entries,
and the cache that holds the marks is switched on and shared by the processes.
`sync_on_write` is on, its default: an appended record is in the file when the
append returns, and the death of a process does not take it away.
The listing and the reading of orphaned files are one step. The worker's
checkpoint is left out because it is saved and not read back.

## Statements the code does not keep

Each run here checks one statement of a comment, docstring or contract and TLC
refutes it; "findings" quotes the statement and describes the trace.

| run | what happens |
|---|---|
| `cb_block_stands` | A caller with a row read earlier takes a trial slot on a row an operator has just forced open. |
| `shutdown_shared_id` | Of two requests tracked under one identifier the first to end hides the other from the drain, which tears the outbox down under it. |
| `replay_unfenced` | A replay that has lost its entry fails late and takes a resolved entry back. |

Further disagreements are in the models and have no run of their own.

- Breaker: a success is appended between the trip's commit and the move of the
  epoch; the expiry sweep clears a pin renewed between its test and its write;
  the recovery sweep turns a breaker half-open that closed after its snapshot; a
  restarted cool-down is not re-checked when a slot is acquired; a late CLOSED
  observation empties the window of a tripped breaker; an extension writes back
  the state it read, and with it `ResetNeverSkipped` fails; the slot reset that
  ends a forced override lands in a trial window opened since, and with it
  `ProbeBudget` fails.
- Keys: a call with a shorter execution window takes a claim over inside the
  claim's own longer window. This is why `WindowHonored` speaks of the shortest
  window in use.
- Outbox: the comments at `services/dlq_outbox/outbox.py:63` and `worker.py:314`
  have the counters account for every entry, crashes included. The respawn sets
  `in_flight` to zero, and the entries of the dead drainer's batch are then in no
  counter. `NothingVanishes` names them as its exception.
- Shutdown: "after the drain completes the signal is re-raised with the default
  disposition restored, so the process terminates with conventional signal
  semantics instead of swallowing the stop signal"
  (`core/shutdown_coordinator.py:443`). A first signal that comes after a drain
  begun by a call is over is swallowed. `ShutdownEnds` names this as its exception.
- Bulkhead: a wake absorbed by a loop that then stops leaves its seat unnoticed
  until somebody takes the lock again or a deadline passes.
- Audit log: "PID reuse can make a dead peer's file look alive; the absorb is
  then deferred, never lost" (`audit/wal/_reader.py:502`). A fork's child that
  gets the identifier of an ended process keeps its parent's counters, and its
  cursor may lie above that process's undelivered records; they are deleted as
  processed. `NothingLost` names this as its exception (`overlaid`).

## What is proved

The theorems hold for every set of callers, calls, entries, requests and workers,
and every threshold, time-out and bound that satisfies the modules' ASSUMEs
(limits and times are natural numbers, own and nested pieces are disjoint,
workers and calls finite where they are counted). None depends on which faults
are switched on. A leaf that needs no arithmetic names `Zenon`; the others are left
to the default provers. Each module is checked by `tlapm` in one to four minutes.

`CircuitBreakerProofs`:
- `TypeCorrect`, from lemmas on the repository and window operators.
- `ResetNeverSkippedCorrect`: if the operator's extension is not in `Lanes`. The
  property is not inductive: it speaks of the row at the append, the code of a
  row read at admission. `HintInv` adds that a caller between increment and
  append is marked in flight (`InFlightMarked`), and that while no write is in
  flight a caller with a current epoch and a held CLOSED row of count 0 is right
  about the count, if the stored row is still CLOSED (`HintsSound`). The
  extension is excluded because it writes a state back before it moves the epoch.

`CircuitBreakerTransitions`, from the shape of each caller's step:
- `CallersFollowDiagramCorrect`; `AnnouncedByItsMakerCorrect`, with the invariant
  that an unannounced transition belongs to a caller about to announce it.
- `StampsCorrect`: each repository operation keeps the stamps, and the clock a
  caller reads is never ahead of the clock at its write.
- `FreezeHoldsCorrect`: a caller without a decision finds none during a freeze,
  and one with a decision is among those the property lets through.
- `ProbeBudgetCorrect`: if forced overrides are not in `Lanes`. The property
  speaks of the trial calls admitted, the code of a slot counter that other steps
  also write. `ProbesCounted` says that in a half-open window the counter is at
  least the number of calls admitted, and `SlotsWithinLimit` that it stays within
  the limit. `OnlyForceForgetsProbes` says that no assumption but this one is
  missing: with every control there is, the slot reset that ends a forced
  override is the only step that can break `ProbesCounted`.
- `TripOwedCorrect`: without forced overrides, which leave nothing to extend, and
  without freezes. Only a caller's own increment makes the row ask for a trip
  (`OnlyCountsAsk`), and that caller stays on its way until it, or another one,
  has tripped (`TripsOn`). With fairness of that caller this is `ThresholdTrips`.
- `AllowStandsCorrect`: an operator or the recovery sweep's write of half-open are
  the only ways in which a pinned CLOSED row moves.

`IdempotencyProofs`:
- `IdempotencyTypeCorrect`, `NothingRunsUnheldCorrect`, `CompletedStandsCorrect`,
  `CompletedMeansReturnedCorrect`.
- `WindowHonoredCorrect`: for calls with windows of their own; the shortest one
  counts. `OwnWindowHonored`: if all calls use one window (`UniformWindow`), it is
  the window of the call whose work runs. The inductive invariant relates, for each call, its clock to
  its claim (`ClockInv`), its work to its scope (`HoldInv`), its decided mark to
  its attempts (`ReturnInv`), and says that a call with something running still
  holds the record, or is past its window, or is over and completed (`HeldInv`).
  Skew enters once: a claim that a competitor judges stale is older than the
  window on the store's clock too, since clocks differ by at most the tolerance.
- `MarkOwedCorrect`: a deferred mark is owed by a piece that still runs, and whose
  end makes it; `DeferredMarkMade` adds that the piece ends.

`DLQOutboxProofs`:
- `OutboxTypeCorrect`, `NothingVanishesCorrect`, `DoubleOnlyIfRescuedCorrect`,
  `CoercionHoldsCorrect`.
- `DropsAccountedCorrect`: once the teardown is done and the drainer has exited
  without a crash, every drop is in what the drainer observed or in what the
  teardown reported, entries put after the rescue aside. The drainer's last
  observation and the teardown's two readings overlap whatever their order.
- `OutboxImplementsLedger`: initial states map to initial states, and every step
  to a step of the ledger or to none.
- The invariant `Inv` adds to `NothingVanishes` where the entry under way is and
  when the dump may hold something (`Stages`), and that no entry is in two places
  except the rescued tail (`Places`). Without the second, a step that counts an
  entry could be counting it again, and the ledger would lose a kept entry.

`GracefulShutdownProofs`:
- `SystemTypeCorrect`.
- `SystemImplementsOutbox`: the process around the outbox only ever takes steps of
  it, so every theorem of `DLQOutboxProofs` holds in the process as a whole.
- `ExitAccountsCorrect`: from that and `ExitInv`, by which a process ends through
  a finished teardown only.
- `DrainCapturesKeptCorrect`, `BooksReconcileCorrect`: if requests have
  identifiers of their own (`UniqueIds`; `shutdown_shared_id` shows it is
  needed). `DrainInv` follows the requests of the drain through the coordinator's
  steps, `LateInv` says that nothing tears the outbox down under one of them
  before the deadline.

`ReplayProofs`:
- `ReplayTypeCorrect`, `NotBesideItselfCorrect`, `ResolvedMeansSucceededCorrect`,
  `ResolvedStandsCorrect`, `BudgetKeptCorrect`.
- `BarredOnlyIfLoweredCorrect`: an entry waits in the queue with no automatic replay
  left to it only if its stored cap is higher than the one in force. `QueueInv` says
  that an entry in the queue is below its stored cap. This is the safety half of
  `EntrySettles`.
- `HoldInv`: of the replays under way at most one has not lost the entry, and the
  entry is replaying until that one has succeeded. `StageInv` says what a stage
  implies about the job, `DoneInv` that a completed key or a duplicate goes back
  to a success. `BudgetInv` charges, besides the jobs begun, the replays of this
  budget that may still begin one or give their attempt back.

`BulkheadProofs`:
- `BulkheadTypeCorrect`, `NothingStrandedCorrect`, `TokenFreshCorrect`,
  `NoLostWakeCorrect`.
- `CountsSeatsCorrect`: the refinement of `CountingSemaphore`.
- The invariant: whoever is inside the lock holds it (`LockKept`); the list holds
  returns and departures of calls at the matching stage, each once (`OpsTrue`);
  the seat count is the number of calls in a seat or on the list (`SeatsExact`);
  the queue agrees with the stages of its waiters and has a first in each group
  (`Sound`), and taken seats, wakes still to pass on and woken waiters together
  reach the limit, or all waiters are woken (`Enough`).

`AuditLogProofs`:
- `AuditTypeCorrect`, `NothingLostCorrect`, `OneRowCorrect`, from
  `AuditInvariance`.
- `NothingLost` is not inductive: whether an advance of the cursor skips a record
  depends on what the worker read a cycle ago. `Contiguous` says that, while the
  cursor may advance, the rest of the batch is the lowest part of what lies above
  the cursor, so that writes and rotations in between only add above it; `Fit`
  that numbers are unique, within the counter, and delivered up to the cursor;
  `Kept` that an undelivered entry is still in a file, which is what deleting
  processed files needs.
- `OneRow` needs `Guarded`: a delivered entry is marked, or in the hands of the
  one worker about to mark it, and who has found no mark is alone with the entry.
  `Holding` and `Recorded` supply why two workers meet only over the entries of
  ended processes.

Only model-checked are the liveness properties, because fairness and ENABLED are
outside the prover's reach: `ThresholdTrips`, `OpenIsProbed`, `FullWindowEnds`,
`DeferredMarkMade`, `DropsSurface`, `CaptureSettles`, `ShutdownEnds`,
`EntrySettles`, `WaiterServed` and `Drained`. Every safety property a passing run
checks is also proved.

## What is left out

- Rate arithmetic is exact on integers; the code divides floats, which can fall
  just below a threshold met exactly (29 failures of 100 give
  28.999999999999996). At the window size of the runs the two agree.
- One breaker name, one key, one entry and one compartment at a time. They share
  only locks.
- Logging, metrics and event delivery; an event is the moment it is announced.
- Redis, SQL and Django stores. Their scripts promise what the in-memory
  operations do; whether they do is not checked.
- The eviction of idempotency records by a full in-memory cache.
- A keyed call inside another keyed call, whose scopes form a chain: abandoned work
  is recorded in each of them, and closing one closes nested ones left open.
- Of the in-memory breaker repository: `hydrate_snapshot`, `reset_counts`,
  `converge_to_closed_unless_pinned`, `record_success` and `reset`, which the layered
  repository uses, `increment_failure_count`, and the removal of rows (`delete`,
  `delete_state`, `clear`).
- What a fork leaves behind, and an exception at an arbitrary bytecode, in
  outbox and bulkhead.
- In the audit log: group commit and batched writes, a full disk and the purge it
  starts, corrupt records and failing writes, two files opened in the same second,
  steps of the clock, a drain or absorb called beside the worker's own (no code
  here does), and the join time-out of a stopping worker.
- Which entries a sweep chooses, by a domain's own cap for example, and how it is paced; the shutdown handlers of
  subsystems other than the outbox; a compartment replaced while it is in use.

## Not modelled

Most of the repository is not on a path where actors interleave over state that a
model of this kind can say much about: settings, web and queue adapters, metrics,
notification, reports, test tools, wiring. Redis, SQL and Django stores restate
the contracts of the in-memory ones in scripts and statements. Control loops over
floating-point measurements (load shedding, adaptive batch sizes) are out of TLC's
reach, and so is the cryptography of the audit chain.

Within reach and left out: the retry loop and its budget, hedging, the composition
of policies, rate-limit coordination, the event bus, single flight and the
precomputed cache, leader election, the
reconciliation of the audit chain, the copies of the system-control switch, and the
fallback store during an outage. "components" in `PROJECT.json` has a line on each.
