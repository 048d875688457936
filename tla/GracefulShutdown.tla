-------------------------- MODULE GracefulShutdown --------------------------
(***************************************************************************)
(* The end of a process that serves requests: the request tracker and the  *)
(* shutdown coordinator (core/shutdown_coordinator.py), the middlewares    *)
(* that consult them (api/django/middleware), the host server's exit hook  *)
(* (adapters/gunicorn/hooks.py), and the outbox the requests capture their *)
(* failures into, with its handler (services/dlq_outbox/shutdown.py).      *)
(*                                                                         *)
(* Request r captures at most one entry, named r as well.  A count of      *)
(* requests is kept as the set of the requests counted.                    *)
(***************************************************************************)
EXTENDS DLQOutbox

CONSTANTS
    Ids, RequestId,     \* the identifier each request is tracked under
    LivenessPaths,      \* the requests for a liveness path
    Failing,            \* bound: the requests that may capture a failure
    Exits               \* who owns the process exit: subset of {"defer", "host"}

ASSUME ShutdownAssumption ==
    /\ RequestId \in [Entries -> Ids]
    /\ LivenessPaths \subseteq Entries /\ Failing \subseteq Entries
    /\ Exits \subseteq {"defer", "host"}

VARIABLES
    request,            \* per request: how far it has come
    tracked,            \* RequestTracker._requests
    completed,          \* _completed_count
    baseline,           \* _completed_at_drain_start
    phase,              \* _phase
    drain,              \* program counter of _drain_and_shutdown
    deadline_passed,
    drained, aborted,   \* _drained_count, _aborted_count
    exits,              \* the disposition the signal handler found: who exits
    signal_once,        \* _signal_once is taken
    exit_armed,         \* _exit_signum is set
    main,               \* program counter of the main thread
    process,
    outcome,            \* history: how the drain ended
    in_drain            \* history: tracked when the drain began

requestVars == <<request, tracked, completed>>
drainVars == <<baseline, drain, deadline_passed, drained, aborted, outcome, in_drain>>
exitVars == <<exits, signal_once, exit_armed, main, process>>
shutdownVars == <<requestVars, phase, drainVars, exitVars>>
systemVars == <<vars, shutdownVars>>

ShutdownTypeOK ==
    /\ request \in [Entries -> {"new", "admitted", "tracked", "done", "rejected"}]
    /\ tracked \subseteq Entries /\ completed \subseteq Entries /\ baseline \subseteq Entries
    /\ drained \subseteq Entries /\ aborted \subseteq Entries /\ in_drain \subseteq Entries
    /\ phase \in {"running", "draining", "terminating", "terminated"}
    /\ drain \in {"none", "http", "buffer", "in_flight", "clean", "forced",
                  "handlers", "exit", "gone"}
    /\ exits \in Exits
    /\ deadline_passed \in BOOLEAN /\ signal_once \in BOOLEAN /\ exit_armed \in BOOLEAN
    /\ main \in {"up", "signalled", "hosted", "stopping"}
    /\ process \in {"up", "ended", "killed"}
    /\ outcome \in {"none", "clean", "forced"}

SystemTypeOK == TypeOK /\ ShutdownTypeOK

SystemInit ==
    /\ Init
    /\ request = [r \in Entries |-> "new"]
    /\ tracked = {} /\ completed = {} /\ baseline = {}
    /\ phase = "running" /\ drain = "none" /\ deadline_passed = FALSE
    /\ drained = {} /\ aborted = {} /\ outcome = "none" /\ in_drain = {}
    /\ exits \in Exits
    /\ signal_once = FALSE /\ exit_armed = FALSE
    /\ main = "up" /\ process = "up"

-----------------------------------------------------------------------------
(* Requests *)

Up == process = "up"

\* DrainAwareMiddleware asks is_accepting_requests; a liveness probe passes in
\* every phase.
Admit(r) ==
    /\ Up /\ request[r] = "new"
    /\ request' = [request EXCEPT ![r] =
                     IF phase = "running" \/ r \in LivenessPaths THEN "admitted" ELSE "rejected"]
    /\ UNCHANGED <<vars, tracked, completed, phase, drainVars, exitVars>>

SameId(r) == {s \in tracked : RequestId[s] = RequestId[r]}

\* RequestTrackingMiddleware, one layer further in: start_request stores the
\* request under its identifier, over another one of the same identifier.
StartRequest(r) ==
    /\ Up /\ request[r] = "admitted"
    /\ request' = [request EXCEPT ![r] = "tracked"]
    /\ tracked' = (tracked \ SameId(r)) \cup {r}
    /\ UNCHANGED <<vars, completed, phase, drainVars, exitVars>>

\* The application captures a failure while it serves the request.
CaptureIn(r) ==
    /\ Up /\ request[r] = "tracked" /\ r \in Failing
    /\ CheckWorker(r) \/ Put(r) \/ StoreSync(r)
    /\ UNCHANGED shutdownVars

\* end_request pops whatever is stored under the identifier.
EndRequest(r) ==
    /\ Up /\ request[r] = "tracked" /\ capture[r] \notin {"checked", "coerced"}
    /\ request' = [request EXCEPT ![r] = "done"]
    /\ tracked' = tracked \ SameId(r)
    /\ completed' = completed \cup SameId(r)
    /\ UNCHANGED <<vars, phase, drainVars, exitVars>>

-----------------------------------------------------------------------------
(* The coordinator *)

\* initiate_shutdown: nothing unless the phase is RUNNING.
initiate_shutdown ==
    IF phase # "running"
    THEN UNCHANGED <<phase, drain, baseline, in_drain>>
    ELSE /\ phase' = "draining" /\ drain' = "http"
         /\ baseline' = completed
         /\ in_drain' = IF main # "stopping" /\ teardown = "none"
                        THEN {r \in Entries : request[r] = "tracked"} ELSE {}

get_pending_requests == tracked \ aborted

\* Mutant: one pending request is taken for none.
http_drained_at_one == Cardinality(get_pending_requests) <= 1

http_drained == get_pending_requests = {}

DrainStep(from, to) ==
    /\ Up /\ drain = from /\ drain' = to
    /\ UNCHANGED <<vars, requestVars, baseline, deadline_passed, in_drain, exitVars>>

Polls(from, to) == DrainStep(from, to) /\ UNCHANGED <<phase, drained, aborted, outcome>>

\* The drain loop reads the tracker,
PollHttp == ~deadline_passed /\ http_drained /\ Polls("http", "buffer")

\* then DLQOutboxShutdownHandler.is_drain_complete: waiting cannot help,
HandlerGivesUp == (~is_alive \/ is_backing_off) /\ Polls("buffer", "clean")

\* or the buffer is empty, and then, at a second look, nothing is in flight.
PollBuffer ==
    /\ is_alive /\ ~is_backing_off
    /\ IF size(ring) = 0 THEN Polls("buffer", "in_flight") ELSE Polls("buffer", "http")

PollInFlight ==
    IF in_flight = 0 THEN Polls("in_flight", "clean") ELSE Polls("in_flight", "http")

\* Mutant: the count of the process's lifetime.
drained_by_now_ever == completed

\* The drain-window delta, not the lifetime total.
drained_by_now == completed \ baseline

\* Both drained: TERMINATED is stored before the handlers are told.
CleanDrain ==
    /\ DrainStep("clean", "handlers")
    /\ phase' = "terminated" /\ outcome' = "clean"
    /\ drained' = drained_by_now
    /\ UNCHANGED aborted

PassDeadline ==
    /\ Up /\ drain # "none" /\ ~deadline_passed
    /\ deadline_passed' = TRUE
    /\ UNCHANGED <<vars, requestVars, phase, baseline, drain, drained, aborted, outcome,
                   in_drain, exitVars>>

DrainTimeout ==
    /\ deadline_passed
    /\ DrainStep("http", "forced")
    /\ phase' = "terminating"
    /\ UNCHANGED <<drained, aborted, outcome>>

\* abort_all: the aborted requests and the completed count in one snapshot.
ForceDrain ==
    /\ DrainStep("forced", "handlers")
    /\ aborted' = aborted \cup get_pending_requests
    /\ drained' = drained_by_now
    /\ outcome' = "forced"
    /\ UNCHANGED phase

\* on_drain_complete and on_force_shutdown call stop_outbox_for_shutdown.
CallHandlers ==
    /\ Up /\ drain = "handlers"
    /\ BeginTeardown
    /\ UNCHANGED shutdownVars

\* Mutant: a repeated call finds the teardown begun and returns.
stop_returns_at_once == teardown # "none"

\* stop_outbox_for_shutdown returns: whoever runs it, a repeated call waits at
\* the gate for the first one's result.
stop_returns == teardown = "done"

HandlersDone ==
    /\ stop_returns
    /\ DrainStep("handlers", "exit")
    /\ phase' = "terminated"
    /\ UNCHANGED <<drained, aborted, outcome>>

\* Mutant: only a clean drain ends the process.
deferred_exit_if_clean == exit_armed /\ outcome = "clean"

\* _arm_deferred_exit: on either path, if a signal asked for it.
deferred_exit == exit_armed

\* The signal is sent again and lands in the handler's second branch, or the
\* deadman ends the process.
EndDrain ==
    /\ Up /\ drain = "exit" /\ drain' = "gone"
    /\ process' = IF deferred_exit THEN "ended" ELSE "up"
    /\ UNCHANGED <<vars, requestVars, phase, baseline, deadline_passed, drained, aborted,
                   outcome, in_drain, exits, signal_once, exit_armed, main>>

-----------------------------------------------------------------------------
(* Signals and the host *)

\* The first delivery takes _signal_once before anything else.
FirstSignal ==
    /\ Up /\ main = "up" /\ ~signal_once
    /\ signal_once' = TRUE
    /\ exit_armed' = (exits = "defer")
    /\ main' = "signalled"
    /\ UNCHANGED <<vars, requestVars, phase, drainVars, exits, process>>

\* Then it initiates the drain and hands over to the host's handler, if any.
HandleSignal ==
    /\ Up /\ main = "signalled"
    /\ initiate_shutdown
    /\ main' = IF exits = "host" THEN "hosted" ELSE "up"
    /\ UNCHANGED <<vars, requestVars, deadline_passed, drained, aborted, outcome,
                   exits, signal_once, exit_armed, process>>

\* initiate_shutdown called by the application or by a hook of the host,
\* whoever owns the exit.  No exit is armed.
InitiateByCall ==
    /\ Up /\ phase = "running"
    /\ initiate_shutdown
    /\ UNCHANGED <<vars, requestVars, deadline_passed, drained, aborted, outcome, exitVars>>

\* A second delivery while the coordinator owns the exit ends the process at
\* once; it may interrupt the first one's handler.
SecondSignal ==
    /\ Up /\ signal_once /\ exits = "defer"
    /\ process' = "killed"
    /\ UNCHANGED <<vars, requestVars, phase, drainVars, exits, signal_once, exit_armed, main>>

\* wait_for_shutdown: there is no drain, it ends, or the wait, as long as the
\* drain's own, has passed.
wait_for_shutdown == drain \in {"none", "gone"} \/ deadline_passed

\* worker_exit waits; after a signal, or when the host recycles its worker.
HostExit(from) ==
    /\ Up /\ exits = "host" /\ main = from
    /\ wait_for_shutdown
    /\ main' = "stopping"
    /\ UNCHANGED <<vars, requestVars, phase, drainVars, exits, signal_once, exit_armed, process>>

HostTeardown == Up /\ main = "stopping" /\ BeginTeardown /\ UNCHANGED shutdownVars

HostEnd ==
    /\ Up /\ main = "stopping" /\ stop_returns
    /\ process' = "ended"
    /\ UNCHANGED <<vars, requestVars, phase, drainVars, exits, signal_once, exit_armed, main>>

-----------------------------------------------------------------------------
OutboxRuns ==
    /\ Up
    /\ Draining \/ Crash \/ Probing \/ TearingDown
    /\ UNCHANGED shutdownVars
Serving == \E r \in Entries : Admit(r) \/ StartRequest(r) \/ CaptureIn(r) \/ EndRequest(r)
Coordinating ==
    \/ PollHttp \/ HandlerGivesUp \/ PollBuffer \/ PollInFlight \/ CleanDrain
    \/ DrainTimeout \/ ForceDrain \/ CallHandlers \/ HandlersDone \/ EndDrain
Exiting == HandleSignal \/ HostExit("hosted") \/ HostTeardown \/ HostEnd

SystemNext ==
    \/ OutboxRuns \/ Serving \/ Coordinating \/ Exiting \/ PassDeadline
    \/ FirstSignal \/ InitiateByCall \/ SecondSignal \/ HostExit("up")

SystemSpec == SystemInit /\ [][SystemNext]_systemVars

\* The drain thread, the main thread's handler and the teardown run, and time
\* passes.  No request need end, no drainer need run and no signal need come.
SystemFairness ==
    /\ WF_systemVars(Coordinating) /\ WF_systemVars(Exiting) /\ WF_systemVars(PassDeadline)
    /\ WF_systemVars(Up /\ TearingDown /\ UNCHANGED shutdownVars)

SystemFair == SystemSpec /\ SystemFairness

-----------------------------------------------------------------------------
\* A process that ends through the coordinator or its host's exit hook leaves
\* no accepted entry on the ring, in the drainer's batch or in the hands of an
\* unfinished dump, even if two exit paths tear the outbox down at once.
ExitAccounts ==
    process = "ended" =>
        \A e \in Accepted :
            e \in Attempts \cup Dumps \cup ring.dropped \cup late \cup stranded

\* What a request captured that was being served when the drain began is not
\* put too late for the teardown, if the drain ended clean: the coordinator
\* had waited for the request (services/dlq_outbox/shutdown.py).
DrainCapturesKept == outcome = "clean" => late \cap in_drain = {}

\* The books of a drain: a request in flight when the drain began is counted
\* as drained after a clean one, as drained or aborted after a forced one, even
\* if it ends while the force is under way; and no request is counted as both,
\* nor as drained if it had ended before.
BooksReconcile ==
    /\ outcome = "clean" => in_drain \subseteq drained
    /\ outcome = "forced" => in_drain \subseteq drained \cup aborted
    /\ outcome # "none" => drained \cap (aborted \cup baseline) = {}

\* The process has been told to end: a signal armed its exit before the drain
\* was over, or the host is on its way out.
Leaving == (exit_armed /\ drain # "gone") \/ main \in {"hosted", "stopping"}

\* A process told to end does end, whether or not its requests do, whichever of
\* drain and host tears the outbox down, on the clean and the forced path, and
\* also if a call had begun the drain before the signal came.  A signal that
\* comes after such a drain is over is not covered: the exit it arms is read
\* by nobody (shutdown_coordinator.py, _arm_deferred_exit), and the process
\* stays up until the next signal.
ShutdownEnds == Leaving ~> process # "up"
=============================================================================
