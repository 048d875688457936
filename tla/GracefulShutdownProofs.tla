----------------------- MODULE GracefulShutdownProofs -----------------------
(***************************************************************************)
(* Proofs about GracefulShutdown: the process as a whole is an environment *)
(* in which the outbox runs, so what is proved of the outbox holds in it;  *)
(* and, if no two requests share an identifier, a clean drain has waited   *)
(* for the requests that were in flight when it began.                     *)
(***************************************************************************)
EXTENDS GracefulShutdown, DLQOutboxProofs

\* Every request is tracked under an identifier of its own.
UniqueIds == \A r, s \in Entries : RequestId[r] = RequestId[s] => r = s

\* The teardown is over, with nothing left to dump, before anything ends that
\* waits for it.
ExitInv ==
    /\ teardown = "done" => handed = <<>>
    /\ drain \in {"exit", "gone"} => teardown = "done"
    /\ process = "ended" => teardown = "done"

\* Where the requests of the drain are.
DrainInv ==
    /\ request \in [Entries -> {"new", "admitted", "tracked", "done", "rejected"}]
    /\ tracked = {r \in Entries : request[r] = "tracked"}
    /\ completed = {r \in Entries : request[r] = "done"}
    /\ baseline \subseteq completed
    /\ in_drain \subseteq tracked \cup completed
    /\ in_drain \cap baseline = {}
    /\ drain \in {"none", "http", "buffer", "in_flight", "clean", "forced",
                  "handlers", "exit", "gone"}
    /\ phase = "running" <=> drain = "none"
    /\ drain = "none" => in_drain = {}
    /\ drain \in {"none", "http", "buffer", "in_flight", "clean", "forced"} =>
           outcome = "none" /\ aborted = {} /\ drained = {}
    /\ drain \in {"handlers", "exit", "gone"} => outcome \in {"clean", "forced"}
    /\ drain \in {"buffer", "in_flight", "clean"} => in_drain \subseteq completed
    /\ outcome = "clean" => in_drain \subseteq completed

\* The outbox is not torn down under a request of the drain before the drain's
\* deadline or end; what is put too late then belongs to a forced drain.
LateInv ==
    /\ late # {} => teardown # "none"
    /\ (main = "stopping" \/ teardown # "none") =>
           in_drain = {} \/ deadline_passed \/ drain \in {"handlers", "exit", "gone"}
    /\ (\E e \in late : e \in in_drain) =>
           \/ drain = "http" /\ deadline_passed
           \/ drain = "forced"
           \/ outcome = "forced"

-----------------------------------------------------------------------------
(* The steps of the system *)

\* Steps of the requests, the coordinator and the main thread alone.
ShutdownMoves ==
    \/ \E r \in Entries : Admit(r) \/ StartRequest(r) \/ EndRequest(r)
    \/ PollHttp \/ HandlerGivesUp \/ PollBuffer \/ PollInFlight \/ CleanDrain \/ DrainTimeout
    \/ ForceDrain \/ HandlersDone \/ EndDrain \/ PassDeadline
    \/ FirstSignal \/ HandleSignal \/ InitiateByCall \/ SecondSignal
    \/ HostExit("hosted") \/ HostExit("up") \/ HostEnd

\* Steps of the outbox alone, on behalf of whoever takes them.
OutboxMoves ==
    /\ UNCHANGED shutdownVars
    /\ \/ OutboxRuns
       \/ \E r \in Entries : CaptureIn(r)
       \/ CallHandlers \/ HostTeardown

\* There are no others.
LEMMA SystemSteps == SystemNext => ShutdownMoves \/ OutboxMoves
<1>1. OutboxRuns => OutboxMoves
    BY Zenon DEF OutboxRuns, OutboxMoves
<1>2. ASSUME NEW r \in Entries, CaptureIn(r) PROVE OutboxMoves
    BY <1>2, Zenon DEF CaptureIn, OutboxMoves
<1>3. CallHandlers \/ HostTeardown => OutboxMoves
    BY Zenon DEF CallHandlers, HostTeardown, OutboxMoves
<1> QED
    BY <1>1, <1>2, <1>3, Zenon DEF SystemNext, Serving, Coordinating, Exiting, ShutdownMoves

\* The requests and the coordinator leave the outbox alone.
LEMMA ShutdownMovesQuiet == ShutdownMoves => UNCHANGED vars
    BY Zenon DEF ShutdownMoves, Admit, StartRequest, EndRequest, PollHttp, HandlerGivesUp,
       PollBuffer, PollInFlight, Polls, DrainStep, CleanDrain, DrainTimeout, ForceDrain,
       HandlersDone, EndDrain, PassDeadline, FirstSignal, HandleSignal, InitiateByCall,
       SecondSignal, HostExit, HostEnd

\* What the system does to the outbox is a step of the outbox.
LEMMA OutboxMovesStep == OutboxMoves => Next
<1>1. OutboxRuns => Next
    BY Zenon DEF OutboxRuns, Next
<1>2. ASSUME NEW r \in Entries, CaptureIn(r) PROVE Next
    BY <1>2, Zenon DEF CaptureIn, Next, Capturing
<1>3. CallHandlers \/ HostTeardown => Next
    BY Zenon DEF CallHandlers, HostTeardown, Next
<1> QED
    BY <1>1, <1>2, <1>3, Zenon DEF OutboxMoves

\* The system is an environment of the outbox that keeps to its specification:
\* its threads capture, and its exit paths tear it down.
THEOREM SystemImplementsOutbox == SystemSpec => Spec
<1>1. SystemInit => Init
    BY Zenon DEF SystemInit
<1>2. [SystemNext]_systemVars => [Next]_vars
    BY SystemSteps, ShutdownMovesQuiet, OutboxMovesStep, Zenon DEF systemVars
<1> QED
    BY <1>1, <1>2, PTL DEF SystemSpec, Spec

-----------------------------------------------------------------------------
(* Type correctness *)

\* Every step of requests, coordinator and main thread keeps their types.
LEMMA ShutdownTypeStep ==
    ASSUME ShutdownTypeOK, ShutdownMoves
    PROVE  ShutdownTypeOK'
<1> USE DEF ShutdownTypeOK, requestVars, drainVars, exitVars
<1>1. ASSUME NEW r \in Entries, Admit(r) \/ StartRequest(r) \/ EndRequest(r)
      PROVE  ShutdownTypeOK'
  BY <1>1 DEF Admit, StartRequest, EndRequest, SameId
<1>2. CASE PollHttp \/ HandlerGivesUp \/ PollBuffer \/ PollInFlight
  BY <1>2 DEF PollHttp, HandlerGivesUp, PollBuffer, PollInFlight, Polls, DrainStep
<1>3. CASE CleanDrain \/ ForceDrain \/ DrainTimeout \/ HandlersDone
  <2>1. drained_by_now \subseteq Entries /\ get_pending_requests \subseteq Entries
    BY Zenon DEF drained_by_now, get_pending_requests
  <2>2. QED
    BY <1>3, <2>1, Zenon DEF CleanDrain, ForceDrain, DrainTimeout, HandlersDone, DrainStep
<1>4. CASE EndDrain \/ PassDeadline \/ FirstSignal \/ SecondSignal
           \/ HostExit("hosted") \/ HostExit("up") \/ HostEnd
  BY <1>4, Zenon DEF EndDrain, PassDeadline, FirstSignal, SecondSignal, HostExit, HostEnd
<1>5. CASE HandleSignal \/ InitiateByCall
  <2>1. /\ phase' \in {"running", "draining", "terminating", "terminated"}
        /\ drain' \in {"none", "http", "buffer", "in_flight", "clean", "forced",
                       "handlers", "exit", "gone"}
        /\ baseline' \subseteq Entries /\ in_drain' \subseteq Entries
    BY <1>5, Zenon DEF HandleSignal, InitiateByCall, initiate_shutdown
  <2>2. QED
    BY <1>5, <2>1, Zenon DEF HandleSignal, InitiateByCall
<1>6. QED
  BY <1>1, <1>2, <1>3, <1>4, <1>5, Zenon DEF ShutdownMoves

\* Requests, drain, exit and outbox of one process keep their types, whichever
\* thread takes the next step.
THEOREM SystemTypeCorrect == SystemSpec => []SystemTypeOK
<1>1. SystemInit => ShutdownTypeOK
  BY Zenon DEF SystemInit, ShutdownTypeOK
<1>2. ShutdownTypeOK /\ [SystemNext]_systemVars => ShutdownTypeOK'
  <2>1. CASE OutboxMoves \/ UNCHANGED systemVars
    BY <2>1 DEF OutboxMoves, systemVars, shutdownVars, requestVars, drainVars, exitVars,
                ShutdownTypeOK
  <2>2. QED
    BY <2>1, SystemSteps, ShutdownTypeStep, Zenon
<1>3. SystemSpec => []ShutdownTypeOK
  BY <1>1, <1>2, PTL DEF SystemSpec
<1>4. QED
  BY <1>3, SystemImplementsOutbox, OutboxTypeCorrect, PTL DEF SystemTypeOK

-----------------------------------------------------------------------------
(* The end of the process *)

\* A finished teardown stays finished, and leaves nothing to dump.
LEMMA TeardownStays ==
    ASSUME [Next]_vars
    PROVE  /\ teardown = "done" => teardown' = "done" /\ handed' = handed
           /\ teardown' = "done" /\ teardown # "done" => handed' = <<>>
<1>1. CASE BeginTeardown \/ TearingDown
    BY <1>1, Zenon DEF BeginTeardown, TearingDown, Measure, StopWriter, Rescue, DumpEntry, Conclude
<1>2. CASE ~(BeginTeardown \/ TearingDown)
  <2>1. UNCHANGED <<teardown, handed>>
    BY <1>2, Zenon DEF Next, Capturing, CheckWorker, Put, StoreSync, Draining, Turn, LeaveLoop,
       FlushDue, NotDue, Pop, Count, WriteEntry, Resolve, Settle, Observe, Crash, Probing,
       NoticeDeath, Respawn, AnnounceRespawn, vars, teardownVars
  <2> QED
    BY <2>1, Zenon
<1> QED
    BY <1>1, <1>2, Zenon

\* Whoever waits for the teardown waits for its end.
LEMMA ExitStep == ExitInv /\ [SystemNext]_systemVars => ExitInv'
<1> SUFFICES ASSUME ExitInv, [SystemNext]_systemVars PROVE ExitInv'
    OBVIOUS
<1>1. [Next]_vars
    BY SystemSteps, ShutdownMovesQuiet, OutboxMovesStep, Zenon DEF systemVars
<1>2. teardown = "done" => teardown' = "done" /\ handed' = handed
    BY <1>1, TeardownStays, Zenon
<1>3. teardown' = "done" => handed' = <<>>
    BY <1>1, <1>2, TeardownStays, Zenon DEF ExitInv
<1>4. CASE OutboxMoves \/ UNCHANGED systemVars
  <2>1. UNCHANGED <<drain, process>>
    BY <1>4, Zenon DEF OutboxMoves, systemVars, shutdownVars, drainVars, exitVars
  <2> QED
    BY <1>2, <1>3, <2>1, Zenon DEF ExitInv
<1>5. CASE ShutdownMoves
  <2>1. drain' \in {"exit", "gone"} /\ drain \notin {"exit", "gone"} => teardown = "done"
    BY <1>5, Zenon DEF ShutdownMoves, Admit, StartRequest, EndRequest, PollHttp, HandlerGivesUp,
       PollBuffer, PollInFlight, Polls, DrainStep, CleanDrain, DrainTimeout, ForceDrain,
       HandlersDone, EndDrain, PassDeadline, FirstSignal, HandleSignal, InitiateByCall,
       initiate_shutdown, SecondSignal, HostExit, HostEnd, stop_returns, drainVars
  <2>2. process' = "ended" /\ process # "ended" => drain = "exit" \/ teardown = "done"
    BY <1>5, Zenon DEF ShutdownMoves, Admit, StartRequest, EndRequest, PollHttp, HandlerGivesUp,
       PollBuffer, PollInFlight, Polls, DrainStep, CleanDrain, DrainTimeout, ForceDrain,
       HandlersDone, EndDrain, PassDeadline, FirstSignal, HandleSignal, InitiateByCall,
       SecondSignal, HostExit, HostEnd, stop_returns, exitVars
  <2> QED
    BY <1>2, <1>3, <2>1, <2>2, Zenon DEF ExitInv
<1> QED
    BY <1>4, <1>5, SystemSteps, Zenon

\* A process that ends through the coordinator or its host leaves no accepted
\* entry unaccounted, whatever the exit paths do at once.
THEOREM ExitAccountsCorrect == SystemSpec => []ExitAccounts
<1>1. SystemInit => ExitInv
    BY Zenon DEF SystemInit, Init, ExitInv
<1>2. NothingVanishes /\ ExitInv => ExitAccounts
  <2> SUFFICES ASSUME NothingVanishes, ExitInv, process = "ended",
                      NEW e \in Accepted
               PROVE  e \in Attempts \cup Dumps \cup ring.dropped \cup late \cup stranded
    BY Zenon DEF ExitAccounts
  <2>1. Rescued /\ Handed = {}
    BY DEF ExitInv, Rescued, Handed, After
  <2> QED
    BY <2>1, Zenon DEF NothingVanishes
<1> QED
    BY <1>1, <1>2, ExitStep, SystemImplementsOutbox, NothingVanishesCorrect, PTL DEF SystemSpec

-----------------------------------------------------------------------------
(* A drain waits *)

\* Under identifiers of their own, only the request itself is found.
LEMMA SameIdIsSelf ==
    ASSUME UniqueIds, tracked \subseteq Entries, NEW r \in Entries
    PROVE  SameId(r) = tracked \cap {r}
    BY Zenon DEF UniqueIds, SameId

\* How initiate_shutdown moves the drain.
LEMMA InitiateKeeps ==
    ASSUME DrainInv, initiate_shutdown,
           UNCHANGED <<request, tracked, completed, drained, aborted, outcome>>
    PROVE  DrainInv'
<1>1. CASE phase # "running"
    BY <1>1, Zenon DEF initiate_shutdown, DrainInv
<1>2. CASE phase = "running"
  <2>1. /\ phase' = "draining" /\ drain' = "http" /\ baseline' = completed
        /\ in_drain' \subseteq tracked
    BY <1>2, Zenon DEF initiate_shutdown, DrainInv
  <2>2. tracked \cap completed = {}
    BY Zenon DEF DrainInv
  <2>3. drain = "none"
    BY <1>2, Zenon DEF DrainInv
  <2> QED
    BY <2>1, <2>2, <2>3, Zenon DEF DrainInv
<1> QED
    BY <1>1, <1>2, Zenon

\* The steps of the requests keep the drain's account of them.
LEMMA RequestKeeps ==
    ASSUME UniqueIds, DrainInv,
           NEW r \in Entries, Admit(r) \/ StartRequest(r) \/ EndRequest(r)
    PROVE  DrainInv'
<1>0. tracked \subseteq Entries
    BY Zenon DEF DrainInv
<1>1. UNCHANGED <<phase, baseline, drain, drained, aborted, outcome, in_drain>>
    BY Zenon DEF Admit, StartRequest, EndRequest, drainVars
<1>2. request' \in [Entries -> {"new", "admitted", "tracked", "done", "rejected"}]
    BY Zenon DEF Admit, StartRequest, EndRequest, DrainInv
<1>3. CASE Admit(r)
  <2>1. UNCHANGED <<tracked, completed>>
    BY <1>3, Zenon DEF Admit
  <2>2. \A s \in Entries : (request'[s] = "tracked" <=> request[s] = "tracked")
                         /\ (request'[s] = "done" <=> request[s] = "done")
    BY <1>3, Zenon DEF Admit, DrainInv
  <2> QED
    BY <1>1, <1>2, <2>1, <2>2, Zenon DEF DrainInv
<1>4. CASE StartRequest(r)
  <2>1. tracked' = tracked \cup {r} /\ completed' = completed
    BY <1>0, <1>4, SameIdIsSelf, Zenon DEF StartRequest
  <2>2. \A s \in Entries : request'[s] = IF s = r THEN "tracked" ELSE request[s]
    BY <1>4, Zenon DEF StartRequest, DrainInv
  <2>3. request[r] = "admitted"
    BY <1>4, Zenon DEF StartRequest
  <2> QED
    BY <1>1, <1>2, <2>1, <2>2, <2>3, Zenon DEF DrainInv
<1>5. CASE EndRequest(r)
  <2>1. r \in tracked
    BY <1>5, Zenon DEF EndRequest, DrainInv
  <2>2. tracked' = tracked \ {r} /\ completed' = completed \cup {r}
    BY <1>0, <1>5, <2>1, SameIdIsSelf, Zenon DEF EndRequest
  <2>3. \A s \in Entries : request'[s] = IF s = r THEN "done" ELSE request[s]
    BY <1>5, Zenon DEF EndRequest, DrainInv
  <2> QED
    BY <1>1, <1>2, <2>2, <2>3, Zenon DEF DrainInv
<1> QED
    BY <1>3, <1>4, <1>5, Zenon

\* So do those of the drain thread: it passes the tracker only when every
\* request in flight at the beginning has ended.
LEMMA DrainStep_Keeps ==
    ASSUME DrainInv,
           PollHttp \/ HandlerGivesUp \/ PollBuffer \/ PollInFlight \/ CleanDrain
           \/ DrainTimeout \/ ForceDrain \/ HandlersDone \/ EndDrain
    PROVE  DrainInv'
<1>1. UNCHANGED <<request, tracked, completed, baseline, in_drain>>
    BY Zenon DEF PollHttp, HandlerGivesUp, PollBuffer, PollInFlight, Polls, DrainStep, CleanDrain,
       DrainTimeout, ForceDrain, HandlersDone, EndDrain, requestVars
<1>2. CASE PollHttp
  <2>1. /\ drain = "http" /\ drain' = "buffer"
        /\ UNCHANGED <<phase, drained, aborted, outcome>>
    BY <1>2, Zenon DEF PollHttp, Polls, DrainStep
  <2>2. in_drain \subseteq completed
    BY <1>2, <2>1, Zenon DEF PollHttp, http_drained, get_pending_requests, DrainInv
  <2> QED
    BY <1>1, <2>1, <2>2, Zenon DEF DrainInv
<1>3. CASE HandlerGivesUp \/ PollBuffer \/ PollInFlight
  <2>1. /\ drain \in {"buffer", "in_flight"} /\ drain' \in {"http", "in_flight", "clean"}
        /\ UNCHANGED <<phase, drained, aborted, outcome>>
    BY <1>3, Zenon DEF HandlerGivesUp, PollBuffer, PollInFlight, Polls, DrainStep
  <2> QED
    BY <1>1, <2>1, Zenon DEF DrainInv
<1>4. CASE CleanDrain \/ ForceDrain
    BY <1>1, <1>4, Zenon DEF CleanDrain, ForceDrain, DrainStep, DrainInv
<1>5. CASE DrainTimeout
    BY <1>1, <1>5, Zenon DEF DrainTimeout, DrainStep, DrainInv
<1>6. CASE HandlersDone \/ EndDrain
    BY <1>1, <1>6, Zenon DEF HandlersDone, DrainStep, EndDrain, DrainInv
<1> QED
    BY <1>2, <1>3, <1>4, <1>5, <1>6, Zenon

\* The drain's account of its requests is kept by every step.
LEMMA DrainInvStep ==
    ASSUME UniqueIds, DrainInv, [SystemNext]_systemVars
    PROVE  DrainInv'
<1>1. CASE OutboxMoves \/ UNCHANGED systemVars
    BY <1>1, Zenon DEF OutboxMoves, systemVars, shutdownVars, requestVars, drainVars, DrainInv
<1>2. CASE \E r \in Entries : Admit(r) \/ StartRequest(r) \/ EndRequest(r)
    BY <1>2, RequestKeeps, Zenon
<1>3. CASE HandleSignal \/ InitiateByCall
  <2>1. UNCHANGED <<request, tracked, completed, drained, aborted, outcome>> /\ initiate_shutdown
    BY <1>3, Zenon DEF HandleSignal, InitiateByCall, requestVars
  <2> QED
    BY <2>1, InitiateKeeps, Zenon
<1>4. CASE PassDeadline \/ FirstSignal \/ SecondSignal \/ HostExit("hosted")
           \/ HostExit("up") \/ HostEnd
  <2>1. UNCHANGED <<request, tracked, completed, phase, baseline, drain, drained, aborted,
                    outcome, in_drain>>
    BY <1>4, Zenon DEF PassDeadline, FirstSignal, SecondSignal, HostExit, HostEnd, requestVars, drainVars
  <2> QED
    BY <2>1, Zenon DEF DrainInv
<1> QED
    BY <1>1, <1>2, <1>3, <1>4, SystemSteps, DrainStep_Keeps, Zenon DEF ShutdownMoves

\* The teardown begins where the system lets it, and only then is an entry late.
LEMMA OutboxMovesLate ==
    ASSUME OutboxMoves
    PROVE  /\ teardown # "none" => teardown' # "none"
           /\ teardown' # "none" /\ teardown = "none" => drain = "handlers" \/ main = "stopping"
           /\ \/ late' = late
              \/ \E r \in Entries :
                    late' = late \cup {r} /\ request[r] = "tracked" /\ teardown # "none"
<1>1. CASE OutboxRuns
  <2>1. CASE TearingDown
    BY <2>1, Zenon DEF TearingDown, Measure, StopWriter, Rescue, DumpEntry, Conclude, captureVars
  <2>2. CASE Draining \/ Crash \/ Probing
    <3>1. UNCHANGED <<teardown, late>>
      BY <2>2, Zenon DEF Draining, Turn, LeaveLoop, FlushDue, NotDue, Pop, Count, WriteEntry,
         Resolve, Settle, Observe, Crash, Probing, NoticeDeath, Respawn, AnnounceRespawn,
         teardownVars, captureVars
    <3> QED
      BY <3>1, Zenon
  <2> QED
    BY <1>1, <2>1, <2>2, Zenon DEF OutboxRuns
<1>2. ASSUME NEW r \in Entries, CaptureIn(r)
      PROVE  /\ teardown' = teardown
             /\ late' = late \/ (late' = late \cup {r} /\ request[r] = "tracked"
                                                    /\ teardown # "none")
  <2>1. CASE CheckWorker(r) \/ StoreSync(r)
    BY <2>1, Zenon DEF CheckWorker, StoreSync, teardownVars
  <2>2. CASE Put(r)
    <3>1. teardown' = teardown /\ late' = IF Rescued THEN late \cup {r} ELSE late
      BY <2>2, Zenon DEF Put, teardownVars
    <3>2. Rescued => teardown # "none"
      BY Zenon DEF Rescued
    <3> QED
      BY <1>2, <3>1, <3>2, Zenon DEF CaptureIn
  <2> QED
    BY <1>2, <2>1, <2>2, Zenon DEF CaptureIn
<1>3. CASE CallHandlers \/ HostTeardown
    BY <1>3, Zenon DEF CallHandlers, HostTeardown, BeginTeardown, captureVars
<1> QED
    BY <1>1, <1>2, <1>3, Zenon DEF OutboxMoves

\* An entry of the drain's requests is late only in a drain that ends forced.
LEMMA LateStep ==
    ASSUME UniqueIds, DrainInv, LateInv, [SystemNext]_systemVars
    PROVE  LateInv'
<1>1. CASE OutboxMoves
  <2>1. UNCHANGED <<main, in_drain, deadline_passed, drain, outcome>>
    BY <1>1, Zenon DEF OutboxMoves, shutdownVars, drainVars, exitVars
  <2>2. (late # {} => teardown # "none")'
    BY <1>1, OutboxMovesLate, Zenon DEF LateInv
  <2>3. (main = "stopping" \/ teardown # "none")' =>
            in_drain = {} \/ deadline_passed \/ drain \in {"handlers", "exit", "gone"}
    BY <1>1, <2>1, OutboxMovesLate, Zenon DEF LateInv
  <2>4. ASSUME NEW e \in late', e \in in_drain
        PROVE  \/ drain = "http" /\ deadline_passed
               \/ drain = "forced"
               \/ outcome = "forced"
    <3>1. CASE e \in late
      BY <2>4, <3>1, Zenon DEF LateInv
    <3>2. CASE e \notin late
      <4>1. request[e] = "tracked" /\ teardown # "none"
        BY <1>1, <2>4, <3>2, OutboxMovesLate, Zenon
      <4>2. e \notin completed
        BY <4>1, Zenon DEF DrainInv
      <4>3. drain \notin {"none", "buffer", "in_flight", "clean"} /\ outcome # "clean"
        BY <2>4, <4>2, Zenon DEF DrainInv
      <4>4. deadline_passed \/ drain \in {"handlers", "exit", "gone"}
        BY <2>4, <4>1, Zenon DEF LateInv
      <4> QED
        BY <4>3, <4>4, Zenon DEF DrainInv
    <3> QED
      BY <3>1, <3>2, Zenon
  <2> QED
    BY <2>1, <2>2, <2>3, <2>4, Zenon DEF LateInv
<1>2. CASE UNCHANGED systemVars
    BY <1>2, Zenon DEF systemVars, vars, captureVars, teardownVars, shutdownVars, drainVars, exitVars,
       LateInv
<1>3. CASE ShutdownMoves
  <2>1. UNCHANGED <<late, teardown>>
    BY <1>3, ShutdownMovesQuiet, Zenon DEF vars, captureVars, teardownVars
  <2>2. CASE HandleSignal \/ InitiateByCall
    <3>1. /\ initiate_shutdown /\ UNCHANGED <<deadline_passed, outcome>>
          /\ main' = "stopping" => main = "stopping"
      BY <2>2, Zenon DEF HandleSignal, InitiateByCall, exitVars
    <3>2. CASE phase # "running"
      BY <2>1, <3>1, <3>2, Zenon DEF initiate_shutdown, LateInv
    <3>3. CASE phase = "running"
      <4>1. in_drain' = {} \/ (main # "stopping" /\ teardown = "none")
        BY <3>1, <3>3, Zenon DEF initiate_shutdown
      <4> QED
        BY <2>1, <3>1, <4>1, Zenon DEF LateInv
    <3> QED
      BY <3>2, <3>3, Zenon
  <2>3. CASE HostExit("hosted") \/ HostExit("up")
    <3>1. wait_for_shutdown /\ UNCHANGED <<drain, deadline_passed, outcome, in_drain>>
      BY <2>3, Zenon DEF HostExit, drainVars
    <3> QED
      BY <2>1, <3>1, Zenon DEF wait_for_shutdown, LateInv, DrainInv
  <2>4. CASE \/ \E r \in Entries : Admit(r) \/ StartRequest(r) \/ EndRequest(r)
             \/ FirstSignal \/ SecondSignal \/ HostEnd \/ PassDeadline
    <3>1. /\ UNCHANGED <<drain, outcome, in_drain>>
          /\ deadline_passed => deadline_passed'
          /\ main' = "stopping" => main = "stopping"
      BY <2>4 DEF Admit, StartRequest, EndRequest, FirstSignal, SecondSignal, HostEnd,
         PassDeadline, drainVars, exitVars
    <3> QED
      BY <2>1, <3>1, Zenon DEF LateInv
  <2>5. CASE PollHttp \/ HandlerGivesUp \/ PollBuffer \/ PollInFlight \/ CleanDrain
             \/ DrainTimeout \/ ForceDrain \/ HandlersDone \/ EndDrain
    <3>1. UNCHANGED <<main, deadline_passed, in_drain>>
      BY <2>5, Zenon DEF PollHttp, HandlerGivesUp, PollBuffer, PollInFlight, Polls, DrainStep,
         CleanDrain, DrainTimeout, ForceDrain, HandlersDone, EndDrain, exitVars
    <3>2. drain \in {"handlers", "exit", "gone"} => drain' \in {"handlers", "exit", "gone"}
      BY <2>5, Zenon DEF PollHttp, HandlerGivesUp, PollBuffer, PollInFlight, Polls, DrainStep,
         CleanDrain, DrainTimeout, ForceDrain, HandlersDone, EndDrain
    <3>3. \/ drain = "http" /\ deadline_passed
          \/ drain = "forced"
          \/ outcome = "forced"
          => drain' = "forced" \/ outcome' = "forced"
      BY <2>5, Zenon DEF PollHttp, HandlerGivesUp, PollBuffer, PollInFlight, Polls, DrainStep,
         CleanDrain, DrainTimeout, ForceDrain, HandlersDone, EndDrain, DrainInv
    <3> QED
      BY <2>1, <3>1, <3>2, <3>3, Zenon DEF LateInv
  <2> QED
    BY <1>3, <2>2, <2>3, <2>4, <2>5, Zenon DEF ShutdownMoves
<1> QED
    BY <1>1, <1>2, <1>3, SystemSteps, Zenon

\* The counts of a drain are taken once, when no request is in two places.
LEMMA BooksStep ==
    ASSUME UniqueIds, DrainInv, BooksReconcile, [SystemNext]_systemVars
    PROVE  BooksReconcile'
<1>1. CASE CleanDrain \/ ForceDrain
  <2>1. /\ UNCHANGED <<in_drain, baseline>> /\ drained' = completed \ baseline
        /\ aborted' = IF CleanDrain THEN aborted ELSE aborted \cup (tracked \ aborted)
        /\ outcome' = IF CleanDrain THEN "clean" ELSE "forced"
        /\ drain \in {"clean", "forced"} /\ (CleanDrain => drain = "clean")
    BY <1>1, Zenon DEF CleanDrain, ForceDrain, DrainStep, drained_by_now, get_pending_requests
  <2>2. aborted = {} /\ tracked \cap completed = {}
    BY <2>1, Zenon DEF DrainInv
  <2> QED
    BY <2>1, <2>2, Zenon DEF DrainInv, BooksReconcile
<1>2. CASE HandleSignal \/ InitiateByCall
  <2>1. UNCHANGED <<drained, aborted, outcome>> /\ initiate_shutdown
    BY <1>2, Zenon DEF HandleSignal, InitiateByCall
  <2> QED
    BY <2>1, Zenon DEF initiate_shutdown, DrainInv, BooksReconcile
<1>3. CASE ~(CleanDrain \/ ForceDrain \/ HandleSignal \/ InitiateByCall)
  <2>1. UNCHANGED <<drained, aborted, outcome, in_drain, baseline>>
    BY <1>3, SystemSteps, Zenon DEF ShutdownMoves, OutboxMoves, systemVars, shutdownVars, Admit,
       StartRequest, EndRequest, PollHttp, HandlerGivesUp, PollBuffer, PollInFlight, Polls,
       DrainStep, DrainTimeout, HandlersDone, EndDrain, PassDeadline, FirstSignal,
       SecondSignal, HostExit, HostEnd, drainVars
  <2> QED
    BY <2>1, Zenon DEF BooksReconcile
<1> QED
    BY <1>1, <1>2, <1>3, Zenon

\* If every request has an identifier of its own, what a request captured that
\* was in flight when the drain began is not late after a clean drain.
THEOREM DrainCapturesKeptCorrect ==
    ASSUME UniqueIds
    PROVE  SystemSpec => []DrainCapturesKept
<1>1. SystemInit => DrainInv /\ LateInv
    BY Zenon DEF SystemInit, Init, DrainInv, LateInv
<1>2. DrainInv /\ LateInv /\ [SystemNext]_systemVars => (DrainInv /\ LateInv)'
    BY DrainInvStep, LateStep, Zenon
<1>3. DrainInv /\ LateInv => DrainCapturesKept
    BY Zenon DEF DrainInv, LateInv, DrainCapturesKept
<1> QED
    BY <1>1, <1>2, <1>3, PTL DEF SystemSpec

\* And the counts of drained and aborted requests add up.
THEOREM BooksReconcileCorrect ==
    ASSUME UniqueIds
    PROVE  SystemSpec => []BooksReconcile
<1>1. SystemInit => DrainInv /\ BooksReconcile
    BY Zenon DEF SystemInit, Init, DrainInv, BooksReconcile
<1>2. DrainInv /\ BooksReconcile /\ [SystemNext]_systemVars => (DrainInv /\ BooksReconcile)'
    BY DrainInvStep, BooksStep, Zenon
<1> QED
    BY <1>1, <1>2, PTL DEF SystemSpec
=============================================================================
