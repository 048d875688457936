------------------------------- MODULE Replay -------------------------------
(***************************************************************************)
(* The replays of one dead-letter entry, by every lane that can start one: *)
(* the sweeps and recovery trials of the replay service                    *)
(* (services/replay_service/service.py, _execute_replay), an operator's    *)
(* retry and force-redrive (services/dlq_read/entry_operations.py), and    *)
(* the stale release that takes an entry back from a replay that does not  *)
(* end.                                                                    *)
(*                                                                         *)
(* The entry's idempotency keys are one per attempt number.  A worker runs *)
(* one job at a time; its next replay waits until that job's work is over. *)
(***************************************************************************)
EXTENDS FailedOperationStore, FiniteSets

CONSTANTS
    Workers,
    LanesOf,        \* the lanes each worker runs
    Limited,        \* the workers under a task time limit the stale release outlasts
    Faults,         \* subset of {"gate", "store"}
    MaxForces,      \* bound: force-redrives
    MaxFree         \* bound: trials and refused jobs, which give their attempt back

Lane == {"sweep", "trial", "retry", "force"}

ASSUME ReplayAssumption ==
    /\ IsFiniteSet(Workers) /\ Limited \subseteq Workers
    /\ LanesOf \in [Workers -> SUBSET Lane]
    /\ MaxForces \in Nat /\ MaxFree \in Nat

VARIABLES
    entry,
    key,            \* per attempt number: the status of its idempotency record
    run,            \* per worker: the replay it is in
    abandoned,      \* workers whose job was cut off and may still be running
    forces, free,   \* bounds' counters
    lost,           \* history: replays whose entry was taken from them
    charged,        \* history: jobs begun, trials aside, since the last fresh budget
    slipped,        \* history: attempts given back to a budget they did not come from
    succeeded       \* history: a job of this entry succeeded

vars == <<entry, key, run, abandoned, forces, free, lost, charged, slipped, succeeded>>

Attempts == 1..MaxReplayAttempts

Idle == [at |-> "idle", lane |-> "sweep", acquired |-> 0, grant |-> 0,
         began |-> FALSE, success |-> FALSE, cut |-> FALSE]

Run == [at : {"gate", "skip", "abort", "start", "running", "complete", "mark", "give_back"},
        lane : Lane, acquired : Attempts, grant : 0..MaxForces,
        began : BOOLEAN, success : BOOLEAN, cut : BOOLEAN]

TypeOK ==
    /\ entry \in Entry
    /\ key \in [Attempts -> {"absent", "executing", "completed", "failed"}]
    /\ run \in [Workers -> Run \cup {Idle}]
    /\ abandoned \subseteq Workers /\ lost \subseteq Workers
    /\ forces \in 0..MaxForces /\ free \in 0..MaxFree
    /\ charged \in Nat /\ slipped \in Nat
    /\ succeeded \in BOOLEAN

Init ==
    /\ \E cap \in CapturedCaps : entry = Captured(cap)
    /\ key = [n \in Attempts |-> "absent"]
    /\ run = [w \in Workers |-> Idle]
    /\ abandoned = {} /\ lost = {}
    /\ forces = 0 /\ free = 0 /\ charged = 0 /\ slipped = 0
    /\ succeeded = FALSE

-----------------------------------------------------------------------------
in_replay(w) == run[w].at # "idle"

Goes(w, at) ==
    run' = [run EXCEPT ![w] = IF at = "idle" THEN Idle ELSE [@ EXCEPT !.at = at]]

\* The other replays under way: what ends the entry's acquisition ends theirs.
others(w) == {v \in Workers \ {w} : in_replay(v) \/ v \in abandoned}

\* An acquisition that finds the entry not acquirable changes nothing.  What
\* the lanes ask before it, they ask of an entry read before, and it asks again.
Acquire(w, lane) ==
    /\ ~in_replay(w) /\ w \notin abandoned
    /\ acquirable(entry, lane = "force")
    /\ lane = "force" => forces < MaxForces
    /\ lane = "trial" => free < MaxFree
    /\ entry' = acquired_entry(entry, lane = "force")
    /\ forces' = IF lane = "force" THEN forces + 1 ELSE forces
    /\ free' = IF lane = "trial" THEN free + 1 ELSE free
    /\ charged' = IF lane = "force" THEN 0 ELSE charged
    /\ slipped' = IF lane = "force" THEN 0 ELSE slipped
    /\ run' = [run EXCEPT ![w] =
                 [at |-> IF lane \in {"sweep", "trial"} THEN "gate" ELSE "start",
                  lane |-> lane, acquired |-> entry'.retry_count, grant |-> forces',
                  began |-> FALSE, success |-> FALSE, cut |-> FALSE]]
    /\ lost' = lost \ {w}
    /\ UNCHANGED <<key, abandoned, succeeded>>

StartReplay(w) == \E lane \in LanesOf[w] : Acquire(w, lane)

\* Mutant: an attempt whose key reads failed is taken for a duplicate.
decision_failed_is_done(status) ==
    CASE status \in {"completed", "failed"} -> "skip"
      [] status = "executing" -> "abort"
      [] OTHER -> "start"

\* The decision of check_and_acquire, as the step it leads to.  An executing
\* record expires before the takeover of a stale one would be due.
decision(status) ==
    CASE status = "completed" -> "skip"
      [] status = "executing" -> "abort"
      [] OTHER -> "start"

\* The gate's answer; only a trial has something to do after an ABORT.
AskGate(w) ==
    LET n == run[w].acquired
        d == decision(key[n])
    IN  /\ run[w].at = "gate"
        /\ Goes(w, IF d = "abort" /\ run[w].lane # "trial" THEN "idle" ELSE d)
        /\ key' = IF d = "start" THEN [key EXCEPT ![n] = "executing"] ELSE key
        /\ UNCHANGED <<entry, abandoned, forces, free, lost, charged, slipped, succeeded>>

\* The gate raises, its claim made or not, and the replay proceeds.
GateFails(w) ==
    LET n == run[w].acquired
    IN  /\ "gate" \in Faults
        /\ run[w].at = "gate"
        /\ Goes(w, "start")
        /\ \/ key' = key
           \/ decision(key[n]) = "start" /\ key' = [key EXCEPT ![n] = "executing"]
        /\ UNCHANGED <<entry, abandoned, forces, free, lost, charged, slipped, succeeded>>

-----------------------------------------------------------------------------
(* The handler *)

\* The job's body begins.
BeginJob(w) ==
    /\ run[w].at = "start"
    /\ run' = [run EXCEPT ![w].at = "running", ![w].began = TRUE]
    /\ charged' = IF run[w].lane # "trial" /\ run[w].grant = forces
                  THEN charged + 1 ELSE charged
    /\ UNCHANGED <<entry, key, abandoned, forces, free, lost, slipped, succeeded>>

is_operator(r) == r.lane \in {"retry", "force"}

\* Mutant: a job that may still be running does not hold the entry.
settles_at_cut_or_not(r) ==
    IF is_operator(r) \/ r.success THEN "complete" ELSE "mark"

\* The first step after the handler.  An operator's replay has no key.
settles_at(r) ==
    IF is_operator(r)
    THEN IF r.success \/ ~r.cut THEN "complete" ELSE "idle"
    ELSE IF r.success THEN "complete" ELSE "mark"

\* The body never began: the job's own breaker or guard refused it, or, in an
\* operator's replay, a gate did.
RefuseJob(w) ==
    /\ run[w].at = "start"
    /\ free < MaxFree /\ free' = free + 1
    /\ Goes(w, settles_at(run[w]))
    /\ UNCHANGED <<entry, key, abandoned, forces, lost, charged, slipped, succeeded>>

\* The handler returns or raises.  With cut, work it waited for is left running.
EndJob(w, success, cut) ==
    LET r == [run[w] EXCEPT !.success = success, !.cut = cut]
    IN  /\ run[w].at = "running"
        /\ run' = [run EXCEPT ![w] = IF settles_at(r) = "idle" THEN Idle
                                     ELSE [r EXCEPT !.at = settles_at(r)]]
        /\ abandoned' = IF cut THEN abandoned \cup {w} ELSE abandoned
        /\ succeeded' = (succeeded \/ success)
        /\ UNCHANGED <<entry, key, forces, free, lost, charged, slipped>>

RunJob(w) == \E success, cut \in BOOLEAN : EndJob(w, success, cut)

\* Work that was left running ends.
WorkEnds(w) ==
    /\ w \in abandoned
    /\ abandoned' = abandoned \ {w}
    /\ UNCHANGED <<entry, key, run, forces, free, lost, charged, slipped, succeeded>>

-----------------------------------------------------------------------------
(* Settling the replay: success is completed and then marked; failure is    *)
(* marked, given back where it is free, and then completed.                 *)

\* _mark_replay_key lands on whatever claim is executing; a fault of the gate is
\* only logged.
Mark(w) ==
    LET r == run[w]
    IN  /\ r.at = "mark"
        /\ \/ key' = IF key[r.acquired] = "executing"
                     THEN [key EXCEPT ![r.acquired] = IF r.success THEN "completed" ELSE "failed"]
                     ELSE key
           \/ "gate" \in Faults /\ key' = key
        /\ Goes(w, IF ~r.success /\ (r.lane = "trial" \/ ~r.began) THEN "give_back"
                   ELSE IF r.success \/ r.cut THEN "idle" ELSE "complete")
        /\ UNCHANGED <<entry, abandoned, forces, free, lost, charged, slipped, succeeded>>

\* _give_back_attempt; a trial that met an ABORT gives back too, and is done.
GiveBack(w) ==
    LET r == run[w]
        returned == holds_attempt(entry, r.acquired)
    IN  /\ r.at \in {"give_back", "abort"}
        /\ entry' = IF returned THEN return_replay_attempt(entry, r.acquired) ELSE entry
        /\ slipped' = IF returned /\ r.grant # forces THEN slipped + 1 ELSE slipped
        /\ Goes(w, IF r.at = "give_back" /\ returned /\ ~r.cut THEN "complete" ELSE "idle")
        /\ UNCHANGED <<key, abandoned, forces, free, lost, charged, succeeded>>

\* The store fails the give-back: the attempt stays spent.
GiveBackFails(w) ==
    LET r == run[w]
    IN  /\ "store" \in Faults
        /\ r.at \in {"give_back", "abort"}
        /\ Goes(w, IF r.at = "give_back" /\ ~r.cut THEN "complete" ELSE "idle")
        /\ UNCHANGED <<entry, key, abandoned, forces, free, lost, charged, slipped, succeeded>>

\* complete_replay, and resolve_entry for an operator's success: an entry
\* already resolved stays so.  A duplicate is completed as a success.
Complete(w) ==
    LET r == run[w]
    IN  /\ r.at \in {"complete", "skip"}
        /\ entry' = complete_replay(entry, r.success \/ r.at = "skip")
        /\ lost' = lost \cup others(w)
        /\ Goes(w, IF r.at = "complete" /\ r.success /\ ~is_operator(r) THEN "mark" ELSE "idle")
        /\ UNCHANGED <<key, abandoned, forces, free, charged, slipped, succeeded>>

\* The store fails the completion.  A duplicate's is inside the gate's fail-open
\* block, so its job runs; any other replay ends with the entry still replaying.
CompleteFails(w) ==
    /\ "store" \in Faults
    /\ run[w].at \in {"complete", "skip"}
    /\ Goes(w, IF run[w].at = "skip" THEN "start" ELSE "idle")
    /\ UNCHANGED <<entry, key, abandoned, forces, free, lost, charged, slipped, succeeded>>

-----------------------------------------------------------------------------
(* What happens to replays *)

\* The worker's process dies, and with it the work it left running.
Die(w) ==
    /\ in_replay(w) \/ w \in abandoned
    /\ Goes(w, "idle")
    /\ abandoned' = abandoned \ {w}
    /\ UNCHANGED <<entry, key, forces, free, lost, charged, slipped, succeeded>>

\* Mutant: the release does not ask for the status.
stale_whatever(e) == e.status # "pending"

stale(e) == e.status = "replaying"

\* The release is due only after every task that could hold the entry has met
\* its time limit.
ReleaseStale ==
    /\ stale(entry)
    /\ \A w \in Limited : ~in_replay(w)
    /\ entry' = release(entry)
    /\ lost' = lost \cup {w \in Workers : in_replay(w) \/ w \in abandoned}
    /\ UNCHANGED <<key, run, abandoned, forces, free, charged, slipped, succeeded>>

\* A record outlives a task that is under a limit, not any other replay.
ExpireKey(n) ==
    /\ key[n] # "absent"
    /\ key[n] = "executing" => \A w \in Limited : run[w].acquired # n
    /\ key' = [key EXCEPT ![n] = "absent"]
    /\ UNCHANGED <<entry, run, abandoned, forces, free, lost, charged, slipped, succeeded>>

Proceeds(w) ==
    \/ AskGate(w) \/ GateFails(w)
    \/ BeginJob(w) \/ RefuseJob(w) \/ RunJob(w) \/ WorkEnds(w)
    \/ Mark(w) \/ GiveBack(w) \/ GiveBackFails(w)
    \/ Complete(w) \/ CompleteFails(w)

Next ==
    \/ \E w \in Workers : StartReplay(w) \/ Proceeds(w) \/ Die(w)
    \/ \E n \in Attempts : ExpireKey(n)
    \/ ReleaseStale

Spec == Init /\ [][Next]_vars

\* The release and the sweeps are scheduled tasks, and a limited task ends.
Fairness ==
    /\ WF_vars(ReleaseStale)
    /\ \A w \in Limited : /\ WF_vars(Proceeds(w) \/ Die(w))
                          /\ WF_vars("sweep" \in LanesOf[w] /\ Acquire(w, "sweep"))

FairSpec == Spec /\ Fairness

-----------------------------------------------------------------------------
(* Properties *)

\* A job of this entry is running: under its replay, or left behind by it.
job_runs(w) == run[w].at = "running" \/ w \in abandoned

\* No lane starts the entry's job beside itself: of two jobs running at once,
\* one belongs to a replay whose entry was taken away, by the stale release or
\* by a replay that had itself lost it.
NotBesideItself ==
    \A v, w \in Workers :
        v # w /\ job_runs(v) /\ job_runs(w) => v \in lost \/ w \in lost

\* A resolved entry is taken back only by the completion of a replay that had
\* lost the entry, at the latest to the completion that resolved it.
ResolvedStands ==
    [][entry.status = "resolved" /\ entry' # entry
         => \E w \in lost : run[w].at = "complete" /\ run'[w] # run[w]]_vars

\* An entry is resolved only by a job of its own that succeeded, even when the
\* replay that resolves it found a duplicate and ran nothing.
ResolvedMeansSucceeded == entry.status = "resolved" => succeeded

\* Within one budget the jobs begun, trials aside, are at most the cap, plus
\* the attempts that replays of an earlier budget gave back into this one.
BudgetKept == charged <= MaxReplayAttempts + slipped

\* The cap in force bars every automatic acquisition of an entry in the queue.
Barred == entry.status = "pending" /\ entry.retry_count >= MaxReplayAttempts

\* An entry is barred in the queue only if it was captured under a cap higher
\* than the one in force (service.py, _execute_replay: "Config lowered").
BarredOnlyIfLowered == Barred => entry.max_retries > MaxReplayAttempts

\* An entry ends resolved or under review.  It is never stranded in a replay
\* that died, and it is left in the queue only where the cap has been lowered
\* since it was captured and now bars it.  MaxFree is part of the claim: jobs
\* are not refused for ever.
EntrySettles ==
    <>[](\/ entry.status \in {"resolved", "requires_review"}
         \/ Barred /\ entry.max_retries > MaxReplayAttempts)

\* A resolved entry stays resolved.
ResolvedIsFinal == [][entry.status = "resolved" => entry'.status = "resolved"]_vars

=============================================================================
