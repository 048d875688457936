---------------------------- MODULE ReplayProofs ----------------------------
(***************************************************************************)
(* Proofs about Replay, for any workers, lanes, caps and bounds.           *)
(*                                                                         *)
(* The inductive invariant says who holds the entry: of the replays under  *)
(* way, at most one has not lost it, and while that one has not succeeded  *)
(* the entry is replaying (HoldInv).  It rests on what a replay's stage    *)
(* says about its job (StageInv), on what a completed key means (DoneInv)  *)
(* and, for the budget, on a count of the attempts that may still begin a  *)
(* job or be given back (BudgetInv).                                       *)
(***************************************************************************)
EXTENDS Replay, FiniteSetTheorems, TLAPS

Underway(w) == in_replay(w) \/ w \in abandoned

\* What a replay's stage says about its job.
StageOK(r, left, f) ==
    /\ r.at # "idle" /\ left => r.cut
    /\ r.at \in {"gate", "skip", "abort", "start", "running"} => ~r.cut /\ ~r.success
    /\ r.at = "complete" /\ ~r.success => ~r.cut
    /\ r.at = "give_back" => ~r.success
    /\ r.grant <= f

StageInv == \A w \in Workers : StageOK(run[w], w \in abandoned, forces)

\* Who holds the entry.
HoldInv ==
    /\ \A v, w \in Workers :
          Underway(v) /\ Underway(w) /\ v \notin lost /\ w \notin lost => v = w
    /\ \A w \in Workers :
          Underway(w) /\ w \notin lost =>
              \/ entry.status = "replaying"
              \/ entry.status = "resolved" /\ (in_replay(w) => run[w].success)

\* A key that reads completed, a duplicate found and a success go back to a job.
DoneInv ==
    /\ \A n \in Attempts : key[n] = "completed" => succeeded
    /\ \A w \in Workers : run[w].success \/ run[w].at = "skip" => succeeded
    /\ entry.status = "resolved" => succeeded

\* The attempt of a replay may still begin a job, or be given back.
owes(r) ==
    \/ r.at \in {"gate", "skip", "abort", "start", "give_back"}
    \/ r.at = "running" /\ (r.lane = "trial" \/ ~r.began)
    \/ r.at = "mark" /\ ~r.success /\ (r.lane = "trial" \/ ~r.began)

Outstanding == {w \in Workers : owes(run[w]) /\ run[w].grant = forces}

BudgetInv == charged + Cardinality(Outstanding) <= entry.retry_count + slipped

Inv == TypeOK /\ StageInv /\ HoldInv /\ DoneInv

-----------------------------------------------------------------------------
(* One worker moves *)

Stages == {"gate", "skip", "abort", "start", "running", "complete", "mark", "give_back"}

\* Worker w, and no other, goes to a stage; all else about its replay stays.
Moved(w, at) ==
    /\ run' \in [Workers -> Run \cup {Idle}]
    /\ \A v \in Workers : v # w => run'[v] = run[v]
    /\ at = "idle" => run'[w] = Idle
    /\ at # "idle" => /\ run'[w] \in Run
                      /\ run'[w].at = at
                      /\ run'[w].lane = run[w].lane
                      /\ run'[w].acquired = run[w].acquired
                      /\ run'[w].grant = run[w].grant
                      /\ run'[w].began = run[w].began
                      /\ run'[w].success = run[w].success
                      /\ run'[w].cut = run[w].cut

\* What Goes does to the runs.
LEMMA GoesTo ==
    ASSUME TypeOK, NEW w \in Workers, NEW at \in Stages \cup {"idle"}, Goes(w, at),
           run[w] \in Run \/ at = "idle"
    PROVE  Moved(w, at)
<1>1. CASE at = "idle"
  BY <1>1, Zenon DEF Goes, TypeOK, Moved
<1>2. CASE at # "idle"
  <2>1. [run[w] EXCEPT !.at = at] \in Run
    BY <1>2, Zenon DEF Run, Stages
  <2>2. run' = [run EXCEPT ![w] = [run[w] EXCEPT !.at = at]]
    BY <1>2, Zenon DEF Goes
  <2>3. /\ run' \in [Workers -> Run \cup {Idle}]
        /\ \A v \in Workers : v # w => run'[v] = run[v]
        /\ run'[w] = [run[w] EXCEPT !.at = at]
    BY <2>1, <2>2, Zenon DEF TypeOK
  <2> QED BY <1>2, <2>1, <2>3, Zenon DEF Run, Moved
<1> QED BY <1>1, <1>2, Zenon

\* A worker that is in a replay has a run.
LEMMA RunTyped ==
    ASSUME TypeOK, NEW w \in Workers, run[w].at # "idle"
    PROVE  run[w] \in Run
BY DEF TypeOK, Idle

\* The acquisition's run, and the entry it took.
LEMMA Acquires ==
    ASSUME TypeOK, NEW w \in Workers, NEW lane \in Lane, Acquire(w, lane)
    PROVE  /\ run' \in [Workers -> Run \cup {Idle}]
           /\ \A v \in Workers : v # w => run'[v] = run[v]
           /\ run'[w].at \in {"gate", "start"}
           /\ run'[w].lane = lane
           /\ run'[w].acquired = entry'.retry_count
           /\ run'[w].grant = forces'
           /\ ~run'[w].success /\ ~run'[w].cut
           /\ entry' \in Entry /\ entry'.status = "replaying"
           /\ entry'.retry_count = IF lane = "force" THEN 1 ELSE entry.retry_count + 1
           /\ forces' \in 0..MaxForces
<1> DEFINE r == [at |-> IF lane \in {"sweep", "trial"} THEN "gate" ELSE "start",
                 lane |-> lane, acquired |-> entry'.retry_count, grant |-> forces',
                 began |-> FALSE, success |-> FALSE, cut |-> FALSE]
<1>1. /\ entry' \in Entry /\ entry'.status = "replaying"
      /\ entry'.retry_count = IF lane = "force" THEN 1 ELSE entry.retry_count + 1
      /\ entry'.retry_count \in Attempts
  <2>1. entry' = [entry EXCEPT !.status = "replaying",
                               !.retry_count = IF lane = "force" THEN 1 ELSE entry.retry_count + 1]
    BY Zenon DEF Acquire, acquired_entry, TypeOK, Entry
  <2>2. (IF lane = "force" THEN 1 ELSE entry.retry_count + 1) \in Attempts
    BY StoreAssumption DEF Acquire, acquirable, TypeOK, Entry, Attempts
  <2>3. Attempts \subseteq 0..MaxReplayAttempts
    BY DEF Attempts
  <2> QED BY <2>1, <2>2, <2>3, Zenon DEF TypeOK, Entry, Status
<1>2. forces' \in 0..MaxForces
  BY ReplayAssumption DEF Acquire, TypeOK
<1>3. r \in Run
  BY <1>1, <1>2, Zenon DEF Run
<1>4. run' = [run EXCEPT ![w] = r]
  BY Zenon DEF Acquire
<1>5. run'[w] = r /\ run' \in [Workers -> Run \cup {Idle}]
      /\ \A v \in Workers : v # w => run'[v] = run[v]
  BY <1>3, <1>4, Zenon DEF TypeOK
<1> QED BY <1>1, <1>2, <1>5

\* The run of a worker whose job begins.
LEMMA Begins ==
    ASSUME TypeOK, NEW w \in Workers, BeginJob(w)
    PROVE  /\ run' \in [Workers -> Run \cup {Idle}]
           /\ \A v \in Workers : v # w => run'[v] = run[v]
           /\ run[w] \in Run /\ run[w].at = "start"
           /\ run'[w] = [run[w] EXCEPT !.at = "running", !.began = TRUE]
<1>1. run[w] \in Run /\ run[w].at = "start"
  BY RunTyped, Zenon DEF BeginJob
<1>2. [run[w] EXCEPT !.at = "running", !.began = TRUE] \in Run
  BY <1>1, Zenon DEF Run
<1>3. run' = [run EXCEPT ![w] = [run[w] EXCEPT !.at = "running", !.began = TRUE]]
  BY Zenon DEF BeginJob, TypeOK
<1> QED BY <1>1, <1>2, <1>3, Zenon DEF TypeOK

\* The run of a worker whose job ends.
LEMMA Ends ==
    ASSUME TypeOK, NEW w \in Workers, NEW success \in BOOLEAN, NEW cut \in BOOLEAN,
           EndJob(w, success, cut)
    PROVE  /\ run' \in [Workers -> Run \cup {Idle}]
           /\ \A v \in Workers : v # w => run'[v] = run[v]
           /\ run[w] \in Run /\ run[w].at = "running"
           /\ \/ run'[w] = Idle /\ ~success
              \/ /\ run'[w] \in Run
                 /\ run'[w].at \in {"complete", "mark"}
                 /\ run'[w].at = "complete" => success \/ ~cut
                 /\ run'[w].lane = run[w].lane
                 /\ run'[w].grant = run[w].grant
                 /\ run'[w].began = run[w].began
                 /\ run'[w].success = success
                 /\ run'[w].cut = cut
<1> DEFINE r == [run[w] EXCEPT !.success = success, !.cut = cut]
           s == settles_at(r)
<1>1. run[w] \in Run /\ run[w].at = "running"
  BY RunTyped, Zenon DEF EndJob
<1>2. r \in Run /\ r.success = success /\ r.cut = cut
      /\ r.lane = run[w].lane /\ r.grant = run[w].grant /\ r.began = run[w].began
  BY <1>1, Zenon DEF Run
<1>3. /\ s \in {"idle", "complete", "mark"}
      /\ s = "idle" => ~success
      /\ s = "complete" => success \/ ~cut
  BY <1>2, Zenon DEF settles_at
<1> HIDE DEF r, s
<1>4. run' = [run EXCEPT ![w] = IF s = "idle" THEN Idle ELSE [r EXCEPT !.at = s]]
  BY Zenon DEF EndJob, r, s
<1>5. CASE s = "idle"
  <2>1. run' = [run EXCEPT ![w] = Idle]
    BY <1>4, <1>5, Zenon
  <2> QED BY <1>1, <1>3, <1>5, <2>1, Zenon DEF TypeOK
<1>6. CASE s # "idle"
  <2>1. run' = [run EXCEPT ![w] = [r EXCEPT !.at = s]]
    BY <1>4, <1>6, Zenon
  <2>2. /\ [r EXCEPT !.at = s] \in Run
        /\ [r EXCEPT !.at = s].at = s /\ [r EXCEPT !.at = s].success = success
        /\ [r EXCEPT !.at = s].cut = cut /\ [r EXCEPT !.at = s].lane = run[w].lane
        /\ [r EXCEPT !.at = s].grant = run[w].grant
        /\ [r EXCEPT !.at = s].began = run[w].began
    BY <1>2, <1>3, <1>6, Zenon DEF Run
  <2>3. /\ run'[w] = [r EXCEPT !.at = s]
        /\ run' \in [Workers -> Run \cup {Idle}]
        /\ \A v \in Workers : v # w => run'[v] = run[v]
    BY <2>1, <2>2, Zenon DEF TypeOK
  <2> QED BY <1>1, <1>3, <1>6, <2>2, <2>3, Zenon
<1> QED BY <1>5, <1>6, Zenon

\* Where the gate's answer leads.
LEMMA Asks ==
    ASSUME TypeOK, NEW w \in Workers, AskGate(w) \/ GateFails(w)
    PROVE  /\ run[w] \in Run /\ run[w].at = "gate" /\ run[w].acquired \in Attempts
           /\ \E at \in {"idle", "skip", "abort", "start"} :
                 /\ Moved(w, at)
                 /\ at = "skip" => key[run[w].acquired] = "completed"
           /\ key' \in [Attempts -> {"absent", "executing", "completed", "failed"}]
           /\ \A n \in Attempts : key'[n] = "completed" => key[n] = "completed"
<1>1. run[w] \in Run /\ run[w].at = "gate" /\ run[w].acquired \in Attempts
  BY RunTyped, Zenon DEF AskGate, GateFails, Run
<1> DEFINE d == decision(key[run[w].acquired])
           at == IF d = "abort" /\ run[w].lane # "trial" THEN "idle" ELSE d
<1>2. CASE AskGate(w)
  <2>1. d \in {"skip", "abort", "start"} /\ (d = "skip" <=> key[run[w].acquired] = "completed")
    BY <1>1, Zenon DEF decision, TypeOK
  <2>2. at \in {"idle", "skip", "abort", "start"}
        /\ (at = "skip" => key[run[w].acquired] = "completed")
    BY <2>1, Zenon
  <2>3. Goes(w, at)
    BY <1>2, Zenon DEF AskGate
  <2>4. Moved(w, at)
    <3> HIDE DEF at
    <3> QED BY <1>1, <2>2, <2>3, GoesTo, Zenon DEF Stages
  <2>5. /\ key' \in [Attempts -> {"absent", "executing", "completed", "failed"}]
        /\ \A n \in Attempts : key'[n] = "completed" => key[n] = "completed"
    BY <1>1, <1>2, Zenon DEF AskGate, TypeOK
  <2> QED BY <1>1, <2>2, <2>4, <2>5, Zenon
<1>3. CASE GateFails(w)
  <2>1. Moved(w, "start")
    BY <1>1, <1>3, GoesTo, Zenon DEF GateFails, Stages
  <2>2. /\ key' \in [Attempts -> {"absent", "executing", "completed", "failed"}]
        /\ \A n \in Attempts : key'[n] = "completed" => key[n] = "completed"
    <3>1. key' = key \/ key' = [key EXCEPT ![run[w].acquired] = "executing"]
      BY <1>3, Zenon DEF GateFails
    <3> QED BY <1>1, <3>1, Zenon DEF TypeOK
  <2> QED BY <1>1, <2>1, <2>2, Zenon
<1> QED BY <1>2, <1>3, Zenon

\* Where a job that never began leads.
LEMMA Refuses ==
    ASSUME TypeOK, NEW w \in Workers, RefuseJob(w)
    PROVE  /\ run[w] \in Run /\ run[w].at = "start"
           /\ \E at \in {"idle", "complete", "mark"} : Moved(w, at)
<1>1. run[w] \in Run /\ run[w].at = "start"
  BY RunTyped, Zenon DEF RefuseJob
<1>2. settles_at(run[w]) \in {"idle", "complete", "mark"}
  BY Zenon DEF settles_at
<1>3. Moved(w, settles_at(run[w]))
  BY <1>1, <1>2, GoesTo, Zenon DEF RefuseJob, Stages
<1> QED BY <1>1, <1>2, <1>3, Zenon

\* Where a mark leads, and what it writes.
LEMMA Marks ==
    ASSUME TypeOK, NEW w \in Workers, Mark(w)
    PROVE  /\ run[w] \in Run /\ run[w].at = "mark"
           /\ \E at \in {"idle", "complete", "give_back"} :
                 /\ Moved(w, at)
                 /\ at = "complete" => ~run[w].success /\ ~run[w].cut
                 /\ at = "give_back" => ~run[w].success /\ (run[w].lane = "trial" \/ ~run[w].began)
           /\ key' \in [Attempts -> {"absent", "executing", "completed", "failed"}]
           /\ \A n \in Attempts : key'[n] = "completed" => key[n] = "completed" \/ run[w].success
<1>1. run[w] \in Run /\ run[w].at = "mark" /\ run[w].acquired \in Attempts
  BY RunTyped, Zenon DEF Mark, Run
<1> DEFINE at == IF ~run[w].success /\ (run[w].lane = "trial" \/ ~run[w].began)
                 THEN "give_back"
                 ELSE IF run[w].success \/ run[w].cut THEN "idle" ELSE "complete"
<1>2. Goes(w, at)
  BY Zenon DEF Mark
<1>3. /\ at \in {"idle", "complete", "give_back"}
      /\ at = "complete" => ~run[w].success /\ ~run[w].cut
      /\ at = "give_back" => ~run[w].success /\ (run[w].lane = "trial" \/ ~run[w].began)
  OBVIOUS
<1> HIDE DEF at
<1>4. Moved(w, at)
  BY <1>1, <1>2, <1>3, GoesTo, Zenon DEF Stages
<1>5. /\ key' \in [Attempts -> {"absent", "executing", "completed", "failed"}]
      /\ \A n \in Attempts : key'[n] = "completed" => key[n] = "completed" \/ run[w].success
  BY <1>1, Zenon DEF Mark, TypeOK
<1> QED BY <1>1, <1>3, <1>4, <1>5, Zenon

\* Where a give-back leads, and what it does to the entry.
LEMMA GivesBack ==
    ASSUME TypeOK, NEW w \in Workers, GiveBack(w) \/ GiveBackFails(w)
    PROVE  /\ run[w] \in Run /\ run[w].at \in {"give_back", "abort"}
           /\ \E at \in {"idle", "complete"} :
                 /\ Moved(w, at)
                 /\ at = "complete" => run[w].at = "give_back" /\ ~run[w].cut
           /\ entry' \in Entry /\ entry'.status = entry.status
           /\ \/ entry' = entry /\ slipped' = slipped
              \/ /\ entry.status = "replaying"
                 /\ entry'.retry_count = entry.retry_count - 1
                 /\ slipped' = IF run[w].grant # forces THEN slipped + 1 ELSE slipped
<1>1. run[w] \in Run /\ run[w].at \in {"give_back", "abort"} /\ run[w].acquired \in Attempts
  BY RunTyped, Zenon DEF GiveBack, GiveBackFails, Run
<1>2. CASE GiveBack(w)
  <2> DEFINE returned == holds_attempt(entry, run[w].acquired)
             at == IF run[w].at = "give_back" /\ returned /\ ~run[w].cut
                   THEN "complete" ELSE "idle"
  <2>1. Goes(w, at)
    BY <1>2, Zenon DEF GiveBack
  <2>2. at \in {"idle", "complete"} /\ (at = "complete" => run[w].at = "give_back" /\ ~run[w].cut)
    OBVIOUS
  <2>3. Moved(w, at)
    <3> HIDE DEF at
    <3> QED BY <1>1, <2>1, <2>2, GoesTo, Zenon DEF Stages
  <2>4. CASE returned
    <3>1. /\ entry.status = "replaying" /\ entry.retry_count = run[w].acquired
          /\ entry' = [entry EXCEPT !.retry_count = run[w].acquired - 1]
      BY <1>2, <2>4, Zenon DEF GiveBack, holds_attempt, return_replay_attempt
    <3>2. /\ entry' \in Entry /\ entry'.status = entry.status
          /\ entry'.retry_count = entry.retry_count - 1
      BY <1>1, <3>1, StoreAssumption DEF TypeOK, Entry, Attempts
    <3>3. slipped' = IF run[w].grant # forces THEN slipped + 1 ELSE slipped
      BY <1>2, <2>4, Zenon DEF GiveBack
    <3> QED BY <1>1, <2>2, <2>3, <3>1, <3>2, <3>3, Zenon
  <2>5. CASE ~returned
    <3>1. entry' = entry /\ slipped' = slipped
      BY <1>2, <2>5, Zenon DEF GiveBack
    <3> QED BY <1>1, <2>2, <2>3, <3>1, Zenon DEF TypeOK
  <2> QED BY <2>4, <2>5, Zenon
<1>3. CASE GiveBackFails(w)
  <2> DEFINE at == IF run[w].at = "give_back" /\ ~run[w].cut THEN "complete" ELSE "idle"
  <2>1. Goes(w, at) /\ entry' = entry /\ slipped' = slipped
    BY <1>3, Zenon DEF GiveBackFails
  <2>2. at \in {"idle", "complete"} /\ (at = "complete" => run[w].at = "give_back" /\ ~run[w].cut)
    OBVIOUS
  <2>3. Moved(w, at)
    <3> HIDE DEF at
    <3> QED BY <1>1, <2>1, <2>2, GoesTo, Zenon DEF Stages
  <2> QED BY <1>1, <2>1, <2>2, <2>3, Zenon DEF TypeOK
<1> QED BY <1>2, <1>3, Zenon

\* Where a completion leads, and what it does to the entry.
LEMMA Completes ==
    ASSUME TypeOK, NEW w \in Workers, Complete(w)
    PROVE  /\ run[w] \in Run /\ run[w].at \in {"complete", "skip"}
           /\ \E at \in {"idle", "mark"} :
                 /\ Moved(w, at)
                 /\ at = "mark" => run[w].at = "complete" /\ run[w].success
           /\ entry' \in Entry /\ entry'.retry_count = entry.retry_count
           /\ IF run[w].success \/ run[w].at = "skip"
              THEN entry'.status = "resolved"
              ELSE entry'.status \in {"pending", "requires_review"}
<1>1. run[w] \in Run /\ run[w].at \in {"complete", "skip"}
  BY RunTyped, Zenon DEF Complete
<1> DEFINE at == IF run[w].at = "complete" /\ run[w].success /\ ~is_operator(run[w])
                 THEN "mark" ELSE "idle"
<1>2. Goes(w, at)
  BY Zenon DEF Complete
<1>3. at \in {"idle", "mark"} /\ (at = "mark" => run[w].at = "complete" /\ run[w].success)
  OBVIOUS
<1>4. Moved(w, at)
  <2> HIDE DEF at
  <2> QED BY <1>1, <1>2, <1>3, GoesTo, Zenon DEF Stages
<1>5. /\ entry' \in Entry /\ entry'.retry_count = entry.retry_count
      /\ IF run[w].success \/ run[w].at = "skip"
         THEN entry'.status = "resolved"
         ELSE entry'.status \in {"pending", "requires_review"}
  <2>1. entry' = complete_replay(entry, run[w].success \/ run[w].at = "skip")
    BY Zenon DEF Complete
  <2>2. CASE run[w].success \/ run[w].at = "skip"
    BY <2>1, <2>2, Zenon DEF complete_replay, TypeOK, Entry, Status
  <2>3. CASE ~(run[w].success \/ run[w].at = "skip")
    BY <2>1, <2>3, Zenon DEF complete_replay, unresolved, TypeOK, Entry, Status
  <2> QED BY <2>2, <2>3, Zenon
<1> QED BY <1>1, <1>3, <1>4, <1>5, Zenon

\* What the stale release does to the entry.
LEMMA Releases ==
    ASSUME TypeOK, ReleaseStale
    PROVE  /\ entry' \in Entry /\ entry'.retry_count = entry.retry_count
           /\ entry'.status \in {"pending", "requires_review"}
BY Zenon DEF ReleaseStale, release, unresolved, TypeOK, Entry, Status

\* Where a replay goes whose completion fails.
LEMMA CompletionFails ==
    ASSUME TypeOK, NEW w \in Workers, CompleteFails(w)
    PROVE  /\ run[w].at \in {"complete", "skip"}
           /\ \E at \in {"idle", "start"} : Moved(w, at) /\ (at = "start" => run[w].at = "skip")
<1>1. run[w].at \in {"complete", "skip"} /\ run[w] \in Run
  BY RunTyped, Zenon DEF CompleteFails
<1>2. CASE run[w].at = "skip"
  <2>1. Goes(w, "start")
    BY <1>2, Zenon DEF CompleteFails
  <2> QED BY <1>1, <1>2, <2>1, GoesTo, Zenon DEF Stages
<1>3. CASE run[w].at # "skip"
  <2>1. Goes(w, "idle")
    BY <1>3, Zenon DEF CompleteFails
  <2> QED BY <1>1, <2>1, GoesTo, Zenon
<1> QED BY <1>1, <1>2, <1>3, Zenon

-----------------------------------------------------------------------------
(* The invariant *)

\* Every step is one of these.
LEMMA Steps ==
    ASSUME Next
    PROVE  \/ \E w \in Workers :
                 \/ \E lane \in Lane : Acquire(w, lane)
                 \/ AskGate(w) \/ GateFails(w) \/ BeginJob(w) \/ RefuseJob(w)
                 \/ \E success, cut \in BOOLEAN : EndJob(w, success, cut)
                 \/ WorkEnds(w) \/ Mark(w) \/ GiveBack(w) \/ GiveBackFails(w)
                 \/ Complete(w) \/ CompleteFails(w) \/ Die(w)
           \/ \E n \in Attempts : ExpireKey(n)
           \/ ReleaseStale
<1>1. ASSUME NEW w \in Workers, StartReplay(w)
      PROVE  \E lane \in Lane : Acquire(w, lane)
  BY <1>1, ReplayAssumption, Zenon DEF StartReplay
<1> QED BY <1>1, Zenon DEF Next, Proceeds, RunJob

\* Every step keeps the types.
LEMMA TypeStep ==
    ASSUME TypeOK, [Next]_vars
    PROVE  TypeOK'
<1>1. ASSUME NEW w \in Workers, NEW lane \in Lane, Acquire(w, lane)
      PROVE  TypeOK'
  <2>1. /\ run' \in [Workers -> Run \cup {Idle}] /\ entry' \in Entry
        /\ forces' \in 0..MaxForces
    BY <1>1, Acquires, Zenon
  <2>2. /\ free' \in 0..MaxFree /\ charged' \in Nat /\ slipped' \in Nat
    BY <1>1, ReplayAssumption DEF Acquire, TypeOK
  <2> QED BY <1>1, <2>1, <2>2, Zenon DEF Acquire, TypeOK
<1>2. ASSUME NEW w \in Workers, AskGate(w) \/ GateFails(w)
      PROVE  TypeOK'
  <2>1. /\ run' \in [Workers -> Run \cup {Idle}]
        /\ key' \in [Attempts -> {"absent", "executing", "completed", "failed"}]
    BY <1>2, Asks, Zenon DEF Moved
  <2> QED BY <1>2, <2>1, Zenon DEF AskGate, GateFails, TypeOK
<1>3. ASSUME NEW w \in Workers, BeginJob(w)
      PROVE  TypeOK'
  <2>1. run' \in [Workers -> Run \cup {Idle}]
    BY <1>3, Begins, Zenon
  <2>2. charged' \in Nat
    BY <1>3 DEF BeginJob, TypeOK
  <2> QED BY <1>3, <2>1, <2>2, Zenon DEF BeginJob, TypeOK
<1>4. ASSUME NEW w \in Workers, RefuseJob(w)
      PROVE  TypeOK'
  <2>1. run' \in [Workers -> Run \cup {Idle}]
    BY <1>4, Refuses, Zenon DEF Moved
  <2>2. free' \in 0..MaxFree
    BY <1>4, ReplayAssumption DEF RefuseJob, TypeOK
  <2> QED BY <1>4, <2>1, <2>2, Zenon DEF RefuseJob, TypeOK
<1>5. ASSUME NEW w \in Workers, NEW success \in BOOLEAN, NEW cut \in BOOLEAN,
             EndJob(w, success, cut)
      PROVE  TypeOK'
  <2>1. run' \in [Workers -> Run \cup {Idle}]
    BY <1>5, Ends, Zenon
  <2>2. abandoned' \subseteq Workers /\ succeeded' \in BOOLEAN
    BY <1>5, Zenon DEF EndJob, TypeOK
  <2> QED BY <1>5, <2>1, <2>2, Zenon DEF EndJob, TypeOK
<1>6. ASSUME NEW w \in Workers, WorkEnds(w)
      PROVE  TypeOK'
  BY <1>6, Zenon DEF WorkEnds, TypeOK
<1>7. ASSUME NEW w \in Workers, Mark(w)
      PROVE  TypeOK'
  <2>1. /\ run' \in [Workers -> Run \cup {Idle}]
        /\ key' \in [Attempts -> {"absent", "executing", "completed", "failed"}]
    BY <1>7, Marks, Zenon DEF Moved
  <2> QED BY <1>7, <2>1, Zenon DEF Mark, TypeOK
<1>8. ASSUME NEW w \in Workers, GiveBack(w) \/ GiveBackFails(w)
      PROVE  TypeOK'
  <2>1. run' \in [Workers -> Run \cup {Idle}] /\ entry' \in Entry
    BY <1>8, GivesBack, Zenon DEF Moved
  <2>2. slipped' \in Nat
    BY <1>8 DEF GiveBack, GiveBackFails, TypeOK
  <2> QED BY <1>8, <2>1, <2>2, Zenon DEF GiveBack, GiveBackFails, TypeOK
<1>9. ASSUME NEW w \in Workers, Complete(w)
      PROVE  TypeOK'
  <2>1. run' \in [Workers -> Run \cup {Idle}] /\ entry' \in Entry
    BY <1>9, Completes, Zenon DEF Moved
  <2>2. lost' \subseteq Workers
    BY <1>9, Zenon DEF Complete, others, TypeOK
  <2> QED BY <1>9, <2>1, <2>2, Zenon DEF Complete, TypeOK
<1>10. ASSUME NEW w \in Workers, Die(w)
       PROVE  TypeOK'
  <2>1. run' \in [Workers -> Run \cup {Idle}]
    BY <1>10, GoesTo, Zenon DEF Die, Moved
  <2> QED BY <1>10, <2>1, Zenon DEF Die, TypeOK
<1>11. ASSUME NEW n \in Attempts, ExpireKey(n)
       PROVE  TypeOK'
  BY <1>11, Zenon DEF ExpireKey, TypeOK
<1>12. CASE ReleaseStale
  <2>1. entry' \in Entry
    BY <1>12, Releases, Zenon
  <2>2. lost' \subseteq Workers
    BY <1>12, Zenon DEF ReleaseStale, TypeOK
  <2> QED BY <1>12, <2>1, <2>2, Zenon DEF ReleaseStale, TypeOK
<1>13. CASE UNCHANGED vars
  BY <1>13, Zenon DEF vars, TypeOK
<1>14. ASSUME NEW w \in Workers, CompleteFails(w)
       PROVE  TypeOK'
  <2>1. run' \in [Workers -> Run \cup {Idle}]
    BY <1>14, CompletionFails, Zenon DEF Moved
  <2> QED BY <1>14, <2>1, Zenon DEF CompleteFails, TypeOK
<1> QED BY <1>1, <1>2, <1>3, <1>4, <1>5, <1>6, <1>7, <1>8, <1>9, <1>10, <1>11, <1>12, <1>13, <1>14, Steps, Zenon

\* Every step keeps what a stage says.
LEMMA StageStep ==
    ASSUME TypeOK, StageInv, [Next]_vars
    PROVE  StageInv'
<1>1. ASSUME NEW w \in Workers, NEW lane \in Lane, Acquire(w, lane)
      PROVE  StageInv'
  <2>1. /\ \A v \in Workers : v # w => run'[v] = run[v]
        /\ run'[w].at \in {"gate", "start"} /\ ~run'[w].success /\ ~run'[w].cut
        /\ run'[w].grant = forces' /\ forces' \in 0..MaxForces
    BY <1>1, Acquires, Zenon
  <2>2. w \notin abandoned /\ abandoned' = abandoned /\ forces <= forces' /\ forces \in Nat
    BY <1>1, ReplayAssumption DEF Acquire, TypeOK
  <2>3. ASSUME NEW v \in Workers PROVE StageOK(run[v], v \in abandoned, forces)'
    <3>1. CASE v = w
      BY <2>1, <2>2, <3>1, ReplayAssumption DEF StageOK
    <3>2. CASE v # w
      <4>1. run[v].grant \in Int
        BY ReplayAssumption DEF TypeOK, Run, Idle
      <4> QED BY <2>1, <2>2, <3>2, <4>1, ReplayAssumption DEF StageOK, StageInv
    <3> QED BY <3>1, <3>2, Zenon
  <2> QED BY <2>3, Zenon DEF StageInv
<1>2. ASSUME NEW w \in Workers, AskGate(w) \/ GateFails(w)
      PROVE  StageInv'
  <2>1. PICK at \in {"idle", "skip", "abort", "start"} : Moved(w, at)
    BY <1>2, Asks, Zenon
  <2>2. run[w].at = "gate"
    BY <1>2, Asks, Zenon
  <2>3. abandoned' = abandoned /\ forces' = forces
    BY <1>2, Zenon DEF AskGate, GateFails
  <2> QED BY <2>1, <2>2, <2>3, ReplayAssumption DEF StageInv, StageOK, Moved, Idle, TypeOK
<1>3. ASSUME NEW w \in Workers, BeginJob(w)
      PROVE  StageInv'
  <2>1. /\ \A v \in Workers : v # w => run'[v] = run[v]
        /\ run[w] \in Run /\ run[w].at = "start"
        /\ run'[w] = [run[w] EXCEPT !.at = "running", !.began = TRUE]
    BY <1>3, Begins, Zenon
  <2>2. abandoned' = abandoned /\ forces' = forces
    BY <1>3, Zenon DEF BeginJob
  <2>3. run'[w].cut = run[w].cut /\ run'[w].success = run[w].success
        /\ run'[w].grant = run[w].grant /\ run'[w].at = "running"
    BY <2>1, Zenon DEF Run
  <2>4. StageOK(run[w], w \in abandoned, forces)
    BY Zenon DEF StageInv
  <2>5. StageOK(run'[w], w \in abandoned', forces')
    BY <2>1, <2>2, <2>3, <2>4, Zenon DEF StageOK
  <2>6. ASSUME NEW v \in Workers
        PROVE  StageOK(run'[v], v \in abandoned', forces')
    BY <2>1, <2>2, <2>5, Zenon DEF StageInv
  <2> QED BY <2>6, Zenon DEF StageInv
<1>4. ASSUME NEW w \in Workers, RefuseJob(w)
      PROVE  StageInv'
  <2>1. PICK at \in {"idle", "complete", "mark"} : Moved(w, at)
    BY <1>4, Refuses, Zenon
  <2>2. run[w].at = "start"
    BY <1>4, Refuses, Zenon
  <2>3. abandoned' = abandoned /\ forces' = forces
    BY <1>4, Zenon DEF RefuseJob
  <2> QED BY <2>1, <2>2, <2>3, ReplayAssumption DEF StageInv, StageOK, Moved, Idle, TypeOK
<1>5. ASSUME NEW w \in Workers, NEW success \in BOOLEAN, NEW cut \in BOOLEAN,
             EndJob(w, success, cut)
      PROVE  StageInv'
  <2>1. /\ \A v \in Workers : v # w => run'[v] = run[v]
        /\ run[w].at = "running"
        /\ \/ run'[w] = Idle
           \/ /\ run'[w].at \in {"complete", "mark"}
              /\ run'[w].at = "complete" => success \/ ~cut
              /\ run'[w].grant = run[w].grant
              /\ run'[w].success = success
              /\ run'[w].cut = cut
    BY <1>5, Ends, Zenon
  <2>2. /\ abandoned' = IF cut THEN abandoned \cup {w} ELSE abandoned
        /\ forces' = forces
    BY <1>5, Zenon DEF EndJob
  <2>3. w \notin abandoned
    BY <2>1, Zenon DEF StageInv, StageOK
  <2>4. ASSUME NEW v \in Workers PROVE StageOK(run[v], v \in abandoned, forces)'
    <3>1. CASE v = w
      BY <2>1, <2>2, <2>3, <3>1, ReplayAssumption DEF StageInv, StageOK, Idle, TypeOK
    <3>2. CASE v # w
      BY <2>1, <2>2, <3>2, Zenon DEF StageInv, StageOK
    <3> QED BY <3>1, <3>2, Zenon
  <2> QED BY <2>4, Zenon DEF StageInv
<1>6. ASSUME NEW w \in Workers, WorkEnds(w)
      PROVE  StageInv'
  BY <1>6, Zenon DEF WorkEnds, StageInv, StageOK
<1>7. ASSUME NEW w \in Workers, Mark(w)
      PROVE  StageInv'
  <2>1. PICK at \in {"idle", "complete", "give_back"} :
            /\ Moved(w, at)
            /\ at = "complete" => ~run[w].success /\ ~run[w].cut
            /\ at = "give_back" => ~run[w].success
    BY <1>7, Marks, Zenon
  <2>2. run[w].at = "mark" /\ abandoned' = abandoned /\ forces' = forces
    BY <1>7, Zenon DEF Mark
  <2> QED BY <2>1, <2>2, ReplayAssumption DEF StageInv, StageOK, Moved, Idle, TypeOK
<1>8. ASSUME NEW w \in Workers, GiveBack(w) \/ GiveBackFails(w)
      PROVE  StageInv'
  <2>1. PICK at \in {"idle", "complete"} :
            /\ Moved(w, at)
            /\ at = "complete" => run[w].at = "give_back" /\ ~run[w].cut
    BY <1>8, GivesBack, Zenon
  <2>2. run[w].at # "idle" /\ abandoned' = abandoned /\ forces' = forces
    BY <1>8, Zenon DEF GiveBack, GiveBackFails
  <2> QED BY <2>1, <2>2, ReplayAssumption DEF StageInv, StageOK, Moved, Idle, TypeOK
<1>9. ASSUME NEW w \in Workers, Complete(w)
      PROVE  StageInv'
  <2>1. PICK at \in {"idle", "mark"} : Moved(w, at)
    BY <1>9, Completes, Zenon
  <2>2. run[w].at # "idle" /\ abandoned' = abandoned /\ forces' = forces
    BY <1>9, Zenon DEF Complete
  <2> QED BY <2>1, <2>2, ReplayAssumption DEF StageInv, StageOK, Moved, Idle, TypeOK
<1>10. ASSUME NEW w \in Workers, Die(w)
       PROVE  StageInv'
  <2>1. Moved(w, "idle")
    BY <1>10, GoesTo, Zenon DEF Die
  <2> QED BY <1>10, <2>1, ReplayAssumption DEF Die, StageInv, StageOK, Moved, Idle, TypeOK
<1>11. ASSUME NEW n \in Attempts, ExpireKey(n)
       PROVE  StageInv'
  BY <1>11, Zenon DEF ExpireKey, StageInv, StageOK
<1>12. CASE ReleaseStale
  BY <1>12, Zenon DEF ReleaseStale, StageInv, StageOK
<1>13. CASE UNCHANGED vars
  BY <1>13, Zenon DEF vars, StageInv, StageOK
<1>14. ASSUME NEW w \in Workers, CompleteFails(w)
       PROVE  StageInv'
  <2>1. PICK at \in {"idle", "start"} : Moved(w, at) /\ (at = "start" => run[w].at = "skip")
    BY <1>14, CompletionFails, Zenon
  <2>2. run[w].at # "idle" /\ abandoned' = abandoned /\ forces' = forces
    BY <1>14, Zenon DEF CompleteFails
  <2> QED BY <2>1, <2>2, ReplayAssumption DEF StageInv, StageOK, Moved, Idle, TypeOK
<1> QED BY <1>1, <1>2, <1>3, <1>4, <1>5, <1>6, <1>7, <1>8, <1>9, <1>10, <1>11, <1>12, <1>13, <1>14, Steps, Zenon

\* A step that starts no replay, takes none back and leaves the status alone
\* does not change who holds the entry.
LEMMA HoldKept ==
    ASSUME HoldInv, lost' = lost, entry'.status = entry.status,
           \A v \in Workers : Underway(v)' => Underway(v),
           \A v \in Workers : in_replay(v)' => in_replay(v) /\ (run[v].success => run'[v].success)
    PROVE  HoldInv'
BY Zenon DEF HoldInv

\* So does one in which a worker goes on, or stops.
LEMMA MovedKeepsHold ==
    ASSUME HoldInv, lost' = lost, entry'.status = entry.status, abandoned' = abandoned,
           NEW w \in Workers, NEW at, Moved(w, at), in_replay(w)
    PROVE  HoldInv'
<1>1. \A v \in Workers : in_replay(v)' => in_replay(v) /\ (run[v].success => run'[v].success)
  BY DEF Moved, in_replay, Idle
<1> QED BY <1>1, HoldKept, Zenon DEF Underway

\* Every step keeps who holds the entry.
LEMMA HoldStep ==
    ASSUME TypeOK, StageInv, HoldInv, [Next]_vars
    PROVE  HoldInv'
<1>1. ASSUME NEW w \in Workers, NEW lane \in Lane, Acquire(w, lane)
      PROVE  HoldInv'
  <2>1. /\ \A v \in Workers : v # w => run'[v] = run[v]
        /\ entry'.status = "replaying"
    BY <1>1, Acquires, Zenon
  <2>2. entry.status \in {"pending", "requires_review"}
    BY <1>1, Zenon DEF Acquire, acquirable
  <2>3. lost' = lost \ {w} /\ abandoned' = abandoned
    BY <1>1, Zenon DEF Acquire
  <2>4. \A v \in Workers : Underway(v) => v \in lost
    BY <2>2, Zenon DEF HoldInv
  <2>5. \A v \in Workers : v # w /\ Underway(v)' => v \in lost'
    BY <2>1, <2>3, <2>4, Zenon DEF Underway, in_replay
  <2> QED BY <2>1, <2>5, Zenon DEF HoldInv
<1>2. ASSUME NEW w \in Workers, AskGate(w) \/ GateFails(w)
      PROVE  HoldInv'
  <2>1. in_replay(w) /\ \E at : Moved(w, at)
    BY <1>2, Asks, Zenon DEF in_replay
  <2>2. lost' = lost /\ entry' = entry /\ abandoned' = abandoned
    BY <1>2, Zenon DEF AskGate, GateFails
  <2> QED BY <2>1, <2>2, MovedKeepsHold, Zenon
<1>3. ASSUME NEW w \in Workers, BeginJob(w)
      PROVE  HoldInv'
  <2>1. /\ \A v \in Workers : v # w => run'[v] = run[v]
        /\ run[w] \in Run /\ run[w].at = "start"
        /\ run'[w] = [run[w] EXCEPT !.at = "running", !.began = TRUE]
    BY <1>3, Begins, Zenon
  <2>2. run'[w].success = run[w].success
    BY <2>1, Zenon DEF Run
  <2>3. \A v \in Workers : in_replay(v)' => in_replay(v) /\ (run[v].success => run'[v].success)
    BY <2>1, <2>2, Zenon DEF in_replay
  <2> QED BY <1>3, <2>3, HoldKept, Zenon DEF BeginJob, Underway
<1>4. ASSUME NEW w \in Workers, RefuseJob(w)
      PROVE  HoldInv'
  <2>1. in_replay(w) /\ \E at : Moved(w, at)
    BY <1>4, Refuses, Zenon DEF in_replay
  <2>2. lost' = lost /\ entry' = entry /\ abandoned' = abandoned
    BY <1>4, Zenon DEF RefuseJob
  <2> QED BY <2>1, <2>2, MovedKeepsHold, Zenon
<1>5. ASSUME NEW w \in Workers, NEW success \in BOOLEAN, NEW cut \in BOOLEAN,
             EndJob(w, success, cut)
      PROVE  HoldInv'
  <2>1. /\ \A v \in Workers : v # w => run'[v] = run[v]
        /\ run[w].at = "running"
    BY <1>5, Ends, Zenon
  <2>2. ~run[w].success
    BY <2>1, Zenon DEF StageInv, StageOK
  <2>3. \A v \in Workers : in_replay(v)' => in_replay(v) /\ (run[v].success => run'[v].success)
    BY <2>1, <2>2, Zenon DEF in_replay
  <2>4. /\ lost' = lost /\ entry' = entry
        /\ abandoned' = IF cut THEN abandoned \cup {w} ELSE abandoned
    BY <1>5, Zenon DEF EndJob
  <2>5. \A v \in Workers : Underway(v)' => Underway(v)
    BY <2>1, <2>3, <2>4, Zenon DEF Underway, in_replay
  <2> QED BY <2>3, <2>4, <2>5, HoldKept, Zenon
<1>6. ASSUME NEW w \in Workers, WorkEnds(w)
      PROVE  HoldInv'
  BY <1>6, HoldKept, Zenon DEF WorkEnds, Underway, in_replay
<1>7. ASSUME NEW w \in Workers, Mark(w)
      PROVE  HoldInv'
  <2>1. in_replay(w) /\ \E at : Moved(w, at)
    BY <1>7, Marks, Zenon DEF in_replay
  <2>2. lost' = lost /\ entry' = entry /\ abandoned' = abandoned
    BY <1>7, Zenon DEF Mark
  <2> QED BY <2>1, <2>2, MovedKeepsHold, Zenon
<1>8. ASSUME NEW w \in Workers, GiveBack(w) \/ GiveBackFails(w)
      PROVE  HoldInv'
  <2>1. in_replay(w) /\ (\E at : Moved(w, at)) /\ entry'.status = entry.status
    BY <1>8, GivesBack, Zenon DEF in_replay
  <2>2. lost' = lost /\ abandoned' = abandoned
    BY <1>8, Zenon DEF GiveBack, GiveBackFails
  <2> QED BY <2>1, <2>2, MovedKeepsHold, Zenon
<1>9. ASSUME NEW w \in Workers, Complete(w)
      PROVE  HoldInv'
  <2>1. PICK at \in {"idle", "mark"} :
            Moved(w, at) /\ (at = "mark" => run[w].at = "complete" /\ run[w].success)
    BY <1>9, Completes, Zenon
  <2>2. /\ run[w].at \in {"complete", "skip"}
        /\ run[w].success \/ run[w].at = "skip" => entry'.status = "resolved"
    BY <1>9, Completes, Zenon
  <2>3. lost' = lost \cup others(w) /\ abandoned' = abandoned
    BY <1>9, Zenon DEF Complete
  <2>4. \A v \in Workers : v # w /\ Underway(v)' => v \in lost'
    BY <2>1, <2>3, Zenon DEF Underway, in_replay, others, Moved
  <2>5. w \in abandoned => run[w].cut
    BY <2>2, Zenon DEF StageInv, StageOK
  <2>6. w \in abandoned => run[w].success
    BY <2>2, <2>5, Zenon DEF StageInv, StageOK
  <2>7. Underway(w)' => entry'.status = "resolved" /\ (in_replay(w)' => run'[w].success)
    BY <2>1, <2>2, <2>3, <2>6 DEF Underway, in_replay, Moved, Idle
  <2> QED BY <2>4, <2>7, Zenon DEF HoldInv
<1>10. ASSUME NEW w \in Workers, Die(w)
       PROVE  HoldInv'
  <2>1. Moved(w, "idle")
    BY <1>10, GoesTo, Zenon DEF Die
  <2>2. \A v \in Workers : in_replay(v)' => in_replay(v) /\ (run[v].success => run'[v].success)
    BY <2>1 DEF Moved, in_replay, Idle
  <2> QED BY <1>10, <2>2, HoldKept, Zenon DEF Die, Underway
<1>11. ASSUME NEW n \in Attempts, ExpireKey(n)
       PROVE  HoldInv'
  BY <1>11, HoldKept, Zenon DEF ExpireKey, Underway, in_replay
<1>12. CASE ReleaseStale
  <2>1. \A v \in Workers : Underway(v)' => v \in lost'
    BY <1>12, Zenon DEF ReleaseStale, Underway, in_replay
  <2> QED BY <2>1, Zenon DEF HoldInv
<1>13. CASE UNCHANGED vars
  BY <1>13, HoldKept, Zenon DEF vars, Underway, in_replay
<1>14. ASSUME NEW w \in Workers, CompleteFails(w)
       PROVE  HoldInv'
  <2>1. in_replay(w) /\ \E at : Moved(w, at)
    BY <1>14, CompletionFails, Zenon DEF in_replay
  <2>2. lost' = lost /\ entry' = entry /\ abandoned' = abandoned
    BY <1>14, Zenon DEF CompleteFails
  <2> QED BY <2>1, <2>2, MovedKeepsHold, Zenon
<1> QED BY <1>1, <1>2, <1>3, <1>4, <1>5, <1>6, <1>7, <1>8, <1>9, <1>10, <1>11, <1>12, <1>13, <1>14, Steps, Zenon

\* Every step keeps that what reads as done goes back to a job.
LEMMA DoneStep ==
    ASSUME TypeOK, StageInv, DoneInv, [Next]_vars
    PROVE  DoneInv'
<1>1. ASSUME NEW w \in Workers, NEW lane \in Lane, Acquire(w, lane)
      PROVE  DoneInv'
  <2>1. /\ \A v \in Workers : v # w => run'[v] = run[v]
        /\ run'[w].at \in {"gate", "start"} /\ ~run'[w].success
        /\ entry'.status = "replaying"
    BY <1>1, Acquires, Zenon
  <2>2. key' = key /\ succeeded' = succeeded
    BY <1>1, Zenon DEF Acquire
  <2> QED BY <2>1, <2>2, Zenon DEF DoneInv
<1>2. ASSUME NEW w \in Workers, AskGate(w) \/ GateFails(w)
      PROVE  DoneInv'
  <2>1. PICK at \in {"idle", "skip", "abort", "start"} :
            Moved(w, at) /\ (at = "skip" => key[run[w].acquired] = "completed")
    BY <1>2, Asks, Zenon
  <2>2. /\ run[w].acquired \in Attempts
        /\ \A n \in Attempts : key'[n] = "completed" => key[n] = "completed"
    BY <1>2, Asks, Zenon
  <2>3. entry' = entry /\ succeeded' = succeeded
    BY <1>2, Zenon DEF AskGate, GateFails
  <2> QED BY <2>1, <2>2, <2>3 DEF DoneInv, Moved, Idle
<1>3. ASSUME NEW w \in Workers, BeginJob(w)
      PROVE  DoneInv'
  <2>1. /\ \A v \in Workers : v # w => run'[v] = run[v]
        /\ run[w] \in Run
        /\ run'[w] = [run[w] EXCEPT !.at = "running", !.began = TRUE]
    BY <1>3, Begins, Zenon
  <2>2. run'[w].success = run[w].success /\ run'[w].at = "running"
    BY <2>1, Zenon DEF Run
  <2>3. entry' = entry /\ succeeded' = succeeded /\ key' = key
    BY <1>3, Zenon DEF BeginJob
  <2> QED BY <2>1, <2>2, <2>3, Zenon DEF DoneInv
<1>4. ASSUME NEW w \in Workers, RefuseJob(w)
      PROVE  DoneInv'
  <2>1. PICK at \in {"idle", "complete", "mark"} : Moved(w, at)
    BY <1>4, Refuses, Zenon
  <2>2. entry' = entry /\ succeeded' = succeeded /\ key' = key
    BY <1>4, Zenon DEF RefuseJob
  <2>3. run'[w].success \/ run'[w].at = "skip" => succeeded'
    BY <2>1, <2>2 DEF DoneInv, Moved, Idle
  <2> QED BY <2>1, <2>2, <2>3, Zenon DEF DoneInv, Moved
<1>5. ASSUME NEW w \in Workers, NEW success \in BOOLEAN, NEW cut \in BOOLEAN,
             EndJob(w, success, cut)
      PROVE  DoneInv'
  <2>1. /\ \A v \in Workers : v # w => run'[v] = run[v]
        /\ \/ run'[w] = Idle
           \/ run'[w].at \in {"complete", "mark"} /\ run'[w].success = success
    BY <1>5, Ends, Zenon
  <2>2. entry' = entry /\ key' = key /\ (succeeded => succeeded') /\ (success => succeeded')
    BY <1>5, Zenon DEF EndJob
  <2>3. run'[w].success \/ run'[w].at = "skip" => succeeded'
    BY <2>1, <2>2 DEF Idle
  <2> QED BY <2>1, <2>2, <2>3, Zenon DEF DoneInv
<1>6. ASSUME NEW w \in Workers, WorkEnds(w)
      PROVE  DoneInv'
  BY <1>6, Zenon DEF WorkEnds, DoneInv
<1>7. ASSUME NEW w \in Workers, Mark(w)
      PROVE  DoneInv'
  <2>1. PICK at \in {"idle", "complete", "give_back"} : Moved(w, at)
    BY <1>7, Marks, Zenon
  <2>2. \A n \in Attempts : key'[n] = "completed" => key[n] = "completed" \/ run[w].success
    BY <1>7, Marks, Zenon
  <2>3. entry' = entry /\ succeeded' = succeeded
    BY <1>7, Zenon DEF Mark
  <2>4. run'[w].success \/ run'[w].at = "skip" => succeeded'
    BY <2>1, <2>3 DEF DoneInv, Moved, Idle
  <2> QED BY <2>1, <2>2, <2>3, <2>4, Zenon DEF DoneInv, Moved
<1>8. ASSUME NEW w \in Workers, GiveBack(w) \/ GiveBackFails(w)
      PROVE  DoneInv'
  <2>1. PICK at \in {"idle", "complete"} : Moved(w, at)
    BY <1>8, GivesBack, Zenon
  <2>2. entry'.status = entry.status
    BY <1>8, GivesBack, Zenon
  <2>3. key' = key /\ succeeded' = succeeded
    BY <1>8, Zenon DEF GiveBack, GiveBackFails
  <2> QED BY <2>1, <2>2, <2>3 DEF DoneInv, Moved, Idle
<1>9. ASSUME NEW w \in Workers, Complete(w)
      PROVE  DoneInv'
  <2>1. PICK at \in {"idle", "mark"} : Moved(w, at)
    BY <1>9, Completes, Zenon
  <2>2. \/ run[w].success \/ run[w].at = "skip"
        \/ entry'.status # "resolved"
    BY <1>9, Completes, Zenon
  <2>3. key' = key /\ succeeded' = succeeded
    BY <1>9, Zenon DEF Complete
  <2> QED BY <2>1, <2>2, <2>3 DEF DoneInv, Moved, Idle
<1>10. ASSUME NEW w \in Workers, Die(w)
       PROVE  DoneInv'
  <2>1. Moved(w, "idle")
    BY <1>10, GoesTo, Zenon DEF Die
  <2>2. UNCHANGED <<entry, key, succeeded>>
    BY <1>10, Zenon DEF Die
  <2>3. run'[w] = Idle /\ \A v \in Workers : v # w => run'[v] = run[v]
    BY <2>1, Zenon DEF Moved
  <2>4. \A v \in Workers : run'[v].success \/ run'[v].at = "skip" => succeeded'
    BY <2>2, <2>3 DEF DoneInv, Idle
  <2> QED BY <2>2, <2>4, Zenon DEF DoneInv
<1>11. ASSUME NEW n \in Attempts, ExpireKey(n)
       PROVE  DoneInv'
  BY <1>11, Zenon DEF ExpireKey, DoneInv, TypeOK
<1>12. CASE ReleaseStale
  <2>1. entry'.status # "resolved"
    BY <1>12, Releases, Zenon
  <2>2. key' = key /\ run' = run /\ succeeded' = succeeded
    BY <1>12, Zenon DEF ReleaseStale
  <2> QED BY <2>1, <2>2, Zenon DEF DoneInv
<1>13. CASE UNCHANGED vars
  BY <1>13, Zenon DEF vars, DoneInv
<1>14. ASSUME NEW w \in Workers, CompleteFails(w)
       PROVE  DoneInv'
  <2>1. PICK at \in {"idle", "start"} : Moved(w, at)
    BY <1>14, CompletionFails, Zenon
  <2>2. entry' = entry /\ succeeded' = succeeded /\ key' = key
    BY <1>14, Zenon DEF CompleteFails
  <2> QED BY <2>1, <2>2 DEF DoneInv, Moved, Idle
<1> QED BY <1>1, <1>2, <1>3, <1>4, <1>5, <1>6, <1>7, <1>8, <1>9, <1>10, <1>11, <1>12, <1>13, <1>14, Steps, Zenon

-----------------------------------------------------------------------------
(* The budget *)

\* The attempts outstanding are finitely many.
LEMMA OutstandingFinite ==
    ASSUME TypeOK
    PROVE  /\ IsFiniteSet(Outstanding) /\ Cardinality(Outstanding) \in Nat
           /\ IsFiniteSet(Outstanding') /\ Cardinality(Outstanding') \in Nat
<1>1. Outstanding \subseteq Workers /\ Outstanding' \subseteq Workers
  BY Zenon DEF Outstanding
<1> QED BY <1>1, FS_Subset, FS_CardinalityType, ReplayAssumption, Zenon

\* With no more attempts outstanding, the budget is kept by a step that begins
\* no job and gives nothing back.
LEMMA BudgetKeeps ==
    ASSUME TypeOK, BudgetInv, Outstanding' \subseteq Outstanding, charged' = charged,
           entry'.retry_count = entry.retry_count, slipped' = slipped
    PROVE  BudgetInv'
<1>1. Cardinality(Outstanding') <= Cardinality(Outstanding)
  BY OutstandingFinite, FS_Subset, Zenon
<1>2. Cardinality(Outstanding') + charged <= entry.retry_count + slipped
  BY <1>1, OutstandingFinite DEF BudgetInv, TypeOK, Entry
<1> QED BY <1>2, OutstandingFinite DEF BudgetInv, TypeOK, Entry

\* A worker that goes on adds no attempt.
LEMMA MovedOwes ==
    ASSUME NEW w \in Workers, NEW at, Moved(w, at), forces' = forces,
           \/ at \notin {"gate", "skip", "abort", "start", "give_back", "running", "mark"}
           \/ owes(run[w])
           \/ at = "mark" /\ run[w].success
    PROVE  Outstanding' \subseteq Outstanding
<1>1. ASSUME NEW v \in Outstanding' PROVE v \in Outstanding
  <2>1. v \in Workers /\ owes(run'[v]) /\ run'[v].grant = forces
    BY Zenon DEF Outstanding, owes
  <2>2. CASE v # w
    BY <2>1, <2>2, Zenon DEF Moved, Outstanding
  <2>3. CASE v = w
    <3>1. CASE at = "idle"
      <4>1. run'[w] = Idle
        BY <3>1, Zenon DEF Moved
      <4> QED BY <2>1, <2>3, <4>1 DEF owes, Idle
    <3>2. CASE at # "idle"
      <4>1. /\ run'[w].at = at
            /\ run'[w].began = run[w].began
            /\ run'[w].success = run[w].success
            /\ run'[w].cut = run[w].cut
            /\ run'[w].grant = run[w].grant
        BY <3>2, Zenon DEF Moved
      <4>2. owes(run[w])
        BY <2>1, <2>3, <4>1, Zenon DEF owes
      <4> QED BY <2>1, <2>3, <4>1, <4>2, Zenon DEF Outstanding
    <3> QED BY <3>1, <3>2, Zenon
  <2> QED BY <2>2, <2>3, Zenon
<1> QED BY <1>1, Zenon

\* A worker that replays nothing owes nothing.
LEMMA IdleOwesNothing == Idle.at = "idle" /\ Idle.grant = 0 /\ ~owes(Idle)
<1>1. Idle.at = "idle" /\ Idle.grant = 0
  BY Zenon DEF Idle
<1> QED BY <1>1, Zenon DEF owes

\* Every step keeps the budget.
LEMMA BudgetStep ==
    ASSUME TypeOK, StageInv, BudgetInv, [Next]_vars
    PROVE  BudgetInv'
<1>1. ASSUME NEW w \in Workers, NEW lane \in Lane, Acquire(w, lane)
      PROVE  BudgetInv'
  <2>1. /\ \A v \in Workers : v # w => run'[v] = run[v]
        /\ entry'.retry_count = IF lane = "force" THEN 1 ELSE entry.retry_count + 1
    BY <1>1, Acquires, Zenon
  <2>2. CASE lane = "force"
    <3>1. forces' = forces + 1 /\ charged' = 0 /\ slipped' = 0
      BY <1>1, <2>2, Zenon DEF Acquire
    <3>2. Outstanding' \subseteq {w}
      <4>1. ASSUME NEW v \in Workers, v # w PROVE run'[v].grant # forces'
        <5>1. run[v].grant <= forces
          BY Zenon DEF StageInv, StageOK
        <5>2. run[v] \in Run \cup {Idle} /\ forces \in Int
          BY ReplayAssumption DEF TypeOK
        <5>3. run[v].grant \in Int
          <6>1. CASE run[v] \in Run
            BY <6>1, ReplayAssumption DEF Run
          <6>2. CASE run[v] = Idle
            BY <6>2, IdleOwesNothing
          <6> QED BY <5>2, <6>1, <6>2, Zenon
        <5> QED BY <2>1, <3>1, <4>1, <5>1, <5>2, <5>3
      <4> QED BY <4>1, Zenon DEF Outstanding
    <3>3. Cardinality(Outstanding') <= 1
      <4>1. IsFiniteSet({w}) /\ Cardinality({w}) = 1
        BY FS_Singleton, Zenon
      <4>2. Cardinality(Outstanding') <= Cardinality({w})
        BY <3>2, <4>1, FS_Subset, Zenon
      <4> QED BY <4>1, <4>2, Zenon
    <3> QED BY <2>1, <2>2, <3>1, <3>3, OutstandingFinite DEF BudgetInv
  <2>3. CASE lane # "force"
    <3>1. forces' = forces /\ charged' = charged /\ slipped' = slipped
      BY <1>1, <2>3, Zenon DEF Acquire
    <3>2. Outstanding' \subseteq Outstanding \cup {w}
      BY <2>1, <3>1, Zenon DEF Outstanding, owes
    <3>3. Cardinality(Outstanding') <= Cardinality(Outstanding) + 1
      <4>1. IsFiniteSet(Outstanding \cup {w})
            /\ Cardinality(Outstanding \cup {w})
                 = IF w \in Outstanding THEN Cardinality(Outstanding)
                                        ELSE Cardinality(Outstanding) + 1
        BY OutstandingFinite, FS_AddElement, Zenon
      <4>2. Cardinality(Outstanding') <= Cardinality(Outstanding \cup {w})
        BY <3>2, <4>1, FS_Subset, Zenon
      <4> QED BY <4>1, <4>2, OutstandingFinite
    <3>4. charged + Cardinality(Outstanding') <= entry.retry_count + 1 + slipped
      BY <3>3, OutstandingFinite DEF BudgetInv, TypeOK, Entry
    <3> QED BY <2>1, <2>3, <3>1, <3>4, Zenon DEF BudgetInv
  <2> QED BY <2>2, <2>3, Zenon
<1>2. ASSUME NEW w \in Workers, AskGate(w) \/ GateFails(w)
      PROVE  BudgetInv'
  <2>1. PICK at \in {"idle", "skip", "abort", "start"} : Moved(w, at)
    BY <1>2, Asks, Zenon
  <2>2. owes(run[w])
    BY <1>2, Asks, Zenon DEF owes
  <2>3. forces' = forces /\ charged' = charged /\ slipped' = slipped /\ entry' = entry
    BY <1>2, Zenon DEF AskGate, GateFails
  <2> QED BY <2>1, <2>2, <2>3, MovedOwes, BudgetKeeps, Zenon
<1>3. ASSUME NEW w \in Workers, BeginJob(w)
      PROVE  BudgetInv'
  <2>1. /\ \A v \in Workers : v # w => run'[v] = run[v]
        /\ run[w] \in Run /\ run[w].at = "start"
        /\ run'[w] = [run[w] EXCEPT !.at = "running", !.began = TRUE]
    BY <1>3, Begins, Zenon
  <2>2. /\ run'[w].at = "running" /\ run'[w].began
        /\ run'[w].lane = run[w].lane /\ run'[w].grant = run[w].grant
    BY <2>1, Zenon DEF Run
  <2>3. forces' = forces /\ slipped' = slipped /\ entry' = entry
    BY <1>3, Zenon DEF BeginJob
  <2>4. Outstanding' \subseteq Outstanding
    <3>1. owes(run[w])
      BY <2>1, Zenon DEF owes
    <3>2. ASSUME NEW v \in Outstanding' PROVE v \in Outstanding
      <4>1. v \in Workers /\ owes(run'[v]) /\ run'[v].grant = forces
        BY <2>3, <3>2, Zenon DEF Outstanding, owes
      <4> QED BY <2>1, <2>2, <3>1, <4>1, Zenon DEF Outstanding
    <3> QED BY <3>2, Zenon
  <2>5. CASE run[w].lane # "trial" /\ run[w].grant = forces
    <3>1. charged' = charged + 1
      BY <1>3, <2>5, Zenon DEF BeginJob
    <3>2. w \in Outstanding /\ w \notin Outstanding'
      BY <2>1, <2>2, <2>5, Zenon DEF Outstanding, owes
    <3>3. Outstanding' \subseteq Outstanding \ {w}
      BY <2>4, <3>2, Zenon
    <3>4. /\ IsFiniteSet(Outstanding \ {w})
          /\ Cardinality(Outstanding \ {w}) = Cardinality(Outstanding) - 1
      BY <3>2, OutstandingFinite, FS_RemoveElement, Zenon
    <3>5. Cardinality(Outstanding') <= Cardinality(Outstanding) - 1
      BY <3>3, <3>4, FS_Subset
    <3> QED BY <2>3, <3>1, <3>5, OutstandingFinite DEF BudgetInv, TypeOK, Entry
  <2>6. CASE ~(run[w].lane # "trial" /\ run[w].grant = forces)
    <3>1. charged' = charged
      BY <1>3, <2>6, Zenon DEF BeginJob
    <3> QED BY <2>3, <2>4, <3>1, BudgetKeeps, Zenon
  <2> QED BY <2>5, <2>6, Zenon
<1>4. ASSUME NEW w \in Workers, RefuseJob(w)
      PROVE  BudgetInv'
  <2>1. PICK at \in {"idle", "complete", "mark"} : Moved(w, at)
    BY <1>4, Refuses, Zenon
  <2>2. owes(run[w])
    BY <1>4, Refuses, Zenon DEF owes
  <2>3. forces' = forces /\ charged' = charged /\ slipped' = slipped /\ entry' = entry
    BY <1>4, Zenon DEF RefuseJob
  <2> QED BY <2>1, <2>2, <2>3, MovedOwes, BudgetKeeps, Zenon
<1>5. ASSUME NEW w \in Workers, NEW success \in BOOLEAN, NEW cut \in BOOLEAN,
             EndJob(w, success, cut)
      PROVE  BudgetInv'
  <2>1. /\ \A v \in Workers : v # w => run'[v] = run[v]
        /\ run[w].at = "running"
        /\ \/ run'[w] = Idle
           \/ /\ run'[w].at \in {"complete", "mark"}
              /\ run'[w].lane = run[w].lane
              /\ run'[w].grant = run[w].grant
              /\ run'[w].began = run[w].began
    BY <1>5, Ends, Zenon
  <2>2. forces' = forces /\ charged' = charged /\ slipped' = slipped /\ entry' = entry
    BY <1>5, Zenon DEF EndJob
  <2>3. Outstanding' \subseteq Outstanding
    <3>1. owes(run'[w]) => owes(run[w]) /\ run'[w].grant = run[w].grant
      <4>1. CASE run'[w] = Idle
        BY <4>1, IdleOwesNothing, Zenon
      <4>2. CASE run'[w].at \in {"complete", "mark"}
        BY <2>1, <4>2, IdleOwesNothing, Zenon DEF owes
      <4> QED BY <2>1, <4>1, <4>2, Zenon
    <3>2. ASSUME NEW v \in Outstanding' PROVE v \in Outstanding
      <4>1. v \in Workers /\ owes(run'[v]) /\ run'[v].grant = forces
        BY <2>2, <3>2, Zenon DEF Outstanding, owes
      <4> QED BY <2>1, <3>1, <4>1, Zenon DEF Outstanding
    <3> QED BY <3>2, Zenon
  <2> QED BY <2>2, <2>3, BudgetKeeps, Zenon
<1>6. ASSUME NEW w \in Workers, WorkEnds(w)
      PROVE  BudgetInv'
  BY <1>6, Zenon DEF WorkEnds, BudgetInv, Outstanding, owes
<1>7. ASSUME NEW w \in Workers, Mark(w)
      PROVE  BudgetInv'
  <2>1. PICK at \in {"idle", "complete", "give_back"} :
            /\ Moved(w, at)
            /\ at = "give_back" => ~run[w].success /\ (run[w].lane = "trial" \/ ~run[w].began)
    BY <1>7, Marks, Zenon
  <2>2. run[w].at = "mark" /\ forces' = forces /\ charged' = charged
        /\ slipped' = slipped /\ entry' = entry
    BY <1>7, Zenon DEF Mark
  <2>3. at \notin {"gate", "skip", "abort", "start", "give_back", "running", "mark"} \/ owes(run[w])
    BY <2>1, <2>2, Zenon DEF owes
  <2> QED BY <2>1, <2>2, <2>3, MovedOwes, BudgetKeeps, Zenon
<1>8. ASSUME NEW w \in Workers, GiveBack(w) \/ GiveBackFails(w)
      PROVE  BudgetInv'
  <2>1. PICK at \in {"idle", "complete"} : Moved(w, at)
    BY <1>8, GivesBack, Zenon
  <2>2. forces' = forces /\ charged' = charged
    BY <1>8, Zenon DEF GiveBack, GiveBackFails
  <2>3. owes(run[w])
    BY <1>8, GivesBack, Zenon DEF owes
  <2>4. Outstanding' \subseteq Outstanding
    BY <2>1, <2>2, <2>3, MovedOwes, Zenon
  <2>5. CASE entry' = entry /\ slipped' = slipped
    BY <2>2, <2>4, <2>5, BudgetKeeps, Zenon
  <2>6. CASE /\ entry'.retry_count = entry.retry_count - 1
             /\ slipped' = IF run[w].grant # forces THEN slipped + 1 ELSE slipped
    <3>1. CASE run[w].grant # forces
      <4>1. Cardinality(Outstanding') <= Cardinality(Outstanding)
        BY <2>4, OutstandingFinite, FS_Subset, Zenon
      <4> QED BY <2>2, <2>6, <3>1, <4>1, OutstandingFinite DEF BudgetInv, TypeOK, Entry
    <3>2. CASE run[w].grant = forces
      <4>1. w \in Outstanding
        BY <2>3, <3>2, Zenon DEF Outstanding
      <4>2. w \notin Outstanding'
        <5>1. run'[w].at \in {"idle", "complete"}
          BY <2>1, IdleOwesNothing, Zenon DEF Moved
        <5>2. ~owes(run'[w])
          BY <5>1, Zenon DEF owes
        <5> QED BY <5>2, Zenon DEF Outstanding
      <4>3. Outstanding' \subseteq Outstanding \ {w}
        BY <2>4, <4>2, Zenon
      <4>4. /\ IsFiniteSet(Outstanding \ {w})
            /\ Cardinality(Outstanding \ {w}) = Cardinality(Outstanding) - 1
        BY <4>1, OutstandingFinite, FS_RemoveElement, Zenon
      <4>5. Cardinality(Outstanding') <= Cardinality(Outstanding) - 1
        BY <4>3, <4>4, FS_Subset
      <4> QED BY <2>2, <2>6, <3>2, <4>5, OutstandingFinite DEF BudgetInv, TypeOK, Entry
    <3> QED BY <3>1, <3>2, Zenon
  <2> QED BY <1>8, <2>5, <2>6, GivesBack, Zenon
<1>9. ASSUME NEW w \in Workers, Complete(w)
      PROVE  BudgetInv'
  <2>1. PICK at \in {"idle", "mark"} :
            Moved(w, at) /\ (at = "mark" => run[w].at = "complete" /\ run[w].success)
    BY <1>9, Completes, Zenon
  <2>2. entry'.retry_count = entry.retry_count
    BY <1>9, Completes, Zenon
  <2>3. forces' = forces /\ charged' = charged /\ slipped' = slipped
    BY <1>9, Zenon DEF Complete
  <2>4. CASE at = "idle"
    BY <2>1, <2>2, <2>3, <2>4, MovedOwes, BudgetKeeps, Zenon
  <2>5. CASE at = "mark"
    BY <2>1, <2>2, <2>3, <2>5, MovedOwes, BudgetKeeps, Zenon
  <2> QED BY <2>1, <2>4, <2>5, Zenon
<1>10. ASSUME NEW w \in Workers, Die(w)
       PROVE  BudgetInv'
  <2>1. Moved(w, "idle")
    BY <1>10, GoesTo, Zenon DEF Die
  <2> QED BY <1>10, <2>1, MovedOwes, BudgetKeeps, Zenon DEF Die
<1>11. ASSUME NEW n \in Attempts, ExpireKey(n)
       PROVE  BudgetInv'
  BY <1>11, Zenon DEF ExpireKey, BudgetInv, Outstanding, owes
<1>12. CASE ReleaseStale
  <2>1. run' = run /\ forces' = forces /\ charged' = charged /\ slipped' = slipped
    BY <1>12, Zenon DEF ReleaseStale
  <2>2. entry'.retry_count = entry.retry_count
    BY <1>12, Releases, Zenon
  <2> QED BY <2>1, <2>2, BudgetKeeps, Zenon DEF Outstanding, owes
<1>13. CASE UNCHANGED vars
  BY <1>13, Zenon DEF vars, BudgetInv, Outstanding, owes
<1>14. ASSUME NEW w \in Workers, CompleteFails(w)
       PROVE  BudgetInv'
  <2>1. PICK at \in {"idle", "start"} : Moved(w, at) /\ (at = "start" => run[w].at = "skip")
    BY <1>14, CompletionFails, Zenon
  <2>2. forces' = forces /\ charged' = charged /\ slipped' = slipped /\ entry' = entry
    BY <1>14, Zenon DEF CompleteFails
  <2>3. at = "start" => owes(run[w])
    BY <2>1, Zenon DEF owes
  <2> QED BY <2>1, <2>2, <2>3, MovedOwes, BudgetKeeps, Zenon
<1> QED BY <1>1, <1>2, <1>3, <1>4, <1>5, <1>6, <1>7, <1>8, <1>9, <1>10, <1>11, <1>12, <1>13, <1>14, Steps, Zenon

-----------------------------------------------------------------------------
(* Theorems *)

\* The invariant holds initially.
LEMMA Initially ==
    ASSUME Init
    PROVE  Inv /\ BudgetInv
<1>1. TypeOK
  <2>1. entry \in Entry
    BY StoreAssumption DEF Init, Entry, Status, Captured
  <2>2. /\ key \in [Attempts -> {"absent", "executing", "completed", "failed"}]
        /\ run \in [Workers -> Run \cup {Idle}]
        /\ abandoned \subseteq Workers /\ lost \subseteq Workers
        /\ succeeded \in BOOLEAN
    BY Zenon DEF Init
  <2>3. /\ forces \in 0..MaxForces /\ free \in 0..MaxFree
        /\ charged \in Nat /\ slipped \in Nat
    BY ReplayAssumption DEF Init
  <2> QED BY <2>1, <2>2, <2>3, Zenon DEF TypeOK
<1>2. \A w \in Workers : run[w] = Idle /\ w \notin abandoned
  BY Zenon DEF Init
<1>3. StageInv /\ HoldInv
  <2>1. StageInv
    BY <1>2, ReplayAssumption DEF Init, StageInv, StageOK, Idle
  <2>2. HoldInv
    BY <1>2, Zenon DEF Init, HoldInv, Underway, in_replay, Idle
  <2> QED BY <2>1, <2>2, Zenon
<1>4. DoneInv
  <2>1. entry.status = "pending" /\ ~succeeded
    BY DEF Init, Captured
  <2> QED BY <1>2, <2>1, Zenon DEF Init, DoneInv, Idle
<1>5. Outstanding = {}
  <2>1. \A w \in Workers : ~owes(run[w])
    BY <1>2, IdleOwesNothing, Zenon
  <2> QED BY <2>1, Zenon DEF Outstanding
<1>6. BudgetInv
  <2>1. Cardinality(Outstanding) = 0
    BY <1>5, FS_EmptySet, Zenon
  <2> QED BY <2>1 DEF Init, BudgetInv, Captured
<1> QED BY <1>1, <1>3, <1>4, <1>6, Zenon DEF Inv

\* The inductive invariant holds in every state of every replay history.
THEOREM ReplayInvariance == Spec => [](Inv /\ BudgetInv)
<1>1. Init => Inv /\ BudgetInv
  BY Initially, Zenon
<1>2. Inv /\ BudgetInv /\ [Next]_vars => (Inv /\ BudgetInv)'
  BY TypeStep, StageStep, HoldStep, DoneStep, BudgetStep, Zenon DEF Inv
<1> QED BY <1>1, <1>2, PTL DEF Spec

\* Types: in particular a retry count stays between zero and the cap.
THEOREM ReplayTypeCorrect == Spec => []TypeOK
<1>1. Inv => TypeOK
  BY Zenon DEF Inv
<1> QED BY <1>1, ReplayInvariance, PTL

\* No lane starts the entry's job beside itself: two jobs run at once only when
\* the entry was taken from one of their replays.
THEOREM NotBesideItselfCorrect == Spec => []NotBesideItself
<1>1. Inv => NotBesideItself
  BY Zenon DEF Inv, HoldInv, NotBesideItself, job_runs, Underway, in_replay
<1> QED BY <1>1, ReplayInvariance, PTL

\* An entry is resolved only after a job of its own succeeded.
THEOREM ResolvedMeansSucceededCorrect == Spec => []ResolvedMeansSucceeded
<1>1. Inv => ResolvedMeansSucceeded
  BY Zenon DEF Inv, DoneInv, ResolvedMeansSucceeded
<1> QED BY <1>1, ReplayInvariance, PTL

\* The jobs begun within one budget are at most the cap, plus the attempts that
\* replays of an earlier budget gave back into it.
THEOREM BudgetKeptCorrect == Spec => []BudgetKept
<1>1. Inv /\ BudgetInv => BudgetKept
  <2> SUFFICES ASSUME Inv, BudgetInv PROVE BudgetKept
    OBVIOUS
  <2>1. /\ entry.retry_count \in 0..MaxReplayAttempts /\ charged \in Nat /\ slipped \in Nat
        /\ Cardinality(Outstanding) \in Nat
    BY OutstandingFinite, Zenon DEF Inv, TypeOK, Entry
  <2> QED BY <2>1, StoreAssumption DEF BudgetInv, BudgetKept
<1> QED BY <1>1, ReplayInvariance, PTL

\* An entry in the queue has attempts left under the cap stored with it.
QueueInv == entry.status = "pending" => entry.retry_count < entry.max_retries

\* An entry's count and its stored cap are numbers.
LEMMA EntryNumbers ==
    ASSUME NEW e \in Entry
    PROVE  e.retry_count \in Int /\ e.max_retries \in Int
<1>1. e.retry_count \in 0..MaxReplayAttempts /\ e.max_retries \in CapturedCaps
  BY Zenon DEF Entry
<1>2. CapturedCaps \subseteq Int /\ 0..MaxReplayAttempts \subseteq Int
  BY StoreAssumption
<1> QED BY <1>1, <1>2, Zenon

\* Whatever puts an entry into the queue asks its stored cap first.
LEMMA QueueStep ==
    ASSUME TypeOK, QueueInv, [Next]_vars
    PROVE  QueueInv'
<1>1. ASSUME NEW w \in Workers, NEW lane \in Lane, Acquire(w, lane) PROVE QueueInv'
  BY <1>1, Acquires, Zenon DEF QueueInv
<1>2. ASSUME NEW w \in Workers, GiveBack(w) \/ GiveBackFails(w) PROVE QueueInv'
  BY <1>2, GivesBack, Zenon DEF QueueInv
<1>3. ASSUME NEW e \in Entry, NEW done \in BOOLEAN,
             entry' = [e EXCEPT !.status = IF done THEN "resolved" ELSE unresolved(e)]
      PROVE  QueueInv'
  <2>1. e.retry_count \in Int /\ e.max_retries \in Int
    BY EntryNumbers, Zenon
  <2>2. /\ entry'.status = IF done THEN "resolved" ELSE unresolved(e)
        /\ entry'.retry_count = e.retry_count /\ entry'.max_retries = e.max_retries
    BY <1>3, Zenon DEF Entry
  <2> QED BY <2>1, <2>2 DEF QueueInv, unresolved
<1>4. ASSUME NEW w \in Workers, Complete(w) PROVE QueueInv'
  <2> DEFINE done == run[w].success \/ run[w].at = "skip"
  <2>1. done \in BOOLEAN
    OBVIOUS
  <2>2. entry' = [entry EXCEPT !.status = IF done THEN "resolved" ELSE unresolved(entry)]
    BY <1>4, Zenon DEF Complete, complete_replay
  <2> HIDE DEF done
  <2> QED BY <1>3, <2>1, <2>2, Zenon DEF TypeOK
<1>5. ASSUME ReleaseStale PROVE QueueInv'
  <2>1. entry' = [entry EXCEPT !.status = IF FALSE THEN "resolved" ELSE unresolved(entry)]
    BY <1>5, Zenon DEF ReleaseStale, release
  <2> QED BY <1>3, <2>1, Zenon DEF TypeOK
<1>6. CASE entry' = entry
  BY <1>6, Zenon DEF QueueInv
<1>7. Next \/ entry' = entry
  BY Zenon DEF vars
<1> QED
  BY <1>1, <1>2, <1>4, <1>5, <1>6, <1>7, Steps, Zenon
     DEF AskGate, GateFails, BeginJob, RefuseJob, EndJob, WorkEnds, Mark, CompleteFails, Die, ExpireKey

\* With the cap unchanged, or raised, since the capture, no entry waits in the
\* queue where the cap bars every automatic replay of it.
THEOREM BarredOnlyIfLoweredCorrect == Spec => []BarredOnlyIfLowered
<1>1. Init => QueueInv
  BY StoreAssumption DEF Init, Captured, QueueInv
<1>2. TypeOK /\ QueueInv /\ [Next]_vars => QueueInv'
  BY QueueStep, Zenon
<1>3. TypeOK /\ QueueInv => BarredOnlyIfLowered
  <2> SUFFICES ASSUME TypeOK, QueueInv, Barred PROVE entry.max_retries > MaxReplayAttempts
    BY Zenon DEF BarredOnlyIfLowered
  <2>1. entry.retry_count \in Int /\ entry.max_retries \in Int
    BY EntryNumbers, Zenon DEF TypeOK
  <2> QED BY <2>1, StoreAssumption DEF QueueInv, Barred
<1> QED BY <1>1, <1>2, <1>3, ReplayTypeCorrect, PTL DEF Spec

\* Only the completion of a replay that had lost the entry takes a resolved
\* entry back.
THEOREM ResolvedStandsCorrect == Spec => ResolvedStands
<1> DEFINE Taken == entry.status = "resolved" /\ entry' # entry
                      => \E w \in lost : run[w].at = "complete" /\ run'[w] # run[w]
<1>1. ASSUME Inv, [Next]_vars PROVE Taken
  <2> SUFFICES ASSUME entry.status = "resolved", entry' # entry
               PROVE  \E w \in lost : run[w].at = "complete" /\ run'[w] # run[w]
    OBVIOUS
  <2>0. TypeOK /\ HoldInv /\ [Next]_vars
    BY <1>1, Zenon DEF Inv
  <2>1. PICK w \in Workers : Complete(w)
    <3>1. ASSUME NEW w \in Workers, NEW lane \in Lane, Acquire(w, lane) PROVE FALSE
      BY <3>1, Zenon DEF Acquire, acquirable
    <3>2. ASSUME NEW w \in Workers, GiveBack(w) \/ GiveBackFails(w) PROVE FALSE
      BY <2>0, <3>2, GivesBack, Zenon
    <3>3. ~ReleaseStale
      BY Zenon DEF ReleaseStale, stale
    <3>4. Next
      BY <2>0, Zenon DEF vars
    <3> QED
      BY <3>1, <3>2, <3>3, <3>4, Steps, Zenon
         DEF AskGate, GateFails, BeginJob, RefuseJob, EndJob, WorkEnds, Mark, CompleteFails, Die, ExpireKey
  <2>2. run[w].at = "complete" /\ ~run[w].success
    <3>1. run[w].at \in {"complete", "skip"}
      BY <2>0, <2>1, Completes, Zenon
    <3>2. CASE run[w].success \/ run[w].at = "skip"
      <4>1. entry' = [entry EXCEPT !.status = "resolved"]
        BY <2>1, <3>2, Zenon DEF Complete, complete_replay
      <4>2. entry' = entry
        BY <2>0, <4>1 DEF TypeOK, Entry
      <4> QED BY <4>2, Zenon
    <3> QED BY <3>1, <3>2, Zenon
  <2>3. w \in lost
    BY <2>0, <2>2, Zenon DEF HoldInv, Underway, in_replay
  <2>4. run'[w] # run[w]
    <3>1. PICK at \in {"idle", "mark"} : Moved(w, at)
      BY <2>0, <2>1, Completes, Zenon
    <3>2. run'[w].at = at
      BY <3>1, IdleOwesNothing, Zenon DEF Moved
    <3> QED BY <2>2, <3>2, Zenon
  <2> QED BY <2>2, <2>3, <2>4, Zenon
<1>2. Inv /\ [Next]_vars => [Taken]_vars
  BY <1>1, Zenon
<1> QED BY <1>2, ReplayInvariance, PTL DEF Spec, ResolvedStands

=============================================================================
