-------------------------- MODULE IdempotencyProofs --------------------------
(***************************************************************************)
(* Proofs about IdempotentCall, for every number of calls, attempts and    *)
(* nested pieces, every window and every clock skew within the tolerance.  *)
(***************************************************************************)
EXTENDS IdempotentCall, TLAPS

CallStep(c) ==
    \/ ClaimStep(c) \/ RunStep(c) \/ PieceStep(c)
    \/ Mark(c) \/ MarkFault(c) \/ Crash(c)

(* The scope's operators. *)

\* add and fold of core/abandoned_work.py keep a scope a scope.
LEMMA HoldTypes ==
    ASSUME NEW s \in Scope, NEW p \in Pieces, NEW b \in BOOLEAN
    PROVE  add(s, p) \in Scope /\ fold(s, p, b) \in Scope
<1>1. add(s, p) \in Scope
  <2>1. s.running \cup {p} \in SUBSET Pieces
    BY Zenon DEF Scope
  <2>2. [s EXCEPT !.running = @ \cup {p}] \in Scope
    BY <2>1, Zenon DEF Scope
  <2>3. QED
    BY <2>2, Zenon DEF add
<1>2. CASE p \notin s.running
  BY <1>1, <1>2, Zenon DEF fold
<1>3. CASE p \in s.running
  <2> DEFINE of == s.own_finished \/ p \in Own
             ol == s.own_failed \/ (p \in Own /\ ~b)
             se == s.sealed \/ seals(s, p)
             st == s.settles /\ ~seals(s, p)
  <2>1. of \in BOOLEAN /\ ol \in BOOLEAN /\ se \in BOOLEAN /\ st \in BOOLEAN
    BY Zenon DEF seals
  <2>2. fold(s, p, b) =
          [s EXCEPT !.running = s.running \ {p}, !.own_finished = of,
                    !.own_failed = ol, !.sealed = se, !.settles = st]
    BY <1>3, Zenon DEF fold
  <2>3. s.running \ {p} \in SUBSET Pieces
    BY Zenon DEF Scope
  <2> HIDE DEF of, ol, se, st
  <2>4. QED
    BY <1>1, <2>1, <2>2, <2>3, Zenon DEF Scope
<1>4. QED
  BY <1>2, <1>3, Zenon

\* close keeps a scope a scope.
LEMMA CloseTypes ==
    ASSUME NEW s \in Scope, NEW b \in BOOLEAN
    PROVE  close(s, b) \in Scope
BY Zenon DEF close, Scope, close_settles_now

\* Adding a piece to an unsettled scope holds it and changes nothing else.
LEMMA AddFacts ==
    ASSUME NEW s \in Scope, NEW p \in Pieces
    PROVE  /\ add(s, p).closed = s.closed /\ add(s, p).sealed = s.sealed
           /\ add(s, p).own_finished = s.own_finished
           /\ add(s, p).own_failed = s.own_failed
           /\ ~s.sealed => add(s, p).running = s.running \cup {p}
           /\ s.sealed => add(s, p).running = s.running
BY Zenon DEF add, Scope

\* Folding a piece out drops only it, settles a scope only when it is closed
\* and holds nothing else, and counts only an own piece that returned.
LEMMA FoldFacts ==
    ASSUME NEW s \in Scope, NEW p \in Pieces, NEW b \in BOOLEAN
    PROVE  /\ fold(s, p, b).running = s.running \ {p}
           /\ fold(s, p, b).closed = s.closed
           /\ s.sealed => fold(s, p, b).sealed
           /\ fold(s, p, b).sealed =>
                 s.sealed \/ (s.closed /\ s.running = {p})
           /\ own_succeeded(fold(s, p, b)) =>
                 own_succeeded(s) \/ (p \in Own /\ b)
<1>1. CASE p \notin s.running
  BY <1>1, Zenon DEF fold, Scope
<1>2. CASE p \in s.running
  <2>1. fold(s, p, b).running = s.running \ {p} /\ fold(s, p, b).closed = s.closed
    BY <1>2, Zenon DEF fold, Scope
  <2>2. fold(s, p, b).sealed = (s.sealed \/ seals(s, p))
    BY <1>2, Zenon DEF fold, Scope
  <2>3. /\ fold(s, p, b).own_finished = (s.own_finished \/ p \in Own)
        /\ fold(s, p, b).own_failed = (s.own_failed \/ (p \in Own /\ ~b))
    BY <1>2, Zenon DEF fold, Scope
  <2>4. QED
    BY <2>1, <2>2, <2>3, Zenon DEF seals, own_succeeded
<1>3. QED
  BY <1>1, <1>2, Zenon

\* Closing a scope keeps its pieces and settles it only when it holds none.
LEMMA CloseFacts ==
    ASSUME NEW s \in Scope, NEW b \in BOOLEAN
    PROVE  /\ close(s, b).running = s.running
           /\ close(s, b).own_finished = s.own_finished
           /\ close(s, b).own_failed = s.own_failed
           /\ close(s, b).sealed => s.sealed \/ s.running = {}
BY Zenon DEF close, close_settles_now, Scope

-----------------------------------------------------------------------------
(* Type correctness. *)

\* What a claim and a mark write are records.
LEMMA RecordTypes ==
    ASSUME NEW c \in Calls, NEW s \in Int, NEW e \in Int,
           NEW st \in {"completed", "failed"}
    PROVE  executing(c, s, e) \in Record /\ marked(st, e) \in Record
BY Zenon DEF executing, marked, Record

\* Init establishes the types.
LEMMA TypeInit == Init => TypeOK
<1>1. SUFFICES ASSUME Init PROVE TypeOK
  OBVIOUS
<1>2. NewScope \in Scope
  BY Zenon DEF NewScope, Scope
<1>3. record \in Record
  BY <1>1, Zenon DEF Init, Record
<1>4. now \in 0..MaxTime
  BY <1>1, CallAssumption DEF Init
<1>5. QED
  BY <1>1, <1>2, <1>3, <1>4 DEF Init, TypeOK, CallPc, PieceState

\* The clocks are natural numbers, the skews within the tolerance.
LEMMA ClockTypes ==
    ASSUME TypeOK, NEW c \in Calls
    PROVE  /\ now \in Nat /\ skew[c] \in Nat /\ skew[c] <= ClockSkewTolerance
           /\ ttl[c] \in Nat /\ started[c] \in Int /\ threshold[c] \in Int
<1>1. now \in 0..MaxTime /\ MaxTime \in Nat
  BY CallAssumption, Zenon DEF TypeOK
<1>2. skew[c] \in 0..ClockSkewTolerance /\ ClockSkewTolerance \in Nat
  BY RecordAssumption, Zenon DEF TypeOK
<1>3. ttl[c] \in Nat
  <2>1. ttl[c] \in ExecutionTTLs
    BY Zenon DEF TypeOK
  <2>2. QED
    BY <2>1, CallAssumption, Zenon
<1>4. started[c] \in Int /\ threshold[c] \in Int
  BY Zenon DEF TypeOK
<1>5. now \in Nat /\ skew[c] \in Nat /\ skew[c] <= ClockSkewTolerance
  BY <1>1, <1>2
<1>6. QED
  BY <1>3, <1>4, <1>5, Zenon

\* The steps of a claim keep the types.
LEMMA TypeClaim ==
    ASSUME TypeOK, NEW c \in Calls, ClaimStep(c)
    PROVE  TypeOK'
<1> USE RecordAssumption, CallAssumption DEF TypeOK, CallPc
<1>a. now \in Int /\ skew[c] \in Int /\ ttl[c] \in Int
  BY ClockTypes
<1>0. executing(c, started[c], now + ttl[c]) \in Record
  <2>1. started[c] \in Int /\ now + ttl[c] \in Int
    BY <1>a
  <2>2. QED
    BY <2>1, RecordTypes, Zenon
<1>1. ASSUME Claimed(c) PROVE TypeOK'
  BY <1>0, <1>1, Zenon DEF Claimed, Goto, env, callVars, workVars
<1>2. ASSUME NEW l \in CallPc, Turn(c, l) PROVE TypeOK'
  BY <1>2, Zenon DEF Turn, Goto, env, callVars, workVars
<1>3. CASE BuildRecord(c)
  BY <1>3 DEF BuildRecord, Goto, env, workVars, clock
<1>4. CASE SetNx(c)
  BY <1>1, <1>2, <1>4, Zenon DEF SetNx
<1>5. CASE GetExisting(c)
  <2> DEFINE stale == stale_before(clock(c), ttl[c])
  <2>1. stale \in Int
    BY <1>a DEF stale_before, clock
  <2>2. CASE threshold' = [threshold EXCEPT ![c] = stale]
             /\ Goto(c, "takeover")
             /\ UNCHANGED <<env, record, started, cancelled, outcome, workVars>>
    <3> HIDE DEF stale
    <3> QED BY <2>1, <2>2, Zenon DEF Goto, env, workVars
  <2>3. QED
    BY <1>2, <1>5, <2>2, Zenon DEF GetExisting
<1>6. CASE TakeOver(c)
  BY <1>1, <1>2, <1>6, Zenon DEF TakeOver
<1>7. CASE CacheFault(c)
  BY <1>0, <1>7, Zenon DEF CacheFault, Goto, env, callVars, workVars
<1>8. CASE CancelClaim(c)
  BY <1>8, Zenon DEF CancelClaim, env, workVars
<1>9. QED
  BY <1>3, <1>4, <1>5, <1>6, <1>7, <1>8, Zenon DEF ClaimStep

\* The steps of the call that runs the function keep the types.
LEMMA TypeRun ==
    ASSUME TypeOK, NEW c \in Calls, RunStep(c)
    PROVE  TypeOK'
<1> USE DEF TypeOK, CallPc, Goto, Held, env
<1>0. ASSUME NEW b \in BOOLEAN PROVE close(scope[c], b) \in Scope
  BY CloseTypes, Zenon
<1>1. CASE StartAttempt(c)
  <2>1. PICK p \in Own : /\ work' = [work EXCEPT ![c][p] = "queued"]
                         /\ waiting' = [waiting EXCEPT ![c] = {p}]
    BY <1>1, Zenon DEF StartAttempt
  <2>2. p \in Pieces /\ "queued" \in PieceState
    BY Zenon DEF Pieces, PieceState
  <2>3. work' \in [Calls -> [Pieces -> PieceState]]
    BY <2>1, <2>2, Zenon
  <2>4. waiting' \in [Calls -> SUBSET Own]
    BY <2>1, Zenon
  <2>5. QED
    BY <1>1, <2>3, <2>4, Zenon DEF StartAttempt
<1>2. CASE Succeed(c)
  BY <1>0, <1>2, Zenon DEF Succeed
<1>3. CASE AttemptRaised(c)
  BY <1>3, Zenon DEF AttemptRaised
<1>4. CASE TimeOut(c)
  <2>1. PICK p \in waiting[c] :
          IF work[c][p] = "queued"
          THEN work' = [work EXCEPT ![c][p] = "raised"] /\ UNCHANGED scope
          ELSE scope' = [scope EXCEPT ![c] = recorded(c, p)] /\ UNCHANGED work
    BY <1>4, Zenon DEF TimeOut
  <2>2. p \in Pieces
    BY Zenon DEF Pieces
  <2>3. recorded(c, p) \in Scope
    BY <2>2, HoldTypes, Zenon DEF recorded
  <2>a. waiting' = [waiting EXCEPT ![c] = {}] /\ UNCHANGED <<Held, pc, outcome>>
    BY <1>4, Zenon DEF TimeOut
  <2>4. CASE work[c][p] = "queued"
    <3>a. work' = [work EXCEPT ![c][p] = "raised"] /\ "raised" \in PieceState
      BY <2>1, <2>4, Zenon DEF PieceState
    <3>1. work' \in [Calls -> [Pieces -> PieceState]]
      BY <2>2, <3>a, Zenon
    <3>2. scope' = scope
      BY <2>1, <2>4, Zenon
    <3>3. QED
      BY <2>a, <3>1, <3>2, Zenon
  <2>5. CASE work[c][p] # "queued"
    BY <2>1, <2>3, <2>5, <2>a, Zenon
  <2>6. QED
    BY <2>4, <2>5, Zenon
<1>5. CASE TimeOutAsync(c)
  <2>1. PICK p \in Own : work' = [work EXCEPT ![c][p] = "raised"]
    BY <1>5, Zenon DEF TimeOutAsync
  <2>2. p \in Pieces /\ "raised" \in PieceState
    BY Zenon DEF Pieces, PieceState
  <2>3. QED
    BY <1>5, <2>1, <2>2, Zenon DEF TimeOutAsync
<1>6. CASE GiveUp(c)
  BY <1>0, <1>6, Zenon DEF GiveUp
<1>7. CASE CloseOnly(c)
  BY <1>0, <1>7, Zenon DEF CloseOnly, PieceState
<1>8. QED
  BY <1>1, <1>2, <1>3, <1>4, <1>5, <1>6, <1>7, Zenon DEF RunStep

\* The steps of the work, of the mark and of a crash keep the types.
LEMMA TypeWork ==
    ASSUME TypeOK, NEW c \in Calls,
           PieceStep(c) \/ Mark(c) \/ MarkFault(c) \/ Crash(c)
    PROVE  TypeOK'
<1> USE DEF TypeOK, CallPc, Goto, Held, env
<1>1. CASE RunPiece(c)
  BY <1>1 DEF RunPiece, PieceState
<1>2. CASE AbandonNested(c)
  <2>1. PICK p \in Nested :
          /\ work' = [work EXCEPT ![c][p] = "running"]
          /\ scope' = [scope EXCEPT ![c] = add(@, p)]
    BY <1>2, Zenon DEF AbandonNested
  <2>2. p \in Pieces
    BY Zenon DEF Pieces
  <2>3. add(scope[c], p) \in Scope
    BY <2>2, HoldTypes, Zenon
  <2>4. QED
    BY <1>2, <2>1, <2>2, <2>3, Zenon DEF AbandonNested, PieceState
<1>3. CASE EndPiece(c)
  <2>1. PICK p \in Pieces, returned \in BOOLEAN :
          /\ work' = [work EXCEPT ![c][p] = IF returned THEN "returned" ELSE "raised"]
          /\ scope' = [scope EXCEPT ![c] = fold(scope[c], p, returned)]
          /\ \/ /\ Goto(c, "mark")
                /\ outcome' = [outcome EXCEPT ![c] =
                                 IF own_succeeded(fold(scope[c], p, returned))
                                 THEN "completed" ELSE "failed"]
             \/ UNCHANGED <<pc, outcome>>
          /\ UNCHANGED <<Held, waiting>>
    BY <1>3, Zenon DEF EndPiece
  <2>2. fold(scope[c], p, returned) \in Scope
    BY HoldTypes, Zenon
  <2>3. QED
    BY <2>1, <2>2, Zenon DEF PieceState
<1>4. CASE Mark(c)
  <2>1. marked(outcome[c], now + MemoryTTL) \in Record
    <3>1. now + MemoryTTL \in Int /\ outcome[c] \in {"completed", "failed"}
      BY CallAssumption
    <3>2. QED
      BY <3>1, RecordTypes, Zenon DEF marked
  <2>2. QED
    BY <1>4, <2>1, Zenon DEF Mark, callVars, workVars
<1>5. CASE MarkFault(c)
  BY <1>5, Zenon DEF MarkFault, Turn, callVars, workVars
<1>6. CASE Crash(c)
  BY <1>6 DEF Crash, PieceState, callVars
<1>7. QED
  BY <1>1, <1>2, <1>3, <1>4, <1>5, <1>6, Zenon DEF PieceStep

\* Every step keeps the types.
LEMMA TypeStep == TypeOK /\ [Next]_vars => TypeOK'
<1> SUFFICES ASSUME TypeOK, [Next]_vars PROVE TypeOK'
  OBVIOUS
<1>1. CASE \E c \in Calls : CallStep(c)
  BY <1>1, TypeClaim, TypeRun, TypeWork, Zenon DEF CallStep
<1>2. CASE Tick
  BY <1>2, CallAssumption DEF Tick, TypeOK, callVars, workVars
<1>3. CASE UNCHANGED vars
  BY <1>3, Zenon DEF TypeOK, vars, callVars, workVars
<1>4. QED
  BY <1>1, <1>2, <1>3, Zenon DEF Next, CallStep

\* Every variable keeps its type.
THEOREM IdempotencyTypeCorrect == Spec => []TypeOK
BY TypeInit, TypeStep, PTL DEF Spec

-----------------------------------------------------------------------------
(* The inductive invariant.                                                *)

Unclaimed == {"idle", "setnx", "get", "setnx_again", "takeover"}

Live(c) == \E p \in Pieces : work[c][p] \in {"queued", "running"}

\* A claim was built in the past, and a takeover's threshold lies a whole
\* window back on the store's clock, however far its process runs ahead.
ClockInv(c) ==
    /\ pc[c] # "idle" => began(c) <= now
    /\ At(c, "takeover") => threshold[c] <= now - ttl[c]

\* What runs is waited for or held by an unsettled scope.
HoldInv(c) ==
    /\ pc[c] \in Unclaimed =>
          scope[c] = NewScope /\ \A p \in Pieces : work[c][p] = "none"
    /\ At(c, "running") => ~scope[c].closed /\ ~scope[c].sealed
    /\ ~At(c, "running") => waiting[c] = {}
    /\ \A p, q \in waiting[c] : p = q
    /\ \A p \in Pieces : work[c][p] = "queued" => p \in waiting[c]
    /\ \A p \in Pieces : work[c][p] = "running" =>
          p \in waiting[c] \/ (p \in scope[c].running /\ ~scope[c].sealed)
    /\ At(c, "mark") /\ outcome[c] = "failed" => ~Live(c)

\* A call counts as succeeded only if an attempt of it returned.
ReturnInv(c) ==
    /\ pc[c] \in Unclaimed => outcome[c] = "failed"
    /\ own_succeeded(scope[c]) \/ (At(c, "mark") /\ outcome[c] = "completed")
          => \E p \in Own : work[c][p] = "returned"

CallInv(c) == ClockInv(c) /\ HoldInv(c) /\ ReturnInv(c)

Holds(c) ==
    /\ record.status = "executing" /\ record.claim_id = c
    /\ record.started_at = started[c]
    /\ record.expires_at >= began(c) + ttl[c]

\* The key is held for active work until its window is over.
HeldInv(c) ==
    Active(c) => \/ WindowOver(c)
                 \/ At(c, "over") /\ outcome[c] = "completed"
                 \/ Holds(c)

CallsInv == TypeOK /\ \A c \in Calls : CallInv(c)

IInv == CallsInv /\ \A c \in Calls : HeldInv(c)

-----------------------------------------------------------------------------
(* What a step of one call leaves alone.                                   *)

\* A step of one call moves no clock.
LEMMA StepClocks ==
    ASSUME NEW c \in Calls, CallStep(c)
    PROVE  now' = now /\ skew' = skew /\ ttl' = ttl
<1> USE DEF env, Held
<1>1. CASE ClaimStep(c)
  BY <1>1, Zenon DEF ClaimStep, BuildRecord, SetNx, GetExisting, TakeOver, CacheFault,
              CancelClaim, Claimed, Turn
<1>2. CASE RunStep(c)
  BY <1>2, Zenon DEF RunStep, StartAttempt, Succeed, AttemptRaised, TimeOut,
              TimeOutAsync, GiveUp, CloseOnly
<1>3. CASE PieceStep(c)
  BY <1>3, Zenon DEF PieceStep, RunPiece, AbandonNested, EndPiece
<1>4. CASE Mark(c) \/ MarkFault(c) \/ Crash(c)
  BY <1>4, Zenon DEF Mark, MarkFault, Crash, Turn
<1>5. QED
  BY <1>1, <1>2, <1>3, <1>4, Zenon DEF CallStep

\* A step of one call moves nothing of another.
LEMMA StepOthers ==
    ASSUME TypeOK, NEW c \in Calls, NEW d \in Calls, d # c, CallStep(c)
    PROVE  /\ pc'[d] = pc[d] /\ started'[d] = started[d]
           /\ threshold'[d] = threshold[d] /\ outcome'[d] = outcome[d]
           /\ work'[d] = work[d] /\ waiting'[d] = waiting[d]
           /\ scope'[d] = scope[d]
<1> USE DEF TypeOK, env, Held, Goto, callVars, workVars
<1>1. CASE ClaimStep(c)
  BY <1>1, Zenon DEF ClaimStep, BuildRecord, SetNx, GetExisting, TakeOver, CacheFault,
              CancelClaim, Claimed, Turn
<1>2. CASE StartAttempt(c) \/ Succeed(c) \/ AttemptRaised(c) \/ TimeOutAsync(c)
  BY <1>2, Zenon DEF StartAttempt, Succeed, AttemptRaised, TimeOutAsync
<1>3. CASE TimeOut(c)
  BY <1>3, Zenon DEF TimeOut
<1>4. CASE GiveUp(c) \/ CloseOnly(c)
  BY <1>4, Zenon DEF GiveUp, CloseOnly
<1>5. CASE RunPiece(c) \/ AbandonNested(c)
  BY <1>5, Zenon DEF RunPiece, AbandonNested
<1>6. CASE EndPiece(c)
  BY <1>6 DEF EndPiece
<1>7. CASE Mark(c) \/ MarkFault(c) \/ Crash(c)
  BY <1>7, Zenon DEF Mark, MarkFault, Crash, Turn
<1>8. QED
  BY <1>1, <1>2, <1>3, <1>4, <1>5, <1>6, <1>7, Zenon DEF CallStep, RunStep, PieceStep

\* The cache replaces the record only where its own condition holds.
LEMMA StepRecord ==
    ASSUME TypeOK, NEW c \in Calls, CallStep(c), record' # record
    PROVE  \/ /\ record' = executing(c, started[c], now + ttl[c])
              /\ pc[c] \in Unclaimed \ {"idle", "get"}
              /\ \/ ~is_live(record, now)
                 \/ At(c, "takeover") /\ takeable(record, now, threshold[c])
           \/ /\ At(c, "mark") /\ mark_lands(record, now, c)
              /\ record' = marked(outcome[c], now + MemoryTTL)
<1>1. CASE ClaimStep(c)
  BY <1>1, Zenon DEF ClaimStep, BuildRecord, SetNx, GetExisting, TakeOver, CacheFault,
              CancelClaim, Claimed, Turn, At, Unclaimed
<1>2. CASE RunStep(c)
  BY <1>2, Zenon DEF RunStep, StartAttempt, Succeed, AttemptRaised, TimeOut,
              TimeOutAsync, GiveUp, CloseOnly, Held
<1>3. CASE PieceStep(c)
  BY <1>3, Zenon DEF PieceStep, RunPiece, AbandonNested, EndPiece, Held
<1>4. CASE Mark(c) \/ MarkFault(c) \/ Crash(c)
  BY <1>4, Zenon DEF Mark, MarkFault, Crash, Turn
<1>5. QED
  BY <1>1, <1>2, <1>3, <1>4, Zenon DEF CallStep

-----------------------------------------------------------------------------
(* A step keeps the invariant of the call that makes it.                   *)

\* After its first step a call keeps its started_at, and only a read of the
\* record sets its threshold.
LEMMA StepClaimClock ==
    ASSUME TypeOK, NEW c \in Calls, HoldInv(c), CallStep(c)
    PROVE  /\ pc[c] # "idle" => started'[c] = started[c]
           /\ pc[c] = "idle" => started'[c] = clock(c) /\ pc'[c] = "setnx"
           /\ pc'[c] # "idle"
           /\ pc'[c] = "takeover" =>
                 \/ pc[c] = "takeover" /\ threshold'[c] = threshold[c]
                 \/ threshold'[c] = stale_before(clock(c), ttl[c])
<1> USE DEF TypeOK, At, Goto
<1>1. CASE BuildRecord(c)
  BY <1>1, Zenon DEF BuildRecord
<1>2. CASE GetExisting(c)
  BY <1>2, Zenon DEF GetExisting, Turn, callVars
<1>3. CASE SetNx(c) \/ TakeOver(c) \/ CacheFault(c) \/ CancelClaim(c)
  BY <1>3, Zenon DEF SetNx, TakeOver, CacheFault, CancelClaim, Claimed, Turn, callVars
<1>4. CASE RunStep(c)
  BY <1>4, Zenon DEF RunStep, StartAttempt, Succeed, AttemptRaised, TimeOut,
              TimeOutAsync, GiveUp, CloseOnly, Held
<1>5. CASE PieceStep(c)
  <2>1. pc[c] \notin Unclaimed
    BY <1>5, Zenon DEF PieceStep, RunPiece, AbandonNested, EndPiece, HoldInv
  <2>2. started' = started /\ threshold' = threshold
    BY <1>5, Zenon DEF PieceStep, RunPiece, AbandonNested, EndPiece, Held
  <2>3. pc'[c] = pc[c] \/ pc'[c] = "mark"
    BY <1>5 DEF PieceStep, RunPiece, AbandonNested, EndPiece
  <2>4. QED
    BY <2>1, <2>2, <2>3, Zenon DEF Unclaimed
<1>6. CASE Mark(c) \/ MarkFault(c) \/ Crash(c)
  BY <1>6, Zenon DEF Mark, MarkFault, Crash, Turn, callVars
<1>7. QED
  BY <1>1, <1>2, <1>3, <1>4, <1>5, <1>6, Zenon DEF CallStep, ClaimStep

\* Whatever the skew, a threshold lies a whole window back.
LEMMA ClockStep ==
    ASSUME TypeOK, NEW c \in Calls, ClockInv(c), HoldInv(c), CallStep(c)
    PROVE  ClockInv(c)'
<1>1. /\ now \in Nat /\ skew[c] \in Nat /\ skew[c] <= ClockSkewTolerance
      /\ ttl[c] \in Nat /\ started[c] \in Int
  BY ClockTypes, Zenon
<1>2. ClockSkewTolerance \in Nat
  BY RecordAssumption, Zenon
<1>3. began(c)' <= now'
  <2>1. CASE pc[c] = "idle"
    BY <1>1, <2>1, StepClocks, StepClaimClock DEF began, clock
  <2>2. CASE pc[c] # "idle"
    BY <1>1, <2>2, StepClocks, StepClaimClock, Zenon DEF began, ClockInv
  <2>3. QED
    BY <2>1, <2>2, Zenon
<1>4. pc'[c] = "takeover" => threshold'[c] <= now' - ttl'[c]
  <2>1. CASE pc[c] = "takeover" /\ threshold'[c] = threshold[c]
    BY <2>1, StepClocks, Zenon DEF ClockInv, At
  <2>2. CASE threshold'[c] = stale_before(clock(c), ttl[c])
    BY <1>1, <1>2, <2>2, StepClocks DEF stale_before, clock
  <2>3. QED
    BY <2>1, <2>2, StepClaimClock, Zenon
<1>5. QED
  BY <1>3, <1>4, Zenon DEF ClockInv, At

\* While a call claims, it has no work.
LEMMA HoldClaim ==
    ASSUME TypeOK, NEW c \in Calls, HoldInv(c), ReturnInv(c), ClaimStep(c)
    PROVE  HoldInv(c)' /\ ReturnInv(c)'
<1>1. pc[c] \in Unclaimed /\ UNCHANGED <<work, waiting, scope, outcome>>
  BY Zenon DEF ClaimStep, BuildRecord, SetNx, GetExisting, TakeOver, CacheFault,
         CancelClaim, Claimed, Turn, At, Unclaimed, callVars, workVars
<1>2. /\ scope[c] = NewScope /\ waiting[c] = {} /\ outcome[c] = "failed"
      /\ \A p \in Pieces : work[c][p] = "none"
  BY <1>1, Zenon DEF HoldInv, ReturnInv, At, Unclaimed
<1>3. ~scope[c].closed /\ ~scope[c].sealed /\ ~own_succeeded(scope[c])
  BY <1>2 DEF NewScope, own_succeeded
<1>4. HoldInv(c)'
  BY <1>1, <1>2, <1>3, Zenon DEF HoldInv, At, Live
<1>5. ReturnInv(c)'
  BY <1>1, <1>2, <1>3, Zenon DEF ReturnInv, At, own_succeeded
<1>6. QED
  BY <1>4, <1>5, Zenon

\* A call that runs the function waits for its attempt or records it.
LEMMA HoldRun ==
    ASSUME TypeOK, NEW c \in Calls, HoldInv(c), ReturnInv(c), RunStep(c)
    PROVE  HoldInv(c)' /\ ReturnInv(c)'
<1>0. At(c, "running")
  BY Zenon DEF RunStep, StartAttempt, Succeed, AttemptRaised, TimeOut, TimeOutAsync,
         GiveUp, CloseOnly
<1>a. /\ scope[c] \in Scope /\ waiting[c] \subseteq Own
      /\ ~scope[c].closed /\ ~scope[c].sealed
  BY <1>0, Zenon DEF TypeOK, HoldInv
<1>b. \A p \in Own : p \in Pieces
  BY Zenon DEF Pieces
<1>c. "running" \notin Unclaimed /\ "mark" \notin Unclaimed
      /\ "over" \notin Unclaimed /\ "deferred" \notin Unclaimed
  BY Zenon DEF Unclaimed
<1> USE DEF At, Goto
<1>1. CASE StartAttempt(c)
  <2>1. PICK p \in Own : /\ work[c][p] = "none"
                         /\ work' = [work EXCEPT ![c][p] = "queued"]
                         /\ waiting' = [waiting EXCEPT ![c] = {p}]
                         /\ waiting[c] = {}
                         /\ UNCHANGED <<pc, scope, outcome>>
    BY <1>1, Zenon DEF StartAttempt
  <2>2. /\ work'[c][p] = "queued" /\ waiting'[c] = {p}
        /\ \A q \in Pieces : q # p => work'[c][q] = work[c][q]
    BY <1>b, <2>1, Zenon DEF TypeOK
  <2>3. QED
    BY <1>0, <1>a, <1>b, <1>c, <2>1, <2>2, Zenon DEF HoldInv, ReturnInv, own_succeeded
<1>2. CASE Succeed(c)
  <2>1. PICK p \in waiting[c] : work[c][p] = "returned"
    BY <1>2, Zenon DEF Succeed
  <2>2. /\ scope'[c] = close(scope[c], FALSE) /\ waiting'[c] = {}
        /\ outcome'[c] = "completed" /\ pc'[c] = "mark" /\ work' = work
    BY <1>2, Zenon DEF Succeed, TypeOK
  <2>3. \A q \in Pieces : work[c][q] \in {"queued", "running"} =>
          work[c][q] = "running" /\ q \in scope[c].running
    BY <2>1, Zenon DEF HoldInv
  <2>4. /\ close(scope[c], FALSE).running = scope[c].running
        /\ close(scope[c], FALSE).sealed => scope[c].running = {}
    BY <1>a, CloseFacts, Zenon
  <2>5. HoldInv(c)'
    BY <1>c, <2>2, <2>3, <2>4, Zenon DEF HoldInv
  <2>6. ReturnInv(c)'
    BY <1>a, <1>c, <2>1, <2>2, Zenon DEF ReturnInv
  <2>7. QED
    BY <2>5, <2>6, Zenon
<1>3. CASE AttemptRaised(c)
  <2>1. PICK p \in waiting[c] : work[c][p] = "raised"
    BY <1>3, Zenon DEF AttemptRaised
  <2>2. waiting'[c] = {} /\ UNCHANGED <<pc, work, scope, outcome>>
    BY <1>3, Zenon DEF AttemptRaised, TypeOK
  <2>3. HoldInv(c)'
    BY <1>0, <1>c, <2>1, <2>2, Zenon DEF HoldInv
  <2>4. ReturnInv(c)'
    BY <2>2, Zenon DEF ReturnInv, own_succeeded
  <2>5. QED
    BY <2>3, <2>4, Zenon
<1>4. CASE TimeOut(c)
  <2>1. PICK p \in waiting[c] :
          IF work[c][p] = "queued"
          THEN work' = [work EXCEPT ![c][p] = "raised"] /\ UNCHANGED scope
          ELSE scope' = [scope EXCEPT ![c] = recorded(c, p)] /\ UNCHANGED work
    BY <1>4, Zenon DEF TimeOut
  <2>2. waiting'[c] = {} /\ UNCHANGED <<pc, outcome>> /\ p \in Own /\ p \in Pieces
    BY <1>4, <1>a, <1>b, Zenon DEF TimeOut, TypeOK
  <2>3. CASE work[c][p] = "queued"
    <3>0. work' = [work EXCEPT ![c][p] = "raised"] /\ scope' = scope
      BY <2>1, <2>3, Zenon
    <3>1. /\ work'[c][p] = "raised" /\ scope' = scope
          /\ \A q \in Pieces : q # p => work'[c][q] = work[c][q]
      BY <2>2, <3>0, Zenon DEF TypeOK
    <3>2. HoldInv(c)'
      BY <1>0, <1>c, <2>2, <3>1, Zenon DEF HoldInv
    <3>3. ReturnInv(c)'
      BY <1>0, <1>b, <1>c, <2>2, <2>3, <3>1, Zenon DEF ReturnInv, own_succeeded
    <3>4. QED
      BY <3>2, <3>3, Zenon
  <2>4. CASE work[c][p] = "running"
    <3>1. scope'[c] = add(scope[c], p) /\ work' = work
      BY <2>1, <2>4, Zenon DEF recorded, TypeOK
    <3>2. /\ ~scope'[c].closed /\ ~scope'[c].sealed
          /\ scope'[c].running = scope[c].running \cup {p}
          /\ own_succeeded(scope'[c]) => own_succeeded(scope[c])
      BY <1>a, <2>2, <3>1, AddFacts DEF own_succeeded
    <3>3. HoldInv(c)'
      BY <1>0, <1>c, <2>2, <2>4, <3>1, <3>2, Zenon DEF HoldInv
    <3>4. ReturnInv(c)'
      BY <1>0, <1>c, <2>2, <3>1, <3>2, Zenon DEF ReturnInv, own_succeeded
    <3>5. QED
      BY <3>3, <3>4, Zenon
  <2>5. CASE work[c][p] \notin {"queued", "running"}
    <3> DEFINE b == work[c][p] = "returned"
               s == add(scope[c], p)
    <3>1. scope'[c] = fold(s, p, b) /\ work' = work
      BY <2>1, <2>5, Zenon DEF recorded, TypeOK
    <3>2. b \in BOOLEAN /\ s \in Scope
      BY <1>a, <2>2, HoldTypes, Zenon
    <3>3. ~s.closed /\ ~s.sealed /\ s.running = scope[c].running \cup {p}
          /\ (own_succeeded(s) => own_succeeded(scope[c]))
      BY <1>a, <2>2, AddFacts, Zenon DEF own_succeeded
    <3>4. b => work[c][p] = "returned"
      OBVIOUS
    <3> HIDE DEF b, s
    <3>5. /\ ~scope'[c].closed /\ ~scope'[c].sealed
          /\ scope'[c].running = scope[c].running \ {p}
          /\ own_succeeded(scope'[c]) => own_succeeded(scope[c]) \/ b
      BY <2>2, <3>1, <3>2, <3>3, FoldFacts
    <3>6. HoldInv(c)'
      BY <1>0, <1>c, <2>2, <2>5, <3>1, <3>5, Zenon DEF HoldInv
    <3>7. ReturnInv(c)'
      BY <1>0, <1>c, <2>2, <3>1, <3>4, <3>5, Zenon DEF ReturnInv, own_succeeded
    <3>8. QED
      BY <3>6, <3>7, Zenon
  <2>6. QED
    BY <2>3, <2>4, <2>5, Zenon
<1>5. CASE TimeOutAsync(c)
  <2>1. PICK p \in waiting[c] : /\ work[c][p] \in {"queued", "running"}
                                /\ work' = [work EXCEPT ![c][p] = "raised"]
    BY <1>5, Zenon DEF TimeOutAsync
  <2>2. /\ waiting'[c] = {} /\ UNCHANGED <<pc, scope, outcome>>
        /\ work'[c][p] = "raised"
        /\ \A q \in Pieces : q # p => work'[c][q] = work[c][q]
    BY <1>5, <1>a, <1>b, <2>1 DEF TimeOutAsync, TypeOK
  <2>3. HoldInv(c)'
    BY <1>0, <1>c, <2>2, Zenon DEF HoldInv
  <2>4. ReturnInv(c)'
    BY <1>0, <1>b, <1>c, <2>1, <2>2, Zenon DEF ReturnInv, own_succeeded
  <2>5. QED
    BY <2>3, <2>4, Zenon
<1>6. CASE GiveUp(c)
  <2>1. /\ waiting[c] = {} /\ scope'[c] = close(scope[c], TRUE)
        /\ pc'[c] = IF close_settles_now(scope[c]) THEN "mark" ELSE "deferred"
        /\ outcome'[c] = IF own_succeeded(scope[c]) THEN "completed" ELSE "failed"
        /\ work' = work /\ waiting'[c] = {}
    BY <1>6, Zenon DEF GiveUp, TypeOK
  <2>2. /\ scope'[c].running = scope[c].running
        /\ scope'[c].own_finished = scope[c].own_finished
        /\ scope'[c].own_failed = scope[c].own_failed
        /\ scope'[c].sealed => scope[c].running = {}
    BY <1>a, <2>1, CloseFacts, Zenon
  <2>3. \A q \in Pieces : work[c][q] \in {"queued", "running"} =>
          work[c][q] = "running" /\ q \in scope[c].running
    BY <2>1, Zenon DEF HoldInv
  <2>4. HoldInv(c)'
    BY <1>c, <2>1, <2>2, <2>3, Zenon DEF HoldInv, Live, close_settles_now
  <2>5. ReturnInv(c)'
    BY <1>c, <2>1, <2>2, Zenon DEF ReturnInv, own_succeeded
  <2>6. QED
    BY <2>4, <2>5, Zenon
<1>7. CASE CloseOnly(c)
  <2>1. /\ scope'[c] = close(scope[c], FALSE) /\ waiting'[c] = {}
        /\ pc'[c] = "over" /\ outcome' = outcome
        /\ \A p \in Pieces : work'[c][p] =
              IF p \in waiting[c] /\ work[c][p] \in {"queued", "running"}
              THEN "raised" ELSE work[c][p]
    BY <1>7, Zenon DEF CloseOnly, TypeOK
  <2>2. /\ scope'[c].running = scope[c].running
        /\ scope'[c].own_finished = scope[c].own_finished
        /\ scope'[c].own_failed = scope[c].own_failed
        /\ scope'[c].sealed => scope[c].running = {}
    BY <1>a, <2>1, CloseFacts, Zenon
  <2>3. HoldInv(c)'
    BY <1>c, <2>1, <2>2, Zenon DEF HoldInv
  <2>4. ReturnInv(c)'
    BY <1>b, <1>c, <2>1, <2>2, Zenon DEF ReturnInv, own_succeeded
  <2>5. QED
    BY <2>3, <2>4, Zenon
<1>8. QED
  BY <1>1, <1>2, <1>3, <1>4, <1>5, <1>6, <1>7, Zenon DEF RunStep

\* Work that starts, ends, or abandons more work is held until it ends.
LEMMA HoldWork ==
    ASSUME TypeOK, NEW c \in Calls, HoldInv(c), ReturnInv(c), PieceStep(c)
    PROVE  HoldInv(c)' /\ ReturnInv(c)'
<1>0. pc[c] \notin Unclaimed /\ "mark" \notin Unclaimed
  BY Zenon DEF PieceStep, RunPiece, AbandonNested, EndPiece, HoldInv, Unclaimed
<1>a. scope[c] \in Scope /\ waiting[c] \subseteq Own
  BY Zenon DEF TypeOK
<1>b. (\A p \in Own : p \in Pieces) /\ (\A p \in Nested : p \in Pieces)
  BY Zenon DEF Pieces
<1> USE DEF At, Goto
<1>1. CASE RunPiece(c)
  <2>1. PICK p \in Pieces : /\ work[c][p] = "queued"
                            /\ work' = [work EXCEPT ![c][p] = "running"]
    BY <1>1, Zenon DEF RunPiece
  <2>2. /\ UNCHANGED <<pc, waiting, scope, outcome>>
        /\ work'[c][p] = "running" /\ p \in waiting[c]
        /\ \A q \in Pieces : q # p => work'[c][q] = work[c][q]
    <3>1. UNCHANGED <<pc, waiting, scope, outcome>>
      BY <1>1, Zenon DEF RunPiece
    <3>2. p \in waiting[c]
      BY <2>1, Zenon DEF HoldInv
    <3>3. /\ work'[c][p] = "running"
          /\ \A q \in Pieces : q # p => work'[c][q] = work[c][q]
      BY <2>1, Zenon DEF TypeOK
    <3>4. QED
      BY <3>1, <3>2, <3>3, Zenon
  <2>3. pc[c] = "running"
    BY <2>2, Zenon DEF HoldInv
  <2>4. HoldInv(c)'
    BY <1>0, <2>1, <2>2, <2>3, Zenon DEF HoldInv
  <2>5. ReturnInv(c)'
    BY <1>0, <1>b, <2>1, <2>2, <2>3, Zenon DEF ReturnInv, own_succeeded
  <2>6. QED
    BY <2>4, <2>5, Zenon
<1>2. CASE AbandonNested(c)
  <2>1. PICK p \in Nested : /\ work[c][p] = "none"
                            /\ work' = [work EXCEPT ![c][p] = "running"]
                            /\ scope' = [scope EXCEPT ![c] = add(@, p)]
    BY <1>2, Zenon DEF AbandonNested
  <2>2. PICK r \in Pieces : work[c][r] = "running"
    BY <1>2, Zenon DEF AbandonNested
  <2>3. /\ UNCHANGED <<pc, waiting, outcome>>
        /\ scope'[c] = add(scope[c], p)
        /\ work'[c][p] = "running"
        /\ \A q \in Pieces : q # p => work'[c][q] = work[c][q]
    BY <1>2, <1>b, <2>1 DEF AbandonNested, TypeOK
  <2>4. ~scope[c].sealed
    BY <2>2, Zenon DEF HoldInv
  <2>5. /\ scope'[c].closed = scope[c].closed /\ ~scope'[c].sealed
        /\ scope'[c].running = scope[c].running \cup {p}
        /\ own_succeeded(scope'[c]) => own_succeeded(scope[c])
    BY <1>a, <1>b, <2>3, <2>4, AddFacts DEF own_succeeded
  <2>6. ~(pc[c] = "mark" /\ outcome[c] = "failed")
    BY <2>2, Zenon DEF HoldInv, Live
  <2>7. HoldInv(c)'
    BY <1>0, <2>1, <2>3, <2>4, <2>5, <2>6, Zenon DEF HoldInv
  <2>8. ReturnInv(c)'
    BY <1>0, <1>b, <2>1, <2>3, <2>5, Zenon DEF ReturnInv, own_succeeded
  <2>9. QED
    BY <2>7, <2>8, Zenon
<1>3. CASE EndPiece(c)
  <2> DEFINE s == scope[c]
  <2>1. PICK p \in Pieces, returned \in BOOLEAN :
          /\ work[c][p] = "running"
          /\ work' = [work EXCEPT ![c][p] = IF returned THEN "returned" ELSE "raised"]
          /\ scope' = [scope EXCEPT ![c] = fold(scope[c], p, returned)]
          /\ \/ /\ fold(s, p, returned).sealed /\ ~s.sealed
                /\ Goto(c, "mark")
                /\ outcome' = [outcome EXCEPT ![c] =
                                 IF own_succeeded(fold(scope[c], p, returned))
                                 THEN "completed" ELSE "failed"]
             \/ UNCHANGED <<pc, outcome>>
          /\ UNCHANGED waiting
    BY <1>3, Zenon DEF EndPiece
  <2> DEFINE t == fold(scope[c], p, returned)
  <2>2. /\ scope'[c] = t /\ waiting' = waiting
        /\ work'[c][p] \in {"returned", "raised"}
        /\ returned => work'[c][p] = "returned"
        /\ \A q \in Pieces : q # p => work'[c][q] = work[c][q]
    BY <2>1, Zenon DEF TypeOK
  <2>3. /\ t.running = s.running \ {p} /\ t.closed = s.closed
        /\ t.sealed => s.sealed \/ (s.closed /\ s.running = {p})
        /\ own_succeeded(t) => own_succeeded(s) \/ (p \in Own /\ returned)
    BY <1>a, FoldFacts
  <2>4. \/ /\ t.sealed /\ ~s.sealed /\ pc'[c] = "mark"
           /\ outcome'[c] = IF own_succeeded(t) THEN "completed" ELSE "failed"
        \/ UNCHANGED <<pc, outcome>>
    BY <2>1, Zenon DEF TypeOK
  <2> HIDE DEF t
  <2>5. own_succeeded(t) => \E q \in Own : work'[c][q] = "returned"
    BY <1>b, <2>1, <2>2, <2>3, Zenon DEF ReturnInv
  <2>a. (\E q \in Own : work[c][q] = "returned")
          => \E q \in Own : work'[c][q] = "returned"
    BY <1>b, <2>1, <2>2, Zenon
  <2>6. t.sealed => pc[c] # "running" /\ \A q \in Pieces : q # p =>
                       work'[c][q] \notin {"queued", "running"}
    BY <2>2, <2>3, Zenon DEF HoldInv
  <2>7. CASE pc'[c] = "mark" /\ t.sealed /\ ~s.sealed
             /\ outcome'[c] = IF own_succeeded(t) THEN "completed" ELSE "failed"
    <3>1. waiting'[c] = {}
      BY <2>2, <2>6, <2>7, Zenon DEF HoldInv
    <3>2. HoldInv(c)'
      BY <1>0, <2>2, <2>6, <2>7, <3>1, Zenon DEF HoldInv, Live
    <3>3. ReturnInv(c)'
      BY <1>0, <2>2, <2>5, <2>7, Zenon DEF ReturnInv
    <3>4. QED
      BY <3>2, <3>3, Zenon
  <2>8. CASE UNCHANGED <<pc, outcome>>
    <3>1. ~(pc[c] = "mark" /\ outcome[c] = "failed")
      BY <2>1, Zenon DEF HoldInv, Live
    <3>2. HoldInv(c)'
      BY <1>0, <2>2, <2>3, <2>6, <2>8, <3>1 DEF HoldInv
    <3>3. ReturnInv(c)'
      BY <1>0, <2>2, <2>5, <2>a, <2>8, Zenon DEF ReturnInv
    <3>4. QED
      BY <3>2, <3>3, Zenon
  <2>9. QED
    BY <2>4, <2>7, <2>8, Zenon
<1>4. QED
  BY <1>1, <1>2, <1>3, Zenon DEF PieceStep

\* A mark ends the call; a crash ends its work with it.
LEMMA HoldEnd ==
    ASSUME TypeOK, NEW c \in Calls, HoldInv(c), ReturnInv(c),
           Mark(c) \/ MarkFault(c) \/ Crash(c)
    PROVE  HoldInv(c)' /\ ReturnInv(c)'
<1>0. pc'[c] = "over" /\ "over" \notin Unclaimed
  BY Zenon DEF Mark, MarkFault, Crash, Turn, Goto, TypeOK, Unclaimed
<1> USE DEF At
<1>1. CASE Mark(c) \/ MarkFault(c)
  <2>1. pc[c] = "mark" /\ UNCHANGED <<outcome, work, waiting, scope>>
    BY <1>1, Zenon DEF Mark, MarkFault, Turn, callVars, workVars
  <2>2. QED
    BY <1>0, <2>1, Zenon DEF HoldInv, ReturnInv, own_succeeded
<1>2. CASE Crash(c)
  <2>1. /\ waiting'[c] = {} /\ UNCHANGED <<outcome, scope>>
        /\ \A p \in Pieces : work'[c][p] =
              IF work[c][p] \in {"queued", "running"} THEN "raised" ELSE work[c][p]
    BY <1>2, Zenon DEF Crash, TypeOK, callVars
  <2>2. \A p \in Own : p \in Pieces
    BY Zenon DEF Pieces
  <2>3. QED
    BY <1>0, <2>1, <2>2, Zenon DEF HoldInv, ReturnInv, own_succeeded
<1>3. QED
  BY <1>1, <1>2, Zenon

\* A step of a call keeps the invariant of every call.
LEMMA CallInvStep ==
    ASSUME TypeOK, NEW c \in Calls, NEW d \in Calls, CallInv(d), CallStep(c)
    PROVE  CallInv(d)'
<1>1. CASE d = c
  BY <1>1, ClockStep, HoldClaim, HoldRun, HoldWork, HoldEnd, Zenon DEF CallInv, CallStep
<1>2. CASE d # c
  <2>1. /\ now' = now /\ skew' = skew /\ ttl' = ttl
        /\ pc'[d] = pc[d] /\ started'[d] = started[d]
        /\ threshold'[d] = threshold[d] /\ outcome'[d] = outcome[d]
        /\ work'[d] = work[d] /\ waiting'[d] = waiting[d]
        /\ scope'[d] = scope[d]
    BY <1>2, StepClocks, StepOthers, Zenon
  <2>2. ClockInv(d)'
    BY <2>1, Zenon DEF CallInv, ClockInv, At, began
  <2>3. HoldInv(d)'
    BY <2>1, Zenon DEF CallInv, HoldInv, At, Live
  <2>4. ReturnInv(d)'
    BY <2>1, Zenon DEF CallInv, ReturnInv, At, own_succeeded
  <2>5. QED
    BY <2>2, <2>3, <2>4, Zenon DEF CallInv
<1>3. QED
  BY <1>1, <1>2, Zenon

-----------------------------------------------------------------------------
(* The key is held for the work of the call that claimed it.               *)

\* A claim is replaced by another call only after its own window, or after the
\* window of the call that takes it over.
LEMMA ReplacedLate ==
    ASSUME TypeOK, NEW c \in Calls, NEW d \in Calls, c # d,
           CallInv(c), Holds(d), CallStep(c), record' # record
    PROVE  WindowOver(d)
<1>1. /\ now \in Nat /\ skew[d] \in Nat /\ ttl[d] \in Nat /\ started[d] \in Int
      /\ ttl[c] \in Nat /\ threshold[c] \in Int
  BY ClockTypes, Zenon
<1>2. now > began(d) + ttl[c] \/ now > began(d) + ttl[d] => WindowOver(d)
  BY Zenon DEF WindowOver
<1>3. record.expires_at \in Int
  BY DEF TypeOK, Record, NoRecord
<1>4. CASE ~is_live(record, now)
  BY <1>1, <1>2, <1>3, <1>4 DEF is_live, Holds, began
<1>5. CASE At(c, "takeover") /\ takeable(record, now, threshold[c])
  <2>1. record.status = "executing" /\ record.started_at = started[d]
    BY Zenon DEF Holds
  <2>2. started[d] < threshold[c]
    BY <1>5, <2>1, Zenon DEF takeable
  <2>3. threshold[c] <= now - ttl[c]
    BY <1>5, Zenon DEF CallInv, ClockInv
  <2>4. QED
    BY <1>1, <1>2, <2>2, <2>3 DEF began
<1>6. CASE mark_lands(record, now, c)
  BY <1>6, Zenon DEF mark_lands, Holds
<1>7. QED
  BY <1>4, <1>5, <1>6, StepRecord, Zenon

\* A step of another call leaves the key to active work.
LEMMA HeldOther ==
    ASSUME TypeOK, NEW c \in Calls, NEW d \in Calls, c # d,
           CallInv(c), HeldInv(d), CallStep(c)
    PROVE  HeldInv(d)'
<1>1. /\ now' = now /\ skew' = skew /\ ttl' = ttl
      /\ pc'[d] = pc[d] /\ started'[d] = started[d]
      /\ outcome'[d] = outcome[d] /\ work'[d] = work[d]
  BY StepClocks, StepOthers, Zenon
<1>2. /\ Active(d)' <=> Active(d)
      /\ WindowOver(d)' <=> WindowOver(d)
  BY <1>1, Zenon DEF Active, At, WindowOver, began
<1>3. CASE record' = record
  BY <1>1, <1>2, <1>3, Zenon DEF HeldInv, Holds, At, began
<1>4. CASE record' # record /\ Holds(d)
  BY <1>2, <1>4, ReplacedLate, Zenon DEF HeldInv
<1>5. CASE ~Holds(d)
  BY <1>1, <1>2, <1>5, Zenon DEF HeldInv, At
<1>6. QED
  BY <1>3, <1>4, <1>5, Zenon

\* A settled scope leaves nothing running outside its call.
LEMMA SealedIdle ==
    ASSUME NEW c \in Calls, HoldInv(c), scope[c].sealed
    PROVE  ~Live(c) /\ ~Active(c)
BY Zenon DEF HoldInv, Live, Active, At

\* A call that claims writes its claim.
LEMMA ClaimWrites ==
    ASSUME TypeOK, NEW c \in Calls, ClaimStep(c), pc'[c] = "running"
    PROVE  /\ record' = executing(c, started[c], now + ttl[c])
           /\ started' = started /\ pc[c] # "idle"
BY Zenon DEF ClaimStep, BuildRecord, SetNx, GetExisting, TakeOver, CacheFault,
       CancelClaim, Claimed, Turn, At, Goto, callVars, TypeOK

\* A step of the call itself keeps the key for what it leaves active.
LEMMA HeldOwn ==
    ASSUME TypeOK, NEW c \in Calls, CallInv(c), CallInv(c)', HeldInv(c), CallStep(c)
    PROVE  HeldInv(c)'
<1>1. /\ now \in Nat /\ skew[c] \in Nat /\ ttl[c] \in Nat /\ started[c] \in Int
  BY ClockTypes, Zenon
<1>2. now' = now /\ skew' = skew /\ ttl' = ttl
  BY StepClocks, Zenon
<1>3. CASE ClaimStep(c)
  <2>1. pc[c] \in Unclaimed /\ work' = work
    BY <1>3, Zenon DEF ClaimStep, BuildRecord, SetNx, GetExisting, TakeOver, CacheFault,
           CancelClaim, Claimed, Turn, At, Unclaimed, workVars
  <2>2. \A p \in Pieces : work'[c][p] # "running"
    BY <2>1, Zenon DEF CallInv, HoldInv
  <2>3. CASE pc'[c] = "running"
    <3>1. /\ record' = executing(c, started[c], now + ttl[c]) /\ started' = started
          /\ began(c) <= now
      BY <1>3, <2>3, ClaimWrites, Zenon DEF CallInv, ClockInv
    <3>2. Holds(c)'
      <4>1. /\ record'.status = "executing" /\ record'.claim_id = c
            /\ record'.started_at = started[c]
            /\ record'.expires_at = now + ttl[c]
        BY <3>1, Zenon DEF executing
      <4>2. began(c)' = began(c) /\ started'[c] = started[c] /\ ttl'[c] = ttl[c]
        BY <1>2, <3>1, Zenon DEF began
      <4>3. now + ttl[c] >= began(c) + ttl[c]
        BY <1>1, <3>1 DEF began
      <4>4. QED
        BY <4>1, <4>2, <4>3, Zenon DEF Holds
    <3>3. QED
      BY <3>2, Zenon DEF HeldInv
  <2>4. CASE pc'[c] # "running"
    BY <2>2, <2>4, Zenon DEF HeldInv, Active, At
  <2>5. QED
    BY <2>3, <2>4, Zenon
<1>4. CASE RunStep(c)
  <2>1. At(c, "running") /\ record' = record /\ started' = started
    BY <1>4, Zenon DEF RunStep, StartAttempt, Succeed, AttemptRaised, TimeOut,
           TimeOutAsync, GiveUp, CloseOnly, Held
  <2>2. QED
    BY <1>2, <2>1, Zenon DEF HeldInv, Active, Holds, At, began, WindowOver
<1>5. CASE PieceStep(c)
  <2>1. record' = record /\ started' = started
    BY <1>5, Zenon DEF PieceStep, RunPiece, AbandonNested, EndPiece, Held
  <2>2. Active(c)
    <3>1. CASE RunPiece(c)
      <4>1. waiting[c] # {}
        BY <3>1, Zenon DEF RunPiece, CallInv, HoldInv
      <4>2. QED
        BY <4>1, Zenon DEF CallInv, HoldInv, Active
    <3>2. CASE AbandonNested(c) \/ EndPiece(c)
      BY <3>2, Zenon DEF AbandonNested, EndPiece, Active
    <3>3. QED
      BY <1>5, <3>1, <3>2, Zenon DEF PieceStep
  <2>3. CASE UNCHANGED <<pc, outcome>>
    BY <1>2, <2>1, <2>2, <2>3, Zenon DEF HeldInv, Holds, At, began, WindowOver
  <2>4. CASE ~UNCHANGED <<pc, outcome>>
    <3>1. PICK p \in Pieces, returned \in BOOLEAN :
            /\ scope' = [scope EXCEPT ![c] = fold(scope[c], p, returned)]
            /\ fold(scope[c], p, returned).sealed
      BY <1>5, <2>4, Zenon DEF PieceStep, RunPiece, AbandonNested, EndPiece
    <3>2. scope'[c].sealed
      BY <3>1, Zenon DEF TypeOK
    <3>3. ~Active(c)'
      BY <3>2, Zenon DEF CallInv, HoldInv, Active, At
    <3>4. QED
      BY <3>3, Zenon DEF HeldInv
  <2>5. QED
    BY <2>3, <2>4, Zenon
<1>6. CASE Mark(c) \/ MarkFault(c)
  <2>1. pc[c] = "mark" /\ pc'[c] = "over" /\ work' = work /\ outcome' = outcome
    BY <1>6, Zenon DEF Mark, MarkFault, Turn, Goto, At, TypeOK, callVars, workVars
  <2>2. CASE outcome[c] = "completed"
    BY <2>1, <2>2, Zenon DEF HeldInv, At
  <2>3. CASE outcome[c] = "failed"
    BY <2>1, <2>3, Zenon DEF HeldInv, Active, At, CallInv, HoldInv, Live
  <2>4. QED
    BY <2>2, <2>3, Zenon DEF TypeOK
<1>7. CASE Crash(c)
  <2>1. pc'[c] = "over" /\ \A p \in Pieces : work'[c][p] # "running"
    BY <1>7, Zenon DEF Crash, Goto, TypeOK
  <2>2. QED
    BY <2>1, Zenon DEF HeldInv, Active, At
<1>8. QED
  BY <1>3, <1>4, <1>5, <1>6, <1>7, Zenon DEF CallStep

-----------------------------------------------------------------------------
(* The theorems.                                                           *)

\* The invariant of the calls is inductive.
LEMMA CallsInvInit == Init => CallsInv /\ \A c \in Calls : ~Active(c)
<1> SUFFICES ASSUME Init PROVE CallsInv /\ \A c \in Calls : ~Active(c)
  OBVIOUS
<1>1. TypeOK
  BY TypeInit, Zenon
<1>2. ASSUME NEW c \in Calls PROVE CallInv(c) /\ ~Active(c)
  <2>1. /\ pc[c] = "idle" /\ scope[c] = NewScope /\ waiting[c] = {}
        /\ outcome[c] = "failed" /\ \A p \in Pieces : work[c][p] = "none"
    BY Zenon DEF Init
  <2>2. ~own_succeeded(scope[c])
    <3>1. NewScope.own_finished = FALSE
      BY Zenon DEF NewScope
    <3>2. QED
      BY <2>1, <3>1, Zenon DEF own_succeeded
  <2>3. QED
    BY <2>1, <2>2, Zenon DEF CallInv, ClockInv, HoldInv, ReturnInv, At, Live, Active
<1>3. QED
  BY <1>1, <1>2, Zenon DEF CallsInv

\* A call nobody touches keeps its part of the invariant.
LEMMA CallKept ==
    ASSUME NEW d \in Calls, HoldInv(d), ReturnInv(d),
           UNCHANGED <<pc, outcome, work, waiting, scope>>
    PROVE  HoldInv(d)' /\ ReturnInv(d)'
<1>1. HoldInv(d)'
  BY Zenon DEF HoldInv, At, Live
<1>2. ReturnInv(d)'
  BY Zenon DEF ReturnInv, At, own_succeeded
<1>3. QED
  BY <1>1, <1>2, Zenon

\* Every step preserves the types and the per-call invariant.
LEMMA CallsInvStep == CallsInv /\ [Next]_vars => CallsInv'
<1> SUFFICES ASSUME CallsInv, [Next]_vars PROVE CallsInv'
  OBVIOUS
<1>1. TypeOK /\ TypeOK'
  BY TypeStep, Zenon DEF CallsInv
<1>0. \A d \in Calls : ClockInv(d) /\ HoldInv(d) /\ ReturnInv(d)
  BY Zenon DEF CallsInv, CallInv
<1>2. ASSUME NEW d \in Calls PROVE CallInv(d)'
  <2>1. CASE \E c \in Calls : CallStep(c)
    BY <1>1, <2>1, CallInvStep, Zenon DEF CallsInv
  <2>2. CASE Tick
    <3>1. /\ now \in Nat /\ skew[d] \in Nat /\ ttl[d] \in Nat
          /\ started[d] \in Int /\ threshold[d] \in Int
      BY <1>1, ClockTypes, Zenon
    <3>2. now' = now + 1 /\ UNCHANGED <<skew, ttl, pc, started, threshold,
                                       outcome, work, waiting, scope>>
      BY <2>2, Zenon DEF Tick, callVars, workVars
    <3>3. ClockInv(d)'
      BY <1>0, <3>1, <3>2 DEF ClockInv, At, began
    <3>4. HoldInv(d)' /\ ReturnInv(d)'
      BY <1>0, <3>2, CallKept, Zenon
    <3>5. QED
      BY <3>3, <3>4, Zenon DEF CallInv
  <2>3. CASE UNCHANGED vars
    <3>0. UNCHANGED <<now, skew, ttl, pc, started, threshold, outcome, work,
                      waiting, scope>>
      BY <2>3, Zenon DEF vars, callVars, workVars
    <3>1. ClockInv(d)'
      BY <1>0, <3>0, Zenon DEF ClockInv, At, began
    <3>2. HoldInv(d)' /\ ReturnInv(d)'
      BY <1>0, <3>0, CallKept, Zenon
    <3>3. QED
      BY <3>1, <3>2, Zenon DEF CallInv
  <2>4. QED
    BY <2>1, <2>2, <2>3, Zenon DEF Next, CallStep
<1>3. QED
  BY <1>1, <1>2, Zenon DEF CallsInv

\* A work scope settles only when nothing of its call runs.
THEOREM NothingRunsUnheldCorrect == Spec => []NothingRunsUnheld
<1>1. CallsInv => NothingRunsUnheld
  BY SealedIdle, Zenon DEF CallsInv, CallInv, NothingRunsUnheld, Live
<1>2. QED
  BY <1>1, CallsInvInit, CallsInvStep, PTL DEF Spec

\* A completed record stands for its whole memory window.
THEOREM CompletedStandsCorrect == Spec => CompletedStands
<1>1. ASSUME TypeOK, [Next]_vars,
             record.status = "completed", is_live(record, now)
      PROVE  record' = record
  <2>1. record.claim_id \notin Calls
    BY <1>1, RecordAssumption DEF TypeOK, Record, NoRecord
  <2>2. CASE \E c \in Calls : CallStep(c)
    BY <1>1, <2>1, <2>2, StepRecord, Zenon DEF takeable, mark_lands
  <2>3. QED
    BY <1>1, <2>2, Zenon DEF Next, CallStep, Tick, vars
<1>2. TypeOK /\ [Next]_vars =>
        [record.status = "completed" /\ is_live(record, now)
           => record' = record]_vars
  BY <1>1, Zenon
<1>3. QED
  BY <1>2, IdempotencyTypeCorrect, PTL DEF Spec, CompletedStands

\* A key is marked completed only for an attempt that returned.
THEOREM CompletedMeansReturnedCorrect == Spec => CompletedMeansReturned
<1>1. ASSUME CallsInv, [Next]_vars, record'.status = "completed", record' # record
      PROVE  \E c \in Calls : At(c, "mark") /\ \E p \in Own : work[c][p] = "returned"
  <2>1. PICK c \in Calls : CallStep(c)
    BY <1>1, Zenon DEF Next, CallStep, Tick, vars
  <2>2. At(c, "mark") /\ record' = marked(outcome[c], now + MemoryTTL)
    <3>1. executing(c, started[c], now + ttl[c]).status = "executing"
      BY Zenon DEF executing
    <3>2. TypeOK
      BY <1>1, Zenon DEF CallsInv
    <3>3. QED
      BY <1>1, <2>1, <3>1, <3>2, StepRecord, Zenon
  <2>3. outcome[c] = "completed"
    BY <1>1, <2>2, Zenon DEF marked
  <2>4. QED
    BY <1>1, <2>2, <2>3, Zenon DEF CallsInv, CallInv, ReturnInv
<1>2. CallsInv /\ [Next]_vars =>
        [record'.status = "completed" /\ record' # record
           => \E c \in Calls : /\ At(c, "mark")
                               /\ \E p \in Own : work[c][p] = "returned"]_vars
  BY <1>1, Zenon
<1>3. QED
  BY <1>2, CallsInvInit, CallsInvStep, PTL DEF Spec, CompletedMeansReturned

\* No call of a key is let through beside work that still runs before the
\* shortest of the execution windows is over, however the clocks of the
\* processes differ within the tolerance.
THEOREM WindowHonoredCorrect == Spec => WindowHonored
<1>1. Init => IInv
  BY CallsInvInit, Zenon DEF IInv, HeldInv
<1>2. IInv /\ [Next]_vars => IInv'
  <2> SUFFICES ASSUME IInv, [Next]_vars PROVE IInv'
    OBVIOUS
  <2>1. CallsInv /\ CallsInv'
    BY CallsInvStep, Zenon DEF IInv
  <2>2. ASSUME NEW d \in Calls PROVE HeldInv(d)'
    <3>1. CASE \E c \in Calls : CallStep(c)
      <4>1. PICK c \in Calls : CallStep(c)
        BY <3>1, Zenon
      <4>2. CASE c = d
        BY <2>1, <4>1, <4>2, HeldOwn, Zenon DEF IInv, CallsInv
      <4>3. CASE c # d
        BY <2>1, <4>1, <4>3, HeldOther, Zenon DEF IInv, CallsInv
      <4>4. QED
        BY <4>2, <4>3, Zenon
    <3>2. CASE Tick
      <4>1. /\ now \in Nat /\ skew[d] \in Nat /\ started[d] \in Int
            /\ \A c \in Calls : ttl[c] \in Nat
        BY <2>1, ClockTypes, Zenon DEF CallsInv
      <4>2. now' = now + 1 /\ UNCHANGED <<record, skew, ttl, pc, started,
                                         outcome, work>>
        BY <3>2, Zenon DEF Tick, callVars, workVars
      <4>3. WindowOver(d) => WindowOver(d)'
        BY <4>1, <4>2 DEF WindowOver, began
      <4>4. QED
        BY <4>2, <4>3, Zenon DEF IInv, HeldInv, Holds, Active, At, began
    <3>3. CASE UNCHANGED vars
      BY <3>3, Zenon DEF vars, callVars, workVars, IInv, HeldInv, Holds, Active, At, began,
                    WindowOver
    <3>4. QED
      BY <3>1, <3>2, <3>3, Zenon DEF Next, CallStep
  <2>3. QED
    BY <2>1, <2>2, Zenon DEF IInv
<1>3. ASSUME IInv, [Next]_vars, NEW c \in Calls, NEW d \in Calls,
             c # d, Claims(c), Active(d)
      PROVE  WindowOver(d) \/ (At(d, "over") /\ outcome[d] = "completed")
  <2>1. PICK e \in Calls : CallStep(e)
    BY <1>3, Zenon DEF Next, CallStep, Tick, vars, Claims
  <2>2. TypeOK /\ CallInv(c) /\ HeldInv(d)
    BY <1>3, Zenon DEF IInv, CallsInv
  <2>3. e = c
    BY <1>3, <2>1, <2>2, StepOthers, Zenon DEF Claims
  <2>4. ClaimStep(c)
    <3>1. pc[c] \in {"setnx", "setnx_again", "takeover"} /\ pc'[c] = "running"
      BY <1>3, Zenon DEF Claims
    <3>2. ~RunStep(c)
      BY <3>1, Zenon DEF RunStep, StartAttempt, Succeed, AttemptRaised, TimeOut,
                  TimeOutAsync, GiveUp, CloseOnly, At
    <3>3. ~PieceStep(c)
      BY <2>2, <3>1, Zenon DEF PieceStep, RunPiece, AbandonNested, EndPiece,
                        CallInv, HoldInv, Unclaimed
    <3>4. ~(Mark(c) \/ MarkFault(c) \/ Crash(c))
      BY <2>2, <3>1, Zenon DEF Mark, MarkFault, Crash, Turn, Goto, At, TypeOK
    <3>5. QED
      BY <2>1, <2>3, <3>2, <3>3, <3>4, Zenon DEF CallStep
  <2>5. record' = executing(c, started[c], now + ttl[c])
    BY <1>3, <2>2, <2>4, ClaimWrites, Zenon DEF Claims
  <2>6. CASE Holds(d)
    <3>1. record' # record
      <4>1. record'.claim_id = c
        BY <2>5, Zenon DEF executing
      <4>2. QED
        BY <1>3, <2>6, <4>1, Zenon DEF Holds
    <3>2. QED
      BY <1>3, <2>1, <2>2, <2>3, <2>6, <3>1, ReplacedLate, Zenon
  <2>7. QED
    BY <1>3, <2>2, <2>6, Zenon DEF HeldInv
<1>4. IInv /\ [Next]_vars =>
        [\A c, d \in Calls :
           c # d /\ Claims(c) /\ Active(d)
           => \/ WindowOver(d)
              \/ At(d, "over") /\ outcome[d] = "completed"]_vars
  BY <1>3, Zenon
<1>5. QED
  BY <1>1, <1>2, <1>4, PTL DEF Spec, WindowHonored

\* All calls of the key ask for the same execution window.
UniformWindow == \A t, u \in ExecutionTTLs : t = u

\* Where one execution window is in force, as for one call site under one
\* configuration, it is each call's own window that is honoured.
THEOREM OwnWindowHonored ==
    ASSUME UniformWindow
    PROVE  Spec => [][\A c, d \in Calls :
                         c # d /\ Claims(c) /\ Active(d)
                         => \/ now > began(d) + ttl[d]
                            \/ At(d, "over") /\ outcome[d] = "completed"]_vars
<1>1. ASSUME TypeOK, NEW d \in Calls, WindowOver(d) PROVE now > began(d) + ttl[d]
  BY <1>1 DEF WindowOver, UniformWindow, TypeOK
<1>2. TypeOK /\ [\A c, d \in Calls :
                    c # d /\ Claims(c) /\ Active(d)
                    => \/ WindowOver(d)
                       \/ At(d, "over") /\ outcome[d] = "completed"]_vars
        => [\A c, d \in Calls :
              c # d /\ Claims(c) /\ Active(d)
              => \/ now > began(d) + ttl[d]
                 \/ At(d, "over") /\ outcome[d] = "completed"]_vars
  BY <1>1, Zenon
<1>3. QED
  BY <1>2, WindowHonoredCorrect, IdempotencyTypeCorrect, PTL DEF WindowHonored

-----------------------------------------------------------------------------
(* A deferred mark is owed by a piece that runs.                           *)

\* What a call's scope holds runs and is no longer waited for, and a deferred
\* call's scope still has its callback and something to wait for.
OweInv(c) ==
    /\ pc[c] \in {"running", "deferred"} =>
          \A p \in scope[c].running : work[c][p] = "running" /\ p \notin waiting[c]
    /\ At(c, "deferred") =>
          /\ scope[c].closed /\ ~scope[c].sealed /\ scope[c].settles
          /\ scope[c].running # {}

\* A call that runs the function hands its scope only what runs, and defers
\* its mark only to a scope that holds something.
LEMMA OweRun ==
    ASSUME TypeOK, NEW c \in Calls, HoldInv(c), OweInv(c), RunStep(c)
    PROVE  OweInv(c)'
<1>0. At(c, "running")
  BY Zenon DEF RunStep, StartAttempt, Succeed, AttemptRaised, TimeOut, TimeOutAsync,
         GiveUp, CloseOnly
<1>a. /\ scope[c] \in Scope /\ waiting[c] \subseteq Own
      /\ ~scope[c].closed /\ ~scope[c].sealed
  BY <1>0, Zenon DEF TypeOK, HoldInv
<1>b. (\A p \in Own : p \in Pieces) /\ (\A p \in scope[c].running : p \in Pieces)
  BY <1>a, Zenon DEF Pieces, Scope
<1>c. \A p \in scope[c].running : work[c][p] = "running" /\ p \notin waiting[c]
  BY <1>0, Zenon DEF OweInv, At
<1> USE DEF At, Goto
<1>1. CASE StartAttempt(c)
  <2>1. PICK p \in Own : /\ work[c][p] = "none"
                         /\ work' = [work EXCEPT ![c][p] = "queued"]
                         /\ waiting' = [waiting EXCEPT ![c] = {p}]
                         /\ UNCHANGED <<pc, scope>>
    BY <1>1, Zenon DEF StartAttempt
  <2>2. /\ waiting'[c] = {p}
        /\ \A q \in Pieces : q # p => work'[c][q] = work[c][q]
    BY <1>b, <2>1, Zenon DEF TypeOK
  <2>3. p \notin scope[c].running
    BY <1>c, <2>1, Zenon
  <2>4. QED
    BY <1>0, <1>b, <1>c, <2>1, <2>2, <2>3, Zenon DEF OweInv
<1>2. CASE Succeed(c) \/ CloseOnly(c)
  BY <1>2, Zenon DEF Succeed, CloseOnly, OweInv, TypeOK
<1>3. CASE AttemptRaised(c)
  <2>1. waiting'[c] = {} /\ UNCHANGED <<pc, work, scope>>
    BY <1>3, Zenon DEF AttemptRaised, TypeOK
  <2>2. QED
    BY <1>0, <1>c, <2>1, Zenon DEF OweInv
<1>4. CASE TimeOut(c)
  <2>1. PICK p \in waiting[c] :
          IF work[c][p] = "queued"
          THEN work' = [work EXCEPT ![c][p] = "raised"] /\ UNCHANGED scope
          ELSE scope' = [scope EXCEPT ![c] = recorded(c, p)] /\ UNCHANGED work
    BY <1>4, Zenon DEF TimeOut
  <2>2. waiting'[c] = {} /\ pc' = pc /\ p \in Pieces
    BY <1>4, <1>a, <1>b, Zenon DEF TimeOut, TypeOK
  <2>3. CASE work[c][p] = "queued"
    <3>1. work' = [work EXCEPT ![c][p] = "raised"] /\ scope' = scope
      BY <2>1, <2>3, Zenon
    <3>2. \A q \in Pieces : q # p => work'[c][q] = work[c][q]
      BY <2>2, <3>1, Zenon DEF TypeOK
    <3>3. QED
      BY <1>0, <1>b, <1>c, <2>2, <2>3, <3>1, <3>2, Zenon DEF OweInv
  <2>4. CASE work[c][p] = "running"
    <3>1. scope'[c] = add(scope[c], p) /\ work' = work
      BY <2>1, <2>4, Zenon DEF recorded, TypeOK
    <3>2. scope'[c].running = scope[c].running \cup {p}
      BY <1>a, <2>2, <3>1, AddFacts, Zenon
    <3>3. QED
      BY <1>0, <1>c, <2>2, <2>4, <3>1, <3>2, Zenon DEF OweInv
  <2>5. CASE work[c][p] \notin {"queued", "running"}
    <3> DEFINE b == work[c][p] = "returned"
               s == add(scope[c], p)
    <3>1. scope'[c] = fold(s, p, b) /\ work' = work
      BY <2>1, <2>5, Zenon DEF recorded, TypeOK
    <3>2. b \in BOOLEAN /\ s \in Scope /\ s.running = scope[c].running \cup {p}
      BY <1>a, <2>2, AddFacts, HoldTypes, Zenon
    <3> HIDE DEF b, s
    <3>3. scope'[c].running = (scope[c].running \cup {p}) \ {p}
      <4>1. fold(s, p, b).running = s.running \ {p}
        BY <2>2, <3>2, FoldFacts
      <4>2. QED
        BY <3>1, <3>2, <4>1, Zenon
    <3>4. QED
      BY <1>0, <1>c, <2>2, <3>1, <3>3, Zenon DEF OweInv
  <2>6. QED
    BY <2>3, <2>4, <2>5, Zenon
<1>5. CASE TimeOutAsync(c)
  <2>1. PICK p \in waiting[c] : work' = [work EXCEPT ![c][p] = "raised"]
    BY <1>5, Zenon DEF TimeOutAsync
  <2>2. /\ waiting'[c] = {} /\ UNCHANGED <<pc, scope>>
        /\ \A q \in Pieces : q # p => work'[c][q] = work[c][q]
    BY <1>5, <1>a, <1>b, <2>1, Zenon DEF TimeOutAsync, TypeOK
  <2>3. QED
    BY <1>0, <1>b, <1>c, <2>1, <2>2, Zenon DEF OweInv
<1>6. CASE GiveUp(c)
  <2>1. /\ scope'[c] = close(scope[c], TRUE) /\ work' = work /\ waiting'[c] = {}
        /\ pc'[c] = IF close_settles_now(scope[c]) THEN "mark" ELSE "deferred"
    BY <1>6, Zenon DEF GiveUp, TypeOK
  <2>2. CASE close_settles_now(scope[c])
    BY <2>1, <2>2, Zenon DEF OweInv
  <2>3. CASE ~close_settles_now(scope[c])
    <3>1. scope[c].running # {}
      BY <1>a, <2>3, Zenon DEF close_settles_now
    <3>2. /\ scope'[c].closed /\ ~scope'[c].sealed /\ scope'[c].settles
          /\ scope'[c].running = scope[c].running
      BY <1>a, <2>1, <2>3, Zenon DEF close, Scope
    <3>3. QED
      BY <1>c, <2>1, <3>1, <3>2, Zenon DEF OweInv
  <2>4. QED
    BY <2>2, <2>3, Zenon
<1>7. QED
  BY <1>1, <1>2, <1>3, <1>4, <1>5, <1>6, Zenon DEF RunStep

\* A piece leaves the scope as it ends, and the last one of a deferred call
\* turns the call to its mark.
LEMMA OweWork ==
    ASSUME TypeOK, NEW c \in Calls, HoldInv(c), OweInv(c), PieceStep(c)
    PROVE  OweInv(c)'
<1>a. scope[c] \in Scope /\ scope[c].running \subseteq Pieces
  BY Zenon DEF TypeOK, Scope
<1>b. \A p \in Nested : p \in Pieces /\ p \notin Own
  BY PiecesAssumption, Zenon DEF Pieces
<1>c. waiting[c] \subseteq Own
  BY Zenon DEF TypeOK
<1> USE DEF At, Goto
<1>1. CASE RunPiece(c)
  <2>1. PICK p \in Pieces : /\ work[c][p] = "queued"
                            /\ work' = [work EXCEPT ![c][p] = "running"]
    BY <1>1, Zenon DEF RunPiece
  <2>2. UNCHANGED <<pc, waiting, scope>>
    BY <1>1, Zenon DEF RunPiece
  <2>3. /\ work'[c][p] = "running"
        /\ \A q \in Pieces : q # p => work'[c][q] = work[c][q]
    BY <2>1, Zenon DEF TypeOK
  <2>4. QED
    BY <1>a, <2>2, <2>3, Zenon DEF OweInv
<1>2. CASE AbandonNested(c)
  <2>1. PICK p \in Nested : /\ work[c][p] = "none"
                            /\ work' = [work EXCEPT ![c][p] = "running"]
                            /\ scope' = [scope EXCEPT ![c] = add(@, p)]
    BY <1>2, Zenon DEF AbandonNested
  <2>2. ~scope[c].sealed
    BY <1>2, Zenon DEF AbandonNested, HoldInv
  <2>3. /\ UNCHANGED <<pc, waiting>> /\ scope'[c] = add(scope[c], p)
        /\ work'[c][p] = "running"
        /\ \A q \in Pieces : q # p => work'[c][q] = work[c][q]
    BY <1>2, <1>b, <2>1 DEF AbandonNested, TypeOK
  <2>4. /\ scope'[c].running = scope[c].running \cup {p}
        /\ scope'[c].closed = scope[c].closed
        /\ scope'[c].sealed = scope[c].sealed
        /\ scope'[c].settles = scope[c].settles
    BY <1>a, <1>b, <2>2, <2>3 DEF add, Scope
  <2>5. p \notin waiting[c]
    BY <1>b, <1>c, Zenon
  <2>6. QED
    BY <1>a, <2>3, <2>4, <2>5, Zenon DEF OweInv
<1>3. CASE EndPiece(c)
  <2> DEFINE s == scope[c]
  <2>1. PICK p \in Pieces, returned \in BOOLEAN :
          /\ work' = [work EXCEPT ![c][p] = IF returned THEN "returned" ELSE "raised"]
          /\ scope' = [scope EXCEPT ![c] = fold(scope[c], p, returned)]
          /\ IF s.settles /\ fold(s, p, returned).sealed /\ ~s.sealed
             THEN Goto(c, "mark") ELSE UNCHANGED pc
          /\ UNCHANGED waiting
    BY <1>3, Zenon DEF EndPiece
  <2> DEFINE t == fold(scope[c], p, returned)
  <2>2. /\ scope'[c] = t /\ waiting' = waiting
        /\ \A q \in Pieces : q # p => work'[c][q] = work[c][q]
    BY <2>1, Zenon DEF TypeOK
  <2>3. /\ t.running = s.running \ {p} /\ t.closed = s.closed
        /\ t.sealed = (s.sealed \/ (p \in s.running /\ seals(s, p)))
        /\ t.settles = (s.settles /\ ~(p \in s.running /\ seals(s, p)))
    BY <1>a, Zenon DEF fold, Scope
  <2>4. pc'[c] = IF s.settles /\ t.sealed /\ ~s.sealed THEN "mark" ELSE pc[c]
    BY <2>1, Zenon DEF TypeOK
  <2> HIDE DEF t
  <2>5. CASE s.settles /\ t.sealed /\ ~s.sealed
    BY <2>4, <2>5, Zenon DEF OweInv
  <2>6. CASE ~(s.settles /\ t.sealed /\ ~s.sealed)
    <3>1. pc'[c] = pc[c]
      BY <2>4, <2>6, Zenon
    <3>2. pc[c] = "deferred" => ~(p \in s.running /\ seals(s, p))
      BY <2>3, <2>6, Zenon DEF OweInv, seals
    <3>3. pc[c] = "deferred" => s.running \ {p} # {}
      BY <3>2, Zenon DEF OweInv, seals
    <3>4. QED
      BY <1>a, <2>2, <2>3, <3>1, <3>2, <3>3, Zenon DEF OweInv
  <2>7. QED
    BY <2>5, <2>6, Zenon
<1>4. QED
  BY <1>1, <1>2, <1>3, Zenon DEF PieceStep

\* A step of a call keeps what every call's mark waits for.
LEMMA OweStep ==
    ASSUME TypeOK, NEW c \in Calls, NEW d \in Calls, HoldInv(d), OweInv(d),
           CallStep(c)
    PROVE  OweInv(d)'
<1>1. CASE d # c
  <2>1. /\ pc'[d] = pc[d] /\ work'[d] = work[d]
        /\ waiting'[d] = waiting[d] /\ scope'[d] = scope[d]
    BY <1>1, StepOthers, Zenon
  <2>2. QED
    BY <2>1, Zenon DEF OweInv, At
<1>2. CASE d = c
  <2>1. CASE ClaimStep(c)
    <3>1. /\ pc[c] \in Unclaimed /\ scope' = scope
          /\ pc'[c] # "deferred"
      BY <2>1, Zenon DEF ClaimStep, BuildRecord, SetNx, GetExisting, TakeOver,
                  CacheFault, CancelClaim, Claimed, Turn, At, Goto, Unclaimed,
                  callVars, workVars, TypeOK
    <3>2. scope[c] = NewScope
      BY <1>2, <3>1, Zenon DEF HoldInv
    <3>3. scope[c].running = {}
      BY <3>2 DEF NewScope
    <3>4. QED
      BY <1>2, <3>1, <3>3, Zenon DEF OweInv, At
  <2>2. CASE Mark(c) \/ MarkFault(c) \/ Crash(c)
    BY <1>2, <2>2, Zenon DEF Mark, MarkFault, Crash, Turn, Goto, TypeOK, OweInv, At
  <2>3. QED
    BY <1>2, <2>1, <2>2, OweRun, OweWork, Zenon DEF CallStep
<1>3. QED
  BY <1>1, <1>2, Zenon

\* A deferred mark always has a running piece whose end makes it.
THEOREM MarkOwedCorrect == Spec => []MarkOwed
<1> DEFINE Owed == CallsInv /\ \A c \in Calls : OweInv(c)
<1>1. Init => Owed
  BY CallsInvInit, Zenon DEF Init, OweInv, At
<1>2. Owed /\ [Next]_vars => Owed'
  <2> SUFFICES ASSUME Owed, [Next]_vars PROVE Owed'
    OBVIOUS
  <2>1. CallsInv'
    BY CallsInvStep, Zenon
  <2>2. ASSUME NEW d \in Calls PROVE OweInv(d)'
    <3>0. TypeOK /\ HoldInv(d) /\ OweInv(d)
      BY Zenon DEF CallsInv, CallInv
    <3>1. CASE \E c \in Calls : CallStep(c)
      BY <3>0, <3>1, OweStep, Zenon
    <3>2. CASE Tick \/ UNCHANGED vars
      BY <3>0, <3>2, Zenon DEF Tick, vars, workVars, OweInv, At
    <3>3. QED
      BY <3>1, <3>2, Zenon DEF Next, CallStep
  <2>3. QED
    BY <2>1, <2>2, Zenon
<1>3. Owed => MarkOwed
  BY Zenon DEF OweInv, MarkOwed, At
<1>4. QED
  BY <1>1, <1>2, <1>3, PTL DEF Spec

=============================================================================
