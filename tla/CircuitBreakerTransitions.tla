---------------------- MODULE CircuitBreakerTransitions ----------------------
(***************************************************************************)
(* Proofs about the transitions of the stored row: which step writes it,   *)
(* with which primitive, and what follows for the breaker's diagram, the   *)
(* operator's Allow, the window watermark and the single-fire events.      *)
(***************************************************************************)
EXTENDS CircuitBreakerProofs

\* A caller's step leaves the row or applies the primitive of its label.
CallerRow(t) ==
    \/ row' = row
    \/ pc[t] = "acquire" /\ row' = try_acquire_half_open_slot(row, now)
    \/ pc[t] = "succ_close" /\ row' = record_success_with_close_check(row)
    \/ pc[t] = "succ_reset" /\ row' = reset_failures_keep_open(row)
    \/ pc[t] = "fail_open" /\ row' = record_failure_with_open_check(row, now)
    \/ pc[t] = "fail_record" /\ row' = record_failure(row)
    \/ pc[t] = "trip" /\ row' = trip_to_open(row, held[t].failure_count, now)

\* It moves no other caller, no operator and no sweep.
CallerFrame(t) ==
    /\ \A u \in Callers \ {t} : pc'[u] = pc[u] /\ fired'[u] = fired[u]
    /\ op' = op /\ op_row' = op_row /\ sweeping' = sweeping

\* Labels at which a caller may hold a transition it has yet to announce.
Announcing == {"trial", "observe_attempt"}

\* It acquires something to announce exactly by changing the stored state.
CallerFired(t) ==
    /\ fired'[t] => pc'[t] \in Announcing
    /\ fired[t] => row'.state = row.state /\ ~fired'[t]
    /\ ~fired[t] => (fired'[t] <=> row'.state # row.state)

\* A transition waits to be announced only where ObserveAttempt or
\* StartTrial is next.
FiredPending == \A t \in Callers : fired[t] => pc[t] \in Announcing

\* A caller that finishes holds no unannounced transition; the others are untouched.
LEMMA FinishFrame ==
    ASSUME TypeOK, NEW t \in Callers, Finish(t)
    PROVE  /\ pc'[t] = "idle" /\ ~fired'[t]
           /\ CallerFrame(t)
  BY Zenon DEF Finish, Goto, CallerFrame, env, laneVars, TypeOK

\* A step that only moves one caller's program counter leaves the others alone.
LEMMA GotoFrame ==
    ASSUME TypeOK, NEW t \in Callers, NEW label \in CallerPc, Goto(t, label),
           NEW b \in BOOLEAN,
           fired' = fired \/ fired' = [fired EXCEPT ![t] = b]
    PROVE  pc'[t] = label /\ CallerFrame(t)
  BY Zenon DEF Goto, CallerFrame, env, laneVars, TypeOK

\* A step that keeps the row and the pending flag, at a label that has none.
LEMMA QuietFired ==
    ASSUME TypeOK, FiredPending, NEW t \in Callers, row' = row,
           \/ Keep /\ pc[t] \notin Announcing
           \/ Finish(t)
    PROVE  CallerFired(t)
<1>1. CASE Keep /\ pc[t] \notin Announcing
  <2>1. fired' = fired /\ ~fired[t]
    BY <1>1, Zenon DEF Keep, FiredPending
  <2> QED
    BY <2>1, Zenon DEF CallerFired
<1>2. CASE Finish(t)
  BY <1>2, FinishFrame, Zenon DEF CallerFired
<1> QED
  BY <1>1, <1>2, Zenon

\* A step that keeps row and locals and goes on, or finishes the call.
LEMMA QuietTransition ==
    ASSUME TypeOK, FiredPending, NEW t \in Callers, RowKept,
           \/ Finish(t)
           \/ /\ pc[t] \notin Announcing /\ Keep
              /\ \E label \in CallerPc : Goto(t, label)
    PROVE  CallerRow(t) /\ CallerFrame(t) /\ CallerFired(t)
<1>1. row' = row
  BY Zenon DEF RowKept
<1>2. CallerFrame(t)
  <2>1. CASE Finish(t)
    BY <2>1, FinishFrame, Zenon
  <2>2. CASE Keep /\ \E label \in CallerPc : Goto(t, label)
    BY <2>2, GotoFrame, Zenon DEF Keep
  <2> QED
    BY <2>1, <2>2, Zenon
<1>3. CallerFired(t)
  BY <1>1, QuietFired, Zenon
<1> QED
  BY <1>1, <1>2, <1>3, Zenon DEF CallerRow

\* A step that stores r by the primitive of its label.
LEMMA StoringTransition ==
    ASSUME TypeOK, FiredPending, NEW t \in Callers, NEW label \in CallerPc,
           pc[t] \notin Announcing, Goto(t, label),
           NEW b \in BOOLEAN, fired' = [fired EXCEPT ![t] = b],
           b <=> row'.state # row.state,
           b => label \in Announcing
    PROVE  CallerFrame(t) /\ CallerFired(t)
<1>1. pc'[t] = label /\ CallerFrame(t)
  BY GotoFrame, Zenon
<1>2. ~fired[t] /\ fired'[t] = b
  BY Zenon DEF FiredPending, TypeOK
<1> QED
  BY <1>1, <1>2, Zenon DEF CallerFired

\* What one caller's step does to the stored row and to its announcement flag.
LEMMA CallerTransition ==
    ASSUME TypeOK, FiredPending, NEW t \in Callers, CallerStep(t)
    PROVE  CallerRow(t) /\ CallerFrame(t) /\ CallerFired(t)
<1> USE DEF CallerPc, Announcing, At
<1>0. /\ row \in Data /\ now \in Nat /\ held[t].failure_count \in Nat
      /\ row.state \in CircuitState
  BY ServiceAssumption DEF TypeOK, Data, CircuitBreakerStateData
<1>1. CASE StartCall(t) \/ AdmitClosed(t) \/ AdmitNotClosed(t) \/ DenySlot(t)
  BY <1>1, QuietTransition, Zenon DEF StartCall, AdmitClosed, AdmitNotClosed, DenySlot
<1>2. CASE DenyClosed(t) \/ RecordRejection(t) \/ CancelCall(t)
           \/ SucceedReadFree(t) \/ ObserveAttempt(t) \/ ClearAfterPinnedTrip(t)
  BY <1>2, QuietTransition, Zenon DEF DenyClosed, RecordRejection, CancelCall,
     SucceedReadFree, ObserveAttempt, ClearAfterPinnedTrip
<1>3. CASE SucceedSlow(t) \/ DecideSuccess(t) \/ AppendSuccess(t)
  BY <1>3, QuietTransition, Zenon DEF SucceedSlow, DecideSuccess, AppendSuccess
<1>4. CASE Fail(t) \/ DecideFailure(t) \/ BeginWrite(t) \/ EndWrite(t)
  BY <1>4, QuietTransition, Zenon DEF Fail, DecideFailure, BeginWrite, EndWrite
<1>5. CASE ObserveCounted(t) \/ AppendFailure(t) \/ EvaluateTrip(t)
  BY <1>5, QuietTransition, Zenon DEF ObserveCounted, AppendFailure, EvaluateTrip
<1>6. CASE \/ ReadRow(t, "adm_read", "adm_decide")
           \/ ReadRow(t, "succ_read", "succ_decide")
           \/ ReadRow(t, "fail_read", "fail_decide")
  <2>1. /\ row' = row /\ fired' = fired /\ pc[t] \notin Announcing
        /\ \E label \in CallerPc : Goto(t, label)
    BY <1>6, Zenon DEF ReadRow, RowKept
  <2>2. CallerFrame(t)
    BY <2>1, GotoFrame, Zenon
  <2> QED
    BY <2>1, <2>2, Zenon DEF CallerRow, CallerFired, FiredPending
<1>7. CASE AcquireSlot(t)
  <2> DEFINE after == try_acquire_half_open_slot(row, now)
             b == row.state # after.state
             label == IF slot_allowed(row, now) THEN "trial" ELSE "denied"
  <2>1. /\ row' = after /\ pc[t] = "acquire" /\ Goto(t, label)
        /\ fired' = [fired EXCEPT ![t] = b]
    BY <1>7, Zenon DEF AcquireSlot
  <2>2. b => label \in Announcing
    BY Zenon DEF try_acquire_half_open_slot, slot_allowed
  <2>3. (b <=> row'.state # row.state) /\ b \in BOOLEAN /\ label \in CallerPc
    BY <2>1, Zenon
  <2> HIDE DEF after, b, label
  <2>4. CallerFrame(t) /\ CallerFired(t)
    BY <2>1, <2>2, <2>3, StoringTransition, Zenon
  <2> QED
    BY <2>1, <2>4, Zenon DEF CallerRow, after
<1>8. CASE StartTrial(t)
  <2>1. /\ row' = row /\ fired' = [fired EXCEPT ![t] = FALSE]
        /\ Goto(t, "running")
    BY <1>8, Zenon DEF StartTrial, RowKept
  <2>2. CallerFrame(t) /\ ~fired'[t]
    BY <2>1, GotoFrame, Zenon DEF TypeOK
  <2> QED
    BY <2>1, <2>2, Zenon DEF CallerRow, CallerFired
<1>9. CASE CloseCheck(t)
  <2> DEFINE after == record_success_with_close_check(row)
             b == did_close(row)
  <2>1. /\ row' = after /\ pc[t] = "succ_close"
        /\ Goto(t, "observe_attempt")
        /\ fired' = [fired EXCEPT ![t] = b]
    BY <1>9, Zenon DEF CloseCheck, Store
  <2>2. b \in BOOLEAN /\ (b <=> row'.state # row.state)
    BY <1>0, <2>1 DEF record_success_with_close_check, did_close, Data
  <2> HIDE DEF after, b
  <2>4. CallerFrame(t) /\ CallerFired(t)
    BY <2>1, <2>2, StoringTransition, Zenon
  <2> QED
    BY <2>1, <2>4, Zenon DEF CallerRow, after
<1>10. CASE ResetFailures(t)
  <2>1. /\ row' = reset_failures_keep_open(row) /\ pc[t] = "succ_reset"
        /\ Finish(t)
    BY <1>10, Zenon DEF ResetFailures, Store
  <2>2. row'.state = row.state
    BY <1>0, <2>1 DEF reset_failures_keep_open, Data
  <2>3. CallerFrame(t) /\ ~fired'[t] /\ ~fired[t]
    BY <2>1, FinishFrame, Zenon DEF FiredPending
  <2> QED
    BY <2>1, <2>2, <2>3, Zenon DEF CallerRow, CallerFired
<1>11. CASE OpenCheck(t)
  <2> DEFINE after == record_failure_with_open_check(row, now)
             b == did_open(row)
  <2>1. /\ row' = after /\ pc[t] = "fail_open"
        /\ Goto(t, "observe_attempt")
        /\ fired' = [fired EXCEPT ![t] = b]
    BY <1>11, Zenon DEF OpenCheck, Store
  <2>2. b \in BOOLEAN /\ (b <=> row'.state # row.state)
    BY <1>0, <2>1 DEF record_failure_with_open_check, did_open, Data
  <2> HIDE DEF after, b
  <2>4. CallerFrame(t) /\ CallerFired(t)
    BY <2>1, <2>2, StoringTransition, Zenon
  <2> QED
    BY <2>1, <2>4, Zenon DEF CallerRow, after
<1>12. CASE CountFailure(t)
  <2>1. /\ row' = record_failure(row) /\ pc[t] = "fail_record"
        /\ Goto(t, "fail_end") /\ fired' = fired
    BY <1>12, Zenon DEF CountFailure, Store
  <2>2. row'.state = row.state
    BY <1>0, <2>1 DEF record_failure, Data
  <2>3. CallerFrame(t) /\ ~fired[t]
    BY <2>1, GotoFrame, Zenon DEF FiredPending
  <2> QED
    BY <2>1, <2>2, <2>3, Zenon DEF CallerRow, CallerFired
<1>13. CASE Trip(t)
  <2> DEFINE after == trip_to_open(row, held[t].failure_count, now)
             b == did_trip(row, now)
             label == IF is_manual_pin_active(row, now)
                      THEN "trip_clear" ELSE "observe_attempt"
  <2>1. /\ row' = after /\ pc[t] = "trip" /\ Goto(t, label)
        /\ fired' = [fired EXCEPT ![t] = b]
    BY <1>13, Zenon DEF Trip, Store
  <2>2. b \in BOOLEAN /\ (b <=> row'.state # row.state)
    BY <1>0, <2>1, Zenon DEF trip_to_open, did_trip, Data
  <2>3. (b => label \in Announcing) /\ label \in CallerPc
    BY Zenon DEF did_trip
  <2> HIDE DEF after, b, label
  <2>4. CallerFrame(t) /\ CallerFired(t)
    BY <2>1, <2>2, <2>3, StoringTransition, Zenon
  <2> QED
    BY <2>1, <2>4, Zenon DEF CallerRow, after
<1> QED
  BY <1>1, <1>2, <1>3, <1>4, <1>5, <1>6, <1>7, <1>8, <1>9, <1>10, <1>11,
     <1>12, <1>13, Zenon DEF CallerStep, Admission, Success, Failure

-----------------------------------------------------------------------------
(* The other actors.                                                       *)

\* The primitives an operator, a sweep or nobody applies.
OtherRow ==
    \/ row' = row
    \/ row' = reset_half_open_count(row)
    \/ row' = clear_manual_control(row)
    \/ OperatorMoves /\ row' = atomic_reset(row)
    \/ OperatorMoves /\ \E ttl \in OverrideTTLs :
          \/ row' = atomic_force_open(row, now, ttl)
          \/ row' = atomic_force_close(row, now, ttl)
    \/ OperatorMoves /\ \E st, expires : row' = set_manual_control(row, st, expires, now)
    \/ sweeping /\ row' = update_state_half_open(row)

\* Operator steps touch no caller, and mark themselves by op or op_row.
LEMMA OperatorTransition ==
    ASSUME OperatorStep
    PROVE  OtherRow /\ pc' = pc /\ fired' = fired /\ sweeping' = sweeping
<1>1. \A label : OperatorGoto(label) =>
         op' = label /\ pc' = pc /\ fired' = fired /\ sweeping' = sweeping
  BY Zenon DEF OperatorGoto, callerVars
<1> USE DEF OtherRow, OperatorMoves, Store, RowKept
<1>2. CASE ForceOpen \/ ForceClose \/ Reset
  BY <1>1, <1>2 DEF ForceOpen, ForceClose, Reset
<1>3. CASE ClearAfterForce \/ ResetSlotsAfterForce \/ ClearAfterReset
  BY <1>1, <1>3, Zenon DEF ClearAfterForce, ResetSlotsAfterForce, ClearAfterReset
<1>4. CASE ReadForExtension \/ WriteExtension \/ BumpAfterExtension
  BY <1>1, <1>4 DEF ReadForExtension, WriteExtension, BumpAfterExtension
<1>5. CASE ReturnToAuto
  BY <1>1, <1>5, Zenon DEF ReturnToAuto
<1> QED
  BY <1>2, <1>3, <1>4, <1>5, Zenon DEF OperatorStep

\* Sweeps, clock and freeze switch touch no caller.
LEMMA OtherTransition ==
    ASSUME SweepStep \/ Tick \/ ToggleFreeze \/ UNCHANGED vars
    PROVE  /\ OtherRow /\ pc' = pc /\ fired' = fired
           /\ sweeping' => sweeping \/ "recovery" \in Lanes
<1>1. CASE SnapshotForRecovery \/ MoveToHalfOpen
  BY <1>1, Zenon DEF SnapshotForRecovery, MoveToHalfOpen, SweepKeeps, callerVars,
     OtherRow, RowKept, Store
<1>2. CASE RevalidateLapsed \/ ClearLapsed
  BY <1>2 DEF RevalidateLapsed, ClearLapsed, SweepKeeps, callerVars,
     OtherRow, RowKept, Store
<1>3. CASE Tick \/ ToggleFreeze \/ UNCHANGED vars
  BY <1>3 DEF Tick, ToggleFreeze, vars, callerVars, laneVars, OtherRow
<1> QED
  BY <1>1, <1>2, <1>3, Zenon DEF SweepStep

\* Every step is a caller's transition or one of another actor.
LEMMA StepTransition ==
    ASSUME TypeOK, FiredPending, [Next]_vars
    PROVE  \/ \E t \in Callers : CallerRow(t) /\ CallerFrame(t) /\ CallerFired(t)
           \/ /\ OtherRow /\ pc' = pc /\ fired' = fired
              /\ sweeping' => sweeping \/ "recovery" \in Lanes
<1>1. CASE \E t \in Callers : CallerStep(t)
  BY <1>1, CallerTransition, Zenon
<1>2. CASE OperatorStep
  BY <1>2, OperatorTransition, Zenon
<1>3. CASE SweepStep \/ Tick \/ ToggleFreeze \/ UNCHANGED vars
  BY <1>3, OtherTransition, Zenon
<1> QED
  BY <1>1, <1>2, <1>3, Zenon DEF Next

FiredInv == TypeOK /\ FiredPending

\* Every step keeps unannounced transitions where they are announced next.
LEMMA FiredStep ==
    ASSUME FiredInv, [Next]_vars
    PROVE  FiredInv'
<1>1. TypeOK'
  BY TypeStep, Zenon DEF FiredInv
<1>2. FiredPending'
  BY StepTransition, Zenon DEF FiredInv, FiredPending, CallerFrame, CallerFired
<1> QED
  BY <1>1, <1>2, Zenon DEF FiredInv

\* An unannounced transition always belongs to a caller about to announce it.
LEMMA FiredAlways == Spec => []FiredInv
<1>1. Init => FiredInv
  <2>1. Init => FiredPending
    BY Zenon DEF Init, FiredPending
  <2> QED
    BY <2>1, TypeInit, Zenon DEF FiredInv
<1>2. FiredInv /\ [Next]_vars => FiredInv'
  BY FiredStep, Zenon
<1> QED
  BY <1>1, <1>2, PTL DEF Spec

-----------------------------------------------------------------------------
(* What follows.                                                           *)

\* A primitive a caller applies follows the breaker's diagram.
LEMMA PrimitivesFollowDiagram ==
    ASSUME TypeOK, NEW t \in Callers, CallerRow(t)
    PROVE  \/ row'.state = row.state
           \/ <<row.state, row'.state>> \in
                 {<<"closed", "open">>, <<"open", "half_open">>,
                  <<"half_open", "open">>, <<"half_open", "closed">>}
<1>0. row \in Data /\ row.state \in CircuitState
  BY Zenon DEF TypeOK, Data, CircuitBreakerStateData
<1> USE DEF Data
<1>1. CASE row' = row
  BY <1>1, Zenon
<1>2. CASE row' = try_acquire_half_open_slot(row, now)
  BY <1>0, <1>2 DEF try_acquire_half_open_slot, starts_window, is_window_stuck
<1>3. CASE row' = record_success_with_close_check(row)
  BY <1>0, <1>3 DEF record_success_with_close_check, did_close
<1>4. CASE row' = reset_failures_keep_open(row)
  BY <1>0, <1>4, Zenon DEF reset_failures_keep_open, CircuitBreakerStateData
<1>7. CASE row' = record_failure(row)
  BY <1>0, <1>7, Zenon DEF record_failure, CircuitBreakerStateData
<1>5. CASE row' = record_failure_with_open_check(row, now)
  BY <1>0, <1>5 DEF record_failure_with_open_check, did_open
<1>6. CASE row' = trip_to_open(row, held[t].failure_count, now)
  BY <1>0, <1>6, Zenon DEF trip_to_open, did_trip
<1> QED
  BY <1>1, <1>2, <1>3, <1>4, <1>5, <1>6, <1>7, Zenon DEF CallerRow

\* For every number of callers and every interleaving with operators and
\* sweeps: a caller of the breaker only ever moves the stored row along the
\* diagram, however stale the row it decided on.
THEOREM CallersFollowDiagramCorrect == Spec => CallersFollowDiagram
<1>1. FiredInv /\ [Next]_vars =>
        [\A t \in Callers : StepOf(t) =>
          \/ row'.state = row.state
          \/ <<row.state, row'.state>> \in
                {<<"closed", "open">>, <<"open", "half_open">>,
                 <<"half_open", "open">>, <<"half_open", "closed">>}]_vars
  <2> SUFFICES ASSUME FiredInv, [Next]_vars, NEW t \in Callers, StepOf(t)
               PROVE  \/ row'.state = row.state
                      \/ <<row.state, row'.state>> \in
                            {<<"closed", "open">>, <<"open", "half_open">>,
                             <<"half_open", "open">>, <<"half_open", "closed">>}
    OBVIOUS
  <2>1. pc' # pc
    BY Zenon DEF StepOf
  <2>2. PICK u \in Callers : CallerRow(u)
    BY <2>1, StepTransition, Zenon DEF FiredInv
  <2> QED
    BY <2>2, PrimitivesFollowDiagram, Zenon DEF FiredInv
<1> QED
  BY <1>1, FiredAlways, PTL DEF Spec, CallersFollowDiagram

\* For every number of callers: each automatic transition a call makes is
\* announced by exactly the caller whose atomic step made it.
THEOREM AnnouncedByItsMakerCorrect == Spec => AnnouncedByItsMaker
<1>1. FiredInv /\ [Next]_vars =>
        [\A t \in Callers : StepOf(t) =>
          (fired'[t] /\ ~fired[t] <=> row'.state # row.state)]_vars
  <2> SUFFICES ASSUME FiredInv, [Next]_vars, NEW t \in Callers, StepOf(t)
               PROVE  fired'[t] /\ ~fired[t] <=> row'.state # row.state
    OBVIOUS
  <2>1. pc' # pc
    BY Zenon DEF StepOf
  <2>2. PICK u \in Callers : CallerFrame(u) /\ CallerFired(u)
    BY <2>1, StepTransition, Zenon DEF FiredInv
  <2>3. u = t
    BY <2>2, Zenon DEF CallerFrame, StepOf
  <2> QED
    BY <2>2, <2>3, Zenon DEF CallerFired
<1> QED
  BY <1>1, FiredAlways, PTL DEF Spec, AnnouncedByItsMaker

\* The stamps of row r: an OPEN one is dated, taken slots are, and no date of a
\* window is later than the reading n.
Stamped(r, n) ==
    /\ r.state = "open" => r.opened_at \in 0..n
    /\ r.half_open_request_count > 0 => r.half_open_window_started_at # None
    /\ r.half_open_window_started_at \in {None} \cup 0..n

\* No primitive opens a row or takes a slot without stamping it.
LEMMA PrimitivesStamp ==
    ASSUME TypeOK, Stamped(row, now),
           OtherRow \/ \E t \in Callers : CallerRow(t)
    PROVE  Stamped(row', now)
<1>0. /\ row \in CircuitBreakerStateData
      /\ now \in Nat /\ now \in 0..now /\ now # None
  BY ServiceAssumption DEF TypeOK, None
<1> USE DEF Stamped, CircuitBreakerStateData
<1>1. CASE \E t \in Callers : CallerRow(t)
  <2>0. PICK t \in Callers : CallerRow(t)
    BY <1>1, Zenon
  <2>1. CASE row' = row
    BY <2>1, Zenon
  <2>2. CASE row' = try_acquire_half_open_slot(row, now)
    <3>2. CASE starts_window(row, now)
      BY <1>0, <2>2, <3>2, Zenon DEF try_acquire_half_open_slot
    <3>3. CASE ~starts_window(row, now) /\ slot_allowed(row, now)
      <4>1. /\ row'.state = "half_open"
            /\ row'.half_open_window_started_at =
                  IF row.half_open_window_started_at = None THEN now
                  ELSE row.half_open_window_started_at
        BY <1>0, <2>2, <3>3, Zenon DEF try_acquire_half_open_slot, slot_allowed
      <4> QED
        BY <1>0, <4>1, Zenon
    <3>4. CASE ~starts_window(row, now) /\ ~slot_allowed(row, now)
      BY <2>2, <3>4, Zenon DEF try_acquire_half_open_slot
    <3> QED
      BY <3>2, <3>3, <3>4, Zenon
  <2>3. CASE row' = record_success_with_close_check(row)
    BY <1>0, <2>3 DEF record_success_with_close_check
  <2>4. CASE row' = reset_failures_keep_open(row)
    BY <1>0, <2>4, Zenon DEF reset_failures_keep_open
  <2>5. CASE row' = record_failure(row)
    BY <1>0, <2>5, Zenon DEF record_failure
  <2>6. CASE row' = record_failure_with_open_check(row, now)
    BY <1>0, <2>6 DEF record_failure_with_open_check
  <2>7. CASE row' = trip_to_open(row, held[t].failure_count, now)
    BY <1>0, <2>7 DEF trip_to_open
  <2> QED
    BY <2>0, <2>1, <2>2, <2>3, <2>4, <2>5, <2>6, <2>7, Zenon DEF CallerRow
<1>2. CASE OtherRow
  <2>1. CASE row' = row
    BY <2>1, Zenon
  <2>2. CASE row' = reset_half_open_count(row)
    BY <1>0, <2>2 DEF reset_half_open_count
  <2>3. CASE row' = clear_manual_control(row)
    BY <1>0, <2>3, Zenon DEF clear_manual_control
  <2>4. CASE row' = atomic_reset(row)
    BY <2>4 DEF atomic_reset, NewRow
  <2>5. CASE \E ttl \in OverrideTTLs : row' = atomic_force_open(row, now, ttl)
    BY <1>0, <2>5 DEF atomic_force_open, reset_half_open_count
  <2>6. CASE \E ttl \in OverrideTTLs : row' = atomic_force_close(row, now, ttl)
    BY <2>6 DEF atomic_force_close, NewRow
  <2>7. CASE \E st, expires : row' = set_manual_control(row, st, expires, now)
    BY <1>0, <2>7, Zenon DEF set_manual_control
  <2>8. CASE row' = update_state_half_open(row)
    BY <1>0, <2>8, Zenon DEF update_state_half_open
  <2> QED
    BY <1>2, <2>1, <2>2, <2>3, <2>4, <2>5, <2>6, <2>7, <2>8, Zenon DEF OtherRow
<1> QED
  BY <1>1, <1>2, Zenon

\* The clock does not go back.
LEMMA ClockStep ==
    ASSUME TypeOK, [Next]_vars
    PROVE  now' >= now
<1>0. now \in Nat
  BY ServiceAssumption DEF TypeOK
<1>1. CASE \E t \in Callers : CallerStep(t)
  <2>1. \A t, label : Goto(t, label) => now' = now
    BY Zenon DEF Goto, env
  <2>2. \A t : Finish(t) => now' = now
    BY <2>1, Zenon DEF Finish
  <2>3. now' = now
    BY <1>1, <2>1, <2>2, Zenon DEF CallerStep, Admission, Success, Failure, StartCall,
       ReadRow, AdmitClosed, AdmitNotClosed, AcquireSlot, StartTrial, DenySlot,
       DenyClosed, RecordRejection, SucceedReadFree, SucceedSlow, DecideSuccess,
       CloseCheck, AppendSuccess, ResetFailures, Fail, DecideFailure, OpenCheck,
       BeginWrite, CountFailure, EndWrite, ObserveCounted, AppendFailure,
       EvaluateTrip, Trip, ClearAfterPinnedTrip, ObserveAttempt, CancelCall
  <2> QED
    BY <1>0, <2>3
<1>2. CASE OperatorStep
  <2>1. now' = now
    BY <1>2, Zenon DEF OperatorStep, OperatorGoto, ForceOpen, ForceClose, Reset,
       ClearAfterForce, ResetSlotsAfterForce, ClearAfterReset, ReadForExtension,
       WriteExtension, BumpAfterExtension, ReturnToAuto
  <2> QED
    BY <1>0, <2>1
<1>3. CASE SweepStep \/ ToggleFreeze \/ UNCHANGED vars
  <2>1. now' = now
    BY <1>3, Zenon DEF SweepStep, SnapshotForRecovery, MoveToHalfOpen, RevalidateLapsed,
       ClearLapsed, SweepKeeps, ToggleFreeze, vars
  <2> QED
    BY <1>0, <2>1
<1>4. CASE Tick
  BY <1>0, <1>4 DEF Tick
<1> QED
  BY <1>1, <1>2, <1>3, <1>4, Zenon DEF Next

\* Whatever the callers, operators and sweeps do, an OPEN row has the time its
\* cool-down began and a row with trial slots taken the time its window began,
\* neither in the future: an automatic recovery can always be computed, and a
\* window filled by calls that never report back recognised by its age.
THEOREM StampsCorrect == Spec => []StampsPresent
<1>1. Init => Stamped(row, now)
  BY DEF Init, NewRow, Stamped
<1>2. FiredInv /\ Stamped(row, now) /\ [Next]_vars => Stamped(row, now)'
  <2> SUFFICES ASSUME FiredInv, Stamped(row, now), [Next]_vars
               PROVE  Stamped(row', now')
    OBVIOUS
  <2>1. Stamped(row', now)
    BY StepTransition, PrimitivesStamp, Zenon DEF FiredInv
  <2>2. now \in Nat /\ now' \in Nat /\ now' >= now
    BY ClockStep, FiredStep, ServiceAssumption DEF FiredInv, TypeOK
  <2> QED
    BY <2>1, <2>2 DEF Stamped
<1>3. FiredInv /\ Stamped(row, now) => StampsPresent
  BY Zenon DEF Stamped, StampsPresent
<1> QED
  BY <1>1, <1>2, <1>3, FiredAlways, PTL DEF Spec

\* A pinned CLOSED row leaves CLOSED only by a step of the operator or of the
\* recovery sweep.
LEMMA AllowStep ==
    ASSUME FiredInv, [Next]_vars,
           row.state = "closed", Pinned, row'.state # "closed"
    PROVE  OperatorMoves \/ (sweeping /\ row'.state = "half_open")
<1>0. row \in CircuitBreakerStateData
  BY Zenon DEF FiredInv, TypeOK
<1> USE DEF CircuitBreakerStateData
<1>1. ~ \E t \in Callers : CallerRow(t)
  <2> SUFFICES ASSUME NEW t \in Callers, CallerRow(t)
               PROVE  row'.state = "closed"
    OBVIOUS
  <2>1. \/ row' = row
        \/ row' = try_acquire_half_open_slot(row, now)
        \/ row' = record_success_with_close_check(row)
        \/ row' = reset_failures_keep_open(row)
        \/ row' = record_failure_with_open_check(row, now)
        \/ row' = record_failure(row)
        \/ row' = trip_to_open(row, held[t].failure_count, now)
    BY Zenon DEF CallerRow
  <2>2. /\ ~did_trip(row, now) /\ ~did_open(row) /\ ~did_close(row)
        /\ ~starts_window(row, now) /\ ~slot_allowed(row, now)
    BY Zenon DEF did_trip, did_open, did_close, Pinned, starts_window, slot_allowed,
       is_window_stuck
  <2> QED
    BY <1>0, <2>1, <2>2, Zenon DEF try_acquire_half_open_slot, record_failure,
       record_success_with_close_check, reset_failures_keep_open,
       record_failure_with_open_check, trip_to_open
<1>2. OtherRow
  BY <1>1, StepTransition, Zenon DEF FiredInv
<1>3. /\ reset_half_open_count(row).state = row.state
      /\ clear_manual_control(row).state = row.state
      /\ update_state_half_open(row).state = "half_open"
  BY <1>0, Zenon DEF reset_half_open_count, clear_manual_control, update_state_half_open
<1> QED
  BY <1>2, <1>3, Zenon DEF OtherRow

\* From the moment an operator's Allow commits until it lapses, no caller's
\* trip and no expiry sweep moves the row off CLOSED, for every number of
\* callers and every interleaving; only the recovery sweep, which writes from a
\* snapshot, may.
THEOREM AllowStandsCorrect == Spec => AllowStands
<1>1. FiredInv /\ [Next]_vars =>
        [row.state = "closed" /\ Pinned /\ row'.state # "closed"
          => OperatorMoves \/ (sweeping /\ row'.state = "half_open")]_vars
  BY AllowStep, Zenon
<1> QED
  BY <1>1, FiredAlways, PTL DEF Spec, AllowStands

-----------------------------------------------------------------------------
(* The trial calls of a half-open window.                                  *)

\* The row never counts more trial slots than a window has.
SlotsWithinLimit == row.half_open_request_count <= HalfOpenMaxCalls

\* Every trial call a half-open window admitted is still counted on the row.
ProbesCounted ==
    row.state = "half_open" => probes <= row.half_open_request_count

\* Counted and within the limit is within the budget.
LEMMA CountedIsBudget ==
    ASSUME TypeOK, SlotsWithinLimit, ProbesCounted
    PROVE  ProbeBudget
  BY RowAssumption DEF TypeOK, CircuitBreakerStateData, SlotsWithinLimit,
     ProbesCounted, ProbeBudget

\* The count of trial calls follows the row: it stays with a kept row and
\* restarts with a stored one that is not the same half-open window.
ProbesFollow == (row' = row /\ probes' = probes) \/ Store(row')

\* Only acquiring a slot counts a trial call.
LEMMA CallerProbes ==
    ASSUME NEW t \in Callers, CallerStep(t)
    PROVE  AcquireSlot(t) \/ ProbesFollow
<1>1. RowKept => ProbesFollow
  BY Zenon DEF RowKept, ProbesFollow
<1>2. \A r : Store(r) => ProbesFollow
  BY Zenon DEF Store, ProbesFollow
<1>3. CASE Admission(t)
  BY <1>1, <1>3, Zenon DEF Admission, StartCall, ReadRow, AdmitClosed,
     AdmitNotClosed, StartTrial, DenySlot, DenyClosed, RecordRejection
<1>4. CASE Success(t)
  BY <1>1, <1>2, <1>4, Zenon DEF Success, SucceedReadFree, SucceedSlow, ReadRow,
     DecideSuccess, CloseCheck, AppendSuccess, ResetFailures
<1>5. CASE Failure(t)
  BY <1>1, <1>2, <1>5, Zenon DEF Failure, Fail, ReadRow, DecideFailure, OpenCheck,
     BeginWrite, CountFailure, EndWrite, ObserveCounted, AppendFailure,
     EvaluateTrip, Trip, ClearAfterPinnedTrip
<1>6. CASE ObserveAttempt(t) \/ CancelCall(t)
  BY <1>1, <1>6, Zenon DEF ObserveAttempt, CancelCall
<1> QED
  BY <1>3, <1>4, <1>5, <1>6, Zenon DEF CallerStep

\* A window that goes on keeps its count, unless a slot is acquired or the
\* reset that follows a forced override lands in it.
WindowKept ==
    row.state = "half_open" /\ row'.state = "half_open" =>
        row'.half_open_request_count = row.half_open_request_count

\* No other step of a caller touches the count of a window that goes on.
LEMMA CallerWindow ==
    ASSUME TypeOK, FiredPending, NEW t \in Callers, CallerStep(t),
           ~AcquireSlot(t)
    PROVE  ProbesFollow /\ WindowKept
<1>0. row \in CircuitBreakerStateData
  BY Zenon DEF TypeOK
<1> USE DEF CircuitBreakerStateData, WindowKept
<1>1. ProbesFollow
  BY CallerProbes, Zenon
<1>2. CASE row' = row
  BY <1>1, <1>2, Zenon
<1>3. CASE row' = record_success_with_close_check(row)
  BY <1>0, <1>1, <1>3, Zenon DEF record_success_with_close_check
<1>4. CASE row' = reset_failures_keep_open(row)
  BY <1>0, <1>1, <1>4, Zenon DEF reset_failures_keep_open
<1>5. CASE row' = record_failure_with_open_check(row, now)
  BY <1>0, <1>1, <1>5, Zenon DEF record_failure_with_open_check
<1>6. CASE row' = record_failure(row)
  BY <1>0, <1>1, <1>6, Zenon DEF record_failure
<1>7. CASE row' = trip_to_open(row, held[t].failure_count, now)
  BY <1>0, <1>1, <1>7, Zenon DEF trip_to_open
<1>8. pc[t] # "acquire" \/ row' = row
  <2> SUFFICES ASSUME pc[t] = "acquire"
               PROVE  FALSE
    OBVIOUS
  <2> QED
    BY Zenon DEF CallerStep, Admission, Success, Failure, At, StartCall, ReadRow,
       AdmitClosed, AdmitNotClosed, StartTrial, DenySlot, DenyClosed,
       RecordRejection, SucceedReadFree, SucceedSlow, DecideSuccess,
       CloseCheck, AppendSuccess, ResetFailures, Fail, DecideFailure,
       OpenCheck, BeginWrite, CountFailure, EndWrite, ObserveCounted,
       AppendFailure, EvaluateTrip, Trip, ClearAfterPinnedTrip,
       ObserveAttempt, CancelCall
<1>9. CallerRow(t)
  BY CallerTransition, Zenon
<1> QED
  BY <1>2, <1>3, <1>4, <1>5, <1>6, <1>7, <1>8, <1>9, Zenon DEF CallerRow

\* Nor does an operator, a sweep, the clock or the freeze switch, but for the
\* slot reset that force_open and force_close end with.
LEMMA OtherWindow ==
    ASSUME TypeOK, ~ResetSlotsAfterForce,
           OperatorStep \/ SweepStep \/ Tick \/ ToggleFreeze \/ UNCHANGED vars
    PROVE  ProbesFollow /\ WindowKept
<1>0. row \in CircuitBreakerStateData
  BY Zenon DEF TypeOK
<1> USE DEF CircuitBreakerStateData, ProbesFollow, WindowKept, Store, RowKept
<1>1. CASE ForceOpen \/ ForceClose \/ Reset
  BY <1>0, <1>1, Zenon DEF ForceOpen, ForceClose, Reset, atomic_force_open,
     atomic_force_close, atomic_reset, NewRow, reset_half_open_count
<1>2. CASE WriteExtension
  BY <1>0, <1>2, Zenon DEF WriteExtension, set_manual_control
<1>3. CASE ReturnToAuto \/ ClearLapsed \/ MoveToHalfOpen
  BY <1>0, <1>3, Zenon DEF ReturnToAuto, ClearLapsed, MoveToHalfOpen,
     clear_manual_control, update_state_half_open
<1>4. CASE \/ ClearAfterForce \/ ClearAfterReset \/ ReadForExtension
           \/ BumpAfterExtension \/ SnapshotForRecovery \/ RevalidateLapsed
  BY <1>4, Zenon DEF ClearAfterForce, ClearAfterReset, ReadForExtension,
     BumpAfterExtension, SnapshotForRecovery, RevalidateLapsed
<1>5. CASE Tick \/ ToggleFreeze \/ UNCHANGED vars
  BY <1>5, Zenon DEF Tick, ToggleFreeze, vars
<1> QED
  BY <1>1, <1>2, <1>3, <1>4, <1>5, Zenon DEF OperatorStep, SweepStep

\* Acquiring a slot counts one trial call on the row and one in the window,
\* and starts both at one with a new window.
LEMMA AcquireCounts ==
    ASSUME TypeOK, SlotsWithinLimit, ProbesCounted,
           NEW t \in Callers, AcquireSlot(t)
    PROVE  SlotsWithinLimit' /\ ProbesCounted'
<1>0. /\ row \in CircuitBreakerStateData /\ probes \in Nat
      /\ HalfOpenMaxCalls \in Nat \ {0}
  BY RowAssumption, Zenon DEF TypeOK
<1>1. /\ row' = try_acquire_half_open_slot(row, now)
      /\ probes' = IF starts_window(row, now) THEN 1
                   ELSE IF slot_allowed(row, now) THEN probes + 1 ELSE probes
  BY Zenon DEF AcquireSlot
<1> USE DEF CircuitBreakerStateData, SlotsWithinLimit, ProbesCounted
<1>2. CASE starts_window(row, now)
  BY <1>0, <1>1, <1>2 DEF try_acquire_half_open_slot
<1>3. CASE ~starts_window(row, now) /\ slot_allowed(row, now)
  <2>1. row.state = "half_open" /\ row.half_open_request_count < HalfOpenMaxCalls
    BY <1>3, Zenon DEF slot_allowed
  <2>2. /\ row'.half_open_request_count = row.half_open_request_count + 1
        /\ probes' = probes + 1
    BY <1>0, <1>1, <1>3, Zenon DEF try_acquire_half_open_slot
  <2> QED
    BY <1>0, <2>1, <2>2
<1>4. CASE ~starts_window(row, now) /\ ~slot_allowed(row, now)
  BY <1>0, <1>1, <1>4, Zenon DEF try_acquire_half_open_slot
<1> QED
  BY <1>2, <1>3, <1>4, Zenon

\* A step that leaves a lasting window's count alone leaves no trial call
\* uncounted.
LEMMA WindowCounts ==
    ASSUME TypeOK, TypeOK', ProbesCounted, ProbesFollow, WindowKept
    PROVE  ProbesCounted'
<1>1. CASE row' = row /\ probes' = probes
  BY <1>1, Zenon DEF ProbesCounted
<1>2. CASE Store(row')
  <2>1. CASE row.state = "half_open" /\ row'.state = "half_open"
    BY <1>2, <2>1, Zenon DEF Store, ProbesCounted, WindowKept
  <2>2. CASE ~(row.state = "half_open" /\ row'.state = "half_open")
    <3>1. probes' = 0 /\ row'.half_open_request_count \in Nat
      BY <1>2, <2>2, Zenon DEF Store, TypeOK, CircuitBreakerStateData
    <3> QED
      BY <3>1 DEF ProbesCounted
  <2> QED
    BY <2>1, <2>2, Zenon
<1> QED
  BY <1>1, <1>2, Zenon DEF ProbesFollow

\* No primitive takes a slot beyond the limit, whoever applies it.
LEMMA PrimitivesKeepLimit ==
    ASSUME TypeOK, SlotsWithinLimit,
           OtherRow \/ \E t \in Callers : CallerRow(t)
    PROVE  SlotsWithinLimit'
<1>0. row \in CircuitBreakerStateData /\ HalfOpenMaxCalls \in Nat \ {0}
  BY RowAssumption, Zenon DEF TypeOK
<1> USE DEF SlotsWithinLimit, CircuitBreakerStateData
<1>1. CASE \E t \in Callers : CallerRow(t)
  <2>0. PICK t \in Callers : CallerRow(t)
    BY <1>1, Zenon
  <2>1. CASE row' = row
    BY <2>1, Zenon
  <2>2. CASE row' = try_acquire_half_open_slot(row, now)
    <3>1. CASE starts_window(row, now)
      BY <1>0, <2>2, <3>1 DEF try_acquire_half_open_slot
    <3>2. CASE ~starts_window(row, now) /\ slot_allowed(row, now)
      <4>1. row.half_open_request_count < HalfOpenMaxCalls
        BY <3>2, Zenon DEF slot_allowed
      <4> QED
        BY <1>0, <2>2, <3>2, <4>1 DEF try_acquire_half_open_slot
    <3>3. CASE ~starts_window(row, now) /\ ~slot_allowed(row, now)
      BY <2>2, <3>3, Zenon DEF try_acquire_half_open_slot
    <3> QED
      BY <3>1, <3>2, <3>3, Zenon
  <2>3. CASE row' = record_success_with_close_check(row)
    BY <1>0, <2>3 DEF record_success_with_close_check
  <2>4. CASE row' = reset_failures_keep_open(row) \/ row' = record_failure(row)
    BY <1>0, <2>4, Zenon DEF reset_failures_keep_open, record_failure
  <2>5. CASE row' = record_failure_with_open_check(row, now)
    BY <1>0, <2>5 DEF record_failure_with_open_check
  <2>6. CASE row' = trip_to_open(row, held[t].failure_count, now)
    BY <1>0, <2>6 DEF trip_to_open
  <2> QED
    BY <2>0, <2>1, <2>2, <2>3, <2>4, <2>5, <2>6, Zenon DEF CallerRow
<1>2. CASE OtherRow
  <2>1. CASE row' = row
    BY <2>1, Zenon
  <2>2. CASE row' = reset_half_open_count(row)
    BY <1>0, <2>2 DEF reset_half_open_count
  <2>8. CASE row' = clear_manual_control(row)
    BY <1>0, <2>8, Zenon DEF clear_manual_control
  <2>3. CASE row' = atomic_reset(row)
    BY <1>0, <2>3 DEF atomic_reset, NewRow
  <2>4. CASE \E ttl \in OverrideTTLs : row' = atomic_force_open(row, now, ttl)
    BY <1>0, <2>4 DEF atomic_force_open, reset_half_open_count
  <2>5. CASE \E ttl \in OverrideTTLs : row' = atomic_force_close(row, now, ttl)
    BY <1>0, <2>5 DEF atomic_force_close, NewRow
  <2>6. CASE \E st, expires : row' = set_manual_control(row, st, expires, now)
    BY <1>0, <2>6, Zenon DEF set_manual_control
  <2>7. CASE row' = update_state_half_open(row)
    BY <1>0, <2>7, Zenon DEF update_state_half_open
  <2> QED
    BY <1>2, <2>1, <2>2, <2>3, <2>4, <2>5, <2>6, <2>7, <2>8, Zenon DEF OtherRow
<1> QED
  BY <1>1, <1>2, Zenon

\* Every step keeps the trial calls of a window counted on the row, except
\* the slot reset that ends force_open and force_close.
LEMMA CountedStep ==
    ASSUME FiredInv, SlotsWithinLimit, ProbesCounted, [Next]_vars,
           ~ResetSlotsAfterForce
    PROVE  ProbesCounted'
<1>0. TypeOK /\ TypeOK' /\ FiredPending
  BY FiredStep, Zenon DEF FiredInv
<1>1. CASE \E t \in Callers : AcquireSlot(t)
  BY <1>0, <1>1, AcquireCounts, Zenon
<1>2. CASE (\E t \in Callers : CallerStep(t)) /\ ~ \E t \in Callers : AcquireSlot(t)
  BY <1>0, <1>2, CallerWindow, WindowCounts, Zenon
<1>3. CASE OperatorStep \/ SweepStep \/ Tick \/ ToggleFreeze \/ UNCHANGED vars
  BY <1>0, <1>3, OtherWindow, WindowCounts, Zenon
<1> QED
  BY <1>1, <1>2, <1>3, Zenon DEF Next

\* Whatever the callers, operators and sweeps do, the stored row never has
\* more trial slots taken than a window has.
LEMMA LimitAlways == Spec => [](FiredInv /\ SlotsWithinLimit)
<1>1. Init => SlotsWithinLimit
  BY RowAssumption DEF Init, NewRow, SlotsWithinLimit
<1>2. FiredInv /\ SlotsWithinLimit /\ [Next]_vars => SlotsWithinLimit'
  BY StepTransition, PrimitivesKeepLimit, Zenon DEF FiredInv
<1> QED
  BY <1>1, <1>2, FiredAlways, PTL DEF Spec

\* For every set of actors: of all their steps, only the slot reset with
\* which force_open and force_close end makes the row forget trial calls its
\* half-open window has admitted.
THEOREM OnlyForceForgetsProbes ==
    Spec => [][ProbesCounted => ProbesCounted' \/ ResetSlotsAfterForce]_vars
<1>1. FiredInv /\ SlotsWithinLimit /\ [Next]_vars =>
        [ProbesCounted => ProbesCounted' \/ ResetSlotsAfterForce]_vars
  BY CountedStep, Zenon
<1> QED
  BY <1>1, LimitAlways, PTL DEF Spec

NoForceLanes == "force_open" \notin Lanes /\ "force_close" \notin Lanes

\* The operator is not in the middle of forcing an override.
NoForcePending == op \notin {"clear", "reset_slots"}

\* For every number of callers and every limit, with resets, extensions,
\* returns to automatic, both sweeps and the freeze switch landing anywhere: a
\* half-open window admits at most half_open_max_calls trial calls, however
\* its callers race for the last slot.  Forced overrides are left out, because
\* their slot reset is a second critical section that may land in a window
\* opened since the first, and hands its slots out again.
THEOREM ProbeBudgetCorrect ==
    ASSUME NoForceLanes
    PROVE  Spec => []ProbeBudget
<1> DEFINE ProbeInv == ProbesCounted /\ NoForcePending
<1>1. Init => ProbeInv
  BY DEF Init, NewRow, ProbesCounted, NoForcePending
<1>2. FiredInv /\ SlotsWithinLimit /\ ProbeInv /\ [Next]_vars => ProbeInv'
  <2> SUFFICES ASSUME FiredInv, SlotsWithinLimit, ProbeInv, [Next]_vars
               PROVE  ProbeInv'
    OBVIOUS
  <2>1. ~ResetSlotsAfterForce
    BY Zenon DEF ResetSlotsAfterForce, NoForcePending
  <2>2. NoForcePending'
    <3>1. CASE \E t \in Callers : CallerStep(t)
      BY <3>1, CallerTransition, Zenon DEF FiredInv, CallerFrame, NoForcePending
    <3>2. CASE OperatorStep
      BY <3>2, Zenon DEF OperatorStep, ForceOpen, ForceClose, NoForceLanes, Reset,
         ClearAfterForce, ResetSlotsAfterForce, ClearAfterReset,
         ReadForExtension, WriteExtension, BumpAfterExtension, ReturnToAuto,
         OperatorGoto, NoForcePending
    <3>3. CASE SweepStep \/ Tick \/ ToggleFreeze \/ UNCHANGED vars
      BY <3>3, Zenon DEF SweepStep, SnapshotForRecovery, MoveToHalfOpen,
         RevalidateLapsed, ClearLapsed, SweepKeeps, Tick, ToggleFreeze, vars,
         laneVars, NoForcePending
    <3> QED
      BY <3>1, <3>2, <3>3, Zenon DEF Next
  <2> QED
    BY <2>1, <2>2, CountedStep, Zenon
<1>3. FiredInv /\ SlotsWithinLimit /\ ProbeInv => ProbeBudget
  BY CountedIsBudget, Zenon DEF FiredInv
<1> QED
  BY <1>1, <1>2, <1>3, LimitAlways, PTL DEF Spec

-----------------------------------------------------------------------------
(* Freeze mode.                                                            *)

\* While a freeze is in force no caller's step passes the freeze check: it is
\* past the check afterwards only if it was before.
LEMMA FrozenCaller ==
    ASSUME TypeOK, frozen, NEW t \in Callers, CallerStep(t)
    PROVE  pc'[t] \in Decided => pc[t] \in Decided
<1>0. pc \in [Callers -> CallerPc]
  BY Zenon DEF TypeOK
<1>1. \A label : Goto(t, label) => pc'[t] = label
  BY <1>0, Zenon DEF Goto
<1>2. Finish(t) => pc'[t] = "idle"
  BY <1>1, Zenon DEF Finish
<1> USE DEF Decided, At
<1>3. CASE AdmitNotClosed(t)
  <2>1. admission_refusal_reason(held[t], now, frozen) # "none"
    BY Zenon DEF admission_refusal_reason
  <2> QED
    BY <1>1, <1>3, <2>1, Zenon DEF AdmitNotClosed
<1>4. CASE \/ StartCall(t) \/ ReadRow(t, "adm_read", "adm_decide")
           \/ AdmitClosed(t) \/ StartTrial(t) \/ DenySlot(t)
  BY <1>1, <1>4, Zenon DEF StartCall, ReadRow, AdmitClosed, StartTrial, DenySlot
<1>5. CASE \/ DenyClosed(t) \/ RecordRejection(t) \/ CancelCall(t)
           \/ SucceedReadFree(t) \/ ResetFailures(t) \/ ObserveAttempt(t)
           \/ ClearAfterPinnedTrip(t)
  BY <1>2, <1>5, Zenon DEF DenyClosed, RecordRejection, CancelCall, SucceedReadFree,
     ResetFailures, ObserveAttempt, ClearAfterPinnedTrip
<1>6. CASE AcquireSlot(t) \/ CloseCheck(t) \/ OpenCheck(t) \/ Trip(t)
  BY <1>6, Zenon DEF AcquireSlot, CloseCheck, OpenCheck, Trip
<1>7. CASE DecideSuccess(t)
  BY <1>1, <1>2, <1>7, Zenon DEF DecideSuccess, SuccessIgnored
<1>8. CASE DecideFailure(t)
  BY <1>1, <1>2, <1>8, Zenon DEF DecideFailure, FailureIgnored
<1>9. CASE SucceedSlow(t) \/ ReadRow(t, "succ_read", "succ_decide") \/ AppendSuccess(t)
  BY <1>1, <1>2, <1>9, Zenon DEF SucceedSlow, ReadRow, AppendSuccess
<1>10. CASE \/ Fail(t) \/ ReadRow(t, "fail_read", "fail_decide")
            \/ BeginWrite(t) \/ CountFailure(t) \/ EndWrite(t) \/ AppendFailure(t)
  BY <1>1, <1>10, Zenon DEF Fail, ReadRow, BeginWrite, CountFailure, EndWrite,
     AppendFailure
<1>11. CASE ObserveCounted(t) \/ EvaluateTrip(t)
  BY <1>1, <1>2, <1>11, Zenon DEF ObserveCounted, EvaluateTrip
<1> QED
  BY <1>3, <1>4, <1>5, <1>6, <1>7, <1>8, <1>9, <1>10, <1>11, Zenon
     DEF CallerStep, Admission, Success, Failure

\* A caller that is not past the freeze check does not move the row: what it
\* may still write is a count.
LEMMA UndecidedCaller ==
    ASSUME TypeOK, NEW t \in Callers, CallerRow(t), pc[t] \notin Decided
    PROVE  row'.state = row.state
<1>0. row \in CircuitBreakerStateData
  BY Zenon DEF TypeOK
<1>1. \/ row' = row
      \/ row' = reset_failures_keep_open(row)
      \/ row' = record_failure(row)
  BY Zenon DEF CallerRow, Decided
<1> QED
  BY <1>0, <1>1, Zenon DEF CircuitBreakerStateData, reset_failures_keep_open,
     record_failure

\* One step of anyone under a freeze.
LEMMA FreezeStep ==
    ASSUME FiredInv, [Next]_vars, frozen, frozen'
    PROVE  /\ \A t \in Callers : pc'[t] \in Decided => pc[t] \in Decided
           /\ sweeping' => sweeping
           /\ (\A t \in Callers : pc[t] \notin Decided) /\ ~sweeping
                => row'.state = row.state \/ OperatorMoves
<1>0. TypeOK /\ FiredPending
  BY Zenon DEF FiredInv
<1>1. CASE \E t \in Callers : CallerStep(t)
  <2>0. PICK t \in Callers : CallerStep(t)
    BY <1>1, Zenon
  <2>1. CallerRow(t) /\ CallerFrame(t)
    BY <1>0, <2>0, CallerTransition, Zenon
  <2>2. pc'[t] \in Decided => pc[t] \in Decided
    BY <1>0, <2>0, FrozenCaller, Zenon
  <2> QED
    BY <1>0, <2>1, <2>2, UndecidedCaller, Zenon DEF CallerFrame
<1>2. CASE OperatorStep
  <2>1. pc' = pc /\ sweeping' = sweeping /\ OtherRow
    BY <1>2, OperatorTransition, Zenon
  <2>2. /\ reset_half_open_count(row).state = row.state
        /\ clear_manual_control(row).state = row.state
    BY <1>0, Zenon DEF TypeOK, CircuitBreakerStateData, reset_half_open_count,
       clear_manual_control
  <2> QED
    BY <2>1, <2>2, Zenon DEF OtherRow
<1>3. CASE SweepStep
  <2>1. pc' = pc /\ (sweeping' => sweeping)
    BY <1>3 DEF SweepStep, SnapshotForRecovery, MoveToHalfOpen,
       RevalidateLapsed, ClearLapsed, SweepKeeps, callerVars
  <2>2. ~sweeping => row' = row \/ row' = clear_manual_control(row)
    BY <1>3, Zenon DEF SweepStep, SnapshotForRecovery, MoveToHalfOpen,
       RevalidateLapsed, ClearLapsed, RowKept, Store
  <2>3. clear_manual_control(row).state = row.state
    BY <1>0, Zenon DEF TypeOK, CircuitBreakerStateData, clear_manual_control
  <2> QED
    BY <2>1, <2>2, <2>3, Zenon
<1>4. CASE Tick \/ UNCHANGED vars
  BY <1>4 DEF Tick, vars, callerVars, laneVars
<1>5. CASE ToggleFreeze
  BY <1>5, Zenon DEF ToggleFreeze
<1> QED
  BY <1>1, <1>2, <1>3, <1>4, <1>5, Zenon DEF Next

\* For every number of callers and every set of actors: while a freeze lasts
\* nobody passes a freeze check, and once those that had passed it before are
\* through, only an operator moves the stored row.
THEOREM FreezeHoldsCorrect == Spec => FreezeHolds
<1>1. FiredInv /\ [Next]_vars =>
        [frozen /\ frozen' =>
          /\ \A t \in Callers : pc'[t] \in Decided => pc[t] \in Decided
          /\ sweeping' => sweeping
          /\ (\A t \in Callers : pc[t] \notin Decided) /\ ~sweeping
                => row'.state = row.state \/ OperatorMoves]_vars
  BY FreezeStep, Zenon
<1> QED
  BY <1>1, FiredAlways, PTL DEF Spec, FreezeHolds

-----------------------------------------------------------------------------
(* The trip a reached threshold calls for.                                 *)

\* A caller's step leaves what the others hold.
LEMMA HeldFrame ==
    ASSUME TypeOK, NEW t \in Callers, CallerStep(t)
    PROVE  \A u \in Callers \ {t} : held'[u] = held[u]
<1>0. held \in [Callers -> CircuitBreakerStateData]
  BY Zenon DEF TypeOK
<1>1. \A r : Hold(t, r) => \A u \in Callers \ {t} : held'[u] = held[u]
  BY <1>0, Zenon DEF Hold
<1>2. Finish(t) => \A u \in Callers \ {t} : held'[u] = held[u]
  BY <1>0, Zenon DEF Finish
<1>3. Keep => held' = held
  BY Zenon DEF Keep
<1>4. CASE Admission(t)
  BY <1>1, <1>2, <1>3, <1>4, Zenon DEF Admission, StartCall, ReadRow, AdmitClosed,
     AdmitNotClosed, AcquireSlot, StartTrial, DenySlot, DenyClosed,
     RecordRejection
<1>5. CASE Success(t)
  BY <1>1, <1>2, <1>3, <1>5, Zenon DEF Success, SucceedReadFree, SucceedSlow, ReadRow,
     DecideSuccess, CloseCheck, AppendSuccess, ResetFailures
<1>6. CASE Failure(t)
  BY <1>1, <1>2, <1>3, <1>6, Zenon DEF Failure, Fail, ReadRow, DecideFailure,
     OpenCheck, BeginWrite, CountFailure, EndWrite, ObserveCounted,
     AppendFailure, EvaluateTrip, Trip, ClearAfterPinnedTrip
<1>7. CASE ObserveAttempt(t) \/ CancelCall(t)
  BY <1>2, <1>7, Zenon DEF ObserveAttempt, CancelCall
<1> QED
  BY <1>4, <1>5, <1>6, <1>7, Zenon DEF CallerStep

\* The row calls for a trip.
AsksForTrip(r) == r.state = "closed" /\ r.failure_count >= FailureThreshold

\* A caller is on its way to the trip.
Trips(t) ==
    /\ pc[t] \in Tripping
    /\ held[t].state = "closed"
    /\ held[t].failure_count >= FailureThreshold

\* A caller makes a row call for a trip only by counting a failure.
LEMMA OnlyCountsAsk ==
    ASSUME TypeOK, AsksForTrip(row'), ~AsksForTrip(row),
           NEW t \in Callers, CallerRow(t)
    PROVE  pc[t] = "fail_record"
<1>0. row \in CircuitBreakerStateData /\ FailureThreshold \in Nat \ {0}
  BY WindowAssumption, Zenon DEF TypeOK
<1> USE DEF AsksForTrip, CircuitBreakerStateData
<1>2. CASE row' = try_acquire_half_open_slot(row, now)
  BY <1>0, <1>2, Zenon DEF try_acquire_half_open_slot
<1>3. CASE row' = record_success_with_close_check(row)
  BY <1>0, <1>3 DEF record_success_with_close_check
<1>4. CASE row' = reset_failures_keep_open(row)
  BY <1>0, <1>4 DEF reset_failures_keep_open
<1>5. CASE row' = record_failure_with_open_check(row, now)
  BY <1>0, <1>5, Zenon DEF record_failure_with_open_check
<1>6. CASE row' = trip_to_open(row, held[t].failure_count, now)
  BY <1>0, <1>6, Zenon DEF trip_to_open
<1> QED
  BY <1>2, <1>3, <1>4, <1>5, <1>6 DEF CallerRow

\* Nobody else does, an extension that writes back what it read aside.
LEMMA OtherDoNotAsk ==
    ASSUME TypeOK, AsksForTrip(row'), OtherRow,
           ~ \E st, expires : row' = set_manual_control(row, st, expires, now)
    PROVE  AsksForTrip(row)
<1>0. row \in CircuitBreakerStateData /\ FailureThreshold \in Nat \ {0}
  BY WindowAssumption, Zenon DEF TypeOK
<1> USE DEF AsksForTrip, CircuitBreakerStateData
<1>2. CASE row' = reset_half_open_count(row)
  BY <1>0, <1>2, Zenon DEF reset_half_open_count
<1>3. CASE row' = clear_manual_control(row)
  BY <1>0, <1>3, Zenon DEF clear_manual_control
<1>4. CASE row' = atomic_reset(row)
  BY <1>0, <1>4 DEF atomic_reset, NewRow
<1>5. CASE \E ttl \in OverrideTTLs : row' = atomic_force_open(row, now, ttl)
  BY <1>0, <1>5, Zenon DEF atomic_force_open, reset_half_open_count
<1>6. CASE \E ttl \in OverrideTTLs : row' = atomic_force_close(row, now, ttl)
  BY <1>0, <1>6 DEF atomic_force_close, NewRow
<1>7. CASE row' = update_state_half_open(row)
  BY <1>0, <1>7, Zenon DEF update_state_half_open
<1> QED
  BY <1>2, <1>3, <1>4, <1>5, <1>6, <1>7, Zenon DEF OtherRow

\* A caller on its way to the trip stays on it; its trip, if the row is still
\* CLOSED and under no override, opens the row.
LEMMA TripsOn ==
    ASSUME TypeOK, ~frozen, ~row.manually_controlled,
           NEW t \in Callers, CallerStep(t), Trips(t), row'.state = "closed"
    PROVE  pc'[t] \in Tripping /\ held'[t] = held[t]
<1>0. /\ pc \in [Callers -> CallerPc]
      /\ held \in [Callers -> CircuitBreakerStateData]
      /\ row \in CircuitBreakerStateData
  BY Zenon DEF TypeOK
<1>1. \A label : Goto(t, label) => pc'[t] = label
  BY <1>0, Zenon DEF Goto
<1>2. Keep => held' = held
  BY Zenon DEF Keep
<1> USE DEF Tripping, At
<1>3. CASE EndWrite(t) \/ AppendFailure(t)
  BY <1>1, <1>2, <1>3, Zenon DEF EndWrite, AppendFailure
<1>4. CASE ObserveCounted(t)
  BY <1>1, <1>2, <1>4, Zenon DEF ObserveCounted, Trips
<1>5. CASE EvaluateTrip(t)
  <2>1. evaluate_trip(win, held[t].failure_count)
    BY Zenon DEF Trips, evaluate_trip
  <2> QED
    BY <1>1, <1>2, <1>5, <2>1, Zenon DEF EvaluateTrip
<1>6. CASE Trip(t)
  <2>1. row' = trip_to_open(row, held[t].failure_count, now)
    BY <1>6, Zenon DEF Trip, Store
  <2>2. ~is_manual_pin_active(row, now)
    BY Zenon DEF is_manual_pin_active
  <2> QED
    BY <1>0, <2>1, <2>2, Zenon DEF trip_to_open, did_trip, CircuitBreakerStateData
<1>7. \/ EndWrite(t) \/ AppendFailure(t) \/ ObserveCounted(t)
      \/ EvaluateTrip(t) \/ Trip(t)
  BY Zenon DEF Trips, CallerStep, Admission, Success, Failure, StartCall, ReadRow,
     AdmitClosed, AdmitNotClosed, AcquireSlot, StartTrial, DenySlot, DenyClosed,
     RecordRejection, SucceedReadFree, SucceedSlow, DecideSuccess, CloseCheck,
     AppendSuccess, ResetFailures, Fail, DecideFailure, OpenCheck, BeginWrite,
     CountFailure, ClearAfterPinnedTrip, ObserveAttempt, CancelCall
<1> QED
  BY <1>3, <1>4, <1>5, <1>6, <1>7, Zenon

\* The caller that counts a failure on a CLOSED row holds the count it made.
LEMMA CountedTrips ==
    ASSUME TypeOK, NEW t \in Callers, CallerStep(t), pc[t] = "fail_record",
           AsksForTrip(row')
    PROVE  Trips(t)'
<1>0. /\ pc \in [Callers -> CallerPc]
      /\ held \in [Callers -> CircuitBreakerStateData]
  BY Zenon DEF TypeOK
<1>1. CountFailure(t)
  BY Zenon DEF At, CallerStep, Admission, Success, Failure, StartCall, ReadRow,
     AdmitClosed, AdmitNotClosed, AcquireSlot, StartTrial, DenySlot, DenyClosed,
     RecordRejection, SucceedReadFree, SucceedSlow, DecideSuccess, CloseCheck,
     AppendSuccess, ResetFailures, Fail, DecideFailure, OpenCheck, BeginWrite,
     EndWrite, ObserveCounted, AppendFailure, EvaluateTrip, Trip,
     ClearAfterPinnedTrip, ObserveAttempt, CancelCall
<1>2. pc'[t] = "fail_end" /\ held'[t] = row'
  BY <1>0, <1>1, Zenon DEF CountFailure, Goto, Hold, Store
<1> QED
  BY <1>2, Zenon DEF Trips, Tripping, AsksForTrip

\* Without forced overrides no row is under an override, and no extension of
\* one begins.
NeverPinned ==
    ~row.manually_controlled /\ op \notin {"clear", "reset_slots", "extend"}

\* No step but a forced override's puts a row under one.
LEMMA NeverPinnedStep ==
    ASSUME NoForceLanes, FiredInv, NeverPinned, [Next]_vars
    PROVE  /\ NeverPinned'
           /\ ~ \E st, expires : row' = set_manual_control(row, st, expires, now)
<1>0. row \in CircuitBreakerStateData /\ TypeOK /\ FiredPending
  BY Zenon DEF FiredInv, TypeOK
<1> USE DEF NeverPinned, CircuitBreakerStateData
<1>1. CASE \E t \in Callers : CallerStep(t)
  <2>0. PICK t \in Callers : CallerRow(t) /\ CallerFrame(t)
    BY <1>0, <1>1, CallerTransition, Zenon
  <2>1. ~row'.manually_controlled
    <3>1. CASE row' = try_acquire_half_open_slot(row, now)
      BY <1>0, <3>1, Zenon DEF try_acquire_half_open_slot
    <3>2. CASE row' = record_success_with_close_check(row)
      BY <1>0, <3>2, Zenon DEF record_success_with_close_check
    <3>3. CASE row' = reset_failures_keep_open(row)
      BY <1>0, <3>3, Zenon DEF reset_failures_keep_open
    <3>4. CASE row' = record_failure_with_open_check(row, now)
      BY <1>0, <3>4, Zenon DEF record_failure_with_open_check
    <3>5. CASE row' = record_failure(row)
      BY <1>0, <3>5, Zenon DEF record_failure
    <3>6. CASE row' = trip_to_open(row, held[t].failure_count, now)
      BY <1>0, <3>6, Zenon DEF trip_to_open
    <3> QED
      BY <2>0, <3>1, <3>2, <3>3, <3>4, <3>5, <3>6, Zenon DEF CallerRow
  <2> QED
    BY <1>0, <2>0, <2>1, Zenon DEF CallerFrame, set_manual_control
<1>2. CASE OperatorStep
  <2>1. ~row'.manually_controlled
    <3>1. ~ReadForExtension /\ ~WriteExtension /\ ~ForceOpen /\ ~ForceClose
          /\ ~ClearAfterForce /\ ~ResetSlotsAfterForce
      BY Zenon DEF ReadForExtension, WriteExtension, ForceOpen, ForceClose,
         NoForceLanes, ClearAfterForce, ResetSlotsAfterForce
    <3>2. CASE Reset
      BY <3>2, Zenon DEF Reset, Store, atomic_reset, NewRow
    <3>3. CASE ReturnToAuto
      BY <1>0, <3>3, Zenon DEF ReturnToAuto, Store, clear_manual_control
    <3>4. CASE ClearAfterReset \/ BumpAfterExtension
      BY <3>4, Zenon DEF ClearAfterReset, BumpAfterExtension, RowKept
    <3> QED
      BY <1>2, <3>1, <3>2, <3>3, <3>4, Zenon DEF OperatorStep
  <2>2. op' \notin {"clear", "reset_slots", "extend"}
    BY <1>2, Zenon DEF OperatorStep, ForceOpen, ForceClose, NoForceLanes, Reset,
       ClearAfterForce, ResetSlotsAfterForce, ClearAfterReset,
       ReadForExtension, WriteExtension, BumpAfterExtension, ReturnToAuto,
       OperatorGoto
  <2> QED
    BY <1>0, <2>1, <2>2, Zenon DEF set_manual_control
<1>3. CASE SweepStep \/ Tick \/ ToggleFreeze \/ UNCHANGED vars
  <2>1. op' = op
    BY <1>3, Zenon DEF SweepStep, SnapshotForRecovery, MoveToHalfOpen,
       RevalidateLapsed, ClearLapsed, SweepKeeps, Tick, ToggleFreeze, vars,
       laneVars
  <2>2. ~row'.manually_controlled
    BY <1>0, <1>3, Zenon DEF SweepStep, SnapshotForRecovery, MoveToHalfOpen,
       RevalidateLapsed, ClearLapsed, Tick, ToggleFreeze, vars, RowKept, Store,
       update_state_half_open, clear_manual_control
  <2> QED
    BY <1>0, <2>1, <2>2, Zenon DEF set_manual_control
<1> QED
  BY <1>1, <1>2, <1>3, Zenon DEF Next

\* Every step leaves somebody on the way to the trip a row calls for.
LEMMA TripOwedStep ==
    ASSUME NoForceLanes, "freeze" \notin Lanes, FiredInv, NeverPinned, ~frozen,
           TripOwed, [Next]_vars
    PROVE  TripOwed'
<1> SUFFICES ASSUME AsksForTrip(row')
             PROVE  \E t \in Callers : Trips(t)'
  BY Zenon DEF TripOwed, AsksForTrip, Trips
<1>0. TypeOK /\ FiredPending
  BY Zenon DEF FiredInv
<1>1. CASE \E t \in Callers : CallerStep(t)
  <2>0. PICK t \in Callers : CallerStep(t)
    BY <1>1, Zenon
  <2>1. CallerRow(t) /\ CallerFrame(t)
    BY <1>0, <2>0, CallerTransition, Zenon
  <2>2. CASE pc[t] = "fail_record"
    BY <1>0, <2>0, <2>2, CountedTrips, Zenon
  <2>3. CASE pc[t] # "fail_record"
    <3>1. AsksForTrip(row)
      BY <1>0, <2>1, <2>3, OnlyCountsAsk, Zenon
    <3>2. PICK u \in Callers : Trips(u)
      BY <3>1, Zenon DEF TripOwed, AsksForTrip, Trips
    <3>3. pc'[u] \in Tripping /\ held'[u] = held[u]
      <4>1. CASE u = t
        BY <1>0, <2>0, <3>2, <4>1, TripsOn, Zenon DEF NeverPinned, AsksForTrip
      <4>2. CASE u # t
        BY <1>0, <2>0, <2>1, <3>2, <4>2, HeldFrame, Zenon DEF CallerFrame, Trips
      <4> QED
        BY <4>1, <4>2, Zenon
    <3> QED
      BY <3>2, <3>3, Zenon DEF Trips
  <2> QED
    BY <2>2, <2>3, Zenon
<1>2. CASE OperatorStep \/ SweepStep \/ Tick \/ ToggleFreeze \/ UNCHANGED vars
  <2>1. OtherRow /\ pc' = pc
    BY <1>2, OperatorTransition, OtherTransition, Zenon
  <2>2. held' = held
    BY <1>2, Zenon DEF OperatorStep, OperatorGoto, ForceOpen, ForceClose, Reset,
       ClearAfterForce, ResetSlotsAfterForce, ClearAfterReset, ReadForExtension,
       WriteExtension, BumpAfterExtension, ReturnToAuto, SweepStep,
       SnapshotForRecovery, MoveToHalfOpen, RevalidateLapsed, ClearLapsed,
       SweepKeeps, Tick, ToggleFreeze, vars, callerVars
  <2>3. AsksForTrip(row)
    BY <1>0, <2>1, NeverPinnedStep, OtherDoNotAsk, Zenon
  <2> QED
    BY <2>1, <2>2, <2>3, Zenon DEF TripOwed, AsksForTrip, Trips
<1> QED
  BY <1>1, <1>2, Zenon DEF Next

\* Freeze mode stays off where nobody switches it.
LEMMA ThawedStep ==
    ASSUME "freeze" \notin Lanes, ~frozen, [Next]_vars
    PROVE  ~frozen'
<1>1. CASE \E t \in Callers : CallerStep(t)
  <2>1. \A t, label : Goto(t, label) => frozen' = frozen
    BY Zenon DEF Goto, env
  <2>2. \A t : Finish(t) => frozen' = frozen
    BY <2>1, Zenon DEF Finish
  <2> QED
    BY <1>1, <2>1, <2>2, Zenon DEF CallerStep, Admission, Success, Failure, StartCall,
       ReadRow, AdmitClosed, AdmitNotClosed, AcquireSlot, StartTrial, DenySlot,
       DenyClosed, RecordRejection, SucceedReadFree, SucceedSlow, DecideSuccess,
       CloseCheck, AppendSuccess, ResetFailures, Fail, DecideFailure, OpenCheck,
       BeginWrite, CountFailure, EndWrite, ObserveCounted, AppendFailure,
       EvaluateTrip, Trip, ClearAfterPinnedTrip, ObserveAttempt, CancelCall
<1>2. CASE OperatorStep
  BY <1>2, Zenon DEF OperatorStep, OperatorGoto, ForceOpen, ForceClose, Reset,
     ClearAfterForce, ResetSlotsAfterForce, ClearAfterReset, ReadForExtension,
     WriteExtension, BumpAfterExtension, ReturnToAuto
<1>3. CASE SweepStep \/ Tick \/ ToggleFreeze \/ UNCHANGED vars
  BY <1>3, Zenon DEF SweepStep, SnapshotForRecovery, MoveToHalfOpen, RevalidateLapsed,
     ClearLapsed, SweepKeeps, Tick, ToggleFreeze, vars
<1> QED
  BY <1>1, <1>2, <1>3, Zenon DEF Next

\* For every number of callers and every threshold: whenever the stored row is
\* CLOSED with its count at the threshold, a caller that counted that far is on
\* its way to the trip.  What is left of ThresholdTrips is that this caller
\* runs.  An override or a freeze may stop it at the trip, so force_open,
\* force_close and the freeze switch are left out.
THEOREM TripOwedCorrect ==
    ASSUME NoForceLanes, "freeze" \notin Lanes
    PROVE  Spec => []TripOwed
<1> DEFINE TripInv == NeverPinned /\ ~frozen /\ TripOwed
<1>1. Init => TripInv
  BY WindowAssumption DEF Init, NewRow, NeverPinned, TripOwed
<1>2. FiredInv /\ TripInv /\ [Next]_vars => TripInv'
  BY NeverPinnedStep, ThawedStep, TripOwedStep, Zenon
<1> QED
  BY <1>1, <1>2, FiredAlways, PTL DEF Spec

=============================================================================
