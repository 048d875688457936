------------------------ MODULE CircuitBreakerProofs ------------------------
(***************************************************************************)
(* Theorems about the circuit breaker, for any number of callers and any   *)
(* configuration.                                                          *)
(***************************************************************************)
EXTENDS CircuitBreaker, TLAPS

Data == CircuitBreakerStateData

\* Every repository primitive maps a well-formed row to a well-formed row.
LEMMA RowPrimitivesType ==
    ASSUME NEW r \in Data, NEW n \in Nat, NEW ttl \in Nat, NEW st \in CircuitState
    PROVE  /\ NewRow \in Data
           /\ [NewRow EXCEPT !.state = st] \in Data
           /\ [r EXCEPT !.state = st] \in Data
           /\ record_failure(r) \in Data
           /\ reset_failures_keep_open(r) \in Data
           /\ update_state_half_open(r) \in Data
           /\ record_failure_with_open_check(r, n) \in Data
           /\ record_success_with_close_check(r) \in Data
           /\ trip_to_open(r, ttl, n) \in Data
           /\ try_acquire_half_open_slot(r, n) \in Data
           /\ reset_half_open_count(r) \in Data
           /\ atomic_force_open(r, n, ttl) \in Data
           /\ atomic_force_close(r, n, ttl) \in Data
           /\ atomic_reset(r) \in Data
           /\ set_manual_control(r, st, ttl, n) \in Data
           /\ clear_manual_control(r) \in Data
<1> USE DEF Data, CircuitBreakerStateData, CircuitState, Timestamp, None
<1>1. NewRow \in Data /\ [NewRow EXCEPT !.state = st] \in Data
  BY Zenon DEF NewRow
<1>2. [r EXCEPT !.state = st] \in Data
  OBVIOUS
<1>3. record_failure(r) \in Data
  BY DEF record_failure
<1>4. reset_failures_keep_open(r) \in Data
  BY Zenon DEF reset_failures_keep_open
<1>5. update_state_half_open(r) \in Data
  BY Zenon DEF update_state_half_open
<1>6. record_failure_with_open_check(r, n) \in Data
  BY Zenon DEF record_failure_with_open_check
<1>7. record_success_with_close_check(r) \in Data
  <2>1. CASE did_close(r)
    BY <2>1, Zenon DEF record_success_with_close_check
  <2>2. CASE ~did_close(r)
    BY <2>2 DEF record_success_with_close_check
  <2> QED
    BY <2>1, <2>2, Zenon
<1>8. trip_to_open(r, ttl, n) \in Data
  BY Zenon DEF trip_to_open
<1>9. try_acquire_half_open_slot(r, n) \in Data
  <2>1. CASE starts_window(r, n)
    BY <2>1, Zenon DEF try_acquire_half_open_slot
  <2>2. CASE ~starts_window(r, n) /\ slot_allowed(r, n)
    <3>1. r.half_open_request_count + 1 \in Nat
      OBVIOUS
    <3>2. CASE r.half_open_window_started_at = None
      BY <2>2, <3>1, <3>2, Zenon DEF try_acquire_half_open_slot
    <3>3. CASE r.half_open_window_started_at # None
      BY <2>2, <3>1, <3>3, Zenon DEF try_acquire_half_open_slot
    <3> QED
      BY <3>2, <3>3, Zenon
  <2>3. CASE ~starts_window(r, n) /\ ~slot_allowed(r, n)
    BY <2>3, Zenon DEF try_acquire_half_open_slot
  <2> QED
    BY <2>1, <2>2, <2>3, Zenon
<1>10. reset_half_open_count(r) \in Data
  BY Zenon DEF reset_half_open_count
<1>11. atomic_force_open(r, n, ttl) \in Data
  <2>1. n + ttl \in Nat
    OBVIOUS
  <2> QED
    BY <1>10, <2>1, Zenon DEF atomic_force_open
<1>12. atomic_force_close(r, n, ttl) \in Data /\ atomic_reset(r) \in Data
  <2>1. n + ttl \in Nat
    OBVIOUS
  <2> QED
    BY <1>1, <2>1, Zenon DEF atomic_force_close, atomic_reset
<1>13. set_manual_control(r, st, ttl, n) \in Data
  BY Zenon DEF set_manual_control
<1>14. clear_manual_control(r) \in Data
  BY Zenon DEF clear_manual_control
<1> QED
  BY <1>1, <1>2, <1>3, <1>4, <1>5, <1>6, <1>7, <1>8, <1>9, <1>10, <1>11,
     <1>12, <1>13, <1>14, Zenon

\* Every window method maps a well-formed window to a well-formed window.
LEMMA WindowMethodsType ==
    ASSUME NEW w \in Window, NEW t \in Callers, NEW st \in CircuitState,
           NEW valid \in BOOLEAN,
           NEW x \in {FAILURE_OUTCOME, SUCCESS_OUTCOME}
    PROVE  /\ epoch_of(w, t) \in Window
           /\ forget_epoch(w, t) \in Window
           /\ bump(w) \in Window
           /\ append_outcome(w, x) \in Window
           /\ record_outcome_failure(w) \in Window
           /\ record_rejection(w) \in Window
           /\ record_success_if_epoch(w, t) \in Window
           /\ begin_write(w, t) \in Window
           /\ end_write(w, t) \in Window
           /\ clear(w) \in Window
           /\ observe_state(w, st, valid) \in Window
<1> DEFINE Outcome == {FAILURE_OUTCOME, SUCCESS_OUTCOME}
<1>1. ASSUME NEW o \in Outcome PROVE append_outcome(w, o) \in Window
  <2>1. w.ring \in Seq(Outcome)
    BY Zenon DEF Window
  <2>2. Append(w.ring, o) \in Seq(Outcome) /\ Append(w.ring, o) # <<>>
    BY <1>1, <2>1
  <2>3. Tail(Append(w.ring, o)) \in Seq(Outcome)
    BY <2>2
  <2> QED
    BY <2>2, <2>3, Zenon DEF append_outcome, Window
<1>2. append_outcome(w, FAILURE_OUTCOME) \in Window
      /\ append_outcome(w, SUCCESS_OUTCOME) \in Window
  BY <1>1, Zenon
<1>3. <<>> \in Seq(Outcome)
  OBVIOUS
<1>4. observe_state(w, st, valid) \in Window
  BY <1>3, Zenon DEF observe_state, bump, Window, CircuitState
<1> QED
  BY <1>1, <1>2, <1>3, <1>4, Zenon DEF epoch_of, forget_epoch, bump, record_outcome_failure,
     record_rejection, record_success_if_epoch, begin_write, end_write,
     clear, Window

-----------------------------------------------------------------------------
(* The parts of TypeOK that the shorthands of a step preserve.             *)

EnvType ==
    /\ now \in 0..MaxTime
    /\ frozen \in BOOLEAN
    /\ op \in OperatorPc
    /\ op_row \in Data
    /\ sweeping \in BOOLEAN
    /\ expiring \in BOOLEAN

LocalType == held \in [Callers -> Data] /\ fired \in [Callers -> BOOLEAN]

StoredType == row \in Data /\ probes \in Nat

PcType == pc \in [Callers -> CallerPc]

\* TypeOK is the conjunction of its parts, before a step and after it.
LEMMA TypeParts ==
    /\ TypeOK <=>
          EnvType /\ LocalType /\ StoredType /\ PcType /\ win \in Window
    /\ TypeOK' <=>
          EnvType' /\ LocalType' /\ StoredType' /\ PcType' /\ win' \in Window
  BY Zenon DEF TypeOK, EnvType, LocalType, StoredType, PcType, Data

\* What a caller's control step leaves well-formed.
LEMMA GotoType ==
    ASSUME TypeOK, NEW t \in Callers, NEW label \in CallerPc, Goto(t, label)
    PROVE  PcType' /\ EnvType'
  BY TypeParts, Zenon DEF Goto, env, laneVars, PcType, EnvType

\* Finishing a call leaves the caller's locals well-formed.
LEMMA FinishType ==
    ASSUME TypeOK, NEW t \in Callers, Finish(t)
    PROVE  PcType' /\ EnvType' /\ LocalType'
<1>1. NewRow \in Data
  BY Zenon DEF Data, CircuitBreakerStateData, NewRow, CircuitState, Timestamp, None
<1>2. PcType' /\ EnvType'
  BY GotoType, Zenon DEF Finish, CallerPc
<1>3. LocalType'
  BY <1>1, TypeParts, Zenon DEF Finish, LocalType
<1> QED
  BY <1>2, <1>3, Zenon

\* Storing a well-formed row leaves the repository well-formed.
LEMMA StoreType ==
    ASSUME TypeOK, NEW r \in Data, Store(r)
    PROVE  StoredType'
  BY TypeParts, Zenon DEF Store, StoredType

\* Keeping the row, or the caller's locals, keeps their types.
LEMMA KeptType ==
    ASSUME TypeOK
    PROVE  /\ RowKept => StoredType'
           /\ Keep => LocalType'
           /\ UNCHANGED win => win' \in Window
  BY TypeParts, Zenon DEF RowKept, Keep, StoredType, LocalType

\* What a caller holds is well-formed.
LEMMA HoldType ==
    ASSUME TypeOK, NEW t \in Callers, NEW r \in Data, NEW b \in BOOLEAN,
           Hold(t, r),
           fired' = fired \/ fired' = [fired EXCEPT ![t] = b]
    PROVE  LocalType'
  BY TypeParts, Zenon DEF Hold, LocalType
-----------------------------------------------------------------------------
(* Type correctness.                                                       *)

\* Every window method a step applies yields a window.
LEMMA WindowStepType ==
    ASSUME TypeOK, NEW t \in Callers
    PROVE  /\ epoch_of(win, t) \in Window
           /\ observe_read(t) \in Window
           /\ forget_epoch(observe_read(t), t) \in Window
           /\ observe_state(win, held[t].state, TRUE) \in Window
           /\ forget_epoch(observe_state(win, held[t].state, TRUE), t) \in Window
           /\ forget_epoch(win, t) \in Window
           /\ forget_epoch(record_rejection(win), t) \in Window
           /\ forget_epoch(record_success_if_epoch(win, t), t) \in Window
           /\ record_outcome_failure(win) \in Window
           /\ begin_write(win, t) \in Window
           /\ end_write(win, t) \in Window
           /\ clear(win) \in Window
           /\ bump(win) \in Window
<1>1. win \in Window /\ held[t].state \in CircuitState
  BY Zenon DEF TypeOK, CircuitBreakerStateData
<1>2. FAILURE_OUTCOME \in {FAILURE_OUTCOME, SUCCESS_OUTCOME}
  OBVIOUS
<1>3. is_current(win, t) \in BOOLEAN
  BY DEF is_current
<1>4. observe_read(t) \in Window
  BY <1>1, <1>2, <1>3, WindowMethodsType, Zenon DEF observe_read
<1>5. /\ observe_state(win, held[t].state, TRUE) \in Window
      /\ record_rejection(win) \in Window
      /\ record_success_if_epoch(win, t) \in Window
      /\ epoch_of(win, t) \in Window
      /\ forget_epoch(win, t) \in Window
      /\ record_outcome_failure(win) \in Window
      /\ begin_write(win, t) \in Window
      /\ end_write(win, t) \in Window
      /\ clear(win) \in Window
      /\ bump(win) \in Window
  BY <1>1, <1>2, WindowMethodsType, Zenon
<1>6. \A w \in Window : forget_epoch(w, t) \in Window
  BY <1>1, <1>2, WindowMethodsType, Zenon
<1> QED
  BY <1>4, <1>5, <1>6, Zenon

\* A step of a caller preserves the types.
LEMMA CallerTypeStep ==
    ASSUME TypeOK, NEW t \in Callers, CallerStep(t)
    PROVE  TypeOK'
<1> USE DEF CallerPc
<1>0. /\ row \in Data /\ held[t] \in Data /\ now \in Nat /\ probes \in Nat
      /\ held[t].failure_count \in Nat /\ held[t].state \in CircuitState
  BY ServiceAssumption DEF TypeOK, Data, CircuitBreakerStateData
<1>a. "half_open" \in CircuitState
  BY Zenon DEF CircuitState
<1>1. CASE StartCall(t)
  BY <1>1, TypeParts, GotoType, KeptType, WindowStepType, Zenon DEF StartCall
<1>2. ASSUME NEW a \in CallerPc, NEW b \in CallerPc, ReadRow(t, a, b)
      PROVE  TypeOK'
  BY <1>0, <1>2, TypeParts, GotoType, KeptType, HoldType, Zenon DEF ReadRow
<1>3. CASE AdmitClosed(t)
  BY <1>3, TypeParts, GotoType, KeptType, WindowStepType, Zenon DEF AdmitClosed
<1>4. CASE AdmitNotClosed(t)
  BY <1>4, TypeParts, GotoType, KeptType, WindowStepType, Zenon DEF AdmitNotClosed
<1>5. CASE AcquireSlot(t)
  <2> DEFINE after == try_acquire_half_open_slot(row, now)
  <2>1. after \in Data /\ after.state \in CircuitState
    BY <1>0, <1>a, RowPrimitivesType, Zenon DEF Data, CircuitBreakerStateData
  <2>2. [held[t] EXCEPT !.state = after.state] \in Data
    BY <1>0, <2>1, RowPrimitivesType, Zenon
  <2>3. StoredType'
    BY <1>0, <1>5, <2>1 DEF AcquireSlot, StoredType
  <2>4. LocalType'
    BY <1>5, <2>2, HoldType, Zenon DEF AcquireSlot
  <2>5. PcType' /\ EnvType'
    BY <1>5, GotoType, Zenon DEF AcquireSlot
  <2> QED
    BY <1>5, <2>3, <2>4, <2>5, TypeParts, KeptType, Zenon DEF AcquireSlot
<1>6. CASE StartTrial(t)
  <2>1. [NewRow EXCEPT !.state = held[t].state] \in Data
    BY <1>0, RowPrimitivesType, Zenon
  <2>2. LocalType'
    BY <1>6, <2>1, HoldType, Zenon DEF StartTrial
  <2> QED
    BY <1>6, <2>2, TypeParts, GotoType, KeptType, WindowStepType, Zenon DEF StartTrial
<1>7. CASE DenySlot(t)
  BY <1>7, TypeParts, GotoType, KeptType, WindowStepType, Zenon DEF DenySlot
<1>8. CASE DenyClosed(t)
  BY <1>8, TypeParts, FinishType, KeptType, WindowStepType, Zenon DEF DenyClosed
<1>9. CASE RecordRejection(t)
  BY <1>9, TypeParts, FinishType, KeptType, WindowStepType, Zenon DEF RecordRejection
<1>10. CASE CancelCall(t)
  BY <1>10, TypeParts, FinishType, KeptType, WindowStepType, Zenon DEF CancelCall
<1>11. CASE SucceedReadFree(t)
  BY <1>11, TypeParts, FinishType, KeptType, WindowStepType, Zenon DEF SucceedReadFree
<1>12. CASE SucceedSlow(t)
  BY <1>12, TypeParts, GotoType, KeptType, WindowStepType, Zenon DEF SucceedSlow
<1>13. CASE DecideSuccess(t)
  BY <1>13, TypeParts, GotoType, FinishType, KeptType, WindowStepType, Zenon
     DEF DecideSuccess
<1>14. CASE CloseCheck(t)
  <2>1. record_success_with_close_check(row) \in Data
    BY <1>0, <1>a, RowPrimitivesType, Zenon
  <2>2. did_close(row) \in BOOLEAN
    BY Zenon DEF did_close
  <2>3. StoredType' /\ LocalType'
    BY <1>14, <2>1, <2>2, StoreType, HoldType, Zenon DEF CloseCheck
  <2> QED
    BY <1>14, <2>3, TypeParts, GotoType, KeptType, Zenon DEF CloseCheck
<1>15. CASE AppendSuccess(t)
  BY <1>15, TypeParts, GotoType, FinishType, KeptType, WindowStepType, Zenon
     DEF AppendSuccess
<1>16. CASE ResetFailures(t)
  <2>1. reset_failures_keep_open(row) \in Data
    BY <1>0, <1>a, RowPrimitivesType, Zenon
  <2> QED
    BY <1>16, <2>1, TypeParts, StoreType, FinishType, KeptType, Zenon DEF ResetFailures
<1>17. CASE ObserveAttempt(t)
  BY <1>17, TypeParts, FinishType, KeptType, WindowStepType, Zenon DEF ObserveAttempt
<1>18. CASE Fail(t)
  BY <1>18, TypeParts, GotoType, KeptType, WindowStepType, Zenon DEF Fail
<1>19. CASE DecideFailure(t)
  BY <1>19, TypeParts, GotoType, FinishType, KeptType, WindowStepType, Zenon
     DEF DecideFailure
<1>20. CASE OpenCheck(t)
  <2>1. record_failure_with_open_check(row, now) \in Data
    BY <1>0, <1>a, RowPrimitivesType, Zenon
  <2>2. did_open(row) \in BOOLEAN
    BY Zenon DEF did_open
  <2>3. StoredType' /\ LocalType'
    BY <1>20, <2>1, <2>2, StoreType, HoldType, Zenon DEF OpenCheck
  <2> QED
    BY <1>20, <2>3, TypeParts, GotoType, KeptType, Zenon DEF OpenCheck
<1>21. CASE BeginWrite(t)
  BY <1>21, TypeParts, GotoType, KeptType, WindowStepType, Zenon DEF BeginWrite
<1>22. CASE CountFailure(t)
  <2>1. record_failure(row) \in Data
    BY <1>0, <1>a, RowPrimitivesType, Zenon
  <2>2. StoredType' /\ LocalType'
    BY <1>22, <2>1, StoreType, HoldType, Zenon DEF CountFailure
  <2> QED
    BY <1>22, <2>2, TypeParts, GotoType, KeptType, Zenon DEF CountFailure
<1>23. CASE EndWrite(t)
  BY <1>23, TypeParts, GotoType, KeptType, WindowStepType, Zenon DEF EndWrite
<1>24. CASE ObserveCounted(t)
  BY <1>24, TypeParts, GotoType, FinishType, KeptType, WindowStepType, Zenon
     DEF ObserveCounted
<1>25. CASE AppendFailure(t)
  BY <1>25, TypeParts, GotoType, KeptType, WindowStepType, Zenon DEF AppendFailure
<1>26. CASE EvaluateTrip(t)
  BY <1>26, TypeParts, GotoType, FinishType, KeptType, Zenon DEF EvaluateTrip
<1>27. CASE Trip(t)
  <2>1. trip_to_open(row, held[t].failure_count, now) \in Data
    BY <1>0, <1>a, RowPrimitivesType, Zenon
  <2>2. did_trip(row, now) \in BOOLEAN
    BY Zenon DEF did_trip
  <2>3. StoredType' /\ LocalType'
    BY <1>27, <2>1, <2>2, StoreType, HoldType, Zenon DEF Trip
  <2> QED
    BY <1>27, <2>3, TypeParts, GotoType, KeptType, Zenon DEF Trip
<1>28. CASE ClearAfterPinnedTrip(t)
  BY <1>28, TypeParts, FinishType, KeptType, WindowStepType, Zenon
     DEF ClearAfterPinnedTrip
<1> QED
  BY <1>1, <1>2, <1>3, <1>4, <1>5, <1>6, <1>7, <1>8, <1>9, <1>10, <1>11,
     <1>12, <1>13, <1>14, <1>15, <1>16, <1>17, <1>18, <1>19, <1>20, <1>21,
     <1>22, <1>23, <1>24, <1>25, <1>26, <1>27, <1>28, Zenon
     DEF CallerStep, Admission, Success, Failure

\* A step of the operator preserves the types.
LEMMA OperatorTypeStep ==
    ASSUME TypeOK, OperatorStep
    PROVE  TypeOK'
<1>0. /\ row \in Data /\ op_row \in Data /\ now \in Nat
      /\ op_row.state \in CircuitState
      /\ op_row.manual_override_expires_at \in Timestamp
      /\ OverrideTTLs \subseteq Nat
  BY ServiceAssumption DEF TypeOK, Data, CircuitBreakerStateData
<1>a. 0 \in Nat /\ "open" \in CircuitState
  BY Zenon DEF CircuitState
<1>b. ASSUME NEW label \in OperatorPc, OperatorGoto(label), op_row' \in Data
      PROVE  PcType' /\ LocalType' /\ EnvType'
  BY <1>b, TypeParts, Zenon
     DEF OperatorGoto, callerVars, PcType, LocalType, EnvType
<1>c. clear(win) \in Window /\ bump(win) \in Window
  <2>1. /\ win \in Window /\ <<>> \in Seq({FAILURE_OUTCOME, SUCCESS_OUTCOME})
    BY DEF TypeOK
  <2> QED
    BY <2>1, Zenon DEF clear, bump, Window
<1>d. UNCHANGED op_row => op_row' \in Data
  BY <1>0, Zenon
<1> USE DEF OperatorPc
<1>1. CASE ForceOpen
  <2>1. \A ttl \in OverrideTTLs : atomic_force_open(row, now, ttl) \in Data
    BY <1>0, <1>a, RowPrimitivesType, Zenon
  <2>2. StoredType'
    BY <1>1, <2>1, StoreType, Zenon DEF ForceOpen
  <2> QED
    BY <1>1, <1>b, <1>d, <2>2, TypeParts, KeptType, Zenon DEF ForceOpen
<1>2. CASE ForceClose
  <2>1. \A ttl \in OverrideTTLs : atomic_force_close(row, now, ttl) \in Data
    BY <1>0, <1>a, RowPrimitivesType, Zenon
  <2>2. StoredType'
    BY <1>2, <2>1, StoreType, Zenon DEF ForceClose
  <2> QED
    BY <1>2, <1>b, <1>d, <2>2, TypeParts, KeptType, Zenon DEF ForceClose
<1>3. CASE Reset
  <2>1. atomic_reset(row) \in Data
    BY <1>0, <1>a, RowPrimitivesType, Zenon
  <2> QED
    BY <1>3, <1>b, <1>d, <2>1, StoreType, TypeParts, KeptType, Zenon DEF Reset
<1>4. CASE ClearAfterForce
  BY <1>4, <1>b, <1>c, <1>d, TypeParts, KeptType, Zenon DEF ClearAfterForce
<1>5. CASE ResetSlotsAfterForce
  <2>1. reset_half_open_count(row) \in Data
    BY <1>0, <1>a, RowPrimitivesType, Zenon
  <2> QED
    BY <1>5, <1>b, <1>d, <2>1, StoreType, TypeParts, KeptType, Zenon
       DEF ResetSlotsAfterForce
<1>6. CASE ClearAfterReset
  BY <1>6, <1>b, <1>c, <1>d, TypeParts, KeptType, Zenon DEF ClearAfterReset
<1>7. CASE ReadForExtension
  BY <1>0, <1>7, <1>b, TypeParts, KeptType, Zenon DEF ReadForExtension
<1>8. CASE WriteExtension
  <2> DEFINE expiry == op_row.manual_override_expires_at
             base == IF expiry = None \/ expiry < now THEN now ELSE expiry
  <2>1. \A ttl \in OverrideTTLs : base + ttl \in Nat
    BY <1>0 DEF Timestamp, None
  <2>2. \A ttl \in OverrideTTLs :
           set_manual_control(row, op_row.state, base + ttl, now) \in Data
    BY <1>0, <2>1, RowPrimitivesType, Zenon
  <2>3. StoredType'
    BY <1>8, <2>2, StoreType, Zenon DEF WriteExtension
  <2>4. op_row' \in Data
    BY <1>0, <1>8, <1>a, RowPrimitivesType, Zenon DEF WriteExtension
  <2> QED
    BY <1>8, <1>b, <2>3, <2>4, TypeParts, KeptType, Zenon DEF WriteExtension
<1>9. CASE BumpAfterExtension
  BY <1>9, <1>b, <1>c, <1>d, TypeParts, KeptType, Zenon DEF BumpAfterExtension
<1>10. CASE ReturnToAuto
  <2>1. clear_manual_control(row) \in Data
    BY <1>0, <1>a, RowPrimitivesType, Zenon
  <2> QED
    BY <1>10, <1>b, <1>d, <2>1, StoreType, TypeParts, KeptType, Zenon DEF ReturnToAuto
<1> QED
  BY <1>1, <1>2, <1>3, <1>4, <1>5, <1>6, <1>7, <1>8, <1>9, <1>10, Zenon
     DEF OperatorStep

\* A step of a sweep, the clock or the freeze switch preserves the types.
LEMMA SweepTypeStep ==
    ASSUME TypeOK, SweepStep \/ Tick \/ ToggleFreeze
    PROVE  TypeOK'
<1>0. /\ row \in Data /\ now \in Nat /\ MaxTime \in Nat
      /\ update_state_half_open(row) \in Data
      /\ clear_manual_control(row) \in Data
  <2>1. row \in Data /\ now \in Nat /\ MaxTime \in Nat
        /\ "open" \in CircuitState
    BY ServiceAssumption DEF TypeOK, Data, CircuitState
  <2> QED
    BY <2>1, RowPrimitivesType, Zenon
<1>1. CASE SweepStep
  <2>1. StoredType'
    BY <1>0, <1>1, StoreType, KeptType, Zenon
       DEF SweepStep, SnapshotForRecovery, MoveToHalfOpen, RevalidateLapsed,
           ClearLapsed
  <2>2. /\ SweepKeeps
        /\ sweeping' \in BOOLEAN /\ expiring' \in BOOLEAN
    BY <1>1, Zenon DEF TypeOK, SweepStep, SnapshotForRecovery, MoveToHalfOpen,
                RevalidateLapsed, ClearLapsed
  <2> QED
    BY <2>1, <2>2, TypeParts, Zenon
       DEF SweepKeeps, callerVars, EnvType, PcType, LocalType
<1>2. CASE Tick
  <2>1. now' \in 0..MaxTime
    BY <1>0, <1>2 DEF Tick
  <2> QED
    BY <1>2, <2>1, Zenon DEF Tick, TypeOK, callerVars, laneVars
<1>3. CASE ToggleFreeze
  <2>1. frozen' \in BOOLEAN
    BY <1>3, Zenon DEF ToggleFreeze
  <2> QED
    BY <1>3, <2>1, Zenon DEF ToggleFreeze, TypeOK, callerVars, laneVars
<1> QED
  BY <1>1, <1>2, <1>3, Zenon

\* Every step, and stuttering, preserves the types.
LEMMA TypeStep == TypeOK /\ [Next]_vars => TypeOK'
<1> SUFFICES ASSUME TypeOK, [Next]_vars PROVE TypeOK'
  OBVIOUS
<1>1. CASE UNCHANGED vars
  BY <1>1, Zenon DEF vars, callerVars, laneVars, TypeOK
<1>2. CASE Next
  BY <1>2, CallerTypeStep, OperatorTypeStep, SweepTypeStep, Zenon DEF Next
<1> QED
  BY <1>1, <1>2, Zenon

\* The initial state is well-formed.
LEMMA TypeInit == Init => TypeOK
<1>1. NewRow \in CircuitBreakerStateData
  BY Zenon DEF CircuitBreakerStateData, NewRow, CircuitState, Timestamp, None
<1>2. NewWindow \in Window
  BY DEF NewWindow, Window
<1>3. 0 \in 0..MaxTime /\ 0 \in Nat
  BY ServiceAssumption
<1>4. /\ [t \in Callers |-> "idle"] \in [Callers -> CallerPc]
      /\ "idle" \in OperatorPc
  BY Zenon DEF CallerPc, OperatorPc
<1>5. [t \in Callers |-> FALSE] \in [Callers -> BOOLEAN]
  OBVIOUS
<1>6. [t \in Callers |-> NewRow] \in [Callers -> CircuitBreakerStateData]
  BY <1>1, Zenon
<1> QED
  BY <1>1, <1>2, <1>3, <1>4, <1>5, <1>6, Zenon DEF Init, TypeOK

\* The breaker's state stays well-formed: no primitive, window method or
\* stale write-back of service.py and manual_control.py ever stores a value
\* outside its type (in particular no counter goes negative).
THEOREM TypeCorrect == Spec => []TypeOK
<1>1. Init => TypeOK
  BY TypeInit, Zenon
<1>2. TypeOK /\ [Next]_vars => TypeOK'
  BY TypeStep, Zenon
<1> QED
  BY <1>1, <1>2, PTL DEF Spec

-----------------------------------------------------------------------------
(* The read-free success path.                                             *)
(*                                                                         *)
(* A hint is the row an admission read, kept while the call runs.  It is   *)
(* current when the window's epoch has not moved since before that read.   *)

Hinted == {"adm_decide", "running"}

Writing == {"fail_record", "fail_end"}

\* A caller between begin_write and end_write is marked in flight.
InFlightMarked == \A t \in Callers : pc[t] \in Writing => t \in win.in_flight

\* While no failure write is in flight, a current hint that shows a CLOSED
\* row without failures tells the truth about the stored count.
HintsSound ==
    \A t \in Callers :
        /\ t \in win.current
        /\ pc[t] \in Hinted
        /\ held[t].state = "closed"
        /\ held[t].failure_count = 0
        /\ win.in_flight = {}
        => (row.state = "closed" => row.failure_count = 0)

\* No extension of an override is under way.
NoExtension == op \notin {"extend", "bump"}

HintInv == TypeOK /\ InFlightMarked /\ HintsSound /\ NoExtension

\* How the window methods treat the captured epochs and the marker.
LEMMA WindowMethodsShape ==
    ASSUME NEW w \in Window, NEW t \in Callers, NEW st, NEW valid \in BOOLEAN
    PROVE  /\ epoch_of(w, t).current = w.current \cup {t}
           /\ epoch_of(w, t).in_flight = w.in_flight
           /\ forget_epoch(w, t).current = w.current \ {t}
           /\ forget_epoch(w, t).in_flight = w.in_flight
           /\ observe_state(w, st, valid).current \subseteq w.current
           /\ observe_state(w, st, valid).in_flight = w.in_flight
           /\ record_rejection(w).current = w.current
           /\ record_rejection(w).in_flight = w.in_flight
           /\ record_success_if_epoch(w, t).current = w.current
           /\ record_success_if_epoch(w, t).in_flight = w.in_flight
           /\ record_outcome_failure(w).current = {}
           /\ record_outcome_failure(w).in_flight = w.in_flight
           /\ begin_write(w, t).current = w.current
           /\ begin_write(w, t).in_flight = w.in_flight \cup {t}
           /\ end_write(w, t).current = {}
           /\ end_write(w, t).in_flight = w.in_flight \ {t}
           /\ clear(w).current = {} /\ clear(w).in_flight = w.in_flight
           /\ bump(w).current = {} /\ bump(w).in_flight = w.in_flight
<1>1. observe_state(w, st, valid).current \subseteq w.current
      /\ observe_state(w, st, valid).in_flight = w.in_flight
  <2>1. CASE w.last_seen = st \/ ~valid
    BY <2>1, Zenon DEF observe_state
  <2>2. CASE ~(w.last_seen = st \/ ~valid) /\ w.last_seen = "none"
    BY <2>2, Zenon DEF observe_state, Window
  <2>3. CASE ~(w.last_seen = st \/ ~valid) /\ w.last_seen # "none"
    BY <2>3, Zenon DEF observe_state, bump, Window
  <2> QED
    BY <2>1, <2>2, <2>3, Zenon
<1>2. ASSUME NEW x PROVE /\ append_outcome(w, x).current = w.current
                         /\ append_outcome(w, x).in_flight = w.in_flight
                         /\ bump(append_outcome(w, x)).current = {}
                         /\ bump(append_outcome(w, x)).in_flight = w.in_flight
  BY Zenon DEF append_outcome, bump, Window
<1> QED
  BY <1>1, <1>2, Zenon DEF epoch_of, forget_epoch, bump, record_outcome_failure,
     record_rejection, record_success_if_epoch, begin_write, end_write, clear,
     Window

\* A CLOSED row that counts failures.
Counting(r) == r.state = "closed" /\ r.failure_count # 0

\* Only record_failure and an extension can make a row Counting.
LEMMA PrimitivesKeepCount ==
    ASSUME NEW r \in Data, NEW n \in Nat, NEW k \in Nat
    PROVE  /\ Counting(reset_failures_keep_open(r)) => Counting(r)
           /\ Counting(update_state_half_open(r)) => Counting(r)
           /\ Counting(record_failure_with_open_check(r, n)) => Counting(r)
           /\ Counting(record_success_with_close_check(r)) => Counting(r)
           /\ Counting(trip_to_open(r, k, n)) => Counting(r)
           /\ Counting(try_acquire_half_open_slot(r, n)) => Counting(r)
           /\ Counting(reset_half_open_count(r)) => Counting(r)
           /\ Counting(atomic_force_open(r, n, k)) => Counting(r)
           /\ Counting(atomic_force_close(r, n, k)) => Counting(r)
           /\ Counting(atomic_reset(r)) => Counting(r)
           /\ Counting(clear_manual_control(r)) => Counting(r)
<1> USE DEF Counting, Data, CircuitBreakerStateData
<1>1. Counting(reset_failures_keep_open(r)) => Counting(r)
  BY Zenon DEF reset_failures_keep_open
<1>2. Counting(update_state_half_open(r)) => Counting(r)
  BY Zenon DEF update_state_half_open
<1>3. Counting(record_failure_with_open_check(r, n)) => Counting(r)
  BY Zenon DEF record_failure_with_open_check
<1>4. Counting(record_success_with_close_check(r)) => Counting(r)
  BY Zenon DEF record_success_with_close_check
<1>5. Counting(trip_to_open(r, k, n)) => Counting(r)
  BY Zenon DEF trip_to_open
<1>6. Counting(try_acquire_half_open_slot(r, n)) => Counting(r)
  BY Zenon DEF try_acquire_half_open_slot
<1>7. Counting(reset_half_open_count(r)) => Counting(r)
  BY Zenon DEF reset_half_open_count
<1>8. Counting(atomic_force_open(r, n, k)) => Counting(r)
  BY Zenon DEF atomic_force_open, reset_half_open_count
<1>9. Counting(atomic_force_close(r, n, k)) => Counting(r)
  BY Zenon DEF atomic_force_close, NewRow
<1>10. Counting(atomic_reset(r)) => Counting(r)
  BY Zenon DEF atomic_reset, NewRow
<1>11. Counting(clear_manual_control(r)) => Counting(r)
  BY Zenon DEF clear_manual_control
<1> QED
  BY <1>1, <1>2, <1>3, <1>4, <1>5, <1>6, <1>7, <1>8, <1>9, <1>10, <1>11, Zenon

\* How a caller's step treats the epochs, the marker, the count and hints.
CallerShape(t) ==
    /\ \A u \in Callers \ {t} : pc'[u] = pc[u] /\ held'[u] = held[u]
    /\ win'.current \subseteq win.current \cup {t}
    /\ win.in_flight \subseteq win'.in_flight \cup {t}
    /\ win.in_flight \subseteq win'.in_flight \/ win'.current = {}
    /\ pc'[t] \in Writing => t \in win'.in_flight
    /\ Counting(row') => Counting(row) \/ win'.in_flight # {}
    /\ pc'[t] \in Hinted /\ t \in win'.current =>
          /\ row' = row
          /\ \/ held'[t] = row
             \/ pc[t] \in Hinted /\ held'[t] = held[t] /\ t \in win.current

\* A step that moves control and applies a window method that only drops
\* captures, or the caller's own capture, has that shape.
LEMMA QuietShape ==
    ASSUME TypeOK, NEW t \in Callers, RowKept,
           NEW label \in CallerPc, Goto(t, label),
           label \notin Hinted, label \notin Writing,
           \A u \in Callers \ {t} : held'[u] = held[u],
           win'.in_flight = win.in_flight,
           win'.current \subseteq win.current \cup {t}
    PROVE  CallerShape(t)
<1>1. pc' = [pc EXCEPT ![t] = label] /\ row' = row /\ pc'[t] = label
      /\ \A u \in Callers \ {t} : pc'[u] = pc[u]
  BY Zenon DEF Goto, RowKept, TypeOK
<1> QED
  BY <1>1, Zenon DEF CallerShape

\* Finishing a call, or keeping the locals, leaves other callers' rows alone.
LEMMA LocalFrame ==
    ASSUME TypeOK, NEW t \in Callers, NEW r,
           Keep \/ Finish(t) \/ Hold(t, r)
    PROVE  \A u \in Callers \ {t} : held'[u] = held[u]
  BY Zenon DEF Keep, Finish, Hold, TypeOK

\* What an observation under the captured epoch does to them.
LEMMA ObserveReadShape ==
    ASSUME win \in Window, NEW t \in Callers
    PROVE  /\ observe_read(t).in_flight = win.in_flight
           /\ observe_read(t).current \subseteq win.current
<1> DEFINE st == held[t].state
           valid == is_current(win, t)
<1>1. valid \in BOOLEAN
  BY DEF is_current
<1>2. observe_read(t) = observe_state(win, st, valid)
  BY Zenon DEF observe_read
<1> HIDE DEF st, valid
<1>3. /\ observe_state(win, st, valid).in_flight = win.in_flight
      /\ observe_state(win, st, valid).current \subseteq win.current
  BY <1>1, WindowMethodsShape
<1> QED
  BY <1>2, <1>3, Zenon

\* The captures and the marker after each window method a caller applies.
LEMMA WindowStepShape ==
    ASSUME TypeOK, NEW t \in Callers
    PROVE  \A w \in {win, epoch_of(win, t), observe_read(t),
                     forget_epoch(observe_read(t), t),
                     observe_state(win, held[t].state, TRUE),
                     forget_epoch(observe_state(win, held[t].state, TRUE), t),
                     forget_epoch(win, t),
                     forget_epoch(record_rejection(win), t),
                     forget_epoch(record_success_if_epoch(win, t), t),
                     record_outcome_failure(win), clear(win)} :
              /\ w.in_flight = win.in_flight
              /\ w.current \subseteq win.current \cup {t}
<1>1. win \in Window
  BY Zenon DEF TypeOK
<1>2. is_current(win, t) \in BOOLEAN
  BY DEF is_current
<1>3. /\ observe_state(win, held[t].state, TRUE) \in Window
      /\ observe_read(t) \in Window
      /\ record_rejection(win) \in Window
      /\ record_success_if_epoch(win, t) \in Window
  <2>1. held[t].state \in CircuitState
        /\ FAILURE_OUTCOME \in {FAILURE_OUTCOME, SUCCESS_OUTCOME}
    BY Zenon DEF TypeOK, CircuitBreakerStateData
  <2> QED
    BY <1>1, <1>2, <2>1, WindowMethodsType, Zenon DEF observe_read
<1>4. /\ observe_read(t).in_flight = win.in_flight
      /\ observe_read(t).current \subseteq win.current
  BY <1>1, ObserveReadShape, Zenon
<1>5. ASSUME NEW w \in Window
      PROVE  /\ forget_epoch(w, t).in_flight = w.in_flight
             /\ forget_epoch(w, t).current \subseteq w.current
  BY Zenon DEF forget_epoch, Window
<1>6. /\ observe_state(win, held[t].state, TRUE).in_flight = win.in_flight
      /\ observe_state(win, held[t].state, TRUE).current \subseteq win.current
  <2> DEFINE st == held[t].state
  <2>1. CASE win.last_seen = st
    BY <2>1, Zenon DEF observe_state
  <2>2. CASE win.last_seen # st /\ win.last_seen = "none"
    BY <1>1, <2>2, Zenon DEF observe_state, Window
  <2>3. CASE win.last_seen # st /\ win.last_seen # "none"
    BY <1>1, <2>3, Zenon DEF observe_state, bump, Window
  <2> QED
    BY <2>1, <2>2, <2>3, Zenon
<1>7. /\ epoch_of(win, t).current = win.current \cup {t}
      /\ epoch_of(win, t).in_flight = win.in_flight
      /\ clear(win).current = {} /\ clear(win).in_flight = win.in_flight
  BY <1>1, Zenon DEF epoch_of, clear, bump, Window
<1>8. /\ record_rejection(win).current = win.current
      /\ record_rejection(win).in_flight = win.in_flight
      /\ record_success_if_epoch(win, t).current = win.current
      /\ record_success_if_epoch(win, t).in_flight = win.in_flight
      /\ record_outcome_failure(win).current = {}
      /\ record_outcome_failure(win).in_flight = win.in_flight
  <2>1. ASSUME NEW x PROVE /\ append_outcome(win, x).current = win.current
                           /\ append_outcome(win, x).in_flight = win.in_flight
                           /\ bump(append_outcome(win, x)).current = {}
                           /\ bump(append_outcome(win, x)).in_flight = win.in_flight
    BY <1>1, Zenon DEF append_outcome, bump, Window
  <2> QED
    BY <2>1, Zenon DEF record_rejection, record_success_if_epoch, record_outcome_failure
<1>9. ASSUME NEW w \in Window, w.in_flight = win.in_flight,
             w.current \subseteq win.current
      PROVE  /\ forget_epoch(w, t).in_flight = win.in_flight
             /\ forget_epoch(w, t).current \subseteq win.current
  BY <1>5, <1>9, Zenon
<1>10. /\ forget_epoch(win, t).in_flight = win.in_flight
       /\ forget_epoch(win, t).current \subseteq win.current
       /\ forget_epoch(observe_read(t), t).in_flight = win.in_flight
       /\ forget_epoch(observe_read(t), t).current \subseteq win.current
  BY <1>1, <1>3, <1>4, <1>9, Zenon
<1>11. LET w == forget_epoch(observe_state(win, held[t].state, TRUE), t)
       IN  w.in_flight = win.in_flight /\ w.current \subseteq win.current
  BY <1>3, <1>6, <1>9, Zenon
<1>12. LET w == forget_epoch(record_rejection(win), t)
       IN  w.in_flight = win.in_flight /\ w.current \subseteq win.current
  BY <1>3, <1>8, <1>9, Zenon
<1>13. LET w == forget_epoch(record_success_if_epoch(win, t), t)
       IN  w.in_flight = win.in_flight /\ w.current \subseteq win.current
  BY <1>3, <1>8, <1>9, Zenon
<1> QED
  BY <1>4, <1>6, <1>7, <1>8, <1>10, <1>11, <1>12, <1>13, Zenon

\* Every step of a caller has that shape.
LEMMA CallerStepShape ==
    ASSUME TypeOK, InFlightMarked, NEW t \in Callers, CallerStep(t)
    PROVE  CallerShape(t)
<1> USE DEF CallerPc, Hinted, Writing
<1>0. /\ row \in Data /\ now \in Nat /\ held[t].failure_count \in Nat
      /\ win \in Window
  BY ServiceAssumption DEF TypeOK, Data, CircuitBreakerStateData
<1>f. ASSUME NEW label \in CallerPc, Goto(t, label)
      PROVE  /\ pc'[t] = label
             /\ \A u \in Callers \ {t} : pc'[u] = pc[u]
  BY <1>f, Zenon DEF Goto, TypeOK
<1>g. Finish(t) => Goto(t, "idle")
  BY Zenon DEF Finish
<1>1. CASE StartCall(t)
  BY <1>1, QuietShape, LocalFrame, WindowStepShape, Zenon DEF StartCall
<1>2. CASE ReadRow(t, "adm_read", "adm_decide")
  <2>1. /\ held'[t] = row /\ row' = row /\ win' = win
        /\ \A u \in Callers \ {t} : held'[u] = held[u]
    BY <1>2, Zenon DEF ReadRow, Hold, RowKept, TypeOK
  <2>2. /\ pc'[t] = "adm_decide"
        /\ \A u \in Callers \ {t} : pc'[u] = pc[u]
    BY <1>2, <1>f, Zenon DEF ReadRow
  <2> QED
    BY <2>1, <2>2, Zenon DEF CallerShape
<1>3. CASE \/ ReadRow(t, "succ_read", "succ_decide")
           \/ ReadRow(t, "fail_read", "fail_decide")
  BY <1>3, QuietShape, LocalFrame, WindowStepShape, Zenon DEF ReadRow
<1>4. CASE AdmitClosed(t)
  <2>1. /\ held' = held /\ row' = row /\ pc[t] = "adm_decide"
        /\ win' = observe_read(t)
    BY <1>4, Zenon DEF AdmitClosed, Keep, RowKept, At
  <2>2. pc'[t] = "running" /\ \A u \in Callers \ {t} : pc'[u] = pc[u]
    BY <1>4, <1>f, Zenon DEF AdmitClosed
  <2>3. win'.in_flight = win.in_flight /\ win'.current \subseteq win.current
    BY <1>0, <2>1, ObserveReadShape, Zenon
  <2> QED
    BY <2>1, <2>2, <2>3, Zenon DEF CallerShape
<1>5. CASE AdmitNotClosed(t)
  BY <1>5, QuietShape, LocalFrame, WindowStepShape, Zenon DEF AdmitNotClosed
<1>6. CASE AcquireSlot(t)
  <2>1. /\ win' = win /\ row' = try_acquire_half_open_slot(row, now)
        /\ \A u \in Callers \ {t} : held'[u] = held[u]
    BY <1>6, Zenon DEF AcquireSlot, Hold, TypeOK
  <2>2. pc'[t] \in {"trial", "denied"} /\ \A u \in Callers \ {t} : pc'[u] = pc[u]
    BY <1>6, <1>f, Zenon DEF AcquireSlot
  <2>3. Counting(row') => Counting(row)
    BY <1>0, <2>1, PrimitivesKeepCount, Zenon
  <2> QED
    BY <2>1, <2>2, <2>3, Zenon DEF CallerShape
<1>7. CASE StartTrial(t)
  <2> DEFINE w == observe_state(win, held[t].state, TRUE)
  <2>1. /\ row' = row /\ win' = forget_epoch(w, t)
        /\ \A u \in Callers \ {t} : held'[u] = held[u]
    BY <1>7, Zenon DEF StartTrial, Hold, RowKept, TypeOK
  <2>2. pc'[t] = "running" /\ \A u \in Callers \ {t} : pc'[u] = pc[u]
    BY <1>7, <1>f, Zenon DEF StartTrial
  <2>3. w \in Window
    BY WindowStepType, Zenon
  <2>4. t \notin win'.current
    BY <2>1, <2>3, Zenon DEF forget_epoch, Window
  <2>5. /\ win'.in_flight = win.in_flight
        /\ win'.current \subseteq win.current \cup {t}
    BY <2>1, WindowStepShape, Zenon
  <2> QED
    BY <2>1, <2>2, <2>4, <2>5, Zenon DEF CallerShape
<1>8. CASE DenySlot(t)
  BY <1>8, QuietShape, LocalFrame, WindowStepShape, Zenon DEF DenySlot
<1>9. CASE DenyClosed(t)
  BY <1>9, <1>g, QuietShape, LocalFrame, WindowStepShape, Zenon DEF DenyClosed
<1>10. CASE RecordRejection(t)
  BY <1>10, <1>g, QuietShape, LocalFrame, WindowStepShape, Zenon DEF RecordRejection
<1>11. CASE CancelCall(t)
  BY <1>11, <1>g, QuietShape, LocalFrame, WindowStepShape, Zenon DEF CancelCall
<1>12. CASE SucceedReadFree(t)
  BY <1>12, <1>g, QuietShape, LocalFrame, WindowStepShape, Zenon DEF SucceedReadFree
<1>13. CASE SucceedSlow(t)
  BY <1>13, QuietShape, LocalFrame, WindowStepShape, Zenon DEF SucceedSlow
<1>14. CASE DecideSuccess(t)
  BY <1>14, <1>g, QuietShape, LocalFrame, WindowStepShape, Zenon DEF DecideSuccess
<1>15. CASE CloseCheck(t)
  <2>1. /\ win' = win /\ row' = record_success_with_close_check(row)
        /\ \A u \in Callers \ {t} : held'[u] = held[u]
    BY <1>15, Zenon DEF CloseCheck, Store, Hold, TypeOK
  <2>2. pc'[t] = "observe_attempt" /\ \A u \in Callers \ {t} : pc'[u] = pc[u]
    BY <1>15, <1>f, Zenon DEF CloseCheck
  <2>3. Counting(row') => Counting(row)
    BY <1>0, <2>1, PrimitivesKeepCount, Zenon
  <2> QED
    BY <2>1, <2>2, <2>3, Zenon DEF CallerShape
<1>16. CASE AppendSuccess(t)
  BY <1>16, <1>g, QuietShape, LocalFrame, WindowStepShape, Zenon DEF AppendSuccess
<1>17. CASE ResetFailures(t)
  <2>1. /\ win' = win /\ row' = reset_failures_keep_open(row)
        /\ \A u \in Callers \ {t} : held'[u] = held[u]
    BY <1>17, LocalFrame, Zenon DEF ResetFailures, Store
  <2>2. pc'[t] = "idle" /\ \A u \in Callers \ {t} : pc'[u] = pc[u]
    BY <1>17, <1>f, <1>g, Zenon DEF ResetFailures
  <2>3. Counting(row') => Counting(row)
    BY <1>0, <2>1, PrimitivesKeepCount, Zenon
  <2> QED
    BY <2>1, <2>2, <2>3, Zenon DEF CallerShape
<1>18. CASE ObserveAttempt(t)
  BY <1>18, <1>g, QuietShape, LocalFrame, WindowStepShape, Zenon DEF ObserveAttempt
<1>19. CASE Fail(t)
  BY <1>19, QuietShape, LocalFrame, WindowStepShape, Zenon DEF Fail
<1>20. CASE DecideFailure(t)
  BY <1>20, <1>g, QuietShape, LocalFrame, WindowStepShape, Zenon DEF DecideFailure
<1>21. CASE OpenCheck(t)
  <2>1. /\ win' = win /\ row' = record_failure_with_open_check(row, now)
        /\ \A u \in Callers \ {t} : held'[u] = held[u]
    BY <1>21, Zenon DEF OpenCheck, Store, Hold, TypeOK
  <2>2. pc'[t] = "observe_attempt" /\ \A u \in Callers \ {t} : pc'[u] = pc[u]
    BY <1>21, <1>f, Zenon DEF OpenCheck
  <2>3. Counting(row') => Counting(row)
    BY <1>0, <2>1, PrimitivesKeepCount, Zenon
  <2> QED
    BY <2>1, <2>2, <2>3, Zenon DEF CallerShape
<1>22. CASE BeginWrite(t)
  <2>1. /\ row' = row /\ win' = begin_write(win, t) /\ held' = held
    BY <1>22, Zenon DEF BeginWrite, RowKept, Keep
  <2>2. pc'[t] = "fail_record" /\ \A u \in Callers \ {t} : pc'[u] = pc[u]
    BY <1>22, <1>f, Zenon DEF BeginWrite
  <2>3. win'.current = win.current /\ win'.in_flight = win.in_flight \cup {t}
    BY <1>0, <2>1, Zenon DEF begin_write, Window
  <2> QED
    BY <2>1, <2>2, <2>3, Zenon DEF CallerShape
<1>23. CASE CountFailure(t)
  <2>1. /\ win' = win /\ pc[t] = "fail_record"
        /\ \A u \in Callers \ {t} : held'[u] = held[u]
    BY <1>23, Zenon DEF CountFailure, Hold, At, TypeOK
  <2>2. pc'[t] = "fail_end" /\ \A u \in Callers \ {t} : pc'[u] = pc[u]
    BY <1>23, <1>f, Zenon DEF CountFailure
  <2>3. t \in win.in_flight
    BY <2>1, Zenon DEF InFlightMarked
  <2> QED
    BY <2>1, <2>2, <2>3, Zenon DEF CallerShape
<1>24. CASE EndWrite(t)
  <2>1. /\ row' = row /\ win' = end_write(win, t) /\ held' = held
    BY <1>24, Zenon DEF EndWrite, RowKept, Keep
  <2>2. pc'[t] = "fail_observe" /\ \A u \in Callers \ {t} : pc'[u] = pc[u]
    BY <1>24, <1>f, Zenon DEF EndWrite
  <2>3. win'.current = {} /\ win'.in_flight = win.in_flight \ {t}
    BY <1>0, <2>1, WindowMethodsShape, Zenon
  <2> QED
    BY <2>1, <2>2, <2>3, Zenon DEF CallerShape
<1>25. CASE ObserveCounted(t)
  BY <1>25, <1>g, QuietShape, LocalFrame, WindowStepShape, Zenon DEF ObserveCounted
<1>26. CASE AppendFailure(t)
  BY <1>26, QuietShape, LocalFrame, WindowStepShape, Zenon DEF AppendFailure
<1>27. CASE EvaluateTrip(t)
  BY <1>27, <1>g, QuietShape, LocalFrame, WindowStepShape, Zenon DEF EvaluateTrip
<1>28. CASE Trip(t)
  <2>1. /\ win' = win
        /\ row' = trip_to_open(row, held[t].failure_count, now)
        /\ \A u \in Callers \ {t} : held'[u] = held[u]
    BY <1>28, Zenon DEF Trip, Store, Hold, TypeOK
  <2>2. /\ pc'[t] \in {"trip_clear", "observe_attempt"}
        /\ \A u \in Callers \ {t} : pc'[u] = pc[u]
    BY <1>28, <1>f, Zenon DEF Trip
  <2>3. Counting(row') => Counting(row)
    BY <1>0, <2>1, PrimitivesKeepCount, Zenon
  <2> QED
    BY <2>1, <2>2, <2>3, Zenon DEF CallerShape
<1>29. CASE ClearAfterPinnedTrip(t)
  BY <1>29, <1>g, QuietShape, LocalFrame, WindowStepShape, Zenon
     DEF ClearAfterPinnedTrip
<1> QED
  BY <1>1, <1>2, <1>3, <1>4, <1>5, <1>6, <1>7, <1>8, <1>9, <1>10, <1>11,
     <1>12, <1>13, <1>14, <1>15, <1>16, <1>17, <1>18, <1>19, <1>20, <1>21,
     <1>22, <1>23, <1>24, <1>25, <1>26, <1>27, <1>28, <1>29, Zenon
     DEF CallerStep, Admission, Success, Failure

\* A step of that shape keeps the hints sound.
LEMMA CallerHintStep ==
    ASSUME HintInv, NEW t \in Callers, CallerShape(t)
    PROVE  InFlightMarked' /\ HintsSound'
<1>1. InFlightMarked'
  <2> SUFFICES ASSUME NEW u \in Callers, pc'[u] \in Writing
               PROVE  u \in win'.in_flight
    BY Zenon DEF InFlightMarked
  <2> QED
    BY Zenon DEF CallerShape, HintInv, InFlightMarked
<1>2. HintsSound'
  <2> SUFFICES ASSUME NEW u \in Callers, u \in win'.current,
                      pc'[u] \in Hinted, held'[u].state = "closed",
                      held'[u].failure_count = 0, win'.in_flight = {},
                      Counting(row')
               PROVE  FALSE
    BY Zenon DEF HintsSound, Counting
  <2>1. Counting(row) /\ win.in_flight = {}
    BY Zenon DEF CallerShape
  <2>2. CASE u # t
    BY <2>1, <2>2, Zenon DEF CallerShape, HintInv, HintsSound, Counting
  <2>3. CASE u = t
    BY <2>1, <2>3, Zenon DEF CallerShape, HintInv, HintsSound, Counting
  <2> QED
    BY <2>2, <2>3, Zenon
<1> QED
  BY <1>1, <1>2, Zenon

\* So does a step of anyone else that moves no caller and counts no failure.
LEMMA OtherHintStep ==
    ASSUME HintInv, pc' = pc, held' = held,
           win'.current \subseteq win.current,
           win'.in_flight = win.in_flight,
           Counting(row') => Counting(row)
    PROVE  InFlightMarked' /\ HintsSound'
  BY Zenon DEF HintInv, InFlightMarked, HintsSound, Counting

\* Operator steps preserve the hint invariant (no extension is under way).
LEMMA OperatorHintStep ==
    ASSUME HintInv, "extend" \notin Lanes, OperatorStep
    PROVE  InFlightMarked' /\ HintsSound' /\ NoExtension'
<1>0. /\ row \in Data /\ now \in Nat /\ win \in Window
      /\ OverrideTTLs \subseteq Nat
  BY ServiceAssumption DEF HintInv, TypeOK, Data, CircuitBreakerStateData
<1>1. \A label : OperatorGoto(label) => op' = label /\ pc' = pc /\ held' = held
  BY Zenon DEF OperatorGoto, callerVars
<1>2. clear(win).current = {} /\ clear(win).in_flight = win.in_flight
  BY <1>0, Zenon DEF clear, bump, Window
<1>3. CASE ForceOpen
  <2>1. PICK k \in Nat : row' = atomic_force_open(row, now, k)
    BY <1>0, <1>3, Zenon DEF ForceOpen, Store
  <2>2. Counting(row') => Counting(row)
    BY <1>0, <2>1, PrimitivesKeepCount, Zenon
  <2> QED
    BY <1>1, <1>3, <2>2, OtherHintStep DEF ForceOpen, NoExtension
<1>4. CASE ForceClose
  <2>1. PICK k \in Nat : row' = atomic_force_close(row, now, k)
    BY <1>0, <1>4, Zenon DEF ForceClose, Store
  <2>2. Counting(row') => Counting(row)
    BY <1>0, <2>1, PrimitivesKeepCount, Zenon
  <2> QED
    BY <1>1, <1>4, <2>2, OtherHintStep DEF ForceClose, NoExtension
<1>5. CASE Reset
  <2>1. Counting(row') => Counting(row)
    BY <1>0, <1>5, PrimitivesKeepCount, Zenon DEF Reset, Store
  <2>2. /\ op' = "reset_clear" /\ pc' = pc /\ held' = held
        /\ win' = win
    BY <1>1, <1>5, Zenon DEF Reset
  <2> QED
    BY <2>1, <2>2, OtherHintStep, Zenon DEF NoExtension
<1>6. CASE ClearAfterForce \/ ClearAfterReset
  <2>1. /\ op' \in {"reset_slots", "idle"} /\ pc' = pc /\ held' = held
        /\ row' = row /\ win' = clear(win)
    BY <1>1, <1>6, Zenon DEF ClearAfterForce, ClearAfterReset, RowKept
  <2>2. win'.current \subseteq win.current /\ win'.in_flight = win.in_flight
    BY <1>2, <2>1, Zenon
  <2>3. InFlightMarked' /\ HintsSound'
    BY <2>1, <2>2, OtherHintStep, Zenon
  <2> QED
    BY <2>1, <2>3, Zenon DEF NoExtension
<1>7. CASE ResetSlotsAfterForce
  <2>1. Counting(row') => Counting(row)
    BY <1>0, <1>7, PrimitivesKeepCount, Zenon DEF ResetSlotsAfterForce, Store
  <2> QED
    BY <1>1, <1>7, <2>1, OtherHintStep DEF ResetSlotsAfterForce, NoExtension
<1>8. CASE ReadForExtension \/ WriteExtension \/ BumpAfterExtension
  BY <1>8, Zenon DEF ReadForExtension, WriteExtension, BumpAfterExtension, HintInv,
     NoExtension
<1>9. CASE ReturnToAuto
  <2>1. Counting(row') => Counting(row)
    BY <1>0, <1>9, PrimitivesKeepCount, Zenon DEF ReturnToAuto, Store
  <2> QED
    BY <1>1, <1>9, <2>1, OtherHintStep DEF ReturnToAuto, NoExtension
<1> QED
  BY <1>3, <1>4, <1>5, <1>6, <1>7, <1>8, <1>9, Zenon DEF OperatorStep

\* The sweeps preserve the hint invariant.
LEMMA SweepHintStep ==
    ASSUME HintInv, SweepStep
    PROVE  InFlightMarked' /\ HintsSound' /\ NoExtension'
<1>0. row \in Data /\ now \in Nat
  BY ServiceAssumption DEF HintInv, TypeOK, Data, CircuitBreakerStateData
<1>1. SweepKeeps => pc' = pc /\ held' = held /\ win' = win /\ op' = op
  BY Zenon DEF SweepKeeps, callerVars
<1>2. Counting(row') => Counting(row)
  <2>1. CASE SnapshotForRecovery \/ RevalidateLapsed
    BY <2>1, Zenon DEF SnapshotForRecovery, RevalidateLapsed, RowKept
  <2>2. CASE MoveToHalfOpen \/ ClearLapsed
    BY <1>0, <2>2, PrimitivesKeepCount, Zenon DEF MoveToHalfOpen, ClearLapsed, Store
  <2> QED
    BY <2>1, <2>2, Zenon DEF SweepStep
<1>3. SweepKeeps
  BY Zenon DEF SweepStep, SnapshotForRecovery, MoveToHalfOpen, RevalidateLapsed,
     ClearLapsed
<1> QED
  BY <1>1, <1>2, <1>3, OtherHintStep, Zenon DEF HintInv, NoExtension

\* Every step of the system preserves the hint invariant.
LEMMA HintStep ==
    ASSUME "extend" \notin Lanes, HintInv, [Next]_vars
    PROVE  HintInv'
<1>1. TypeOK'
  BY TypeStep, Zenon DEF HintInv
<1>2. CASE \E t \in Callers : CallerStep(t)
  <2>1. PICK t \in Callers : CallerStep(t)
    BY <1>2, Zenon
  <2>2. CallerShape(t)
    BY <2>1, CallerStepShape, Zenon DEF HintInv
  <2>3. op' = op
    BY <2>1, Zenon DEF CallerStep, Admission, Success, Failure, StartCall, ReadRow,
       AdmitClosed, AdmitNotClosed, AcquireSlot, StartTrial, DenySlot,
       DenyClosed, RecordRejection, CancelCall, SucceedReadFree, SucceedSlow,
       DecideSuccess, CloseCheck, AppendSuccess, ResetFailures,
       ObserveAttempt, Fail, DecideFailure, OpenCheck, BeginWrite,
       CountFailure, EndWrite, ObserveCounted, AppendFailure, EvaluateTrip,
       Trip, ClearAfterPinnedTrip, Finish, Goto, env, laneVars
  <2> QED
    BY <1>1, <2>2, <2>3, CallerHintStep, Zenon DEF HintInv, NoExtension
<1>3. CASE OperatorStep
  BY <1>1, <1>3, OperatorHintStep, Zenon DEF HintInv
<1>4. CASE SweepStep
  BY <1>1, <1>4, SweepHintStep, Zenon DEF HintInv
<1>5. CASE Tick \/ ToggleFreeze \/ UNCHANGED vars
  <2>1. pc' = pc /\ held' = held /\ row' = row /\ win' = win /\ op' = op
    BY <1>5, Zenon DEF Tick, ToggleFreeze, vars, callerVars, laneVars
  <2> QED
    BY <1>1, <2>1, OtherHintStep, Zenon DEF HintInv, NoExtension
<1> QED
  BY <1>2, <1>3, <1>4, <1>5, Zenon DEF Next

\* For every number of callers and every configuration, as long as no
\* override is being extended: a success that takes the read-free path of
\* record_success never leaves a consecutive-failure count standing that it
\* should have reset.  The epoch and the in-flight marker of the outcome
\* window are enough; no lock is held across the call.
THEOREM ResetNeverSkippedCorrect ==
    ASSUME "extend" \notin Lanes
    PROVE  Spec => ResetNeverSkipped
<1>1. Init => HintInv
  <2>1. ASSUME Init PROVE InFlightMarked /\ HintsSound /\ NoExtension
    BY <2>1, Zenon DEF Init, NewWindow, InFlightMarked, HintsSound, NoExtension,
       Writing
  <2> QED
    BY <2>1, TypeInit, Zenon DEF HintInv
<1>2. HintInv /\ [Next]_vars => HintInv'
  BY HintStep, Zenon
<1>3. HintInv => \A t \in Callers :
          At(t, "running") /\ MayAppendReadFree(t) /\ row.state = "closed"
             => row.failure_count = 0
  BY Zenon DEF HintInv, HintsSound, At, MayAppendReadFree, may_append_read_free,
     is_current, Hinted
<1>4. HintInv => [\A t \in Callers :
          At(t, "running") /\ MayAppendReadFree(t) /\ pc'[t] = "idle"
             /\ win'.ring # win.ring /\ row.state = "closed"
          => row.failure_count = 0]_vars
  BY <1>3, Zenon
<1> QED
  BY <1>1, <1>2, <1>4, PTL DEF Spec, ResetNeverSkipped

=============================================================================
