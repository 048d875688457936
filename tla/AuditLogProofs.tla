--------------------------- MODULE AuditLogProofs ---------------------------
(***************************************************************************)
(* Proofs about AuditLog, for every set of identifiers and entries, every  *)
(* file size, retention cap and batch size.                                *)
(***************************************************************************)
EXTENDS AuditLog, TLAPS

Holds(p, e) == \E r \in worker[p].entry : r.id = e

\* An entry is recorded once, under the identifier that wrote it; an entry of
\* no running process is one of an ended process.
Recorded ==
    /\ \A r, x \in disk : r.id = x.id => r = x
    /\ \A r \in disk : r.owner \in home[r.id]
    /\ \A e \in Entries : \A p, q \in home[e] : p = q
    /\ \A e \in Entries : \A p \in home[e] : p \in alive \/ e \in ended

\* What a worker holds: the lowest entry of its batch, which is its own
\* process's or an ended one's.
Holding(p) ==
    LET w == worker[p]
    IN  /\ p \notin alive => w = Idle /\ cursor[p] = 0
        /\ w.at \in {"loop", "sync"} => w.batch = {}
        /\ w.at \notin {"log", "mark"} => w.entry = {}
        /\ \A r, x \in w.entry : r = x
        /\ \A r \in w.entry :
              /\ r \in w.batch
              /\ \A x \in w.batch : precedes(r, x)
              /\ w.at = "mark" => rows[r.id] > 0
        /\ \A r \in w.batch :
              /\ r.owner \in home[r.id]
              /\ r.owner = p \/ r.id \in ended
              /\ w.draining => r.owner = p

\* Counters fit the files: numbers are unique, none is above the counter, and
\* what lies at or below the cursor has been delivered.
Fit(p) ==
    p \notin overlaid =>
        /\ \A r, x \in own(p) : r.seq = x.seq => r = x
        /\ p \in alive =>
              /\ cursor[p] <= sequence[p]
              /\ \A r \in own(p) :
                    r.seq <= sequence[p] /\ (r.seq <= cursor[p] => rows[r.id] > 0)

\* While a drain may advance the cursor, its batch is the lowest part of what
\* lies above the cursor: new records and later ones are numbered above it.
Contiguous(p) ==
    p \in alive \ overlaid /\ worker[p].draining =>
        /\ \A b \in worker[p].batch : b.seq <= sequence[p]
        /\ \A b, c \in worker[p].batch : b.seq = c.seq => b = c
        /\ worker[p].advance_ok =>
              \A r \in own(p) \ worker[p].batch : r.seq > cursor[p] =>
                  \A b \in worker[p].batch : b.seq < r.seq

\* A marked entry was delivered.
Marked == \A e \in marks : rows[e] > 0

\* An entry not yet delivered is in a file of its writer.
Kept ==
    \A e \in Entries : \A p \in home[e] \ overlaid :
        rows[e] > 0 \/ e \in capped \/ \E r \in own(p) : r.id = e

\* A delivered entry is marked or about to be, and one worker at a time has it
\* in its hands.
Guarded ==
    \A e \in Entries \ repeatable :
        /\ rows[e] <= 1
        /\ rows[e] > 0 =>
              e \in marks \/ \E p \in Pids : worker[p].at = "mark" /\ Holds(p, e)
        /\ \A p, q \in Pids : Holds(p, e) /\ Holds(q, e) => p = q
        /\ \A p \in Pids : Holds(p, e) /\ worker[p].at = "log" => e \notin marks

Inv ==
    /\ TypeOK /\ Recorded /\ Marked /\ Kept /\ Guarded
    /\ \A p \in Pids : Holding(p) /\ Fit(p) /\ Contiguous(p)

-----------------------------------------------------------------------------
(* Type correctness. *)

\* The worker's states are worker states.
LEMMA WorkerTypes ==
    ASSUME NEW w \in Worker, NEW r \in Record
    PROVE  /\ [w EXCEPT !.at = "check", !.batch = @ \ {r}, !.entry = {}, !.synced = TRUE]
                  \in Worker
           /\ [w EXCEPT !.at = "log", !.entry = {r}] \in Worker
           /\ [w EXCEPT !.at = "mark"] \in Worker
           /\ failed(w, r) \in Worker
<1>1. /\ w.batch \ {r} \in SUBSET Record /\ {r} \in SUBSET Record
      /\ {} \in SUBSET Record
  BY Zenon DEF Worker
<1> DEFINE b == w.batch \ {r}
           g == IF ~w.draining /\ ~w.synced THEN {} ELSE w.batch \ {r}
<1>2. b \in SUBSET Record /\ g \in SUBSET Record
  BY <1>1, Zenon
<1>3. /\ [w EXCEPT !.at = "check", !.batch = @ \ {r}, !.entry = {}, !.synced = TRUE] =
            [w EXCEPT !.at = "check", !.batch = b, !.entry = {}, !.synced = TRUE]
      /\ failed(w, r) =
            [w EXCEPT !.at = "check", !.entry = {}, !.advance_ok = FALSE, !.batch = g]
  BY Zenon DEF Worker, failed
<1> HIDE DEF b, g
<1>4. QED
  BY <1>1, <1>2, <1>3, Zenon DEF Worker

\* A worker begins a cycle idle, or with a batch.
LEMMA CycleTypes ==
    /\ Idle \in Worker /\ [Idle EXCEPT !.at = "sync"] \in Worker
    /\ [Idle EXCEPT !.at = "loop"] \in Worker
    /\ \A d \in BOOLEAN, b \in SUBSET Record : Takes(d, b) \in Worker
BY Zenon DEF Idle, Worker, Takes

\* Init establishes the types.
LEMMA TypeInit == Init => TypeOK
<1> SUFFICES ASSUME Init PROVE TypeOK
  OBVIOUS
<1>1. /\ names \in [Pids -> SUBSET Names] /\ current \in [Pids -> Names \cup {None}]
      /\ sequence \in [Pids -> Nat] /\ cursor \in [Pids -> Nat]
      /\ rows \in [Entries -> 0..2] /\ home \in [Entries -> SUBSET Pids]
  BY DEF Init
<1>2. worker \in [Pids -> Worker]
  BY CycleTypes, Zenon DEF Init
<1>3. QED
  BY <1>1, <1>2, Zenon DEF Init, TypeOK

\* A write and a start keep the types.
LEMMA TypeWrite ==
    ASSUME TypeOK, NEW p \in Pids, NEW e \in Entries, NEW f \in Names, write(p, e, f)
    PROVE  TypeOK'
<1> USE DEF files, process, store, history, counters
<1> DEFINE r == [owner |-> p, file |-> f, seq |-> sequence[p] + 1, id |-> e]
           full == Cardinality(in_file(p, f)) + 1 >= FileRecords
           dropped == IF full THEN cleanup_old_files(names[p] \cup {f}) ELSE {}
           gone == {x \in disk \cup {r} : x.owner = p /\ x.file \in dropped}
<1>1. /\ sequence' = [sequence EXCEPT ![p] = @ + 1]
      /\ names' = [names EXCEPT ![p] = (@ \cup {f}) \ dropped]
      /\ current' = [current EXCEPT ![p] = IF full THEN None ELSE f]
      /\ disk' = (disk \cup {r}) \ gone
      /\ capped' = capped \cup {x.id : x \in gone}
      /\ home' = [home EXCEPT ![e] = {p}]
      /\ UNCHANGED <<alive, cursor, absorbed, worker, store, ended, repeatable, overlaid, counters>>
  BY Zenon DEF write
<1> HIDE DEF full, dropped
<1>2. sequence[p] + 1 \in Nat \ {0}
  BY DEF TypeOK
<1>3. r \in Record
  BY <1>2, Zenon DEF Record
<1> HIDE DEF r
<1>4. disk' \subseteq Record
  BY <1>1, <1>3, Zenon DEF TypeOK
<1>5. capped' \subseteq Entries
  <2>1. \A x \in gone : x \in Record
    BY <1>3, Zenon DEF TypeOK
  <2> HIDE DEF gone
  <2>2. \A x \in gone : x.id \in Entries
    BY <2>1, Zenon DEF Record
  <2>3. QED
    BY <1>1, <2>2, Zenon DEF TypeOK
<1> HIDE DEF gone
<1>6. names' \in [Pids -> SUBSET Names] /\ current' \in [Pids -> Names \cup {None}]
  BY <1>1, Zenon DEF TypeOK
<1>7. sequence' \in [Pids -> Nat] /\ home' \in [Entries -> SUBSET Pids]
  BY <1>1, <1>2, Zenon DEF TypeOK
<1>8. QED
  BY <1>1, <1>4, <1>5, <1>6, <1>7, Zenon DEF TypeOK

\* Processes that start, fork and end keep the types.
LEMMA TypeProcess ==
    ASSUME TypeOK, NEW p \in Pids,
           Start(p) \/ Stop(p) \/ CutFirstWrite(p)
               \/ \E parent \in Pids : repair_if_forked(parent, p)
    PROVE  TypeOK'
<1> USE DEF files, process, store, history, counters
<1>1. ASSUME NEW n \in Nat, NEW c \in Nat, Begins(p, n, c) PROVE TypeOK'
  <2>1. sequence' \in [Pids -> Nat] /\ cursor' \in [Pids -> Nat]
    BY <1>1, Zenon DEF Begins, TypeOK
  <2>2. /\ alive' \subseteq Pids /\ overlaid' \subseteq Pids /\ starts' \in Nat
        /\ UNCHANGED <<names, disk, current, absorbed, worker, marks, rows, home, ended,
                       capped, repeatable, expired>>
    BY <1>1 DEF Begins, TypeOK
  <2>3. QED
    BY <2>1, <2>2, Zenon DEF TypeOK
<1>2. CASE Start(p)
  <2>1. PICK n \in {0} \cup {r.seq : r \in disk} : Begins(p, n, 0)
    BY <1>2, Zenon DEF Start
  <2>2. n \in Nat
    BY DEF TypeOK, Record
  <2>3. QED
    BY <1>1, <2>1, <2>2, Zenon
<1>3. CASE \E parent \in Pids : repair_if_forked(parent, p)
  BY <1>1, <1>3, Zenon DEF repair_if_forked, TypeOK
<1>4. ASSUME Ends(p), names' \in [Pids -> SUBSET Names] PROVE TypeOK'
  <2>1. unmarked(p) \subseteq Entries
    BY DEF unmarked, TypeOK, Worker, Record
  <2>2. /\ current' \in [Pids -> Names \cup {None}]
        /\ sequence' \in [Pids -> Nat] /\ cursor' \in [Pids -> Nat]
    BY <1>4, Zenon DEF Ends, TypeOK
  <2>3. worker' \in [Pids -> Worker]
    BY <1>4, CycleTypes, Zenon DEF Ends, TypeOK
  <2>4. /\ alive' \subseteq Pids /\ absorbed' \subseteq Pids /\ ended' \subseteq Entries
        /\ repeatable' \subseteq Entries
        /\ UNCHANGED <<disk, marks, rows, home, capped, overlaid, starts, expired>>
    BY <1>4, <2>1, Zenon DEF Ends, TypeOK
  <2>5. QED
    BY <1>4, <2>2, <2>3, <2>4, Zenon DEF TypeOK
<1>5. CASE Stop(p)
  BY <1>4, <1>5, Zenon DEF Stop, TypeOK
<1>6. CASE CutFirstWrite(p)
  <2>1. names' \in [Pids -> SUBSET Names]
    BY <1>6 DEF CutFirstWrite, TypeOK
  <2>2. QED
    BY <1>4, <1>6, <2>1, Zenon DEF CutFirstWrite
<1>7. QED
  BY <1>2, <1>3, <1>5, <1>6, Zenon

\* A worker's step keeps the types.
LEMMA TypeWorker ==
    ASSUME TypeOK, NEW p \in Pids, WorkerStep(p) \/ Respawn(p)
    PROVE  TypeOK'
<1> USE DEF files, process, store, history, counters
<1>a. /\ worker[p] \in Worker /\ worker[p].batch \subseteq Record
      /\ worker[p].entry \subseteq Record /\ disk \subseteq Record
  BY Zenon DEF TypeOK, Worker
<1>b. \A r \in Record : r.id \in Entries /\ r.seq \in Nat
  BY Zenon DEF Record
<1>c. ASSUME NEW w \in Worker, Goes(p, w) PROVE worker' \in [Pids -> Worker]
  BY <1>c, Zenon DEF Goes, TypeOK
<1>d. ASSUME NEW r \in Record, Succeeds(p, r)
      PROVE  worker' \in [Pids -> Worker] /\ cursor' \in [Pids -> Nat]
  <2>1. worker' \in [Pids -> Worker]
    BY <1>a, <1>c, <1>d, WorkerTypes, Zenon DEF Succeeds
  <2>2. cursor' \in [Pids -> Nat]
    BY <1>b, <1>d, Zenon DEF Succeeds, TypeOK
  <2>3. QED
    BY <2>1, <2>2, Zenon
<1>1. CASE AbsorbOrphans(p)
  <2>1. recover_orphans(p) \subseteq Record
    BY <1>a, Zenon DEF recover_orphans
  <2>2. worker' \in [Pids -> Worker]
    BY <1>1, <1>c, <2>1, CycleTypes, Zenon DEF AbsorbOrphans
  <2>3. QED
    BY <1>1, <2>2, Zenon DEF AbsorbOrphans, TypeOK
<1>2. CASE NoDestination(p)
  <2>1. worker' \in [Pids -> Worker]
    BY <1>2, <1>c, CycleTypes, Zenon DEF NoDestination
  <2>2. QED
    BY <1>2, <2>1, Zenon DEF NoDestination, TypeOK
<1>3. CASE SyncBatch(p)
  <2>1. pending(p) \subseteq Record
    BY <1>a, Zenon DEF pending, own
  <2>2. worker' \in [Pids -> Worker]
    BY <1>3, <1>c, <2>1, CycleTypes, Zenon DEF SyncBatch
  <2>3. QED
    BY <1>3, <2>2, Zenon DEF SyncBatch, TypeOK
<1>4. CASE CheckEntry(p)
  <2>1. PICK r \in worker[p].batch :
          \/ Succeeds(p, r) /\ UNCHANGED repeatable
          \/ /\ Goes(p, [worker[p] EXCEPT !.at = "log", !.entry = {r}])
             /\ repeatable' = IF r.id \in ended /\ held_elsewhere(p, r.id)
                              THEN repeatable \cup {r.id} ELSE repeatable
             /\ UNCHANGED cursor
    BY <1>4, Zenon DEF CheckEntry
  <2>2. worker' \in [Pids -> Worker] /\ cursor' \in [Pids -> Nat]
    BY <1>a, <1>c, <1>d, <2>1, WorkerTypes, Zenon DEF TypeOK
  <2>3. repeatable' \subseteq Entries
    BY <1>a, <1>b, <2>1, Zenon DEF TypeOK
  <2>4. QED
    BY <1>4, <2>2, <2>3, Zenon DEF CheckEntry, TypeOK
<1>5. CASE \E e \in Entries : LogEntry(p, e)
  <2>1. PICK e \in Entries : LogEntry(p, e)
    BY <1>5, Zenon
  <2>2. PICK r \in worker[p].entry : r.id = e
    BY <2>1, Zenon DEF LogEntry
  <2>3. worker' \in [Pids -> Worker]
    BY <1>a, <1>c, <2>1, <2>2, WorkerTypes, Zenon DEF LogEntry
  <2>4. rows' \in [Entries -> 0..2]
    BY <2>1 DEF LogEntry, TypeOK
  <2>5. QED
    BY <2>1, <2>3, <2>4, Zenon DEF LogEntry, TypeOK
<1>6. CASE LogFails(p)
  <2>1. worker' \in [Pids -> Worker]
    BY <1>6, <1>a, <1>c, WorkerTypes, Zenon DEF LogFails
  <2>2. QED
    BY <1>6, <2>1, Zenon DEF LogFails, TypeOK
<1>7. CASE MarkEntry(p)
  <2>1. PICK r \in worker[p].entry : marks' = marks \cup {r.id} /\ Succeeds(p, r)
    BY <1>7, Zenon DEF MarkEntry
  <2>2. /\ worker' \in [Pids -> Worker] /\ cursor' \in [Pids -> Nat]
        /\ marks' \subseteq Entries
    BY <1>a, <1>b, <1>d, <2>1, Zenon DEF TypeOK
  <2>3. QED
    BY <1>7, <2>2, Zenon DEF MarkEntry, TypeOK
<1>8. CASE EndAbsorb(p)
  <2>1. worker' \in [Pids -> Worker]
    BY <1>8, <1>c, CycleTypes, Zenon DEF EndAbsorb
  <2>2. QED
    BY <1>8, <2>1, Zenon DEF EndAbsorb, TypeOK
<1>9. CASE EndDrain(p)
  <2>1. worker' \in [Pids -> Worker] /\ names' \in [Pids -> SUBSET Names]
    BY <1>9, <1>c, CycleTypes, Zenon DEF EndDrain, TypeOK
  <2>2. QED
    BY <1>9, <2>1, Zenon DEF EndDrain, TypeOK
<1>10. CASE Respawn(p)
  <2>1. worker' \in [Pids -> Worker] /\ unmarked(p) \subseteq Entries
    BY <1>10, <1>a, <1>b, <1>c, CycleTypes, Zenon DEF Respawn, unmarked
  <2>2. QED
    BY <1>10, <2>1 DEF Respawn, TypeOK
<1>11. QED
  BY <1>1, <1>2, <1>3, <1>4, <1>5, <1>6, <1>7, <1>8, <1>9, <1>10, Zenon DEF WorkerStep

\* Every step keeps the types.
LEMMA TypeStep == TypeOK /\ [Next]_vars => TypeOK'
<1> SUFFICES ASSUME TypeOK, [Next]_vars PROVE TypeOK'
  OBVIOUS
<1>1. CASE \E e \in Entries : ExpireMark(e)
  BY <1>1 DEF ExpireMark, TypeOK, files, process, history
<1>2. CASE UNCHANGED vars
  BY <1>2, Zenon DEF vars, TypeOK
<1>3. QED
  BY <1>1, <1>2, TypeWrite, TypeProcess, TypeWorker, Zenon DEF Next

\* Every variable keeps its type: the counters are numbers, a worker's batch is
\* made of records.
THEOREM AuditTypeCorrect == Spec => []TypeOK
BY TypeInit, TypeStep, PTL DEF Spec

-----------------------------------------------------------------------------
(* The inductive invariant: frames. *)

\* An idle worker has nothing in its hands.
LEMMA IdleFields ==
    Idle.at = "loop" /\ Idle.draining = FALSE /\ Idle.batch = {} /\ Idle.entry = {}
BY Zenon DEF Idle

\* It satisfies what is asked of a worker.
LEMMA IdleInv ==
    ASSUME NEW p \in Pids, worker'[p] = Idle, p \in alive' \/ cursor'[p] = 0
    PROVE  Holding(p)' /\ Contiguous(p)'
<1>1. /\ worker'[p].at = "loop" /\ worker'[p].draining = FALSE
      /\ worker'[p].batch = {} /\ worker'[p].entry = {}
  BY IdleFields, Zenon
<1>2. Holding(p)'
  BY <1>1, Zenon DEF Holding
<1>3. Contiguous(p)'
  BY <1>1, Zenon DEF Contiguous
<1>4. QED
  BY <1>2, <1>3, Zenon

\* A step that touches neither files nor counters nor worker of q keeps q's
\* part of the invariant.
LEMMA OthersKept ==
    ASSUME TypeOK, NEW q \in Pids, Holding(q), Fit(q), Contiguous(q),
           own(q)' = own(q), worker'[q] = worker[q],
           cursor'[q] = cursor[q], sequence'[q] = sequence[q],
           q \in alive' <=> q \in alive, q \in overlaid' <=> q \in overlaid,
           \A e \in Entries : home[e] \subseteq home'[e],
           ended \subseteq ended',
           \A e \in Entries : rows[e] > 0 => rows'[e] > 0
    PROVE  Holding(q)' /\ Fit(q)' /\ Contiguous(q)'
<1>1. /\ \A r \in own(q) : r.id \in Entries
      /\ \A r \in worker[q].batch : r.id \in Entries
      /\ \A r \in worker[q].entry : r.id \in Entries
  BY DEF TypeOK, own, Worker, Record
<1>2. Holding(q)'
  BY <1>1, Zenon DEF Holding
<1>3. Fit(q)'
  BY <1>1, Zenon DEF Fit
<1>4. Contiguous(q)'
  BY Zenon DEF Contiguous
<1>5. QED
  BY <1>2, <1>3, <1>4, Zenon

\* A worker that lets go of its entry leaves the others' entries guarded, if
\* the entry it had delivered is marked by now or may be delivered again.
LEMMA Released ==
    ASSUME Guarded, NEW p \in Pids, worker'[p].entry = {},
           \A q \in Pids \ {p} : worker'[q] = worker[q],
           rows' = rows, repeatable \subseteq repeatable', marks \subseteq marks',
           \A e \in marks' \ marks : Holds(p, e),
           \A e \in Entries : worker[p].at = "mark" /\ Holds(p, e)
                                  => e \in marks' \cup repeatable'
    PROVE  Guarded'
<1> SUFFICES ASSUME NEW e \in Entries \ repeatable'
             PROVE  /\ rows'[e] <= 1
                    /\ rows'[e] > 0 =>
                          e \in marks' \/ \E q \in Pids : worker'[q].at = "mark" /\ Holds(q, e)'
                    /\ \A q, s \in Pids : Holds(q, e)' /\ Holds(s, e)' => q = s
                    /\ \A q \in Pids : Holds(q, e)' /\ worker'[q].at = "log" => e \notin marks'
  BY Zenon DEF Guarded
<1>1. /\ rows[e] <= 1
      /\ rows[e] > 0 =>
            e \in marks \/ \E q \in Pids : worker[q].at = "mark" /\ Holds(q, e)
      /\ \A q, s \in Pids : Holds(q, e) /\ Holds(s, e) => q = s
      /\ \A q \in Pids : Holds(q, e) /\ worker[q].at = "log" => e \notin marks
  BY Zenon DEF Guarded
<1>2. ~Holds(p, e)' /\ \A q \in Pids \ {p} : Holds(q, e)' = Holds(q, e)
  BY Zenon DEF Holds
<1>3. QED
  BY <1>1, <1>2, Zenon

\* The same for a step that changes nothing of workers, marks and rows.
LEMMA GuardedKept ==
    ASSUME Guarded, UNCHANGED <<worker, marks, rows, repeatable>>
    PROVE  Guarded'
BY Zenon DEF Guarded, Holds

\* A step that touches no file and takes no row back loses no entry.
LEMMA KeptStays ==
    ASSUME TypeOK, Kept, overlaid \subseteq overlaid', UNCHANGED <<disk, rows, home, capped>>
    PROVE  Kept'
<1> SUFFICES ASSUME NEW e \in Entries, NEW p \in home[e] \ overlaid',
                    ~(rows[e] > 0), e \notin capped
             PROVE  \E r \in own(p)' : r.id = e
  BY Zenon DEF Kept
<1>1. p \in home[e] \ overlaid
  OBVIOUS
<1>2. \E r \in own(p) : r.id = e
  BY <1>1, Zenon DEF Kept
<1>3. QED
  BY <1>2, Zenon DEF own

-----------------------------------------------------------------------------
(* Writes and processes keep the invariant. *)

\* A write numbers its record above everything in its files and in the batch
\* of a running drain; what the retention cap deletes counts as capped.
LEMMA WriteInv ==
    ASSUME Inv, NEW p \in Pids, NEW e \in Entries, NEW f \in Names, write(p, e, f)
    PROVE  Inv'
<1> DEFINE r == [owner |-> p, file |-> f, seq |-> sequence[p] + 1, id |-> e]
           full == Cardinality(in_file(p, f)) + 1 >= FileRecords
           dropped == IF full THEN cleanup_old_files(names[p] \cup {f}) ELSE {}
           gone == {x \in disk \cup {r} : x.owner = p /\ x.file \in dropped}
<1>0. /\ TypeOK /\ Recorded /\ Kept /\ Guarded /\ Marked
      /\ \A q \in Pids : Holding(q) /\ Fit(q) /\ Contiguous(q)
  BY Zenon DEF Inv
<1>1. /\ p \in alive /\ home[e] = {}
      /\ sequence' = [sequence EXCEPT ![p] = @ + 1]
      /\ disk' = (disk \cup {r}) \ gone
      /\ capped' = capped \cup {x.id : x \in gone}
      /\ home' = [home EXCEPT ![e] = {p}]
      /\ UNCHANGED <<alive, cursor, worker, marks, rows, ended, repeatable, overlaid>>
  BY Zenon DEF write, store
<1>2. r.owner = p /\ r.seq = sequence[p] + 1 /\ r.id = e
  OBVIOUS
<1>3. /\ \A x \in gone : x.owner = p /\ x.id \in capped'
      /\ \A x \in disk \cup {r} : x \in disk' \/ x \in gone
      /\ \A x \in disk' : x \in disk \cup {r}
      /\ capped \subseteq capped'
  BY <1>1, Zenon
<1> HIDE DEF full, dropped, gone, r
<1>4. /\ sequence[p] \in Nat /\ sequence'[p] = sequence[p] + 1
      /\ home'[e] = {p} /\ \A d \in Entries : d # e => home'[d] = home[d]
      /\ \A x \in disk : x.id \in Entries /\ x.owner \in Pids /\ x.seq \in Nat
      /\ \A q \in Pids : q # p => sequence'[q] = sequence[q]
  BY <1>0, <1>1, Zenon DEF TypeOK, Record
<1>5. \A x \in disk : x.id # e
  BY <1>0, <1>1, Zenon DEF Recorded
<1>6. Recorded'
  <2>1. \A x, y \in disk' : x.id = y.id => x = y
    BY <1>0, <1>2, <1>3, <1>5, Zenon DEF Recorded
  <2>2. \A x \in disk' : x.owner \in home'[x.id]
    BY <1>0, <1>2, <1>3, <1>4, <1>5, Zenon DEF Recorded
  <2>3. \A d \in Entries : \A q, s \in home'[d] : q = s
    BY <1>0, <1>4 DEF Recorded
  <2>4. \A d \in Entries : \A q \in home'[d] : q \in alive' \/ d \in ended'
    BY <1>0, <1>1, <1>4 DEF Recorded
  <2>5. QED
    BY <2>1, <2>2, <2>3, <2>4, Zenon DEF Recorded
<1>7. Kept'
  <2> SUFFICES ASSUME NEW d \in Entries, NEW q \in home'[d] \ overlaid',
                      ~(rows'[d] > 0), d \notin capped'
               PROVE  \E x \in own(q)' : x.id = d
    BY Zenon DEF Kept
  <2>1. CASE d = e
    <3>1. q = p /\ r \in disk'
      BY <1>2, <1>3, <1>4, <2>1, Zenon
    <3>2. QED
      BY <1>2, <2>1, <3>1, Zenon DEF own
  <2>2. CASE d # e
    <3>1. PICK x \in own(q) : x.id = d
      BY <1>0, <1>1, <1>3, <1>4, <2>2, Zenon DEF Kept
    <3>2. x \in disk'
      BY <1>3, <3>1, Zenon DEF own
    <3>3. QED
      BY <3>1, <3>2, Zenon DEF own
  <2>3. QED
    BY <2>1, <2>2, Zenon
<1>8. Guarded' /\ Marked'
  BY <1>0, <1>1, GuardedKept, Zenon DEF Marked
<1>9. \A x \in own(p)' : x \in own(p) \/ x = r
  BY <1>3, Zenon DEF own
<1>10. ASSUME NEW q \in Pids PROVE Holding(q)' /\ Fit(q)' /\ Contiguous(q)'
  <2>1. CASE q # p
    <3>1. own(q)' = own(q)
      BY <1>2, <1>3, <2>1, Zenon DEF own
    <3>2. \A d \in Entries : home[d] \subseteq home'[d]
      BY <1>1, <1>4, Zenon
    <3>3. QED
      BY <1>0, <1>1, <1>4, <2>1, <3>1, <3>2, OthersKept, Zenon
  <2>2. CASE q = p
    <3>0. /\ \A x \in worker[p].batch : x.id \in Entries /\ x.seq \in Nat
          /\ \A x \in worker[p].entry : x.id \in Entries
          /\ cursor[p] \in Nat
      BY <1>0 DEF TypeOK, Worker, Record
    <3>1. Holding(p)'
      <4>1. \A x \in worker[p].batch : home'[x.id] = home[x.id]
        <5>1. \A x \in worker[p].batch : x.id # e
          BY <1>0, <1>1, Zenon DEF Holding
        <5>2. QED
          BY <1>4, <3>0, <5>1, Zenon
      <4>2. Holding(p) /\ p \in alive /\ p \in alive'
        BY <1>0, <1>1, Zenon
      <4>3. QED
        BY <1>1, <4>1, <4>2, Zenon DEF Holding, precedes
    <3>2. Fit(p)'
      <4> SUFFICES ASSUME p \notin overlaid
                   PROVE  /\ \A x, y \in own(p)' : x.seq = y.seq => x = y
                          /\ cursor[p] <= sequence'[p]
                          /\ \A x \in own(p)' : x.seq <= sequence'[p]
                                /\ (x.seq <= cursor[p] => rows[x.id] > 0)
        BY <1>1, Zenon DEF Fit
      <4>1. /\ \A x, y \in own(p) : x.seq = y.seq => x = y
            /\ cursor[p] <= sequence[p]
            /\ \A x \in own(p) : x.seq <= sequence[p] /\ (x.seq <= cursor[p] => rows[x.id] > 0)
        BY <1>0, <1>1, Zenon DEF Fit
      <4>2. \A x \in own(p) : x.seq \in Nat
        BY <1>4, Zenon DEF own
      <4>3. QED
        BY <1>2, <1>4, <1>9, <3>0, <4>1, <4>2
    <3>3. Contiguous(p)'
      <4> SUFFICES ASSUME p \notin overlaid, worker[p].draining
                   PROVE  /\ \A b \in worker[p].batch : b.seq <= sequence'[p]
                          /\ \A b, c \in worker[p].batch : b.seq = c.seq => b = c
                          /\ worker[p].advance_ok =>
                                \A x \in own(p)' \ worker[p].batch : x.seq > cursor[p] =>
                                    \A b \in worker[p].batch : b.seq < x.seq
        BY <1>1, Zenon DEF Contiguous
      <4>1. /\ \A b \in worker[p].batch : b.seq <= sequence[p]
            /\ \A b, c \in worker[p].batch : b.seq = c.seq => b = c
            /\ worker[p].advance_ok =>
                  \A x \in own(p) \ worker[p].batch : x.seq > cursor[p] =>
                      \A b \in worker[p].batch : b.seq < x.seq
        BY <1>0, <1>1, Zenon DEF Contiguous
      <4>2. \A b \in worker[p].batch : b.seq < sequence'[p]
        BY <1>2, <1>4, <1>9, <3>0, <4>1
      <4>3. ASSUME worker[p].advance_ok, NEW x \in own(p)' \ worker[p].batch, x.seq > cursor[p],
                   NEW b \in worker[p].batch
            PROVE  b.seq < x.seq
        BY <1>2, <1>4, <1>9, <3>0, <4>1, <4>2, <4>3, Zenon
      <4>4. QED
        BY <1>2, <1>4, <3>0, <4>1, <4>2, <4>3
    <3>4. QED
      BY <2>2, <3>1, <3>2, <3>3, Zenon
  <2>3. QED
    BY <2>1, <2>2, Zenon
<1>11. QED
  BY <1>0, <1>6, <1>7, <1>8, <1>10, TypeWrite, Zenon DEF Inv

\* A process that begins finds counters that fit its files, or is overlaid.
LEMMA BeginsInv ==
    ASSUME Inv, TypeOK', NEW p \in Pids, p \notin alive,
           NEW n \in Nat, NEW c \in Nat, Begins(p, n, c)
    PROVE  Inv'
<1>0. /\ TypeOK /\ Recorded /\ Kept /\ Guarded /\ Marked
      /\ \A q \in Pids : Holding(q) /\ Fit(q) /\ Contiguous(q)
  BY Zenon DEF Inv
<1>1. /\ alive' = alive \cup {p}
      /\ sequence' = [sequence EXCEPT ![p] = n] /\ cursor' = [cursor EXCEPT ![p] = c]
      /\ overlaid' = IF misfit(p, n, c) THEN overlaid \cup {p} ELSE overlaid
      /\ UNCHANGED <<disk, worker, marks, rows, home, ended, capped, repeatable>>
  BY Zenon DEF Begins, files, store
<1>2. \A q \in Pids : own(q)' = own(q)
  BY <1>1, Zenon DEF own
<1>3. Recorded' /\ Kept' /\ Guarded' /\ Marked'
  <2>1. Recorded'
    BY <1>0, <1>1, Zenon DEF Recorded
  <2>2. Kept'
    <3>1. overlaid \subseteq overlaid'
      BY <1>1, Zenon
    <3>2. QED
      BY <1>0, <1>1, <3>1, KeptStays, Zenon
  <2>3. QED
    BY <1>0, <1>1, <2>1, <2>2, GuardedKept, Zenon DEF Marked
<1>4. ASSUME NEW q \in Pids PROVE Holding(q)' /\ Fit(q)' /\ Contiguous(q)'
  <2>1. CASE q # p
    <3>1. cursor'[q] = cursor[q] /\ sequence'[q] = sequence[q]
      BY <1>0, <1>1, <2>1, Zenon DEF TypeOK
    <3>2. QED
      BY <1>0, <1>1, <1>2, <2>1, <3>1, OthersKept, Zenon
  <2>2. CASE q = p
    <3>1. worker'[p] = Idle
      BY <1>0, <1>1, Zenon DEF Holding
    <3>2. Holding(p)'
      BY <1>1, <3>1, IdleInv, Zenon
    <3>3. Contiguous(p)'
      BY <1>1, <3>1, IdleInv, Zenon
    <3>4. Fit(p)'
      <4> SUFFICES ASSUME p \notin overlaid'
                   PROVE  /\ \A x, y \in own(p) : x.seq = y.seq => x = y
                          /\ cursor'[p] <= sequence'[p]
                          /\ \A x \in own(p) : x.seq <= sequence'[p]
                                /\ (x.seq <= cursor'[p] => rows[x.id] > 0)
        BY <1>1, <1>2, Zenon DEF Fit
      <4>1. cursor'[p] = c /\ sequence'[p] = n
        BY <1>0, <1>1, Zenon DEF TypeOK
      <4>2. p \notin overlaid /\ ~misfit(p, n, c)
        BY <1>1, Zenon
      <4>3. \A x \in own(p) : x.seq \in Nat /\ rows[x.id] \in 0..2
        BY <1>0, Zenon DEF TypeOK, own, Record
      <4>4. QED
        BY <1>0, <4>1, <4>2, <4>3 DEF Fit, misfit
    <3>5. QED
      BY <2>2, <3>2, <3>3, <3>4, Zenon
  <2>3. QED
    BY <2>1, <2>2, Zenon
<1>5. QED
  BY <1>3, <1>4, Zenon DEF Inv

\* A process that ends leaves its entries to the identifier's files.
LEMMA EndsInv ==
    ASSUME Inv, TypeOK', NEW p \in Pids, Ends(p)
    PROVE  Inv'
<1>0. /\ TypeOK /\ Recorded /\ Kept /\ Guarded /\ Marked
      /\ \A q \in Pids : Holding(q) /\ Fit(q) /\ Contiguous(q)
  BY Zenon DEF Inv
<1>1. /\ alive' = alive \ {p} /\ cursor' = [cursor EXCEPT ![p] = 0]
      /\ sequence' = [sequence EXCEPT ![p] = 0]
      /\ worker' = [worker EXCEPT ![p] = Idle]
      /\ ended' = ended \cup {e \in Entries : p \in home[e]}
      /\ repeatable' = repeatable \cup unmarked(p)
      /\ UNCHANGED <<disk, marks, rows, home, capped, overlaid>>
  BY Zenon DEF Ends, store
<1>2. \A q \in Pids : own(q)' = own(q)
  BY <1>1, Zenon DEF own
<1>3. /\ worker'[p] = Idle /\ cursor'[p] = 0
      /\ \A q \in Pids \ {p} : worker'[q] = worker[q] /\ cursor'[q] = cursor[q]
                                  /\ sequence'[q] = sequence[q]
  BY <1>0, <1>1, Zenon DEF TypeOK
<1>4. Recorded'
  BY <1>0, <1>1, Zenon DEF Recorded
<1>5. Kept' /\ Marked'
  BY <1>0, <1>1, KeptStays, Zenon DEF Marked
<1>6. Guarded'
  <2>1. worker'[p].entry = {}
    BY <1>3, IdleFields, Zenon
  <2>2. \A e \in Entries : worker[p].at = "mark" /\ Holds(p, e) => e \in repeatable'
    BY <1>1, Zenon DEF unmarked, Holds
  <2>3. QED
    BY <1>0, <1>1, <1>3, <2>1, <2>2, Released, Zenon
<1>7. ASSUME NEW q \in Pids PROVE Holding(q)' /\ Fit(q)' /\ Contiguous(q)'
  <2>1. CASE q # p
    BY <1>0, <1>1, <1>2, <1>3, <2>1, OthersKept, Zenon
  <2>2. CASE q = p
    <3>1. Holding(p)' /\ Contiguous(p)'
      BY <1>3, IdleInv, Zenon
    <3>2. p \notin alive' /\ overlaid' = overlaid /\ own(p)' = own(p) /\ Fit(p)
      BY <1>0, <1>1, <1>2, Zenon
    <3>3. Fit(p)'
      BY <3>2, Zenon DEF Fit
    <3>4. QED
      BY <2>2, <3>1, <3>3, Zenon
  <2>3. QED
    BY <2>1, <2>2, Zenon
<1>8. QED
  BY <1>4, <1>5, <1>6, <1>7, Zenon DEF Inv

-----------------------------------------------------------------------------
(* The worker keeps the invariant. *)

\* A worker's step that leaves the files alone keeps the invariant if it keeps
\* the part of its own process, the marks and the guard of the entries.
LEMMA StepInv ==
    ASSUME Inv, TypeOK', NEW p \in Pids,
           UNCHANGED <<alive, disk, sequence, home, ended, capped, overlaid>>,
           \A q \in Pids \ {p} : worker'[q] = worker[q] /\ cursor'[q] = cursor[q],
           \A e \in Entries : rows[e] > 0 => rows'[e] > 0,
           Holding(p)', Fit(p)', Contiguous(p)', Marked', Guarded'
    PROVE  Inv'
<1>0. /\ TypeOK /\ Recorded /\ Kept
      /\ \A q \in Pids : Holding(q) /\ Fit(q) /\ Contiguous(q)
  BY Zenon DEF Inv
<1>1. \A q \in Pids : own(q)' = own(q)
  BY Zenon DEF own
<1>2. Recorded'
  BY <1>0, Zenon DEF Recorded
<1>3. Kept'
  <2>1. \A d \in Entries : \A q \in home[d] : q \in Pids
    BY <1>0, Zenon DEF TypeOK
  <2>2. QED
    BY <1>0, <1>1, <2>1 DEF Kept
<1>4. ASSUME NEW q \in Pids \ {p} PROVE Holding(q)' /\ Fit(q)' /\ Contiguous(q)'
  BY <1>0, <1>1, OthersKept, Zenon
<1>5. QED
  BY <1>2, <1>3, <1>4, Zenon DEF Inv

\* What lies at or below a cursor that stands still stays delivered.
LEMMA FitKept ==
    ASSUME TypeOK, NEW p \in Pids, Fit(p), own(p)' = own(p),
           UNCHANGED <<alive, sequence, overlaid>>, cursor'[p] = cursor[p],
           \A e \in Entries : rows[e] > 0 => rows'[e] > 0
    PROVE  Fit(p)'
<1>1. \A r \in own(p) : r.id \in Entries
  BY Zenon DEF TypeOK, own, Record
<1>2. QED
  BY <1>1, Zenon DEF Fit

\* A worker that holds nothing before and after the step, and has no batch or
\* one that fits, keeps the invariant.
LEMMA CycleInv ==
    ASSUME Inv, TypeOK', NEW p \in Pids, p \in alive,
           worker[p].at \notin {"log", "mark"}, NEW w \in Worker, Goes(p, w),
           UNCHANGED <<alive, disk, sequence, cursor, store, history, repeatable>>,
           w.at \in {"loop", "sync", "check"}, w.entry = {},
           w.at # "check" => w.batch = {} /\ ~w.draining,
           \A r \in w.batch : /\ r.owner \in home[r.id]
                              /\ r.owner = p \/ r.id \in ended
                              /\ w.draining => r.owner = p,
           p \notin overlaid /\ w.draining =>
               /\ \A b \in w.batch : b.seq <= sequence[p]
               /\ \A b, c \in w.batch : b.seq = c.seq => b = c
               /\ \A r \in own(p) \ w.batch : r.seq > cursor[p] =>
                      \A b \in w.batch : b.seq < r.seq
    PROVE  Inv'
<1>0. TypeOK /\ Marked /\ Guarded /\ Holding(p) /\ Fit(p)
  BY Zenon DEF Inv
<1>1. /\ worker'[p] = w
      /\ \A q \in Pids \ {p} : worker'[q] = worker[q]
      /\ UNCHANGED <<alive, disk, sequence, cursor, marks, rows, home, ended, capped,
                     repeatable, overlaid>>
  BY <1>0, Zenon DEF TypeOK, Goes, store, history
<1>2. own(p)' = own(p)
  BY <1>1, Zenon DEF own
<1>3. Holding(p)'
  BY <1>1, Zenon DEF Holding
<1>4. Fit(p)'
  BY <1>0, <1>1, <1>2, FitKept, Zenon
<1>5. Contiguous(p)'
  BY <1>1, <1>2, Zenon DEF Contiguous
<1>6. Marked' /\ Guarded'
  <2>1. worker[p].entry = {}
    BY <1>0, Zenon DEF Holding
  <2>2. QED
    BY <1>0, <1>1, <2>1, Released, Zenon DEF Marked, Holds
<1>7. QED
  BY <1>1, <1>3, <1>4, <1>5, <1>6, StepInv, Zenon

\* The steps that open a cycle: what an absorb reads belongs to ended processes,
\* and what a drain reads is the lowest part of its own files.
LEMMA OpenInv ==
    ASSUME Inv, TypeOK', NEW p \in Pids,
           AbsorbOrphans(p) \/ NoDestination(p) \/ SyncBatch(p) \/ EndAbsorb(p)
    PROVE  Inv'
<1>0. TypeOK /\ Recorded /\ Fit(p)
  BY Zenon DEF Inv
<1>1. /\ \A d \in {"loop", "sync"} :
            /\ [Idle EXCEPT !.at = d].at = d /\ [Idle EXCEPT !.at = d].entry = {}
            /\ [Idle EXCEPT !.at = d].batch = {} /\ [Idle EXCEPT !.at = d].draining = FALSE
      /\ Idle.at = "loop" /\ Idle.entry = {} /\ Idle.batch = {} /\ Idle.draining = FALSE
      /\ \A d \in BOOLEAN, b \in SUBSET Record :
            /\ Takes(d, b).at = "check" /\ Takes(d, b).entry = {}
            /\ Takes(d, b).batch = b /\ Takes(d, b).draining = d
  BY Zenon DEF Idle, Takes
<1>2. \A b \in SUBSET disk : b \in SUBSET Record
  BY <1>0, Zenon DEF TypeOK
<1>3. CASE AbsorbOrphans(p) \/ NoDestination(p) \/ EndAbsorb(p)
  <2>1. /\ p \in alive /\ worker[p].at \notin {"log", "mark"}
        /\ UNCHANGED <<alive, disk, sequence, cursor, store, history, repeatable>>
    BY <1>3, Zenon DEF AbsorbOrphans, NoDestination, EndAbsorb, files, process
  <2>2. CASE \E d \in {"loop", "sync"} : Goes(p, [Idle EXCEPT !.at = d])
    <3>1. PICK d \in {"loop", "sync"} : Goes(p, [Idle EXCEPT !.at = d])
      BY <2>2, Zenon
    <3>2. [Idle EXCEPT !.at = d] \in Worker
      BY CycleTypes, Zenon
    <3> DEFINE w == [Idle EXCEPT !.at = d]
    <3>3. w \in Worker /\ w.at = d /\ w.entry = {} /\ w.batch = {} /\ w.draining = FALSE
      BY <1>1, <3>2, Zenon
    <3>4. Goes(p, w)
      BY <3>1, Zenon
    <3> HIDE DEF w
    <3>5. QED
      BY <2>1, <3>3, <3>4, CycleInv, Zenon
  <2>3. CASE Goes(p, Takes(FALSE, recover_orphans(p)))
    <3> DEFINE w == Takes(FALSE, recover_orphans(p))
    <3>1. recover_orphans(p) \in SUBSET disk
      BY Zenon DEF recover_orphans
    <3>2. w \in Worker /\ w.at = "check" /\ w.entry = {} /\ w.batch = recover_orphans(p)
             /\ w.draining = FALSE
      BY <1>1, <1>2, <3>1, CycleTypes, Zenon
    <3>3. \A r \in recover_orphans(p) : r.owner \in home[r.id] /\ r.id \in ended
      BY <1>0, Zenon DEF recover_orphans, Recorded, TypeOK, Record
    <3>4. Goes(p, w)
      BY <2>3, Zenon
    <3> HIDE DEF w
    <3>5. QED
      BY <2>1, <3>2, <3>3, <3>4, CycleInv, Zenon
  <2>4. QED
    BY <1>3, <2>2, <2>3, Zenon DEF AbsorbOrphans, NoDestination, EndAbsorb
<1>4. CASE SyncBatch(p)
  <2>1. /\ p \in alive /\ worker[p].at \notin {"log", "mark"}
        /\ UNCHANGED <<alive, disk, sequence, cursor, store, history, repeatable>>
    BY <1>4, Zenon DEF SyncBatch, files, process
  <2>2. CASE Goes(p, Idle)
    BY <1>1, <2>1, <2>2, CycleTypes, CycleInv, Zenon
  <2>3. CASE \E batch \in SUBSET pending(p) :
                recover_bounded(p, batch) /\ Goes(p, Takes(TRUE, batch))
    <3>1. PICK batch \in SUBSET pending(p) :
              recover_bounded(p, batch) /\ Goes(p, Takes(TRUE, batch))
      BY <2>3, Zenon
    <3> DEFINE w == Takes(TRUE, batch)
    <3>2. batch \in SUBSET own(p) /\ batch \in SUBSET disk
      BY Zenon DEF pending, own
    <3>3. w \in Worker /\ w.at = "check" /\ w.entry = {} /\ w.batch = batch /\ w.draining = TRUE
      BY <1>1, <1>2, <3>2, CycleTypes, Zenon
    <3>4. \A r \in batch : r.owner = p /\ r.owner \in home[r.id]
      BY <1>0, <3>2, Zenon DEF own, Recorded
    <3>5. ASSUME p \notin overlaid
          PROVE  /\ \A b \in batch : b.seq <= sequence[p]
                 /\ \A b, c \in batch : b.seq = c.seq => b = c
                 /\ \A r \in own(p) \ batch : r.seq > cursor[p] => \A b \in batch : b.seq < r.seq
      <4>1. /\ \A r, x \in own(p) : r.seq = x.seq => r = x
            /\ \A r \in own(p) : r.seq <= sequence[p]
        BY <1>0, <2>1, <3>5, Zenon DEF Fit
      <4>2. \A r \in own(p) : r.owner = p /\ r.seq \in Nat
        BY <1>0, Zenon DEF TypeOK, own, Record
      <4>3. \A b \in batch : \A r \in own(p) \ batch : r.seq > cursor[p] => precedes(b, r)
        BY <3>1, Zenon DEF recover_bounded, pending
      <4>4. ASSUME NEW b \in batch, NEW r \in own(p) \ batch, r.seq > cursor[p]
            PROVE  b.seq < r.seq
        BY <3>2, <4>1, <4>2, <4>3, <4>4, Zenon DEF precedes
      <4>5. QED
        BY <3>2, <4>1, <4>4, Zenon
    <3>6. Goes(p, w)
      BY <3>1, Zenon
    <3> HIDE DEF w
    <3>7. QED
      BY <2>1, <3>3, <3>4, <3>5, <3>6, CycleInv, Zenon
  <2>4. QED
    BY <1>4, <2>2, <2>3, Zenon DEF SyncBatch
<1>5. QED
  BY <1>3, <1>4, Zenon

\* A cycle that ends deletes only files whose records are delivered.
LEMMA EndDrainInv ==
    ASSUME Inv, TypeOK', NEW p \in Pids, EndDrain(p)
    PROVE  Inv'
<1> DEFINE deleted == IF worker[p].synced THEN cleanup_processed(p) ELSE {}
<1>0. /\ TypeOK /\ Recorded /\ Kept /\ Guarded /\ Marked
      /\ \A q \in Pids : Holding(q) /\ Fit(q) /\ Contiguous(q)
  BY Zenon DEF Inv
<1>1. /\ p \in alive /\ worker[p].at = "check"
      /\ disk' = {r \in disk : r.owner # p \/ r.file \notin deleted}
      /\ worker' = [worker EXCEPT ![p] = Idle]
      /\ UNCHANGED <<alive, sequence, cursor, marks, rows, home, ended, capped, repeatable, overlaid>>
  BY Zenon DEF EndDrain, Goes, process, store, history
<1>2. /\ worker'[p] = Idle /\ \A q \in Pids \ {p} : worker'[q] = worker[q]
  BY <1>0, <1>1, Zenon DEF TypeOK
<1>3. \A r \in disk \ disk' : r \in own(p) /\ r.seq <= cursor[p]
  BY <1>1, Zenon DEF cleanup_processed, in_file, own
<1>4. disk' \subseteq disk /\ own(p)' \subseteq own(p)
  BY <1>1, Zenon DEF own
<1> HIDE DEF deleted
<1>5. Recorded'
  BY <1>0, <1>1, <1>4, Zenon DEF Recorded
<1>6. Kept'
  <2> SUFFICES ASSUME NEW e \in Entries, NEW q \in home[e] \ overlaid,
                      ~(rows[e] > 0), e \notin capped
               PROVE  \E r \in own(q)' : r.id = e
    BY <1>1, Zenon DEF Kept
  <2>1. PICK r \in own(q) : r.id = e
    BY <1>0, Zenon DEF Kept
  <2>2. r \in disk /\ r.owner = q
    BY <2>1, Zenon DEF own
  <2>3. r \in disk'
    <3>1. SUFFICES ASSUME r \notin disk' PROVE FALSE
      OBVIOUS
    <3>2. r \in own(p) /\ r.seq <= cursor[p] /\ q = p
      BY <1>3, <2>2, <3>1, Zenon DEF own
    <3>3. QED
      BY <1>0, <1>1, <2>1, <3>2, Zenon DEF Fit
  <2>4. QED
    BY <2>1, <2>2, <2>3, Zenon DEF own
<1>7. Guarded' /\ Marked'
  <2>1. worker[p].entry = {} /\ worker'[p].entry = {}
    <3>1. worker[p].entry = {}
      BY <1>0, <1>1, Zenon DEF Holding
    <3>2. QED
      BY <1>2, <3>1, IdleFields, Zenon
  <2>2. QED
    BY <1>0, <1>1, <1>2, <2>1, Released, Zenon DEF Marked, Holds
<1>8. ASSUME NEW q \in Pids PROVE Holding(q)' /\ Fit(q)' /\ Contiguous(q)'
  <2>1. CASE q # p
    <3>1. own(q)' = own(q)
      BY <1>1, <2>1, Zenon DEF own
    <3>2. QED
      BY <1>0, <1>1, <1>2, <2>1, <3>1, OthersKept, Zenon
  <2>2. CASE q = p
    <3>1. Holding(p)' /\ Contiguous(p)'
      BY <1>1, <1>2, IdleInv, Zenon
    <3>2. Fit(p)'
      BY <1>0, <1>1, <1>4, Zenon DEF Fit
    <3>3. QED
      BY <2>2, <3>1, <3>2, Zenon
  <2>3. QED
    BY <2>1, <2>2, Zenon
<1>9. QED
  BY <1>5, <1>6, <1>7, <1>8, Zenon DEF Inv

-----------------------------------------------------------------------------
(* Deliveries keep the invariant. *)

\* The cursor may follow a delivered entry: whatever lies between the two is in
\* the batch, and the entry is the lowest of the batch.
LEMMA SucceedsInv ==
    ASSUME Inv, TypeOK', NEW p \in Pids, p \in alive, NEW r \in worker[p].batch,
           \A x \in worker[p].batch : precedes(r, x), rows[r.id] > 0, Succeeds(p, r),
           UNCHANGED <<alive, disk, sequence, rows, history, repeatable>>,
           marks \subseteq marks', \A e \in marks' \ marks : Holds(p, e) /\ rows[e] > 0,
           \A e \in Entries : worker[p].at = "mark" /\ Holds(p, e) => e \in marks'
    PROVE  Inv'
<1> DEFINE w == worker[p]
<1>0. TypeOK /\ Marked /\ Guarded /\ Holding(p) /\ Fit(p) /\ Contiguous(p)
  BY Zenon DEF Inv
<1>1. w \in Worker /\ cursor[p] \in Nat /\ sequence[p] \in Nat
  BY <1>0, Zenon DEF TypeOK
<1>2. /\ \A x \in w.batch : x \in Record /\ x.seq \in Nat
      /\ \A x \in own(p) : x \in Record /\ x.seq \in Nat
  BY <1>0, <1>1, Zenon DEF Worker, Record, TypeOK, own
<1>3. /\ worker'[p].at = "check" /\ worker'[p].batch = w.batch \ {r}
      /\ worker'[p].entry = {} /\ worker'[p].draining = w.draining
      /\ worker'[p].advance_ok = w.advance_ok
      /\ \A q \in Pids \ {p} : worker'[q] = worker[q]
  BY <1>0, <1>1 DEF Succeeds, Goes, TypeOK, Worker
<1>4. /\ cursor'[p] = IF w.draining /\ w.advance_ok /\ r.seq > cursor[p]
                      THEN r.seq ELSE cursor[p]
      /\ \A q \in Pids \ {p} : cursor'[q] = cursor[q]
  BY <1>0, Zenon DEF Succeeds, TypeOK
<1>5. UNCHANGED <<home, ended, capped, overlaid>> /\ own(p)' = own(p)
  BY Zenon DEF history, own
<1> HIDE DEF w
<1>6. Holding(p)'
  <2>1. \A x \in w.batch : /\ x.owner \in home[x.id] /\ (x.owner = p \/ x.id \in ended)
                           /\ (w.draining => x.owner = p)
    BY <1>0, Zenon DEF Holding, w
  <2>2. QED
    BY <1>3, <1>5, <2>1, Zenon DEF Holding
<1>7. ASSUME p \notin overlaid, w.draining
      PROVE  /\ \A b \in w.batch : b.seq <= sequence[p]
             /\ \A b, c \in w.batch : b.seq = c.seq => b = c
             /\ w.advance_ok => \A x \in own(p) \ w.batch : x.seq > cursor[p] =>
                                    \A b \in w.batch : b.seq < x.seq
  BY <1>0, <1>7, Zenon DEF Contiguous, w
<1>8. Contiguous(p)'
  <2> SUFFICES ASSUME p \notin overlaid, w.draining
               PROVE  /\ \A b \in w.batch \ {r} : b.seq <= sequence[p]
                      /\ \A b, c \in w.batch \ {r} : b.seq = c.seq => b = c
                      /\ w.advance_ok =>
                            \A x \in own(p) \ (w.batch \ {r}) : x.seq > cursor'[p] =>
                                \A b \in w.batch \ {r} : b.seq < x.seq
    BY <1>3, <1>5, Zenon DEF Contiguous
  <2>1. ASSUME w.advance_ok, NEW x \in own(p) \ (w.batch \ {r}), x.seq > cursor'[p]
        PROVE  x \notin w.batch /\ x.seq > cursor[p]
    <3>1. r \in w.batch /\ r.seq \in Nat
      BY <1>2, Zenon DEF w
    <3>2. x \in own(p) /\ x.seq \in Nat /\ cursor'[p] >= cursor[p] /\ cursor'[p] \in Nat
      BY <1>1, <1>2, <1>4, <3>1
    <3>3. cursor'[p] >= r.seq
      BY <1>1, <1>4, <2>1, <3>1
    <3>4. QED
      BY <1>1, <2>1, <3>1, <3>2, <3>3
  <2>2. QED
    BY <1>7, <2>1, Zenon
<1>9. Fit(p)'
  <2> SUFFICES ASSUME p \notin overlaid
               PROVE  /\ cursor'[p] <= sequence[p]
                      /\ \A x \in own(p) : x.seq <= cursor'[p] => rows[x.id] > 0
    BY <1>0, <1>5, Zenon DEF Fit
  <2>1. /\ cursor[p] <= sequence[p]
        /\ \A x \in own(p) : x.seq <= cursor[p] => rows[x.id] > 0
    BY <1>0, Zenon DEF Fit
  <2>2. CASE ~(w.draining /\ w.advance_ok /\ r.seq > cursor[p])
    BY <1>4, <2>1, <2>2, Zenon
  <2>3. CASE w.draining /\ w.advance_ok /\ r.seq > cursor[p]
    <3>1. cursor'[p] = r.seq /\ r \in w.batch
      BY <1>4, <2>3, Zenon DEF w
    <3>2. ASSUME NEW x \in own(p), x.seq <= r.seq, x.seq > cursor[p]
          PROVE  x = r
      <4>1. x \in w.batch
        <5>1. \A y \in own(p) \ w.batch : y.seq > cursor[p] => r.seq < y.seq
          BY <1>7, <2>3, <3>1, Zenon
        <5>2. x.seq \in Nat /\ r.seq \in Nat
          BY <1>2, <3>1, Zenon
        <5>3. QED
          BY <3>2, <5>1, <5>2
      <4>2. x.seq = r.seq
        <5>1. precedes(r, x)
          BY <4>1, Zenon DEF w
        <5>2. x.seq \in Nat /\ r.seq \in Nat
          BY <1>2, <3>1, Zenon
        <5>3. QED
          BY <3>2, <5>1, <5>2 DEF precedes
      <4>3. QED
        BY <1>7, <2>3, <3>1, <4>1, <4>2, Zenon
    <3>3. r.seq <= sequence[p]
      BY <1>7, <2>3, <3>1, Zenon
    <3>4. ASSUME NEW x \in own(p), x.seq <= r.seq PROVE rows[x.id] > 0
      <4>1. CASE x.seq <= cursor[p]
        BY <2>1, <4>1, Zenon
      <4>2. CASE ~(x.seq <= cursor[p])
        <5>1. x.seq > cursor[p]
          BY <1>1, <1>2, <4>2
        <5>2. QED
          BY <3>2, <3>4, <5>1, Zenon
      <4>3. QED
        BY <4>1, <4>2, Zenon
    <3>5. QED
      BY <3>1, <3>3, <3>4, Zenon
  <2>4. QED
    BY <2>2, <2>3, Zenon
<1>10. Marked' /\ Guarded'
  <2>1. Marked'
    BY <1>0, Zenon DEF Marked
  <2>2. Guarded'
    BY <1>0, <1>3, Released, Zenon
  <2>3. QED
    BY <2>1, <2>2, Zenon
<1>11. QED
  BY <1>3, <1>4, <1>5, <1>6, <1>8, <1>9, <1>10, StepInv, Zenon

\* An entry is taken up by one worker at a time, unless its writer has ended:
\* a running process's entries are in no other worker's batch.
LEMMA CheckInv ==
    ASSUME Inv, TypeOK', NEW p \in Pids, CheckEntry(p)
    PROVE  Inv'
<1>0. /\ TypeOK /\ Marked /\ Guarded /\ Recorded /\ Fit(p) /\ Contiguous(p)
      /\ \A q \in Pids : Holding(q)
  BY Zenon DEF Inv
<1>1. PICK r \in worker[p].batch :
        /\ \A x \in worker[p].batch : precedes(r, x)
        /\ IF r.id \in marks
           THEN Succeeds(p, r) /\ UNCHANGED repeatable
           ELSE /\ Goes(p, [worker[p] EXCEPT !.at = "log", !.entry = {r}])
                /\ repeatable' = IF r.id \in ended /\ held_elsewhere(p, r.id)
                                 THEN repeatable \cup {r.id} ELSE repeatable
                /\ UNCHANGED cursor
  BY Zenon DEF CheckEntry
<1>2. /\ p \in alive /\ worker[p].at = "check"
      /\ UNCHANGED <<alive, disk, sequence, marks, rows, history>>
  BY Zenon DEF CheckEntry, files, process, store
<1>3. worker[p].entry = {}
  BY <1>0, <1>2, Zenon DEF Holding
<1>4. CASE r.id \in marks
  <2>1. rows[r.id] > 0
    BY <1>0, <1>4, Zenon DEF Marked
  <2>2. QED
    BY <1>1, <1>2, <1>3, <1>4, <2>1, SucceedsInv, Zenon DEF Holds
<1>5. CASE r.id \notin marks
  <2>1. worker[p] \in Worker /\ r \in Record /\ r.id \in Entries
    BY <1>0 DEF TypeOK, Worker, Record
  <2>2. /\ worker'[p].at = "log" /\ worker'[p].batch = worker[p].batch
        /\ worker'[p].entry = {r} /\ worker'[p].draining = worker[p].draining
        /\ worker'[p].advance_ok = worker[p].advance_ok
        /\ \A q \in Pids \ {p} : worker'[q] = worker[q]
    <3>1. worker' = [worker EXCEPT ![p] = [worker[p] EXCEPT !.at = "log", !.entry = {r}]]
      BY <1>1, <1>5, Zenon DEF Goes
    <3>2. worker'[p] = [worker[p] EXCEPT !.at = "log", !.entry = {r}]
      BY <1>0, <3>1, Zenon DEF TypeOK
    <3>3. QED
      BY <1>0, <2>1, <3>1, <3>2 DEF TypeOK, Worker
  <2>3. UNCHANGED <<home, ended, capped, overlaid, cursor>> /\ own(p)' = own(p)
    BY <1>1, <1>2, <1>5, Zenon DEF history, own
  <2>4. Holding(p)'
    BY <1>0, <1>1, <1>2, <2>2, <2>3 DEF Holding, precedes
  <2>5. Fit(p)' /\ Contiguous(p)'
    BY <1>0, <1>2, <2>2, <2>3, FitKept, Zenon DEF Contiguous
  <2>6. Guarded'
    <3> SUFFICES ASSUME NEW e \in Entries \ repeatable'
                 PROVE  /\ rows'[e] <= 1
                        /\ rows'[e] > 0 =>
                              e \in marks' \/ \E q \in Pids : worker'[q].at = "mark" /\ Holds(q, e)'
                        /\ \A q, s \in Pids : Holds(q, e)' /\ Holds(s, e)' => q = s
                        /\ \A q \in Pids : Holds(q, e)' /\ worker'[q].at = "log" => e \notin marks'
      BY Zenon DEF Guarded
    <3>1. e \notin repeatable
      BY <1>1, <1>5, Zenon
    <3>2. /\ rows[e] <= 1
          /\ rows[e] > 0 =>
                e \in marks \/ \E q \in Pids : worker[q].at = "mark" /\ Holds(q, e)
          /\ \A q, s \in Pids : Holds(q, e) /\ Holds(s, e) => q = s
          /\ \A q \in Pids : Holds(q, e) /\ worker[q].at = "log" => e \notin marks
      BY <1>0, <3>1, Zenon DEF Guarded
    <3>3. /\ Holds(p, e)' <=> e = r.id
          /\ \A q \in Pids \ {p} : Holds(q, e)' <=> Holds(q, e)
      BY <2>2, Zenon DEF Holds
    <3>4. ASSUME NEW s \in Pids \ {p}, e = r.id, Holds(s, e) PROVE FALSE
      <4>1. e \notin ended
        BY <1>1, <1>5, <3>4, Zenon DEF held_elsewhere, Holds
      <4>2. PICK x \in worker[s].entry : x.id = e
        BY <3>4, Zenon DEF Holds
      <4>3. x.owner = s /\ s \in home[e]
        <5>1. x \in worker[s].batch
          BY <1>0, <4>2, Zenon DEF Holding
        <5>2. x.owner \in home[x.id] /\ (x.owner = s \/ x.id \in ended)
          BY <1>0, <5>1, Zenon DEF Holding
        <5>3. QED
          BY <4>1, <4>2, <5>2, Zenon
      <4>4. r.owner = p /\ p \in home[e]
        BY <1>0, <1>1, <3>4, <4>1 DEF Holding
      <4>5. QED
        BY <1>0, <4>3, <4>4, Zenon DEF Recorded
    <3>5. QED
      BY <1>2, <1>5, <2>2, <3>2, <3>3, <3>4, Zenon
  <2>7. Marked'
    BY <1>0, <1>2, Zenon DEF Marked
  <2>8. QED
    BY <1>2, <2>2, <2>3, <2>4, <2>5, <2>6, <2>7, StepInv, Zenon
<1>6. QED
  BY <1>4, <1>5, Zenon

\* An entry in the hands of one worker, unmarked, has no row yet.
LEMMA LogInv ==
    ASSUME Inv, TypeOK', NEW p \in Pids, NEW e \in Entries, LogEntry(p, e)
    PROVE  Inv'
<1>0. TypeOK /\ Marked /\ Guarded /\ Holding(p) /\ Fit(p) /\ Contiguous(p)
  BY Zenon DEF Inv
<1>1. /\ p \in alive /\ worker[p].at = "log" /\ Holds(p, e)
      /\ rows' = [rows EXCEPT ![e] = IF @ = 0 THEN 1 ELSE 2]
      /\ worker' = [worker EXCEPT ![p] = [worker[p] EXCEPT !.at = "mark"]]
      /\ UNCHANGED <<alive, disk, sequence, cursor, marks, home, ended, capped,
                     repeatable, overlaid>>
  BY Zenon DEF LogEntry, Holds, Goes, files, process, history
<1>2. /\ worker'[p].at = "mark" /\ worker'[p].batch = worker[p].batch
      /\ worker'[p].entry = worker[p].entry /\ worker'[p].draining = worker[p].draining
      /\ worker'[p].advance_ok = worker[p].advance_ok
      /\ \A q \in Pids \ {p} : worker'[q] = worker[q]
  BY <1>0, <1>1 DEF TypeOK, Worker
<1>3. /\ rows'[e] = IF rows[e] = 0 THEN 1 ELSE 2
      /\ \A d \in Entries : d # e => rows'[d] = rows[d]
      /\ \A d \in Entries : rows[d] \in 0..2
  BY <1>0, <1>1, Zenon DEF TypeOK
<1>4. \A d \in Entries : rows[d] > 0 => rows'[d] > 0
  BY <1>3
<1>5. own(p)' = own(p)
  BY <1>1, Zenon DEF own
<1>6. Holding(p)'
  <2>1. \A r \in worker[p].entry : r.id = e
    BY <1>0, <1>1, Zenon DEF Holding, Holds
  <2>2. rows'[e] > 0
    BY <1>3
  <2>3. \A r \in worker[p].entry : rows'[r.id] > 0
    BY <2>1, <2>2, Zenon
  <2>4. QED
    BY <1>0, <1>1, <1>2, <2>3, Zenon DEF Holding, precedes
<1>7. Fit(p)' /\ Contiguous(p)'
  BY <1>0, <1>1, <1>2, <1>4, <1>5, FitKept, Zenon DEF Contiguous
<1>8. Marked'
  BY <1>0, <1>1, <1>4, Zenon DEF Marked, TypeOK
<1>9. Guarded'
  <2> SUFFICES ASSUME NEW d \in Entries \ repeatable'
               PROVE  /\ rows'[d] <= 1
                      /\ rows'[d] > 0 =>
                            d \in marks' \/ \E q \in Pids : worker'[q].at = "mark" /\ Holds(q, d)'
                      /\ \A q, s \in Pids : Holds(q, d)' /\ Holds(s, d)' => q = s
                      /\ \A q \in Pids : Holds(q, d)' /\ worker'[q].at = "log" => d \notin marks'
    BY Zenon DEF Guarded
  <2>1. /\ rows[d] <= 1
        /\ rows[d] > 0 =>
              d \in marks \/ \E q \in Pids : worker[q].at = "mark" /\ Holds(q, d)
        /\ \A q, s \in Pids : Holds(q, d) /\ Holds(s, d) => q = s
        /\ \A q \in Pids : Holds(q, d) /\ worker[q].at = "log" => d \notin marks
    BY <1>0, <1>1, Zenon DEF Guarded
  <2>2. \A q \in Pids : Holds(q, d)' <=> Holds(q, d)
    BY <1>2, Zenon DEF Holds
  <2>3. CASE d # e
    BY <1>1, <1>2, <1>3, <2>1, <2>2, <2>3, Zenon
  <2>4. CASE d = e
    <3>1. rows[e] = 0
      BY <1>1, <1>3, <2>1, <2>4
    <3>2. rows'[e] <= 1
      BY <1>3, <3>1
    <3>3. QED
      BY <1>1, <1>2, <2>1, <2>2, <2>4, <3>2, Zenon
  <2>5. QED
    BY <2>3, <2>4, Zenon
<1>10. QED
  BY <1>1, <1>2, <1>4, <1>6, <1>7, <1>8, <1>9, StepInv, Zenon

\* A failed delivery holds the cursor for the rest of the cycle.
LEMMA FailInv ==
    ASSUME Inv, TypeOK', NEW p \in Pids, LogFails(p)
    PROVE  Inv'
<1>0. TypeOK /\ Marked /\ Guarded /\ Holding(p) /\ Fit(p) /\ Contiguous(p)
  BY Zenon DEF Inv
<1>1. PICK r \in worker[p].entry : Goes(p, failed(worker[p], r))
  BY Zenon DEF LogFails
<1>2. /\ p \in alive /\ worker[p].at = "log"
      /\ UNCHANGED <<alive, disk, sequence, cursor, marks, rows, home, ended, capped,
                     repeatable, overlaid>>
  BY Zenon DEF LogFails, files, process, store, history
<1>3. worker[p] \in Worker
  BY <1>0, Zenon DEF TypeOK
<1>4. /\ failed(worker[p], r).at = "check" /\ failed(worker[p], r).entry = {}
      /\ failed(worker[p], r).advance_ok = FALSE
      /\ failed(worker[p], r).batch \subseteq worker[p].batch
      /\ failed(worker[p], r).draining = worker[p].draining
  BY <1>3, Zenon DEF failed, Worker
<1>5. /\ worker'[p] = failed(worker[p], r)
      /\ \A q \in Pids \ {p} : worker'[q] = worker[q]
  BY <1>0, <1>1, Zenon DEF Goes, TypeOK
<1>6. own(p)' = own(p)
  BY <1>2, Zenon DEF own
<1>7. Holding(p)'
  BY <1>0, <1>2, <1>4, <1>5, Zenon DEF Holding
<1>8. Fit(p)' /\ Contiguous(p)'
  BY <1>0, <1>2, <1>4, <1>5, <1>6, FitKept, Zenon DEF Contiguous
<1>9. Marked' /\ Guarded'
  BY <1>0, <1>2, <1>4, <1>5, Released, Zenon DEF Marked
<1>10. QED
  BY <1>2, <1>5, <1>7, <1>8, <1>9, StepInv, Zenon

\* The mark follows the row, in the same hands.
LEMMA MarkInv ==
    ASSUME Inv, TypeOK', NEW p \in Pids, MarkEntry(p)
    PROVE  Inv'
<1>0. TypeOK /\ Holding(p)
  BY Zenon DEF Inv
<1>1. PICK r \in worker[p].entry : marks' = marks \cup {r.id} /\ Succeeds(p, r)
  BY Zenon DEF MarkEntry
<1>2. /\ p \in alive /\ worker[p].at = "mark"
      /\ UNCHANGED <<alive, disk, sequence, rows, history, repeatable>>
  BY Zenon DEF MarkEntry, files, process
<1>3. /\ r \in worker[p].batch /\ \A x \in worker[p].batch : precedes(r, x)
      /\ rows[r.id] > 0 /\ \A x \in worker[p].entry : x = r
  BY <1>0, <1>2, Zenon DEF Holding
<1>4. \A e : Holds(p, e) <=> e = r.id
  BY <1>3, Zenon DEF Holds
<1>5. QED
  BY <1>1, <1>2, <1>3, <1>4, SucceedsInv, Zenon

\* A respawned worker starts over from its cursor.
LEMMA RespawnInv ==
    ASSUME Inv, TypeOK', NEW p \in Pids, Respawn(p)
    PROVE  Inv'
<1>0. TypeOK /\ Marked /\ Guarded /\ Fit(p)
  BY Zenon DEF Inv
<1>1. /\ p \in alive /\ worker' = [worker EXCEPT ![p] = Idle]
      /\ repeatable' = repeatable \cup unmarked(p)
      /\ UNCHANGED <<alive, disk, sequence, cursor, marks, rows, home, ended, capped, overlaid>>
  BY Zenon DEF Respawn, Goes, files, process, store, history
<1>2. worker'[p] = Idle /\ \A q \in Pids \ {p} : worker'[q] = worker[q]
  BY <1>0, <1>1, Zenon DEF TypeOK
<1>3. own(p)' = own(p)
  BY <1>1, Zenon DEF own
<1>4. Holding(p)' /\ Contiguous(p)'
  BY <1>1, <1>2, IdleInv, Zenon
<1>5. Fit(p)'
  BY <1>0, <1>1, <1>3, FitKept, Zenon
<1>6. Marked' /\ Guarded'
  <2>1. worker'[p].entry = {}
    BY <1>2, IdleFields, Zenon
  <2>2. \A e \in Entries : worker[p].at = "mark" /\ Holds(p, e) => e \in repeatable'
    BY <1>1, Zenon DEF unmarked, Holds
  <2>3. QED
    BY <1>0, <1>1, <1>2, <2>1, <2>2, Released, Zenon DEF Marked
<1>7. QED
  BY <1>1, <1>2, <1>4, <1>5, <1>6, StepInv, Zenon

\* An entry that has lost its mark may be delivered again.
LEMMA ExpireInv ==
    ASSUME Inv, TypeOK', NEW e \in Entries, ExpireMark(e)
    PROVE  Inv'
<1>0. /\ TypeOK /\ Recorded /\ Kept /\ Guarded /\ Marked
      /\ \A q \in Pids : Holding(q) /\ Fit(q) /\ Contiguous(q)
  BY Zenon DEF Inv
<1>1. /\ marks' = marks \ {e} /\ repeatable' = repeatable \cup {e}
      /\ UNCHANGED <<alive, disk, sequence, cursor, worker, rows, home, ended, capped, overlaid>>
  BY Zenon DEF ExpireMark, files, process, history
<1>2. \A q \in Pids : own(q)' = own(q)
  BY <1>1, Zenon DEF own
<1>3. Recorded' /\ Marked'
  BY <1>0, <1>1, Zenon DEF Recorded, Marked
<1>4. Kept'
  BY <1>0, <1>1, KeptStays, Zenon
<1>5. Guarded'
  BY <1>0, <1>1 DEF Guarded, Holds
<1>6. ASSUME NEW q \in Pids PROVE Holding(q)' /\ Fit(q)' /\ Contiguous(q)'
  BY <1>0, <1>1, <1>2, OthersKept, Zenon
<1>7. QED
  BY <1>3, <1>4, <1>5, <1>6, Zenon DEF Inv

-----------------------------------------------------------------------------
(* The theorems. *)

\* The invariant holds in the empty directory.
LEMMA InvInit == Init => Inv
<1> SUFFICES ASSUME Init PROVE Inv
  OBVIOUS
<1>1. TypeOK
  BY TypeInit, Zenon
<1>2. Recorded /\ Marked /\ Kept
  BY Zenon DEF Init, Recorded, Marked, Kept
<1>3. \A p \in Pids : worker[p] = Idle /\ cursor[p] = 0
  BY Zenon DEF Init
<1>4. Guarded
  <2>1. \A p \in Pids, e \in Entries : ~Holds(p, e)
    BY <1>3, IdleFields, Zenon DEF Holds
  <2>2. \A e \in Entries : rows[e] = 0
    BY Zenon DEF Init
  <2>3. QED
    BY <2>1, <2>2 DEF Guarded
<1>5. \A p \in Pids : Holding(p) /\ Fit(p) /\ Contiguous(p)
  BY <1>3, Zenon DEF Init, Holding, Fit, Contiguous, Idle, own
<1>6. QED
  BY <1>1, <1>2, <1>4, <1>5, Zenon DEF Inv

\* Every step keeps the invariant.
LEMMA InvStep == Inv /\ [Next]_vars => Inv'
<1> SUFFICES ASSUME Inv, [Next]_vars PROVE Inv'
  OBVIOUS
<1>0. TypeOK /\ TypeOK'
  BY TypeStep, Zenon DEF Inv
<1>1. CASE UNCHANGED vars
  <2>1. /\ UNCHANGED <<alive, disk, sequence, cursor, worker, marks, rows>>
        /\ UNCHANGED <<home, ended, capped, repeatable, overlaid>>
    BY <1>1, Zenon DEF vars
  <2>2. Recorded' /\ Marked'
    BY <2>1, Zenon DEF Inv, Recorded, Marked
  <2>3. Kept' /\ Guarded'
    BY <2>1, KeptStays, GuardedKept, Zenon DEF Inv
  <2>4. ASSUME NEW p \in Pids PROVE Holding(p)' /\ Fit(p)' /\ Contiguous(p)'
    BY <2>1, OthersKept, Zenon DEF Inv, own
  <2>5. QED
    BY <1>0, <2>2, <2>3, <2>4, Zenon DEF Inv
<1>2. ASSUME NEW p \in Pids, NEW e \in Entries, NEW f \in Names, write(p, e, f) PROVE Inv'
  BY <1>2, WriteInv, Zenon
<1>3. ASSUME NEW p \in Pids, Start(p) PROVE Inv'
  <2>1. PICK n \in {0} \cup {r.seq : r \in disk} : Begins(p, n, 0)
    BY <1>3, Zenon DEF Start
  <2>2. n \in Nat /\ p \notin alive
    <3>1. \A r \in disk : r.seq \in Nat
      BY <1>0, Zenon DEF TypeOK, Record
    <3>2. QED
      BY <1>3, <3>1 DEF Start
  <2>3. QED
    BY <1>0, <2>1, <2>2, BeginsInv, Zenon
<1>4. ASSUME NEW p \in Pids, NEW parent \in Pids, repair_if_forked(parent, p) PROVE Inv'
  <2>1. sequence[parent] \in Nat /\ cursor[parent] \in Nat
    BY <1>0, Zenon DEF TypeOK
  <2>2. QED
    BY <1>0, <1>4, <2>1, BeginsInv, Zenon DEF repair_if_forked
<1>5. ASSUME NEW p \in Pids, Stop(p) \/ CutFirstWrite(p) PROVE Inv'
  BY <1>0, <1>5, EndsInv, Zenon DEF Stop, CutFirstWrite
<1>6. ASSUME NEW p \in Pids, WorkerStep(p) PROVE Inv'
  BY <1>0, <1>6, OpenInv, CheckInv, LogInv, FailInv, MarkInv, EndDrainInv, Zenon DEF WorkerStep
<1>7. ASSUME NEW p \in Pids, Respawn(p) PROVE Inv'
  BY <1>0, <1>7, RespawnInv, Zenon
<1>8. ASSUME NEW e \in Entries, ExpireMark(e) PROVE Inv'
  BY <1>0, <1>8, ExpireInv, Zenon
<1>9. QED
  BY <1>1, <1>2, <1>3, <1>4, <1>5, <1>6, <1>7, <1>8, Zenon DEF Next

\* The invariant of the write-ahead log, its workers and the central store.
THEOREM AuditInvariance == Spec => []Inv
BY InvInit, InvStep, PTL DEF Spec

\* The drain of _sync_batch and the deletions of cleanup_processed lose no
\* entry: what is not delivered and not cut by max_files is in a file, above
\* the cursor.
THEOREM NothingLostCorrect == Spec => []NothingLost
<1>1. Inv => NothingLost
  <2> SUFFICES ASSUME Inv, NEW e \in Entries, NEW p \in Pids, p \in home[e], p \notin overlaid,
                      ~(rows[e] > 0), e \notin capped
               PROVE  \E r \in own(p) : r.id = e /\ r.seq > cursor[p]
    BY Zenon DEF NothingLost
  <2>0. TypeOK /\ Kept /\ Holding(p) /\ Fit(p)
    BY Zenon DEF Inv
  <2>1. PICK r \in own(p) : r.id = e
    BY <2>0, Zenon DEF Kept
  <2>2. r.seq \in Nat \ {0} /\ cursor[p] \in Nat
    BY <2>0, Zenon DEF TypeOK, own, Record
  <2>3. CASE p \in alive
    <3>1. r.seq <= cursor[p] => rows[e] > 0
      BY <2>0, <2>1, <2>3, Zenon DEF Fit
    <3>2. QED
      BY <2>1, <2>2, <3>1
  <2>4. CASE p \notin alive
    <3>1. cursor[p] = 0
      BY <2>0, <2>4, Zenon DEF Holding
    <3>2. QED
      BY <2>1, <2>2, <3>1
  <2>5. QED
    BY <2>3, <2>4, Zenon
<1>2. QED
  BY <1>1, AuditInvariance, PTL

\* The mark before the delivery and after it, and the filter of running peers,
\* keep the central store at one row an entry.
THEOREM OneRowCorrect == Spec => []OneRow
<1>1. Inv => OneRow
  BY DEF Inv, Guarded, OneRow, TypeOK
<1>2. QED
  BY <1>1, AuditInvariance, PTL

=============================================================================
