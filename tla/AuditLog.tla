------------------------------ MODULE AuditLog ------------------------------
(***************************************************************************)
(* The audit write-ahead log (audit/wal) and the worker of each process    *)
(* that drains it to the central store (audit/sync_worker.py).             *)
(*                                                                         *)
(* The processes share one directory.  A file's name carries the process   *)
(* identifier of its writer and the time it was opened; each process       *)
(* numbers its records itself and drains its own files, and the files of a *)
(* process that has ended are absorbed once by each process that starts    *)
(* later.  Identifiers are used again, by a process started afresh as by a *)
(* fork's child.  The worker delivers entry by entry, while other threads  *)
(* of its process write and other processes start, drain, fork and die.    *)
(***************************************************************************)
EXTENDS Naturals, FiniteSets

CONSTANTS
    Pids,
    Entries,        \* the audit entries, each written once
    FileRecords,    \* records that fill a file (max_file_size)
    MaxFiles,       \* files a process keeps when it rotates (max_files)
    BatchSize,      \* entries one cycle reads (batch_size)
    MaxName,        \* bound: names of one identifier's files at a time
    MaxStarts,      \* bound: processes started or forked, workers respawned
    MaxExpired      \* bound: marks lost

ASSUME AuditLogAssumption ==
    /\ FileRecords \in Nat \ {0} /\ MaxFiles \in Nat
    /\ BatchSize \in Nat \ {0}
    /\ MaxName \in Nat /\ MaxStarts \in Nat /\ MaxExpired \in Nat

None == 0

Names == 1..MaxName

Record == [owner : Pids, file : Names, seq : Nat \ {0}, id : Entries]

VARIABLES
    alive,          \* the identifiers of running processes
    names,          \* per identifier: its files, numbered in name order
    disk,           \* the readable records
    current,        \* per process: the file it appends to, or None
    sequence,       \* per process: the WAL's counter
    cursor,         \* per process: the worker's _last_processed_seq
    absorbed,       \* processes whose one-shot absorb is consumed
    worker,         \* per process: where its worker is
    marks,          \* entries marked as processed in the idempotency cache
    rows,           \* per entry: its rows in the central store (2: two or more)
    home,           \* history, per entry: the identifier it was written under
    ended,          \* history: entries whose writing process has ended
    capped,         \* history: entries the retention cap deleted
    repeatable,     \* history: entries that have lost their mark, or overlapped
    overlaid,       \* history: identifiers taken over with counters that do not
                    \* fit the files they carry
    starts, expired \* bounds' counters

files == <<names, disk>>
process == <<alive, current, sequence, absorbed>>
store == <<marks, rows>>
history == <<home, ended, capped, overlaid>>
counters == <<starts, expired>>
vars == <<alive, names, disk, current, sequence, cursor, absorbed, worker,
          marks, rows, home, ended, capped, repeatable, overlaid, starts, expired>>

Idle == [at |-> "loop", draining |-> FALSE, batch |-> {}, entry |-> {},
         advance_ok |-> FALSE, synced |-> FALSE]

Worker == [at : {"loop", "sync", "check", "log", "mark"}, draining : BOOLEAN,
           batch : SUBSET Record, entry : SUBSET Record,
           advance_ok : BOOLEAN, synced : BOOLEAN]

TypeOK ==
    /\ alive \subseteq Pids /\ absorbed \subseteq Pids /\ overlaid \subseteq Pids
    /\ names \in [Pids -> SUBSET Names]
    /\ current \in [Pids -> Names \cup {None}]
    /\ disk \subseteq Record
    /\ sequence \in [Pids -> Nat] /\ cursor \in [Pids -> Nat]
    /\ worker \in [Pids -> Worker]
    /\ marks \subseteq Entries /\ rows \in [Entries -> 0..2]
    /\ home \in [Entries -> SUBSET Pids]
    /\ ended \subseteq Entries /\ capped \subseteq Entries /\ repeatable \subseteq Entries
    /\ starts \in Nat /\ expired \in Nat

Init ==
    /\ alive = {} /\ absorbed = {} /\ overlaid = {}
    /\ names = [p \in Pids |-> {}]
    /\ current = [p \in Pids |-> None]
    /\ disk = {}
    /\ sequence = [p \in Pids |-> 0] /\ cursor = [p \in Pids |-> 0]
    /\ worker = [p \in Pids |-> Idle]
    /\ marks = {} /\ rows = [e \in Entries |-> 0]
    /\ home = [e \in Entries |-> {}]
    /\ ended = {} /\ capped = {} /\ repeatable = {}
    /\ starts = 0 /\ expired = 0

-----------------------------------------------------------------------------
(* The write-ahead log *)

own(p) == {r \in disk : r.owner = p}

in_file(p, f) == {r \in own(p) : r.file = f}

\* The files beyond the newest MaxFiles, delivered or not.
cleanup_old_files(kept) ==
    {f \in kept : Cardinality({g \in kept : g > f}) >= MaxFiles}

\* The name of a file opened now: the first one after all of this identifier's.
new_name(p, f) ==
    /\ \A g \in names[p] : g < f
    /\ \A h \in Names : (\A g \in names[p] : g < h) => f <= h

\* A record of the next number, in the current file or in a new one; the file
\* it fills is closed and the retention cap enforced.
write(p, e, f) ==
    LET r == [owner |-> p, file |-> f, seq |-> sequence[p] + 1, id |-> e]
        full == Cardinality(in_file(p, f)) + 1 >= FileRecords
        dropped == IF full THEN cleanup_old_files(names[p] \cup {f}) ELSE {}
        gone == {x \in disk \cup {r} : x.owner = p /\ x.file \in dropped}
    IN  /\ p \in alive /\ home[e] = {}
        /\ IF current[p] = None THEN new_name(p, f) ELSE f = current[p]
        /\ sequence' = [sequence EXCEPT ![p] = @ + 1]
        /\ names' = [names EXCEPT ![p] = (@ \cup {f}) \ dropped]
        /\ current' = [current EXCEPT ![p] = IF full THEN None ELSE f]
        /\ disk' = (disk \cup {r}) \ gone
        /\ capped' = capped \cup {x.id : x \in gone}
        /\ home' = [home EXCEPT ![e] = {p}]
        /\ UNCHANGED <<alive, cursor, absorbed, worker, store, ended, repeatable, overlaid, counters>>

\* The order of a read: by number; records of one number by name.
precedes(r, x) ==
    r.seq < x.seq \/ (r.seq = x.seq /\ (r.owner # x.owner \/ r.file <= x.file))

\* Mutant: the cursor is taken for the next number to read.
pending_past_next(p) == {r \in own(p) : r.seq > cursor[p] + 1}

\* The records above the cursor, and the lowest BatchSize of them.
pending(p) == {r \in own(p) : r.seq > cursor[p]}

recover_bounded(p, batch) ==
    /\ batch \subseteq pending(p)
    /\ \A r \in batch : \A x \in pending(p) \ batch : precedes(r, x)
    /\ \/ batch = pending(p) /\ Cardinality(batch) <= BatchSize
       \/ Cardinality(batch) = BatchSize

\* Mutant: a running process's files count as orphans.
recover_orphans_of_all(p) == {r \in disk : r.owner # p}

\* The records of files whose writer is neither this process nor running.
recover_orphans(p) == {r \in disk : r.owner # p /\ r.owner \notin alive}

\* The closed files whose records are all at or below the cursor; a file
\* without a readable record stays.
cleanup_processed(p) ==
    {f \in names[p] \ {current[p]} :
        in_file(p, f) # {} /\ \A r \in in_file(p, f) : r.seq <= cursor[p]}

-----------------------------------------------------------------------------
(* Processes *)

\* The highest number in the last file of this identifier, 0 if it has none.
init_or_recover(p, n) ==
    LET last == {r.seq : r \in {x \in own(p) : \A f \in names[p] : f <= x.file}}
    IN  n \in last \cup {0} /\ \A m \in last : m <= n

\* Counters that do not fit the files: a record is numbered above the counter,
\* or lies undelivered below the cursor, or the cursor is ahead of the counter.
misfit(p, n, c) ==
    \/ c > n
    \/ \E r \in own(p) : r.seq > n \/ (r.seq <= c /\ rows[r.id] = 0)

Begins(p, n, c) ==
    /\ starts < MaxStarts /\ starts' = starts + 1
    /\ alive' = alive \cup {p}
    /\ sequence' = [sequence EXCEPT ![p] = n]
    /\ cursor' = [cursor EXCEPT ![p] = c]
    /\ overlaid' = IF misfit(p, n, c) THEN overlaid \cup {p} ELSE overlaid
    /\ UNCHANGED <<files, current, absorbed, worker, store, home, ended, capped, repeatable,
                   expired>>

\* A process starts: the counter is recovered, the worker's cursor is not.
Start(p) ==
    /\ p \notin alive
    /\ \E n \in {0} \cup {r.seq : r \in disk} : init_or_recover(p, n) /\ Begins(p, n, 0)

\* A fork's child keeps the counter and the cursor it inherits.
repair_if_forked(parent, p) ==
    /\ parent \in alive /\ p \notin alive
    /\ Begins(p, sequence[parent], cursor[parent])

\* A row the worker logged and did not mark can be logged again.
unmarked(p) == IF worker[p].at = "mark" THEN {r.id : r \in worker[p].entry} ELSE {}

\* A process ends.
Ends(p) ==
    /\ p \in alive
    /\ alive' = alive \ {p}
    /\ current' = [current EXCEPT ![p] = None]
    /\ sequence' = [sequence EXCEPT ![p] = 0]
    /\ cursor' = [cursor EXCEPT ![p] = 0]
    /\ absorbed' = absorbed \ {p}
    /\ worker' = [worker EXCEPT ![p] = Idle]
    /\ ended' = ended \cup {e \in Entries : p \in home[e]}
    /\ repeatable' = repeatable \cup unmarked(p)
    /\ UNCHANGED <<disk, store, home, capped, overlaid, counters>>

Stop(p) == Ends(p) /\ UNCHANGED names

\* It ends inside the first write to a new file, whose header is out already.
CutFirstWrite(p) ==
    /\ current[p] = None
    /\ \E f \in Names : new_name(p, f) /\ names' = [names EXCEPT ![p] = @ \cup {f}]
    /\ Ends(p)

-----------------------------------------------------------------------------
(* The worker *)

Goes(p, w) == worker' = [worker EXCEPT ![p] = w]

Takes(draining, batch) ==
    [at |-> "check", draining |-> draining, batch |-> batch, entry |-> {},
     advance_ok |-> TRUE, synced |-> FALSE]

\* The loop begins with the absorb; a pass without orphans consumes it.
AbsorbOrphans(p) ==
    LET orphans == recover_orphans(p)
    IN  /\ p \in alive \ absorbed /\ worker[p].at = "loop"
        /\ IF orphans = {}
           THEN Goes(p, [Idle EXCEPT !.at = "sync"]) /\ absorbed' = absorbed \cup {p}
           ELSE Goes(p, Takes(FALSE, orphans)) /\ UNCHANGED absorbed
        /\ UNCHANGED <<alive, files, current, sequence, cursor, store, history, repeatable, counters>>

\* No central destination is wired for the absorb.  The drain that finds none
\* changes nothing.
NoDestination(p) ==
    /\ p \in alive \ absorbed /\ worker[p].at \in {"loop", "sync"}
    /\ Goes(p, [Idle EXCEPT !.at = IF worker[p].at = "loop" THEN "sync" ELSE "loop"])
    /\ UNCHANGED <<files, process, cursor, store, history, repeatable, counters>>

\* A cycle reads its batch, the absorb behind it.
SyncBatch(p) ==
    /\ p \in alive
    /\ worker[p].at = "sync" \/ (worker[p].at = "loop" /\ p \in absorbed)
    /\ IF pending(p) = {}
       THEN Goes(p, Idle)
       ELSE \E batch \in SUBSET pending(p) :
                recover_bounded(p, batch) /\ Goes(p, Takes(TRUE, batch))
    /\ UNCHANGED <<files, process, cursor, store, history, repeatable, counters>>

\* The entry is delivered: the cursor follows the leading run of successes.
Succeeds(p, r) ==
    LET w == worker[p]
    IN  /\ Goes(p, [w EXCEPT !.at = "check", !.batch = @ \ {r}, !.entry = {}, !.synced = TRUE])
        /\ cursor' = IF w.draining /\ w.advance_ok /\ r.seq > cursor[p]
                     THEN [cursor EXCEPT ![p] = r.seq] ELSE cursor

held_elsewhere(p, e) ==
    \E q \in Pids \ {p} : \E r \in worker[q].entry : r.id = e

\* The next entry by number, unless its mark shows it delivered.
CheckEntry(p) ==
    /\ p \in alive /\ worker[p].at = "check"
    /\ \E r \in worker[p].batch :
        /\ \A x \in worker[p].batch : precedes(r, x)
        /\ IF r.id \in marks
           THEN Succeeds(p, r) /\ UNCHANGED repeatable
           ELSE /\ Goes(p, [worker[p] EXCEPT !.at = "log", !.entry = {r}])
                /\ repeatable' = IF r.id \in ended /\ held_elsewhere(p, r.id)
                                 THEN repeatable \cup {r.id} ELSE repeatable
                /\ UNCHANGED cursor
    /\ UNCHANGED <<files, process, store, history, counters>>

LogEntry(p, e) ==
    /\ p \in alive /\ worker[p].at = "log" /\ \E r \in worker[p].entry : r.id = e
    /\ rows' = [rows EXCEPT ![e] = IF @ = 0 THEN 1 ELSE 2]
    /\ Goes(p, [worker[p] EXCEPT !.at = "mark"])
    /\ UNCHANGED <<files, process, cursor, marks, history, repeatable, counters>>

\* Mutant: the cursor passes over an entry that was not delivered.
failed_advancing(w, r) ==
    [w EXCEPT !.at = "check", !.entry = {},
              !.batch = IF ~w.draining /\ ~w.synced THEN {} ELSE @ \ {r}]

\* The retries are exhausted.  A drain goes on with its cursor held; an absorb
\* that has delivered nothing yet gives the pass up.
failed(w, r) ==
    [w EXCEPT !.at = "check", !.entry = {}, !.advance_ok = FALSE,
              !.batch = IF ~w.draining /\ ~w.synced THEN {} ELSE @ \ {r}]

LogFails(p) ==
    /\ p \in alive /\ worker[p].at = "log"
    /\ \E r \in worker[p].entry : Goes(p, failed(worker[p], r))
    /\ UNCHANGED <<files, process, cursor, store, history, repeatable, counters>>

MarkEntry(p) ==
    /\ p \in alive /\ worker[p].at = "mark"
    /\ \E r \in worker[p].entry : marks' = marks \cup {r.id} /\ Succeeds(p, r)
    /\ UNCHANGED <<files, process, rows, history, repeatable, counters>>

\* The pass is over.  Only one that delivered something consumes the absorb.
EndAbsorb(p) ==
    /\ p \in alive /\ worker[p].at = "check" /\ worker[p].batch = {} /\ ~worker[p].draining
    /\ absorbed' = IF worker[p].synced THEN absorbed \cup {p} ELSE absorbed
    /\ Goes(p, [Idle EXCEPT !.at = "sync"])
    /\ UNCHANGED <<alive, files, current, sequence, cursor, store, history, repeatable, counters>>

\* The cycle is over; if it delivered something, processed files are deleted.
EndDrain(p) ==
    LET deleted == IF worker[p].synced THEN cleanup_processed(p) ELSE {}
    IN  /\ p \in alive /\ worker[p].at = "check" /\ worker[p].batch = {} /\ worker[p].draining
        /\ names' = [names EXCEPT ![p] = @ \ deleted]
        /\ disk' = {r \in disk : r.owner # p \/ r.file \notin deleted}
        /\ Goes(p, Idle)
        /\ UNCHANGED <<process, cursor, store, history, repeatable, counters>>

\* The cache drops a mark, or was not there to take it or to be asked.
ExpireMark(e) ==
    /\ e \in marks
    /\ marks' = marks \ {e}
    /\ repeatable' = repeatable \cup {e}
    /\ expired < MaxExpired /\ expired' = expired + 1
    /\ UNCHANGED <<files, process, cursor, worker, rows, history, starts>>

\* A BaseException ends the worker's thread inside a delivery, and the health
\* probe starts another one; cursor and absorb stay as they are.
Respawn(p) ==
    /\ p \in alive /\ worker[p].at \in {"log", "mark"}
    /\ starts < MaxStarts /\ starts' = starts + 1
    /\ Goes(p, Idle)
    /\ repeatable' = repeatable \cup unmarked(p)
    /\ UNCHANGED <<files, process, cursor, store, history, expired>>

-----------------------------------------------------------------------------
WorkerStep(p) ==
    \/ AbsorbOrphans(p) \/ NoDestination(p) \/ SyncBatch(p)
    \/ CheckEntry(p) \/ (\E e \in Entries : LogEntry(p, e)) \/ LogFails(p)
    \/ MarkEntry(p) \/ EndAbsorb(p) \/ EndDrain(p)

Next ==
    \/ \E p \in Pids :
        \/ \E e \in Entries, f \in Names : write(p, e, f)
        \/ Start(p) \/ Stop(p) \/ CutFirstWrite(p)
        \/ \E parent \in Pids : repair_if_forked(parent, p)
        \/ WorkerStep(p) \/ Respawn(p)
    \/ \E e \in Entries : ExpireMark(e)

Spec == Init /\ [][Next]_vars

\* A worker's thread goes on; a destination is wired, and takes a given entry,
\* again and again if it is asked again and again.
FairSpec ==
    /\ Spec
    /\ \A p \in Pids :
        /\ WF_vars(WorkerStep(p)) /\ SF_vars(SyncBatch(p))
        /\ \A e \in Entries : SF_vars(LogEntry(p, e))

-----------------------------------------------------------------------------
(* Properties *)

\* An entry is delivered or deleted by the retention cap, or it is in a file of
\* its writer's identifier, above the cursor that decides what is drained and
\* what is deleted: no failure of the destination, crash, restart or fork puts
\* an undelivered entry where the drain skips it.  The exception is an
\* identifier that was taken over with counters that do not fit its files.
NothingLost ==
    \A e \in Entries, p \in Pids :
        p \in home[e] /\ p \notin overlaid =>
            \/ rows[e] > 0 \/ e \in capped
            \/ \E r \in own(p) : r.id = e /\ r.seq > cursor[p]

\* An entry has two rows in the central store only if its mark was lost, its
\* deliverer died between row and mark, or two processes held it at a time
\* after its writer had ended: the drain, the absorb and the re-reads after a
\* failure never deliver an entry twice.
OneRow == \A e \in Entries : rows[e] > 1 => e \in repeatable

\* What a process has written is delivered while the process runs, whatever
\* the destination refuses in between.
Drained ==
    \A e \in Entries, p \in Pids :
        p \in home[e] /\ p \in alive
            ~> rows[e] > 0 \/ e \in capped \/ p \in overlaid \/ p \notin alive

=============================================================================
