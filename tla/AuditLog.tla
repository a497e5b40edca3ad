------------------------------- MODULE AuditLog -------------------------------
(***************************************************************************)
(* The audit engine of veeam_aiops/governance/audit.py: several processes  *)
(* (the MCP server, CLI invocations), each with several threads, append to *)
(* one SQLite file.  A write commits a "pending" intent before its body    *)
(* runs and resolves it afterwards; a read appends one final row.  Every   *)
(* append runs under a guard (thread lock + flock) and may first rotate    *)
(* the file; resolving and reconciling a row do NOT take the guard.        *)
(*                                                                         *)
(* A call's position inside the engine is pc[c]; the guard is held by a    *)
(* call exactly while pc[c] is one of GuardPhases, so a crash releases it, *)
(* as closing the file descriptor does.  A row names the call it was       *)
(* written for; the code stores the tool and its parameters instead.       *)
(***************************************************************************)
EXTENDS Naturals, Sequences

CONSTANTS
    Procs,        \* operating-system processes sharing audit.db
    Reads,        \* calls that append one final row (risk low, or a preview)
    Writes,       \* calls that commit an intent first
    ProcOf,       \* ProcOf[c]: the process that runs call c
    Outcomes,     \* final statuses of a row
    Flock,        \* does the guard span processes?  TRUE on POSIX, FALSE on Windows
    OperatorChecksFirst, \* does the operator reconcile dead or finished calls only?
    RotateAt,     \* rows at which the file counts as too large (_MAX_DB_SIZE_BYTES)
    MaxArchives,  \* archives kept (_MAX_ARCHIVES)
    MaxRestarts   \* bound on process restarts

Calls == Reads \cup Writes

ASSUME AuditAssumption ==
    /\ Reads \cap Writes = {}
    /\ ProcOf \in [Calls -> Procs]
    /\ {"ok", "error", "unknown"} \subseteq Outcomes
    /\ "pending" \notin Outcomes
    /\ "absent" \notin Outcomes
    /\ Flock \in BOOLEAN
    /\ OperatorChecksFirst \in BOOLEAN
    /\ RotateAt \in Nat
    /\ MaxArchives \in Nat
    /\ MaxRestarts \in Nat

VARIABLES
    pc,        \* pc[c]: where call c is in the engine
    strict,    \* strict[c]: the row c is to append is an intent (log's strict=True)
    id,        \* id[c]: the row id an intent was given, 0 before
    log,       \* the rows of audit.db, by AUTOINCREMENT id
    main,      \* the part of log the last WAL checkpoint moved to the main file
    table,     \* does the live file have the audit_log table?
    archives,  \* the rotated files, oldest first
    ok,        \* ok[p]: the engine of p initialised its database (_ok)
    blocked,   \* blocked[p]: the engine of p refuses writes (_write_blocked)
    restarts   \* number of restarts so far

vars == <<pc, strict, id, log, main, table, archives, ok, blocked, restarts>>

\* Fault: the guard survives the call whose append failed.
GuardPhasesLeaked == {"check", "checkpoint", "rename", "init", "insert", "unlogged"}

GuardPhases == {"check", "checkpoint", "rename", "init", "insert"}
Ended       == {"done", "unlogged", "unresolved", "dead"}
Phases      == {"ready", "waiting", "running"} \cup GuardPhases \cup Ended

Row == [call : Calls, status : Outcomes \cup {"pending"}]

Pending(rows) == \E i \in 1..Len(rows) : rows[i].status = "pending"

Init ==
    /\ pc = [c \in Calls |-> "ready"]
    /\ strict = [c \in Calls |-> c \in Writes]
    /\ id = [c \in Calls |-> 0]
    /\ log = <<>>
    /\ main = <<>>
    /\ table = TRUE
    /\ archives = <<>>
    /\ ok = [p \in Procs |-> TRUE]
    /\ blocked = [p \in Procs |-> FALSE]
    /\ restarts = 0

Goto(c, phase) == pc' = [pc EXCEPT ![c] = phase]

-----------------------------------------------------------------------------
(* Entering the engine                                                     *)

\* Fault: begin_write() forgets to look at _write_blocked.
RequestUnblocked(c) ==
    /\ pc[c] = "ready"
    /\ ok[ProcOf[c]]
    /\ Goto(c, "waiting")
    /\ UNCHANGED <<strict, id, log, main, table, archives, ok, blocked, restarts>>

\* log() or begin_write() accepts the call and goes for the guard.
Request(c) ==
    /\ pc[c] = "ready"
    /\ ok[ProcOf[c]]
    /\ strict[c] => ~blocked[ProcOf[c]]
    /\ Goto(c, "waiting")
    /\ UNCHANGED <<strict, id, log, main, table, archives, ok, blocked, restarts>>

\* begin_write() raises before the guard: writes are blocked, or the database
\* never initialised.  The wrapper then logs the refusal as an ordinary row.
RefuseWrite(c) ==
    /\ pc[c] = "ready"
    /\ strict[c]
    /\ blocked[ProcOf[c]] \/ ~ok[ProcOf[c]]
    /\ blocked' = [blocked EXCEPT ![ProcOf[c]] = TRUE]
    /\ strict' = [strict EXCEPT ![c] = FALSE]
    /\ UNCHANGED <<pc, id, log, main, table, archives, ok, restarts>>

\* A plain row is dropped, with a warning, when the database never initialised.
DropRow(c) ==
    /\ pc[c] = "ready"
    /\ ~strict[c]
    /\ ~ok[ProcOf[c]]
    /\ Goto(c, "unlogged")
    /\ UNCHANGED <<strict, id, log, main, table, archives, ok, blocked, restarts>>

\* Fault: only the thread lock is taken, whatever the platform offers.
ExcludesThreads(c, d) == ProcOf[c] = ProcOf[d]

\* Two calls may not be in the guard at once if they share a process (thread
\* lock) or if the file lock spans processes.
Excludes(c, d) == Flock \/ ProcOf[c] = ProcOf[d]

Acquire(c) ==
    /\ pc[c] = "waiting"
    /\ \A d \in Calls : pc[d] \in GuardPhases => ~Excludes(c, d)
    /\ Goto(c, "check")
    /\ UNCHANGED <<strict, id, log, main, table, archives, ok, blocked, restarts>>

-----------------------------------------------------------------------------
(* Rotation, under the guard                                               *)

\* Fault: rotation looks at the size alone.
MayRotateBySize == table /\ Len(log) >= RotateAt

\* Too large, and no intent is pending: the rotation goes ahead.
MayRotate == table /\ Len(log) >= RotateAt /\ ~Pending(log)

Check(c) ==
    /\ pc[c] = "check"
    /\ Goto(c, IF MayRotate THEN "checkpoint" ELSE "insert")
    /\ UNCHANGED <<strict, id, log, main, table, archives, ok, blocked, restarts>>

\* Fault: the file is renamed without a checkpoint.
CheckpointSkipped(c) ==
    /\ pc[c] = "checkpoint"
    /\ Goto(c, "rename")
    /\ UNCHANGED <<strict, id, log, main, table, archives, ok, blocked, restarts>>

\* wal_checkpoint(TRUNCATE): every committed row reaches the main file, or the
\* database is busy and the rotation is given up.
Checkpoint(c) ==
    /\ pc[c] = "checkpoint"
    /\ \/ main' = log /\ Goto(c, "rename")
       \/ UNCHANGED main /\ Goto(c, "insert")
    /\ UNCHANGED <<strict, id, log, table, archives, ok, blocked, restarts>>

\* The main file becomes the newest archive, or the rename fails.  The
\* write-ahead log does not follow it.
Rename(c) ==
    /\ pc[c] = "rename"
    /\ \/ /\ archives' = Append(archives, main)
          /\ log' = <<>>
          /\ main' = <<>>
          /\ table' = FALSE
          /\ Goto(c, "init")
       \/ /\ Goto(c, "insert")
          /\ UNCHANGED <<log, main, table, archives>>
    /\ UNCHANGED <<strict, id, ok, blocked, restarts>>

\* The newest MaxArchives archives, as _cleanup_archives leaves them.
Newest(files) ==
    IF Len(files) <= MaxArchives THEN files
    ELSE SubSeq(files, Len(files) - MaxArchives + 1, Len(files))

\* _init_db() and _cleanup_archives(): both done, only the first, or neither;
\* a failure is swallowed and the append goes on.
InitDb(c) ==
    /\ pc[c] = "init"
    /\ Goto(c, "insert")
    /\ \/ table' = TRUE /\ archives' \in {archives, Newest(archives)}
       \/ UNCHANGED <<table, archives>>
    /\ UNCHANGED <<strict, id, log, main, ok, blocked, restarts>>

-----------------------------------------------------------------------------
(* The append itself, and the end of a write                               *)

\* The row is committed and the guard released.  An intent lets the body run.
Insert(c) ==
    /\ pc[c] = "insert"
    /\ table
    /\ \E s \in IF strict[c] THEN {"pending"}
                ELSE IF c \in Writes THEN {"error"} ELSE Outcomes :
          log' = Append(log, [call |-> c, status |-> s])
    /\ IF strict[c]
         THEN id' = [id EXCEPT ![c] = Len(log) + 1] /\ Goto(c, "running")
         ELSE UNCHANGED id /\ Goto(c, "done")
    /\ UNCHANGED <<strict, main, table, archives, ok, blocked, restarts>>

\* Fault: the engine fails open, and the body runs without an intent.
InsertFailsOpen(c) ==
    /\ pc[c] = "insert"
    /\ Goto(c, IF strict[c] THEN "running" ELSE "unlogged")
    /\ UNCHANGED <<strict, id, log, main, table, archives, ok, blocked, restarts>>

\* The append fails (no table, a full disk, a lock held too long).  An intent
\* blocks the process and raises; a plain row is lost with a warning.
InsertFails(c) ==
    /\ pc[c] = "insert"
    /\ IF strict[c]
         THEN /\ blocked' = [blocked EXCEPT ![ProcOf[c]] = TRUE]
              /\ strict' = [strict EXCEPT ![c] = FALSE]
              /\ Goto(c, "ready")
         ELSE Goto(c, "unlogged") /\ UNCHANGED <<blocked, strict>>
    /\ UNCHANGED <<id, log, main, table, archives, ok, restarts>>

\* The row an UPDATE ... WHERE id = i AND status = 'pending' changes.
Resolvable(i) == table /\ i \in 1..Len(log) /\ log[i].status = "pending"

\* Fault: a resolution goes to the row inserted last.
SetStatusLast(i, s) == log' = [log EXCEPT ![Len(log)] = [@ EXCEPT !.status = s]]

SetStatus(i, s) == log' = [log EXCEPT ![i] = [@ EXCEPT !.status = s]]

\* finish_write(), outside the guard: the body is over, its intent is resolved.
Finish(c) ==
    /\ pc[c] = "running"
    /\ Resolvable(id[c])
    /\ \E s \in Outcomes : SetStatus(id[c], s)
    /\ Goto(c, "done")
    /\ UNCHANGED <<strict, id, main, table, archives, ok, blocked, restarts>>

\* Fault: a failed finalization is swallowed and the call reported as done.
FinishFailsSwallowed(c) ==
    /\ pc[c] = "running"
    /\ blocked' = [blocked EXCEPT ![ProcOf[c]] = TRUE]
    /\ Goto(c, "done")
    /\ UNCHANGED <<strict, id, log, main, table, archives, ok, restarts>>

\* finish_write() fails, for want of the row or of the storage: the intent
\* stays as it is and the process starts no further write.
FinishFails(c) ==
    /\ pc[c] = "running"
    /\ blocked' = [blocked EXCEPT ![ProcOf[c]] = TRUE]
    /\ Goto(c, "unresolved")
    /\ UNCHANGED <<strict, id, log, main, table, archives, ok, restarts>>

-----------------------------------------------------------------------------
(* Operators and crashes                                                   *)

\* reconcile_pending(i).  The docstring asks the operator to check first that
\* the write is not still running.
Reconcile(i) ==
    /\ Resolvable(i)
    /\ OperatorChecksFirst => pc[log[i].call] \in {"unresolved", "dead"}
    /\ SetStatus(i, "unknown")
    /\ UNCHANGED <<pc, strict, id, main, table, archives, ok, blocked, restarts>>

\* A process dies at any point and a new engine is built in its place: the
\* calls it was making are gone, its flags are reset, and _init_db() either
\* succeeds, which also brings a missing table back, or fails.
Untouched(c) == pc[c] = "ready" /\ (c \in Writes => strict[c])

Restart(p) ==
    /\ restarts < MaxRestarts
    /\ restarts' = restarts + 1
    /\ pc' = [c \in Calls |->
                IF ProcOf[c] = p /\ ~Untouched(c) /\ pc[c] \notin {"done", "unlogged"}
                THEN "dead" ELSE pc[c]]
    /\ blocked' = [blocked EXCEPT ![p] = FALSE]
    /\ \E good \in BOOLEAN :
          /\ ok' = [ok EXCEPT ![p] = good]
          /\ table' = (table \/ good)
    /\ UNCHANGED <<strict, id, log, main, archives>>

-----------------------------------------------------------------------------

Step(c) ==
    \/ Request(c) \/ RefuseWrite(c) \/ DropRow(c) \/ Acquire(c)
    \/ Check(c) \/ Checkpoint(c) \/ Rename(c) \/ InitDb(c)
    \/ Insert(c) \/ InsertFails(c) \/ Finish(c) \/ FinishFails(c)

Next ==
    \/ \E c \in Calls : Step(c)
    \/ \E i \in 1..Len(log) : Reconcile(i)
    \/ \E p \in Procs : Restart(p)

Spec == Init /\ [][Next]_vars

\* A thread that can take a step inside the engine takes it: every lock is
\* released in a finally and SQLite waits at most its busy timeout.  Nothing
\* obliges an operator to reconcile or a process to restart.
FairSpec == Spec /\ \A c \in Calls : WF_vars(Step(c))

-----------------------------------------------------------------------------
(* Properties                                                              *)

TypeOK ==
    /\ pc \in [Calls -> Phases]
    /\ strict \in [Calls -> BOOLEAN]
    /\ id \in [Calls -> Nat]
    /\ log \in Seq(Row)
    /\ main \in Seq(Row)
    /\ table \in BOOLEAN
    /\ archives \in Seq(Seq(Row))
    /\ ok \in [Procs -> BOOLEAN]
    /\ blocked \in [Procs -> BOOLEAN]
    /\ restarts \in 0..MaxRestarts

\* A rotation never carries a pending intent away with the old file, although
\* rows are resolved and reconciled outside the guard while it runs
\* (audit.py:309-330): an archived intent could never be resolved again.
NoPendingArchived == \A k \in 1..Len(archives) : ~Pending(archives[k])

\* While the body of a write runs, the live file holds that write's own intent
\* under the id it was given, still pending, through other processes'
\* rotations, crashes and restarts (audit.py:230-238, SECURITY.md:74).
IntentHeld ==
    \A c \in Calls : pc[c] = "running" =>
        /\ id[c] \in 1..Len(log)
        /\ log[id[c]] = [call |-> c, status |-> "pending"]

\* A pending row is never left behind by a call that ended normally: it belongs
\* to a body that still runs, to a dead process, or to a finalization that
\* failed (audit.py:253-259, SECURITY.md:75-78).
PendingAccounted ==
    \A i \in 1..Len(log) : log[i].status = "pending" =>
        pc[log[i].call] \in {"running", "unresolved", "dead"}

\* Rotation loses no row: whatever leaves the live file arrives, complete, in
\* the newest archive, rows still in the write-ahead log included
\* (audit.py:320-330).
RotationKeepsRows ==
    [][Len(log') < Len(log) => archives' = Append(archives, log)]_vars

\* The trail is append-only but for the one resolution of an intent: no step of
\* any process, operator or late finalization changes a row that has a final
\* status (audit.py:244-250, 269-273).
ResolvedIsFinal ==
    [][\A i \in 1..Len(log) :
         log[i].status # "pending" /\ i <= Len(log') => log'[i] = log[i]]_vars

\* After a finalization was lost, no write of the same process goes for the
\* guard again until the process is restarted (SECURITY.md:75-76).
LossStopsWrites ==
    [][\A c, d \in Calls :
         pc[d] = "unresolved" /\ ProcOf[c] = ProcOf[d] /\ strict[c]
           => ~(pc[c] = "ready" /\ pc'[c] = "waiting")]_vars

\* Every call that entered the engine leaves it: no interleaving of rotations,
\* failures and crashes strands a call at the guard (audit.py:41-53).
EveryCallEnds == \A c \in Calls : <>(pc[c] \in Ended)

\* The rows anywhere in the trail that were written for call c.
RowsOf(c) ==
    {log[i] : i \in {j \in 1..Len(log) : log[j].call = c}}
    \cup UNION {{archives[k][i] : i \in {j \in 1..Len(archives[k]) : archives[k][j].call = c}}
                 : k \in 1..Len(archives)}

LedgerEntry(c) ==
    IF RowsOf(c) = {} THEN "absent" ELSE (CHOOSE r \in RowsOf(c) : TRUE).status

LedgerBody(c) ==
    IF pc[c] = "running" THEN "running"
    ELSE IF pc[c] \in {"unresolved", "dead"} THEN "over"
    ELSE IF ~strict[c] THEN "refused"
    ELSE IF pc[c] = "done" THEN "over"
    ELSE "idle"

Ledger == INSTANCE WriteLedger WITH
              entry <- [w \in Writes |-> LedgerEntry(w)],
              body  <- [w \in Writes |-> LedgerBody(w)]

\* The engine, its guard, its rotation and its failures implement the promise
\* of SECURITY.md:74-78 about writes.
LedgerSpec == Ledger!Spec

=============================================================================
