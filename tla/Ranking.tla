------------------------------- MODULE Ranking -------------------------------
(***************************************************************************)
(* One call of storage_ranking(), veeam_aiops/ops/ranking.py: the backups  *)
(* in scope are read by a pool of workers, and the calling thread collects *)
(* the results as they complete, folds them in the order of the scan, and  *)
(* looks up the owners that no listing explains.                           *)
(*                                                                         *)
(* A read may end in a VeeamApiError, which makes the backup unreadable,   *)
(* or in any other exception, which ends the call, as Ctrl-C does; reads   *)
(* under way go on without anybody waiting for them.                       *)
(***************************************************************************)
EXTENDS BackupFiles, Subsequences, FiniteSetsExt

CONSTANTS
    Servers,
    Scopes,       \* sets of backups that may be asked for
    Workers,      \* concurrency
    MaxBackups,
    MaxLookups    \* MAX_OWNER_LOOKUPS

ASSUME RankingAssumption ==
    /\ \A s \in Servers : Consistent(s)
    /\ Workers \in Nat \ {0} /\ MaxBackups \in Nat \ {0} /\ MaxLookups \in Nat

VARIABLES
    server, scope,   \* what is asked of whom; they never change
    phase,           \* where the calling thread is
    session,         \* what negotiate() returned
    scanned,         \* the backups to read, in order
    job,             \* job[i]: where the read of scanned[i] is
    gathered,        \* results that the calling thread has
    stop,            \* the event that ends the reads at their next boundary
    late,            \* history: the reads of a collection begun after the event
    folded,          \* number of results folded
    charged,         \* [file, owner, machine] for every file charged to a machine
    shown,           \* shown[m]: the object that gave the row of m its name
    shared, ownerless, unmatched,   \* files charged to nobody
    strangers,       \* files whose one owner their backup does not list
    unreadable,      \* backups reported as unreadable, in the order of the report
    lookups          \* owners looked up, in order

scanVars == <<scanned, job, gathered, stop, late>>
sumVars  == <<folded, charged, shown, shared, ownerless, unmatched, strangers, unreadable, lookups>>
rankVars == <<server, scope, phase, session, scanVars, sumVars>>

Jobs    == DOMAIN scanned
Busy    == {"taken", "toObjects", "objects", "toFiles", "files"}
Over    == {"done", "failed"}

RankInit ==
    /\ server \in Servers
    /\ scope \in Scopes
    /\ phase = "negotiate"
    /\ session = None
    /\ scanned = <<>> /\ job = <<>> /\ gathered = {} /\ stop = FALSE /\ late = {}
    /\ folded = 0
    /\ charged = {} /\ shown = <<>>
    /\ shared = {} /\ ownerless = {} /\ unmatched = {} /\ strangers = {}
    /\ unreadable = <<>> /\ lookups = <<>>

-----------------------------------------------------------------------------
(* Before the scan                                                         *)

\* Any request of the calling thread may raise and end the call; so does a server
\* too old, and a scope that selects no backup.
Raise ==
    /\ phase \in {"negotiate", "list", "lookup"}
    /\ phase' = "failed"
    /\ UNCHANGED <<server, scope, session, scanVars, sumVars>>

Negotiate ==
    /\ phase = "negotiate"
    /\ session' \in Negotiated(server)
    /\ phase' = "list"
    /\ UNCHANGED <<server, scope, scanVars, sumVars>>

Cut(s, n) == SubSeq(s, 1, IF n < Len(s) THEN n ELSE Len(s))

\* _select() keeps the order of the server; at most MaxBackups are read.
List ==
    /\ phase = "list"
    /\ LET chosen == Picked(server.backups,
                         {k \in DOMAIN server.backups : server.backups[k] \in scope})
       IN  /\ chosen # <<>>
           /\ scanned' = Cut(chosen, MaxBackups)
    /\ job' = [i \in DOMAIN scanned' |-> "queued"]
    /\ phase' = "scan"
    /\ UNCHANGED <<server, scope, session, gathered, stop, late, sumVars>>

-----------------------------------------------------------------------------
(* The workers                                                             *)

Put(i, state) == job' = [job EXCEPT ![i] = state]

workerFrame == <<server, scope, phase, session, scanned, gathered, stop, sumVars>>

\* A free worker takes the first job of the queue.
Take(i) ==
    /\ job[i] = "queued"
    /\ \A k \in 1..(i - 1) : job[k] # "queued"
    /\ Cardinality({k \in Jobs : job[k] \in Busy}) < Workers
    /\ Put(i, "taken")
    /\ UNCHANGED <<workerFrame, late>>

\* _read() looks at the event,
Start(i) ==
    /\ job[i] = "taken"
    /\ Put(i, IF stop THEN "aborted" ELSE "toObjects")
    /\ UNCHANGED <<workerFrame, late>>

\* and then begins to read the first collection, though the event may be set by now.
OpenObjects(i) ==
    /\ job[i] = "toObjects"
    /\ Put(i, "objects")
    /\ late' = IF stop THEN late \cup {<<i, "objects">>} ELSE late
    /\ UNCHANGED workerFrame

\* Fault: the event is not looked at between the collections.
ReadObjectsOnward(i) ==
    /\ job[i] = "objects"
    /\ \E state \in {"toFiles", "unreadable", "broken"} : Put(i, state)
    /\ UNCHANGED <<workerFrame, late>>

\* The end of the first read, and the look at the event before the second.
ReadObjects(i) ==
    /\ job[i] = "objects"
    /\ \E state \in {IF stop THEN "aborted" ELSE "toFiles", "unreadable", "broken"} : Put(i, state)
    /\ UNCHANGED <<workerFrame, late>>

\* The beginning of the second.
OpenFiles(i) ==
    /\ job[i] = "toFiles"
    /\ Put(i, "files")
    /\ late' = IF stop THEN late \cup {<<i, "files">>} ELSE late
    /\ UNCHANGED workerFrame

\* The end of the second: under an assumed revision a refusal means that the server
\* is too old, which is no VeeamApiError.
ReadFiles(i) ==
    /\ job[i] = "files"
    /\ \E state \in {"read", "unreadable", "broken"} : Put(i, state)
    /\ UNCHANGED <<workerFrame, late>>

-----------------------------------------------------------------------------
(* The calling thread during the scan                                      *)

\* What is left of the queue when the pool is shut down.
Cancelled == [i \in Jobs |-> IF job[i] = "queued" THEN "cancelled" ELSE job[i]]

\* A result in the order of completion.
Collect(i) ==
    /\ phase = "scan"
    /\ job[i] \in {"read", "unreadable"}
    /\ i \notin gathered
    /\ gathered' = gathered \cup {i}
    /\ phase' = IF gathered' = Jobs THEN "fold" ELSE "scan"
    /\ UNCHANGED <<server, scope, session, scanned, job, stop, late, sumVars>>

\* future.result() raises, or Ctrl-C arrives: the event is set,
Abort ==
    /\ phase = "scan"
    /\ stop' = TRUE
    /\ phase' = "shutdown"
    /\ UNCHANGED <<server, scope, session, scanned, job, gathered, late, sumVars>>

\* and the queue cancelled; nobody waits for the reads under way.
Shutdown ==
    /\ phase = "shutdown"
    /\ job' = Cancelled
    /\ phase' = "failed"
    /\ UNCHANGED <<server, scope, session, scanned, gathered, stop, late, sumVars>>

-----------------------------------------------------------------------------
(* Folding the results and looking up strangers                            *)

Object(id) == CHOOSE o \in server.objects : o.id = id

\* The objects that a backup lists, and its files.
Listed(b) == {o.id : o \in {x \in server.objects : x.backup = b}}
Files(b)  == {f \in server.files : f.backup = b}

\* The one owner of a file that has one.
Owner(f) == CHOOSE o \in Owners(f, session.revision) : TRUE

\* charge(): a row belongs to a machine and shows the name of the first object that
\* was charged.
Charges(fs) ==
    {[file |-> f.id, owner |-> Owner(f), machine |-> Identity(Object(Owner(f)))] : f \in fs}

Shown(new) ==
    [m \in DOMAIN shown \cup {c.machine : c \in new} |->
        IF m \in DOMAIN shown THEN shown[m]
        ELSE (CHOOSE c \in new : c.machine = m).owner]

\* Fault: a file with several owners goes to each of them that its backup lists.
ClaimedByAny(f) == Owners(f, session.revision) \cap Listed(f.backup) # {}

\* Files with one owner, who is in the listing of their backup.
Claimed(f) ==
    /\ Cardinality(Owners(f, session.revision)) = 1
    /\ Owners(f, session.revision) \subseteq Listed(f.backup)

Fold(i) ==
    LET b     == scanned[i]
        files == IF job[i] = "read" THEN Files(b) ELSE {}
        owned == {f \in files : Claimed(f)}
        rest  == files \ owned
        many  == {f \in rest : Cardinality(Owners(f, session.revision)) > 1}
        none  == {f \in rest : Owners(f, session.revision) = {}}
    IN  /\ charged' = charged \cup Charges(owned)
        /\ shown' = Shown(Charges(owned))
        /\ shared' = shared \cup many
        /\ ownerless' = ownerless \cup none
        /\ strangers' = strangers \cup (rest \ (many \cup none))
        /\ unreadable' = IF job[i] = "unreadable" THEN Append(unreadable, b) ELSE unreadable

\* Fault: results are folded in whatever order they came.
FoldAny ==
    /\ phase = "fold"
    /\ \E i \in Jobs : Fold(i)
    /\ folded' = folded + 1
    /\ phase' = IF folded' = Len(scanned) THEN "lookup" ELSE "fold"
    /\ UNCHANGED <<server, scope, session, scanVars, unmatched, lookups>>

\* The results are folded in the order of the scan.
FoldNext ==
    /\ phase = "fold"
    /\ Fold(folded + 1)
    /\ folded' = folded + 1
    /\ phase' = IF folded' = Len(scanned) THEN "lookup" ELSE "fold"
    /\ UNCHANGED <<server, scope, session, scanVars, unmatched, lookups>>

Of(o)    == {f \in strangers : Owner(f) = o}
Bytes(o) == MapThenSumSet(LAMBDA f : f.size, Of(o))

Unknown == {Owner(f) : f \in strangers}

\* The owner with the most bytes is next.
NextLargest == {o \in Unknown : \A x \in Unknown : Bytes(x) <= Bytes(o)}

\* _lookup(): the server knows the object, or not, or does not answer.
Lookup ==
    /\ phase = "lookup"
    /\ Len(lookups) < MaxLookups
    /\ \E o \in NextLargest :
        /\ lookups' = Append(lookups, [owner |-> o, bytes |-> Bytes(o)])
        /\ strangers' = strangers \ Of(o)
        /\ \/ /\ o \in server.knows
              /\ charged' = charged \cup Charges(Of(o))
              /\ shown' = Shown(Charges(Of(o)))
              /\ UNCHANGED unmatched
           \/ unmatched' = unmatched \cup Of(o) /\ UNCHANGED <<charged, shown>>
    /\ UNCHANGED <<server, scope, phase, session, scanVars, folded, shared, ownerless, unreadable>>

\* What is left is reported as not looked up.
Finish ==
    /\ phase = "lookup"
    /\ strangers = {} \/ Len(lookups) = MaxLookups
    /\ unmatched' = unmatched \cup strangers
    /\ phase' = "done"
    /\ UNCHANGED <<server, scope, session, scanVars, folded, charged, shown, shared, ownerless,
                   strangers, unreadable, lookups>>

Caller == Raise \/ Negotiate \/ List \/ Abort \/ Shutdown \/ FoldNext \/ Lookup \/ Finish

Worker(i) ==
    Take(i) \/ Start(i) \/ OpenObjects(i) \/ ReadObjects(i) \/ OpenFiles(i) \/ ReadFiles(i)

RankNext == Caller \/ \E i \in Jobs : Collect(i) \/ Worker(i)

-----------------------------------------------------------------------------
(* Properties                                                              *)

\* "never charged to anyone, never counted as zero" (ranking.py:5-7): in a finished
\* ranking each file of each backup in scope is a machine's, or shared, ownerless or
\* unmatched, exactly one of them, unless its backup is named as unreadable or
\* the scan says that it was cut short; a machine's are files with that one owner.
Conserved ==
    phase = "done" =>
        LET read    == {i \in Jobs : \A k \in DOMAIN unreadable : unreadable[k] # scanned[i]}
            files   == UNION {Files(scanned[i]) : i \in read}
            mine    == {f \in files : \E c \in charged : c.file = f.id}
            buckets == <<mine, shared, ownerless, unmatched>>
        IN  /\ UNION {buckets[k] : k \in 1..4} = files
            /\ \A k, l \in 1..4 : k # l => buckets[k] \cap buckets[l] = {}
            /\ \A c \in charged : \A f \in files : c.file = f.id =>
                   Owners(f, session.revision) = {c.owner}
            /\ Len(scanned) < MaxBackups =>
                   \A k \in DOMAIN server.backups : server.backups[k] \in scope =>
                       \E i \in Jobs : /\ scanned[i] = server.backups[k]
                                      /\ job[i] \in {"read", "unreadable"}

\* "the payload does not depend on which read finished first" (ranking.py:19-22): the
\* unreadable backups are reported in the order of the scan, and a row has the name
\* of the first object of its machine in that order.
PayloadInOrder ==
    phase = "done" =>
        /\ unreadable = Picked(scanned, {i \in Jobs : job[i] = "unreadable"})
        /\ \A m \in DOMAIN shown :
            LET place(o) == CHOOSE i \in Jobs : scanned[i] = Object(o).backup
                claims   == {c \in charged : c.machine = m /\ \E f \in server.files :
                                                f.id = c.file /\ Claimed(f)}
            IN  claims # {} => \A c \in claims : place(shown[m]) <= place(c.owner)

\* "running ones stop at their next collection boundary" (ranking.py:140-142): the
\* event may be set after a worker has looked at it, so a read of a collection can
\* begin afterwards; but each worker begins one more at most, a queued job none.
AbortBoundsReads == Cardinality(late) <= Workers

=============================================================================
