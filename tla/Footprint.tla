------------------------------ MODULE Footprint ------------------------------
(***************************************************************************)
(* One call of object_storage_usage(), veeam_aiops/ops/footprint.py, made  *)
(* after a ranking of the same server: the objects of a name, grouped by   *)
(* machine; a control query that tells whether the server filters restore  *)
(* points by object; then per machine its points, per backup its files.    *)
(***************************************************************************)
EXTENDS Ranking

CONSTANTS
    Wanted       \* the names that may be asked for

VARIABLES
    asked,       \* the name; it never changes
    step,        \* where the call is
    usession,    \* what its negotiate() returned
    filter,      \* "honoured", "ignored" or "unknown", None before the control query
    points,      \* points[m]: the restore points kept for machine m
    usage,       \* [machine, file, verdict] for the files that touch a machine
    visited,     \* <<machine, backup>> pairs whose files were read or refused
    unread       \* those that were refused

useVars     == <<asked, step, usession, filter, points, usage, visited, unread>>
storageVars == <<rankVars, useVars>>

FootprintInit ==
    /\ asked \in Wanted
    /\ step = "negotiate"
    /\ usession = None /\ filter = None
    /\ points = <<>>
    /\ usage = {} /\ visited = {} /\ unread = {}

-----------------------------------------------------------------------------

\* The objects of the name, and the machines they belong to.
Matches  == {o \in server.objects : o.name = asked}
Machines == {Identity(o) : o \in Matches}
Ids(m)   == {o.id : o \in {x \in Matches : Identity(x) = m}}

UseRaise ==
    /\ step \in {"negotiate", "find", "check", "points", "files"}
    /\ step' = "failed"
    /\ UNCHANGED <<asked, usession, filter, points, usage, visited, unread>>

UseNegotiate ==
    /\ step = "negotiate"
    /\ usession' \in Negotiated(server)
    /\ step' = "find"
    /\ UNCHANGED <<asked, filter, points, usage, visited, unread>>

Find ==
    /\ step = "find"
    /\ step' = IF Matches = {} THEN "done" ELSE "check"
    /\ UNCHANGED <<asked, usession, filter, points, usage, visited, unread>>

\* _filter_check(): a server that filters has no point of an object that cannot be.
CheckFilter ==
    /\ step = "check"
    /\ filter' \in {IF server.filters \/ server.points = {} THEN "honoured" ELSE "ignored", "unknown"}
    /\ step' = "points"
    /\ UNCHANGED <<asked, usession, points, usage, visited, unread>>

\* Unless the filter is proven, only points under the machine's own name are kept.
KeptPoints(m, returned) ==
    IF filter = "honoured" THEN returned ELSE {rp \in returned : rp.name \in {asked, None}}

\* _restore_points() of every machine, over all its objects; an exception on the way
\* ends the call and the server stands still, so the requests are one step, and the
\* points of all machines are read before the first file.
ReadPoints ==
    /\ step = "points"
    /\ LET returned(m) == IF server.filters THEN {rp \in server.points : rp.object \in Ids(m)}
                          ELSE server.points
       IN  points' = [m \in Machines |-> KeptPoints(m, returned(m))]
    /\ step' = "files"
    /\ UNCHANGED <<asked, usession, filter, usage, visited, unread>>

\* The backups that hold points of a machine.
Holding == {pair \in Machines \X {rp.backup : rp \in server.points} :
                \E rp \in points[pair[1]] : rp.backup = pair[2]}

\* _backup_usage(): the files of one backup, each with its verdict.
Verdicts(m, b) ==
    LET here     == {rp \in points[m] : rp.backup = b}
        verdict(f) == Classify(f, usession.revision, Ids(m), {rp.file : rp \in here},
                               {rp.id : rp \in points[m]})
    IN  {[machine |-> m, file |-> f.id, verdict |-> verdict(f)] :
            f \in {x \in Files(b) : verdict(x) # "foreign"}}

\* The backups are read in a fixed order.  One that cannot be read is reported and
\* the others are read all the same.
ReadBackup ==
    /\ step = "files"
    /\ visited # Holding
    /\ LET next == CHOOSE pair \in Holding \ visited : TRUE
       IN  /\ visited' = visited \cup {next}
           /\ \/ usage' = usage \cup Verdicts(next[1], next[2]) /\ UNCHANGED unread
              \/ unread' = unread \cup {next} /\ UNCHANGED usage
    /\ UNCHANGED <<asked, step, usession, filter, points>>

Total ==
    /\ step = "files"
    /\ visited = Holding
    /\ step' = "done"
    /\ UNCHANGED <<asked, usession, filter, points, usage, visited, unread>>

\* _overlapping(): a point that came back for two machines; the totals are withheld and
\* every machine is marked as not attributable.
Overlap == \E m, n \in DOMAIN points : m # n /\ points[m] \cap points[n] # {}

UseStep ==
    UseRaise \/ UseNegotiate \/ Find \/ CheckFilter \/ ReadPoints \/ ReadBackup \/ Total

\* The usage of an object is asked for when the ranking is done.
UseNext == phase = "done" /\ UseStep /\ UNCHANGED rankVars

-----------------------------------------------------------------------------

StorageInit == RankInit /\ FootprintInit
StorageNext == (RankNext /\ UNCHANGED useVars) \/ UseNext
StorageSpec == StorageInit /\ [][StorageNext]_storageVars

-----------------------------------------------------------------------------
(* Properties                                                              *)

File(id) == CHOOSE f \in server.files : f.id = id

\* "A file shared by several machines is never charged to one of them"
\* (footprint.py:15): with a server that filters and lists what is in a file, the bytes
\* that a machine is charged with are its own, but for the case that the payload
\* warns of: one owner named and no points listed (SINGLE_OWNER_CAVEAT).  Whatever the
\* server answers, no file is charged to two machines, unless the totals are withheld.
ChargedBytesAreOwn ==
    step = "done" /\ ~Overlap =>
        LET mine == {u \in usage : u.verdict = "mine"} IN
        /\ \A u \in mine : LET f == File(u.file) IN
            Honest(server, f) /\ server.filters =>
                \/ Stored(server, f) = {u.machine}
                \/ Shape(f, usession.revision) = "objectId" /\ f.points = None
        /\ \A u, w \in mine : u.file = w.file => u = w

\* "cannot drift apart" (_backup_files.py:3-5): a ranking and a usage that both read
\* everything, under a revision that lists every owner, charge a machine with the same
\* files, provided the server is honest, a machine has one name and is in no file under
\* two objects, and its points are kept.
NoDrift ==
    LET agreed == /\ phase = "done" /\ step = "done"
                  /\ session.revision = usession.revision /\ session.revision \in Plural
                  /\ \A i \in Jobs : job[i] = "read"
                  /\ {scanned[i] : i \in Jobs} = {server.backups[k] : k \in DOMAIN server.backups}
                  /\ unread = {} /\ unmatched = {}
                  /\ filter = "honoured"
                  /\ \A o, x \in server.objects : Identity(o) = Identity(x) => o.name = x.name
                  /\ \A f \in server.files : /\ Honest(server, f)
                                             /\ \A o, x \in f.owners : o = x \/ Identity(Object(o)) # Identity(Object(x))
    IN  agreed => \A m \in Machines :
            {c.file : c \in {c \in charged : c.machine = m}}
              = {u.file : u \in {u \in usage : u.machine = m /\ u.verdict = "mine"}}

=============================================================================
