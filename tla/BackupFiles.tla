----------------------------- MODULE BackupFiles -----------------------------
(***************************************************************************)
(* What veeam_aiops/ops/_backup_files.py and _revision.py decide for every *)
(* storage read: the REST revision that is used, who owns a backup file,   *)
(* and whose machine an object is.                                         *)
(*                                                                         *)
(* A server is a record.  Its truth is in its restore points, each a       *)
(* record [id, object, name, backup, file]; what it reports of a file      *)
(* depends on the revision: all owners, or one of them; and it may or may  *)
(* not list the points in a file.                                          *)
(***************************************************************************)
EXTENDS Naturals, FiniteSets, Sequences

CONSTANTS
    Revisions,   \* those that carry backup files, newest first
    Plural,      \* those whose files list every owner
    None         \* a value that the server does not report

ASSUME RevisionAssumption ==
    /\ Len(Revisions) > 0
    /\ Plural \subseteq {Revisions[i] : i \in DOMAIN Revisions}

Oldest == Revisions[Len(Revisions)]

-----------------------------------------------------------------------------
(* The revision: server.serves is the place in Revisions of the newest one *)
(* the server serves, and one past the end if it is too old for all;       *)
(* server.info says whether serverInfo may be read.                        *)

Accepted(i, basis) == [revision |-> Revisions[i], basis |-> basis, refused |-> 1..(i - 1)]

\* revision_for_build(): the first one of the table that the build has reached; no
\* answer means UnsupportedServer is raised.
ByBuild(server) ==
    IF server.serves \in DOMAIN Revisions THEN {Accepted(server.serves, "serverInfo")} ELSE {}

\* probe(): a revision that the server serves may still fail for the moment, and the
\* next one is offered; an authentication failure stops the probe, at any place.
ByProbe(server) ==
    {Accepted(i, "probe") : i \in {j \in DOMAIN Revisions : j >= server.serves}}
    \cup {[revision |-> Oldest, basis |-> "assumed", refused |-> 1..i] : i \in DOMAIN Revisions}

\* negotiate(): every way it may end without an exception.  Where serverInfo may be
\* read it may fail for the moment, and then the probe decides as well.
Negotiated(server) == (IF server.info THEN ByBuild(server) ELSE {}) \cup ByProbe(server)

-----------------------------------------------------------------------------
(* Objects and files                                                       *)

\* owners(): the ids that a file names under a revision.
Owners(file, revision) ==
    IF revision \in Plural THEN file.owners
    ELSE IF file.single = None THEN {} ELSE {file.single}

\* The field that named them.
Shape(file, revision) ==
    IF revision \in Plural THEN "objectIds"
    ELSE IF file.single = None THEN "none" ELSE "objectId"

\* identity(): the inventory id of the machine, or its name where there is none, and
\* the object itself where there is no name either.
Identity(object) ==
    CASE object.inventory # None -> <<"inventory", object.inventory>>
      [] object.inventory = None /\ object.name # None -> <<"name", object.name>>
      [] OTHER -> <<"object", object.id>>

\* Fault: a file that names the machine among its owners is the machine's.
ClassifyByOwner(file, revision, objectIds, fileIds, pointIds) ==
    LET owners == Owners(file, revision)
    IN  CASE owners \cap objectIds # {} -> "mine"
          [] file.id \in fileIds        -> "unattributed"
          [] OTHER                      -> "foreign"

\* classify(): what a file is to the machine with these object ids, files named by its
\* restore points, and restore points.  The strongest evidence counts first.
Classify(file, revision, objectIds, fileIds, pointIds) ==
    LET owners  == Owners(file, revision)
        points  == IF file.points = None THEN {} ELSE file.points
        touches == \/ file.id \in fileIds
                   \/ owners \cap objectIds # {}
                   \/ points \cap pointIds # {}
        others  == \/ points \ pointIds # {}
                   \/ Cardinality(owners) > 1 /\ ~(owners \subseteq objectIds)
        alone   == IF owners # {} THEN owners \subseteq objectIds ELSE points # {}
    IN  CASE ~touches                      -> "foreign"
          [] touches /\ others             -> "shared"
          [] touches /\ ~others /\ alone   -> "mine"
          [] touches /\ ~others /\ ~alone  -> "unattributed"

-----------------------------------------------------------------------------
(* The truth                                                               *)

\* The ids of a server are unique; a point is in the backup of its file, and a file in
\* one of the backups; the one owner that an old revision names of a file is among its
\* owners; and an object that the server can look up is one of its objects.
Consistent(server) ==
    /\ server.backups \in Seq({server.backups[k] : k \in DOMAIN server.backups})
    /\ \A k, l \in DOMAIN server.backups : server.backups[k] = server.backups[l] => k = l
    /\ \A o, x \in server.objects : o.id = x.id => o = x
    /\ \A rp, x \in server.points : rp.id = x.id => rp = x
    /\ \A f, x \in server.files : f.id = x.id => f = x
    /\ \A f \in server.files :
        /\ IsFiniteSet(f.owners) /\ f.single \in f.owners \cup {None}
        /\ \E k \in DOMAIN server.backups : server.backups[k] = f.backup
        /\ \A rp \in server.points : rp.file = f.id => rp.backup = f.backup
    /\ server.knows \subseteq {o.id : o \in server.objects}

\* The machines that have data in a file.
Stored(server, file) ==
    {Identity(o) : o \in {x \in server.objects :
                            \E rp \in server.points : rp.file = file.id /\ rp.object = x.id}}

\* A server that names every owner of a file, and none besides, and if it lists points
\* at all the points in the file.
Honest(server, file) ==
    /\ file.owners = {rp.object : rp \in {x \in server.points : x.file = file.id}}
    /\ file.points \in {None, {rp.id : rp \in {x \in server.points : x.file = file.id}}}

=============================================================================
