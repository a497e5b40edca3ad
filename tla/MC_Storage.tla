------------------------------ MODULE MC_Storage ------------------------------
(***************************************************************************)
(* Small instances of Footprint: three backups, one job with two machines  *)
(* that have the name vm, a copy of the first machine, and a machine that  *)
(* was moved to another job and left a file behind.                        *)
(***************************************************************************)
EXTENDS Footprint, TLC

CONSTANTS b1, b2, b3, vm, other, Missing, rev2, rev1

TwoRevisions == <<rev2, rev1>>
PluralOnes   == {rev2}
ThreeBackups == {b1, b2, b3}
Scoped       == {ThreeBackups, {b2, b3}}
OneName      == {vm}

An(id, machine, name, backup) == [id |-> id, inventory |-> machine, name |-> name, backup |-> backup]
Point(id, object, name, backup, file) ==
    [id |-> id, object |-> object, name |-> name, backup |-> backup, file |-> file]

\* Object 3 is the second machine of the name, or had it once; object 4 has moved from
\* b2 to b3; object 6 is the first machine again, added anew to its job.
Objects(second) ==
    {An(1, "A", vm, b1), An(2, "A", vm, b2), An(3, "B", second, b1), An(4, "C", other, b3),
     An(6, "A", vm, b1)}

Points(renamed) ==
    {Point(11, 1, vm, b1, 21), Point(12, 1, vm, b1, 22), Point(13, 3, vm, b1, 22),
     Point(14, 2, IF renamed THEN other ELSE vm, b2, 23), Point(15, 4, other, b2, 24)}

Again == Point(16, 6, vm, b1, 21)

\* File 22 has points of both machines; 25 is a leftover that no point is in, of an
\* owner the server may have forgotten.
AFile(id, backup, owners, single, listed, size) ==
    [id |-> id, backup |-> backup, owners |-> owners, single |-> single, points |-> listed, size |-> size]

FilesOf(listed, single, left) ==
    {AFile(21, b1, {1}, 1, IF listed THEN {11} ELSE Missing, 1),
     AFile(22, b1, {1, 3}, single, IF listed THEN {12, 13} ELSE Missing, 1),
     AFile(23, b2, {2}, 2, IF listed THEN {14} ELSE Missing, 1),
     AFile(24, b2, {4}, 4, IF listed THEN {15} ELSE Missing, 1),
     AFile(25, b3, left, Missing, Missing, 2)}

Server(serves, info, filters, listed, renamed, single, left) ==
    [serves |-> serves, info |-> info, backups |-> <<b1, b2, b3>>, objects |-> Objects(vm),
     points |-> Points(renamed), files |-> FilesOf(listed, single, left),
     knows |-> {4}, filters |-> filters]

\* On the last server object 4 is the first machine too, under another name.
AnyServer ==
    {Server(2, FALSE, f, l, r, s, {5}) : f, l, r \in BOOLEAN, s \in {1, Missing}}
    \cup {Server(1, TRUE, f, l, TRUE, 1, o) : f, l \in BOOLEAN, o \in {{5}, {}}}
    \cup {Server(3, TRUE, TRUE, TRUE, FALSE, 1, {5})}
    \cup {[Server(2, TRUE, f, TRUE, FALSE, Missing, {}) EXCEPT !.objects = Objects(other)] : f \in BOOLEAN}
    \cup {[Server(1, TRUE, TRUE, FALSE, FALSE, 1, {}) EXCEPT
            !.points = @ \cup {Again},
            !.files = {IF f.id = 21 THEN [f EXCEPT !.owners = {1, 6}] ELSE f : f \in @}]}
    \cup {[Server(1, TRUE, TRUE, FALSE, FALSE, 1, {}) EXCEPT
            !.objects = {IF o.id = 4 THEN An(4, "A", other, b3) ELSE o : o \in @}]}

=============================================================================
