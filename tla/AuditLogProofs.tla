---------------------------- MODULE AuditLogProofs ----------------------------
(***************************************************************************)
(* Theorems about AuditLog, for every number of processes, calls and rows: *)
(* type correctness; under a guard that spans processes, rotation carries  *)
(* no pending intent away and loses no row; and, if moreover the operator  *)
(* reconciles only what no longer runs, the intent of a running write      *)
(* stays in the live file, no pending row is left unaccounted for, and the *)
(* engine as a whole implements WriteLedger.                               *)
(***************************************************************************)
EXTENDS AuditLog, SequenceTheorems, TLAPS

Statuses == Outcomes \cup {"pending"}

(***************************************************************************)
(* What the update of one row does to the file.                            *)
(***************************************************************************)
LEMMA SetStatusEffect ==
    ASSUME log \in Seq(Row), NEW i \in 1..Len(log), NEW s \in Statuses,
           SetStatus(i, s)
    PROVE  /\ log' \in Seq(Row)
           /\ Len(log') = Len(log)
           /\ log'[i] = [call |-> log[i].call, status |-> s]
           /\ \A j \in 1..Len(log) : j # i => log'[j] = log[j]
<1>1. log[i] \in Row
  BY ElementOfSeq
<1>2. [log[i] EXCEPT !.status = s] \in Row
  BY <1>1 DEF Row, Statuses
<1>3. [log[i] EXCEPT !.status = s] = [call |-> log[i].call, status |-> s]
  BY <1>1 DEF Row
<1>4. log' = [log EXCEPT ![i] = [log[i] EXCEPT !.status = s]]
  BY DEF SetStatus
<1>. DEFINE e == [log[i] EXCEPT !.status = s]
<1>5. /\ [log EXCEPT ![i] = e] \in Seq(Row)
      /\ Len([log EXCEPT ![i] = e]) = Len(log)
      /\ \A j \in 1..Len(log) : [log EXCEPT ![i] = e][j] = IF j = i THEN e ELSE log[j]
  <2>. HIDE DEF e
  <2>. e \in Row
    BY <1>2 DEF e
  <2>. QED
    BY ExceptSeq
<1>. QED
  BY <1>3, <1>4, <1>5

LEMMA RowsTyped ==
    ASSUME log \in Seq(Row)
    PROVE  \A i \in 1..Len(log) : log[i] \in Row /\ log[i].call \in Calls
<1>. SUFFICES ASSUME NEW i \in 1..Len(log)
              PROVE  log[i] \in Row /\ log[i].call \in Calls
  OBVIOUS
<1>1. log[i] \in Row
  BY ElementOfSeq
<1>. QED
  BY <1>1 DEF Row

(***************************************************************************)
(* What _cleanup_archives keeps was there before.                          *)
(***************************************************************************)
LEMMA NewestKeeps ==
    ASSUME NEW S, NEW files \in Seq(S)
    PROVE  /\ Newest(files) \in Seq(S)
           /\ \A k \in 1..Len(Newest(files)) :
                \E j \in 1..Len(files) : Newest(files)[k] = files[j]
<1>1. CASE Len(files) <= MaxArchives
  BY <1>1 DEF Newest
<1>2. CASE ~(Len(files) <= MaxArchives)
  <2>. DEFINE n == Len(files)
              m == n - MaxArchives + 1
  <2>1. n \in Nat /\ MaxArchives \in Nat /\ MaxArchives < n
    BY <1>2, LenProperties, AuditAssumption
  <2>2. \A i \in m..n : files[i] \in S
    BY <2>1, ElementOfSeq
  <2>3. /\ SubSeq(files, m, n) \in Seq(S)
        /\ Len(SubSeq(files, m, n)) = IF m <= n THEN n - m + 1 ELSE 0
        /\ \A i \in 1..n-m+1 : SubSeq(files, m, n)[i] = files[m+i-1]
    BY <2>1, <2>2, SubSeqProperties
  <2>4. Newest(files) = SubSeq(files, m, n)
    BY <1>2 DEF Newest
  <2>. QED
    BY <2>1, <2>3, <2>4
<1>. QED
  BY <1>1, <1>2

(***************************************************************************)
(* Type correctness.                                                       *)
(***************************************************************************)
LEMMA TypeInit == Init => TypeOK
  BY AuditAssumption, EmptySeq
     DEF Init, TypeOK, Phases, Calls

LEMMA TypeStep == TypeOK /\ [Next]_vars => TypeOK'
<1>. SUFFICES ASSUME TypeOK, [Next]_vars PROVE TypeOK'
  OBVIOUS
<1>. USE AuditAssumption DEF TypeOK, Phases, GuardPhases, Ended, Goto
<1>0. Len(log) \in Nat
  BY LenProperties
<1>1. ASSUME NEW c \in Calls, Request(c) PROVE TypeOK'
  BY <1>1 DEF Request
<1>2. ASSUME NEW c \in Calls, RefuseWrite(c) PROVE TypeOK'
  BY <1>2 DEF RefuseWrite
<1>3. ASSUME NEW c \in Calls, DropRow(c) PROVE TypeOK'
  BY <1>3 DEF DropRow
<1>4. ASSUME NEW c \in Calls, Acquire(c) PROVE TypeOK'
  BY <1>4 DEF Acquire
<1>5. ASSUME NEW c \in Calls, Check(c) PROVE TypeOK'
  BY <1>5 DEF Check
<1>6. ASSUME NEW c \in Calls, Checkpoint(c) PROVE TypeOK'
  BY <1>6 DEF Checkpoint
<1>7. ASSUME NEW c \in Calls, Rename(c) PROVE TypeOK'
  <2>1. Append(archives, main) \in Seq(Seq(Row))
    BY AppendProperties
  <2>2. <<>> \in Seq(Row)
    BY EmptySeq
  <2>. QED
    BY <1>7, <2>1, <2>2 DEF Rename
<1>8. ASSUME NEW c \in Calls, InitDb(c) PROVE TypeOK'
  <2>1. Newest(archives) \in Seq(Seq(Row))
    BY NewestKeeps
  <2>. QED
    BY <1>8, <2>1 DEF InitDb
<1>9. ASSUME NEW c \in Calls, Insert(c) PROVE TypeOK'
  <2>1. PICK s : /\ s \in (IF strict[c] THEN {"pending"}
                             ELSE IF c \in Writes THEN {"error"} ELSE Outcomes)
                 /\ log' = Append(log, [call |-> c, status |-> s])
    BY <1>9 DEF Insert
  <2>2. [call |-> c, status |-> s] \in Row
    BY <2>1 DEF Row
  <2>3. log' \in Seq(Row)
    BY <2>1, <2>2, AppendProperties
  <2>4. id' \in [Calls -> Nat] /\ pc' \in [Calls -> Phases]
    <3>1. CASE strict[c]
      <4>1. /\ id' = [id EXCEPT ![c] = Len(log) + 1]
            /\ pc' = [pc EXCEPT ![c] = "running"]
        BY <1>9, <3>1, Zenon DEF Insert
      <4>. QED
        BY <1>0, <4>1
    <3>2. CASE ~strict[c]
      BY <1>9, <3>2 DEF Insert
    <3>. QED
      BY <3>1, <3>2
  <2>. QED
    BY <1>9, <2>3, <2>4 DEF Insert
<1>10. ASSUME NEW c \in Calls, InsertFails(c) PROVE TypeOK'
  BY <1>10 DEF InsertFails
<1>11. ASSUME NEW c \in Calls, Finish(c) PROVE TypeOK'
  <2>1. PICK s \in Outcomes : SetStatus(id[c], s)
    BY <1>11 DEF Finish
  <2>2. log' \in Seq(Row)
    BY <1>11, <2>1, SetStatusEffect DEF Finish, Resolvable, Statuses
  <2>. QED
    BY <1>11, <2>2 DEF Finish
<1>12. ASSUME NEW c \in Calls, FinishFails(c) PROVE TypeOK'
  BY <1>12 DEF FinishFails
<1>13. ASSUME NEW i \in 1..Len(log), Reconcile(i) PROVE TypeOK'
  <2>1. log' \in Seq(Row)
    BY <1>13, SetStatusEffect DEF Reconcile, Resolvable, Statuses
  <2>. QED
    BY <1>13, <2>1 DEF Reconcile
<1>14. ASSUME NEW p \in Procs, Restart(p) PROVE TypeOK'
  <2>1. pc' \in [Calls -> Phases]
    BY <1>14 DEF Restart
  <2>2. restarts' \in 0..MaxRestarts
    BY <1>14 DEF Restart
  <2>. QED
    BY <1>14, <2>1, <2>2 DEF Restart
<1>15. ASSUME UNCHANGED vars PROVE TypeOK'
  BY <1>15 DEF vars
<1>. QED
  BY <1>1, <1>2, <1>3, <1>4, <1>5, <1>6, <1>7, <1>8, <1>9, <1>10, <1>11, <1>12,
     <1>13, <1>14, <1>15 DEF Next, Step

\* Every variable of the engine keeps its type.
THEOREM TypeCorrect == Spec => []TypeOK
  BY TypeInit, TypeStep, PTL DEF Spec

-----------------------------------------------------------------------------
(***************************************************************************)
(* Rotation.  What makes it safe although rows are resolved outside the    *)
(* guard: one call at a time is inside it, and once that call has seen no  *)
(* pending row nothing can change the file, because an append needs the    *)
(* guard and an update needs a pending row.                                *)
(***************************************************************************)
GuardExclusive ==
    \A c, d \in Calls : pc[c] \in GuardPhases /\ pc[d] \in GuardPhases => c = d

RotatorView ==
    \A c \in Calls :
        /\ pc[c] \in {"checkpoint", "rename"} => ~Pending(log)
        /\ pc[c] = "rename" => main = log

RotationInv == GuardExclusive /\ RotatorView /\ NoPendingArchived

LEMMA RotationInit == Init => RotationInv
  BY EmptySeq DEF Init, RotationInv, GuardExclusive, RotatorView,
     NoPendingArchived, GuardPhases

\* An update of one row is impossible while nothing is pending.
LEMMA NoPendingNoUpdate ==
    ASSUME NEW i, Resolvable(i) PROVE Pending(log)
  BY DEF Resolvable, Pending

LEMMA RotationStep ==
    Flock /\ TypeOK /\ RotationInv /\ [Next]_vars => RotationInv'
<1>. SUFFICES ASSUME Flock, TypeOK, RotationInv, [Next]_vars PROVE RotationInv'
  OBVIOUS
<1>. USE DEF RotationInv, GuardExclusive, RotatorView, NoPendingArchived, GuardPhases
<1>t. pc \in [Calls -> Phases]
  BY DEF TypeOK
<1>0. ASSUME log' = log, main' = main, archives' = archives,
             NEW c \in Calls, NEW ph, pc' = [pc EXCEPT ![c] = ph],
             ph \in GuardPhases => pc[c] \in GuardPhases,
             ph \in {"checkpoint", "rename"} => ~Pending(log),
             ph = "rename" => main = log
      PROVE  RotationInv'
  BY <1>0, <1>t DEF Pending
<1>1. ASSUME NEW c \in Calls, Request(c) PROVE RotationInv'
  BY <1>0, <1>1 DEF Request, Goto
<1>2. ASSUME NEW c \in Calls, RefuseWrite(c) PROVE RotationInv'
  BY <1>2 DEF RefuseWrite, Pending
<1>3. ASSUME NEW c \in Calls, DropRow(c) PROVE RotationInv'
  BY <1>0, <1>3 DEF DropRow, Goto
<1>4. ASSUME NEW c \in Calls, Acquire(c) PROVE RotationInv'
  BY <1>4, <1>t DEF Acquire, Goto, Excludes, Pending
<1>5. ASSUME NEW c \in Calls, Check(c) PROVE RotationInv'
  <2>1. pc[c] = "check" /\ log' = log /\ main' = main /\ archives' = archives
    BY <1>5 DEF Check
  <2>2. CASE MayRotate
    <3>1. pc' = [pc EXCEPT ![c] = "checkpoint"] /\ ~Pending(log)
      BY <1>5, <2>2 DEF Check, Goto, MayRotate
    <3>. QED
      BY <1>0, <2>1, <3>1
  <2>3. CASE ~MayRotate
    <3>1. pc' = [pc EXCEPT ![c] = "insert"]
      BY <1>5, <2>3 DEF Check, Goto
    <3>. QED
      BY <1>0, <2>1, <3>1
  <2>. QED
    BY <2>2, <2>3
<1>6. ASSUME NEW c \in Calls, Checkpoint(c) PROVE RotationInv'
  <2>1. pc[c] = "checkpoint" /\ log' = log /\ archives' = archives /\ ~Pending(log)
    BY <1>6 DEF Checkpoint
  <2>2. CASE main' = log /\ Goto(c, "rename")
    BY <2>1, <2>2, <1>t DEF Goto, Pending
  <2>3. CASE UNCHANGED main /\ Goto(c, "insert")
    BY <1>0, <2>1, <2>3 DEF Goto
  <2>. QED
    BY <1>6, <2>2, <2>3 DEF Checkpoint
<1>7. ASSUME NEW c \in Calls, Rename(c) PROVE RotationInv'
  <2>1. pc[c] = "rename" /\ main = log /\ ~Pending(log)
    BY <1>7 DEF Rename
  <2>2. CASE archives' = Append(archives, main) /\ log' = <<>> /\ main' = <<>> /\ Goto(c, "init")
    <3>1. \A k \in 1..Len(archives') : ~Pending(archives'[k])
      <4>1. /\ archives \in Seq(Seq(Row)) /\ main \in Seq(Row)
        BY DEF TypeOK
      <4>2. /\ Len(archives') = Len(archives) + 1
            /\ \A k \in 1..Len(archives) : archives'[k] = archives[k]
            /\ archives'[Len(archives) + 1] = main
        BY <2>2, <4>1, AppendProperties
      <4>3. Len(archives) \in Nat
        BY <4>1, LenProperties
      <4>. QED
        BY <2>1, <4>2, <4>3
    <3>2. (\A k \in 1..Len(archives) : ~Pending(archives[k]))'
      BY <3>1 DEF Pending
    <3>3. GuardExclusive' /\ RotatorView'
      BY <2>1, <2>2, <1>t DEF Goto, Pending
    <3>. QED
      BY <3>2, <3>3
  <2>3. CASE Goto(c, "insert") /\ UNCHANGED <<log, main, archives>>
    BY <1>0, <2>1, <2>3 DEF Goto
  <2>. QED
    BY <1>7, <2>2, <2>3 DEF Rename
<1>8. ASSUME NEW c \in Calls, InitDb(c) PROVE RotationInv'
  <2>1. /\ pc[c] = "init" /\ pc' = [pc EXCEPT ![c] = "insert"]
        /\ log' = log /\ main' = main
        /\ archives' = archives \/ archives' = Newest(archives)
    BY <1>8 DEF InitDb, Goto
  <2>2. CASE archives' = archives
    BY <1>0, <2>1, <2>2
  <2>3. CASE archives' = Newest(archives)
    <3>1. \A k \in 1..Len(archives') : ~Pending(archives'[k])
      <4>1. archives \in Seq(Seq(Row))
        BY DEF TypeOK
      <4>2. \A k \in 1..Len(Newest(archives)) :
              \E j \in 1..Len(archives) : Newest(archives)[k] = archives[j]
        BY <4>1, NewestKeeps
      <4>. QED
        BY <2>3, <4>2
    <3>2. (\A k \in 1..Len(archives) : ~Pending(archives[k]))'
      BY <3>1 DEF Pending
    <3>3. GuardExclusive' /\ RotatorView'
      BY <2>1, <1>t DEF Pending
    <3>. QED
      BY <3>2, <3>3
  <2>. QED
    BY <2>1, <2>2, <2>3
<1>9. ASSUME NEW c \in Calls, Insert(c) PROVE RotationInv'
  <2>1. /\ pc[c] = "insert" /\ main' = main /\ archives' = archives
        /\ pc' = [pc EXCEPT ![c] = "running"] \/ pc' = [pc EXCEPT ![c] = "done"]
    BY <1>9, Zenon DEF Insert, Goto
  <2>2. \A d \in Calls : pc'[d] \notin GuardPhases
    BY <2>1, <1>t
  <2>. QED
    BY <2>1, <2>2 DEF Pending
<1>10. ASSUME NEW c \in Calls, InsertFails(c) PROVE RotationInv'
  <2>1. /\ log' = log /\ main' = main /\ archives' = archives
        /\ pc' = [pc EXCEPT ![c] = "ready"] \/ pc' = [pc EXCEPT ![c] = "unlogged"]
    BY <1>10, Zenon DEF InsertFails, Goto
  <2>. QED
    BY <1>0, <2>1
<1>11. ASSUME NEW c \in Calls, Finish(c) PROVE RotationInv'
  <2>1. Pending(log)
    BY <1>11, NoPendingNoUpdate DEF Finish
  <2>2. \A d \in Calls : pc[d] \notin {"checkpoint", "rename"}
    BY <2>1
  <2>. QED
    BY <1>11, <1>t, <2>2 DEF Finish, Goto, Pending
<1>12. ASSUME NEW c \in Calls, FinishFails(c) PROVE RotationInv'
  BY <1>0, <1>12 DEF FinishFails, Goto
<1>13. ASSUME NEW i \in 1..Len(log), Reconcile(i) PROVE RotationInv'
  <2>1. Pending(log)
    BY <1>13, NoPendingNoUpdate DEF Reconcile
  <2>2. \A d \in Calls : pc[d] \notin {"checkpoint", "rename"}
    BY <2>1
  <2>. QED
    BY <1>13, <2>2 DEF Reconcile, Pending
<1>14. ASSUME NEW p \in Procs, Restart(p) PROVE RotationInv'
  <2>1. /\ log' = log /\ main' = main /\ archives' = archives
        /\ \A c \in Calls : pc'[c] = pc[c] \/ pc'[c] = "dead"
    BY <1>14 DEF Restart
  <2>. QED
    BY <2>1 DEF Pending
<1>15. ASSUME UNCHANGED vars PROVE RotationInv'
  BY <1>15 DEF vars, Pending
<1>. QED
  BY <1>1, <1>2, <1>3, <1>4, <1>5, <1>6, <1>7, <1>8, <1>9, <1>10, <1>11, <1>12,
     <1>13, <1>14, <1>15 DEF Next, Step

\* Where the guard spans processes, no archive ever holds a pending intent.
THEOREM RotationSafe == Flock => (Spec => []NoPendingArchived)
<1>. SUFFICES ASSUME Flock PROVE Spec => []NoPendingArchived
  OBVIOUS
<1>1. Init => RotationInv
  BY RotationInit
<1>2. TypeOK /\ RotationInv /\ [Next]_vars => RotationInv'
  BY RotationStep
<1>3. RotationInv => NoPendingArchived
  BY DEF RotationInv
<1>. QED
  BY <1>1, <1>2, <1>3, TypeCorrect, PTL DEF Spec

\* The only step that takes rows out of the live file is a rename, made when
\* the main file holds every one of them.
THEOREM RotationLosesNothing == Flock => (Spec => RotationKeepsRows)
<1>. SUFFICES ASSUME Flock PROVE Spec => RotationKeepsRows
  OBVIOUS
<1>1. TypeOK /\ RotationInv /\ [Next]_vars
        => [Len(log') < Len(log) => archives' = Append(archives, log)]_vars
  <2>. SUFFICES ASSUME TypeOK, RotationInv, Next, Len(log') < Len(log)
                PROVE  archives' = Append(archives, log)
    OBVIOUS
  <2>. log \in Seq(Row) /\ Len(log) \in Nat
    BY LenProperties DEF TypeOK
  <2>1. ASSUME log' = log PROVE FALSE
    BY <2>1
  <2>2. ASSUME NEW c \in Calls, Insert(c) PROVE FALSE
    <3>1. PICK s \in Statuses : log' = Append(log, [call |-> c, status |-> s])
      BY <2>2, AuditAssumption DEF Insert, Statuses
    <3>2. [call |-> c, status |-> s] \in Row
      BY DEF Row, Statuses
    <3>. QED
      BY <3>1, <3>2, AppendProperties
  <2>3. ASSUME NEW i \in 1..Len(log), NEW s \in Statuses, SetStatus(i, s) PROVE FALSE
    <3>1. Len(log') = Len(log)
      BY <2>3, SetStatusEffect
    <3>. QED
      BY <3>1
  <2>4. ASSUME NEW c \in Calls, Finish(c) PROVE FALSE
    BY <2>3, <2>4 DEF Finish, Resolvable, Statuses
  <2>5. ASSUME NEW i \in 1..Len(log), Reconcile(i) PROVE FALSE
    BY <2>3, <2>5, AuditAssumption DEF Reconcile, Statuses
  <2>6. ASSUME NEW c \in Calls, Rename(c) PROVE archives' = Append(archives, log)
    BY <2>1, <2>6 DEF Rename, RotationInv, RotatorView
  <2>7. ASSUME NEW c \in Calls, Step(c) PROVE archives' = Append(archives, log)
    BY <2>1, <2>2, <2>4, <2>6, <2>7
       DEF Step, Request, RefuseWrite, DropRow, Acquire, Check, Checkpoint,
           InitDb, InsertFails, FinishFails
  <2>8. ASSUME NEW p \in Procs, Restart(p) PROVE FALSE
    BY <2>1, <2>8 DEF Restart
  <2>. QED
    BY <2>5, <2>7, <2>8 DEF Next
<1>2. Init => RotationInv
  BY RotationInit
<1>3. TypeOK /\ RotationInv /\ [Next]_vars => RotationInv'
  BY RotationStep
<1>. QED
  BY <1>1, <1>2, <1>3, TypeCorrect, PTL DEF Spec, RotationKeepsRows

-----------------------------------------------------------------------------
(***************************************************************************)
(* Intents.  A running write owns exactly one pending row, under the id it *)
(* was given; a call has at most one pending row at any time.              *)
(***************************************************************************)
OnePending ==
    \A i, j \in 1..Len(log) :
        /\ log[i].status = "pending"
        /\ log[j].status = "pending"
        /\ log[i].call = log[j].call
        => i = j

IntentInv == IntentHeld /\ PendingAccounted /\ OnePending

LEMMA IntentInit == Init => IntentInv
  BY EmptySeq DEF Init, IntentInv, IntentHeld, PendingAccounted, OnePending

\* No call moves into "running", and a call that may own a pending row either
\* stays where it is or ends without resolving it.
NoneStarts ==
    \A c \in Calls :
        \/ pc'[c] = pc[c]
        \/ /\ pc'[c] # "running"
           /\ pc[c] \in {"running", "unresolved", "dead"}
                => pc'[c] \in {"unresolved", "dead"}

\* Such a step, when it leaves the rows and the ids alone, keeps the invariant.
LEMMA IntentUndisturbed ==
    ASSUME IntentInv, log \in Seq(Row), log' = log, id' = id,
           NoneStarts
    PROVE  IntentInv'
<1>1. \A i \in 1..Len(log) : log[i].call \in Calls
  BY RowsTyped
<1>2. IntentHeld'
  <2>. SUFFICES ASSUME NEW c \in Calls, pc'[c] = "running"
                PROVE  id[c] \in 1..Len(log) /\ log[id[c]] = [call |-> c, status |-> "pending"]
    BY DEF IntentHeld
  <2>. QED
    BY DEF IntentInv, IntentHeld, NoneStarts
<1>3. PendingAccounted'
  BY <1>1 DEF IntentInv, PendingAccounted, NoneStarts
<1>4. OnePending'
  BY DEF IntentInv, OnePending
<1>. QED
  BY <1>2, <1>3, <1>4 DEF IntentInv

\* The resolution of row i, when the call that owns it stops running or does
\* not run, and no other call moves.
LEMMA IntentResolved ==
    ASSUME IntentInv, log \in Seq(Row), pc \in [Calls -> Phases],
           NEW i \in 1..Len(log), NEW s \in Outcomes, SetStatus(i, s),
           log[i].status = "pending", id' = id,
           pc'[log[i].call] # "running",
           \A c \in Calls : c # log[i].call => pc'[c] = pc[c]
    PROVE  IntentInv'
<1>. DEFINE o == log[i].call
<1>1. /\ Len(log') = Len(log)
      /\ log'[i] = [call |-> o, status |-> s]
      /\ \A j \in 1..Len(log) : j # i => log'[j] = log[j]
  BY SetStatusEffect DEF Statuses
<1>2. s # "pending"
  BY AuditAssumption
<1>3. \A j \in 1..Len(log) : log[j].call \in Calls
  BY RowsTyped
<1>4. IntentHeld'
  <2>. SUFFICES ASSUME NEW c \in Calls, pc'[c] = "running"
                PROVE  /\ id[c] \in 1..Len(log)
                       /\ log'[id[c]] = [call |-> c, status |-> "pending"]
    BY <1>1 DEF IntentHeld
  <2>1. c # o /\ pc[c] = "running"
    OBVIOUS
  <2>2. id[c] \in 1..Len(log) /\ log[id[c]] = [call |-> c, status |-> "pending"]
    BY <2>1 DEF IntentInv, IntentHeld
  <2>3. id[c] # i
    BY <2>1, <2>2
  <2>. QED
    BY <1>1, <2>2, <2>3
<1>5. PendingAccounted'
  <2>. SUFFICES ASSUME NEW j \in 1..Len(log), log'[j].status = "pending"
                PROVE  pc'[log'[j].call] \in {"running", "unresolved", "dead"}
    BY <1>1 DEF PendingAccounted
  <2>1. j # i
    BY <1>1, <1>2
  <2>2. log'[j] = log[j]
    BY <1>1, <2>1
  <2>3. log[j].call # o
    BY <2>1, <2>2 DEF IntentInv, OnePending
  <2>. QED
    BY <1>3, <2>2, <2>3 DEF IntentInv, PendingAccounted
<1>6. OnePending'
  BY <1>1, <1>2 DEF IntentInv, OnePending
<1>. QED
  BY <1>4, <1>5, <1>6 DEF IntentInv

LEMMA IntentStep ==
    Flock /\ OperatorChecksFirst /\ TypeOK /\ RotationInv /\ IntentInv /\ [Next]_vars
      => IntentInv'
<1>. SUFFICES ASSUME Flock, OperatorChecksFirst, TypeOK, RotationInv, IntentInv, [Next]_vars
              PROVE  IntentInv'
  OBVIOUS
<1>t. pc \in [Calls -> Phases] /\ log \in Seq(Row) /\ id \in [Calls -> Nat]
  BY DEF TypeOK
<1>l. Len(log) \in Nat
  BY <1>t, LenProperties
<1>0. ASSUME NEW c \in Calls, NEW ph, log' = log, id' = id,
             pc' = [pc EXCEPT ![c] = ph], ph # "running",
             pc[c] \in {"running", "unresolved", "dead"} => ph \in {"unresolved", "dead"}
      PROVE  IntentInv'
  <2>1. NoneStarts
    BY <1>0, <1>t DEF NoneStarts
  <2>. QED
    BY <1>0, <1>t, <2>1, IntentUndisturbed
<1>1. ASSUME NEW c \in Calls, Request(c) PROVE IntentInv'
  BY <1>0, <1>1 DEF Request, Goto
<1>2. ASSUME NEW c \in Calls, RefuseWrite(c) PROVE IntentInv'
  <2>1. log' = log /\ id' = id /\ pc' = pc
    BY <1>2 DEF RefuseWrite
  <2>2. NoneStarts
    BY <2>1 DEF NoneStarts
  <2>. QED
    BY <1>t, <2>1, <2>2, IntentUndisturbed
<1>3. ASSUME NEW c \in Calls, DropRow(c) PROVE IntentInv'
  BY <1>0, <1>3 DEF DropRow, Goto
<1>4. ASSUME NEW c \in Calls, Acquire(c) PROVE IntentInv'
  BY <1>0, <1>4 DEF Acquire, Goto
<1>5. ASSUME NEW c \in Calls, Check(c) PROVE IntentInv'
  BY <1>0, <1>5 DEF Check, Goto
<1>6. ASSUME NEW c \in Calls, Checkpoint(c) PROVE IntentInv'
  BY <1>0, <1>6 DEF Checkpoint, Goto
<1>7. ASSUME NEW c \in Calls, Rename(c) PROVE IntentInv'
  <2>1. pc[c] = "rename" /\ id' = id /\ ~Pending(log)
    BY <1>7 DEF Rename, RotationInv, RotatorView
  <2>2. CASE log' = log /\ Goto(c, "insert")
    BY <1>0, <2>1, <2>2 DEF Goto
  <2>3. CASE log' = <<>> /\ Goto(c, "init")
    <3>1. ASSUME NEW d \in Calls, pc[d] = "running" PROVE FALSE
      <4>1. id[d] \in 1..Len(log) /\ log[id[d]] = [call |-> d, status |-> "pending"]
        BY <3>1 DEF IntentInv, IntentHeld
      <4>. QED
        BY <2>1, <4>1 DEF Pending
    <3>2. \A d \in Calls : pc'[d] # "running"
      BY <2>3, <3>1, <1>t DEF Goto
    <3>. QED
      BY <2>3, <3>2, EmptySeq DEF IntentInv, IntentHeld, PendingAccounted, OnePending
  <2>. QED
    BY <1>7, <2>2, <2>3 DEF Rename
<1>8. ASSUME NEW c \in Calls, InitDb(c) PROVE IntentInv'
  BY <1>0, <1>8 DEF InitDb, Goto
<1>9. ASSUME NEW c \in Calls, Insert(c) PROVE IntentInv'
  <2>1. PICK s \in Statuses :
           /\ log' = Append(log, [call |-> c, status |-> s])
           /\ strict[c] => s = "pending"
           /\ ~strict[c] => s # "pending"
    BY <1>9, AuditAssumption DEF Insert, Statuses
  <2>2. [call |-> c, status |-> s] \in Row
    BY DEF Row, Statuses
  <2>3. /\ Len(log') = Len(log) + 1
        /\ \A j \in 1..Len(log) : log'[j] = log[j]
        /\ log'[Len(log) + 1] = [call |-> c, status |-> s]
    BY <1>t, <2>1, <2>2, AppendProperties
  <2>4. pc[c] = "insert"
    BY <1>9 DEF Insert
  <2>5. \A j \in 1..Len(log) : log[j].call \in Calls
    BY <1>t, RowsTyped
  <2>6. \A j \in 1..Len(log) : log[j].status = "pending" => log[j].call # c
    BY <2>4 DEF IntentInv, PendingAccounted
  <2>7. CASE strict[c]
    <3>1. /\ id' = [id EXCEPT ![c] = Len(log) + 1]
          /\ pc' = [pc EXCEPT ![c] = "running"]
      BY <1>9, <2>7, Zenon DEF Insert, Goto
    <3>2. IntentHeld'
      BY <1>t, <1>l, <2>1, <2>3, <2>7, <3>1 DEF IntentInv, IntentHeld
    <3>3. PendingAccounted'
      <4>. SUFFICES ASSUME NEW j \in 1..Len(log) + 1, log'[j].status = "pending"
                    PROVE  pc'[log'[j].call] \in {"running", "unresolved", "dead"}
        BY <2>3 DEF PendingAccounted
      <4>1. CASE j = Len(log) + 1
        BY <1>t, <2>3, <3>1, <4>1
      <4>2. CASE j \in 1..Len(log)
        <5>1. /\ log'[j] = log[j]
              /\ log[j].call \in Calls
              /\ pc[log[j].call] \in {"running", "unresolved", "dead"}
          BY <2>3, <2>5, <4>2 DEF IntentInv, PendingAccounted
        <5>. QED
          BY <1>t, <3>1, <5>1
      <4>. QED
        BY <1>l, <4>1, <4>2
    <3>4. OnePending'
      BY <1>l, <2>3, <2>6 DEF IntentInv, OnePending
    <3>. QED
      BY <3>2, <3>3, <3>4 DEF IntentInv
  <2>8. CASE ~strict[c]
    <3>1. id' = id /\ pc' = [pc EXCEPT ![c] = "done"]
      BY <1>9, <2>8, Zenon DEF Insert, Goto
    <3>2. IntentHeld'
      BY <1>t, <1>l, <2>3, <3>1 DEF IntentInv, IntentHeld
    <3>3. PendingAccounted'
      BY <1>t, <1>l, <2>1, <2>3, <2>5, <2>6, <2>8, <3>1 DEF IntentInv, PendingAccounted
    <3>4. OnePending'
      BY <1>l, <2>1, <2>3, <2>8 DEF IntentInv, OnePending
    <3>. QED
      BY <3>2, <3>3, <3>4 DEF IntentInv
  <2>. QED
    BY <2>7, <2>8
<1>10. ASSUME NEW c \in Calls, InsertFails(c) PROVE IntentInv'
  <2>1. /\ pc[c] = "insert" /\ log' = log /\ id' = id
        /\ pc' = [pc EXCEPT ![c] = "ready"] \/ pc' = [pc EXCEPT ![c] = "unlogged"]
    BY <1>10, Zenon DEF InsertFails, Goto
  <2>. QED
    BY <1>0, <2>1
<1>11. ASSUME NEW c \in Calls, Finish(c) PROVE IntentInv'
  <2>1. PICK s \in Outcomes : SetStatus(id[c], s)
    BY <1>11 DEF Finish
  <2>2. /\ id[c] \in 1..Len(log)
        /\ log[id[c]] = [call |-> c, status |-> "pending"]
    BY <1>11 DEF Finish, IntentInv, IntentHeld
  <2>3. pc' = [pc EXCEPT ![c] = "done"] /\ id' = id
    BY <1>11 DEF Finish, Goto
  <2>. QED
    BY <1>t, <2>1, <2>2, <2>3, IntentResolved
<1>12. ASSUME NEW c \in Calls, FinishFails(c) PROVE IntentInv'
  BY <1>0, <1>12 DEF FinishFails, Goto
<1>13. ASSUME NEW i \in 1..Len(log), Reconcile(i) PROVE IntentInv'
  <2>1. /\ SetStatus(i, "unknown") /\ pc' = pc /\ id' = id
        /\ log[i].status = "pending"
        /\ pc[log[i].call] \in {"unresolved", "dead"}
    BY <1>13 DEF Reconcile, Resolvable
  <2>. QED
    BY <1>t, <2>1, AuditAssumption, IntentResolved
<1>14. ASSUME NEW p \in Procs, Restart(p) PROVE IntentInv'
  <2>1. /\ log' = log /\ id' = id
        /\ \A c \in Calls : pc'[c] = pc[c] \/ pc'[c] = "dead"
    BY <1>14 DEF Restart
  <2>2. NoneStarts
    BY <2>1 DEF NoneStarts
  <2>. QED
    BY <1>t, <2>1, <2>2, IntentUndisturbed
<1>15. ASSUME UNCHANGED vars PROVE IntentInv'
  BY <1>15 DEF vars, IntentInv, IntentHeld, PendingAccounted, OnePending
<1>. QED
  BY <1>1, <1>2, <1>3, <1>4, <1>5, <1>6, <1>7, <1>8, <1>9, <1>10, <1>11, <1>12,
     <1>13, <1>14, <1>15 DEF Next, Step

LEMMA IntentInvariant == Flock /\ OperatorChecksFirst => (Spec => []IntentInv)
<1>. SUFFICES ASSUME Flock, OperatorChecksFirst PROVE Spec => []IntentInv
  OBVIOUS
<1>1. Init => RotationInv /\ IntentInv
  BY RotationInit, IntentInit
<1>2. TypeOK /\ RotationInv /\ IntentInv /\ [Next]_vars => (RotationInv /\ IntentInv)'
  BY RotationStep, IntentStep
<1>. QED
  BY <1>1, <1>2, TypeCorrect, PTL DEF Spec

\* While the body of a write runs, its own intent is pending in the live file.
THEOREM IntentAlwaysHeld == Flock /\ OperatorChecksFirst => (Spec => []IntentHeld)
<1>. SUFFICES ASSUME Flock, OperatorChecksFirst PROVE Spec => []IntentHeld
  OBVIOUS
<1>1. IntentInv => IntentHeld
  BY DEF IntentInv
<1>2. Spec => []IntentInv
  BY IntentInvariant
<1>. QED
  BY <1>1, <1>2, PTL

\* A pending row stands for a write that runs, died, or lost its finalization.
THEOREM PendingAlwaysAccounted ==
    Flock /\ OperatorChecksFirst => (Spec => []PendingAccounted)
<1>. SUFFICES ASSUME Flock, OperatorChecksFirst PROVE Spec => []PendingAccounted
  OBVIOUS
<1>1. IntentInv => PendingAccounted
  BY DEF IntentInv
<1>2. Spec => []IntentInv
  BY IntentInvariant
<1>. QED
  BY <1>1, <1>2, PTL

-----------------------------------------------------------------------------
(***************************************************************************)
(* The trail is append-only.  No guard, no platform and no discipline of   *)
(* the operator is needed: the two updates and the insert see to it.       *)
(***************************************************************************)

\* An update of a pending row leaves every resolved row as it is.
LEMMA UpdateKeepsResolved ==
    ASSUME log \in Seq(Row), NEW i \in 1..Len(log), NEW s \in Statuses,
           log[i].status = "pending", SetStatus(i, s)
    PROVE  \A j \in 1..Len(log) : log[j].status # "pending" => log'[j] = log[j]
  BY SetStatusEffect

LEMMA ResolvedStep ==
    TypeOK /\ [Next]_vars =>
        [\A i \in 1..Len(log) :
           log[i].status # "pending" /\ i <= Len(log') => log'[i] = log[i]]_vars
<1>. DEFINE Kept == \A i \in 1..Len(log) :
                      log[i].status # "pending" /\ i <= Len(log') => log'[i] = log[i]
<1>. SUFFICES ASSUME TypeOK, Next PROVE Kept
  BY DEF vars
<1>0. log \in Seq(Row) /\ Len(log) \in Nat
  BY LenProperties DEF TypeOK
<1>1. ASSUME log' = log PROVE Kept
  BY <1>1
<1>2. ASSUME NEW c \in Calls, Rename(c) PROVE Kept
  <2>1. CASE log' = <<>>
    BY <1>0, <2>1, EmptySeq
  <2>2. CASE log' = log
    BY <2>2
  <2>. QED
    BY <1>2, <2>1, <2>2 DEF Rename
<1>3. ASSUME NEW c \in Calls, Insert(c) PROVE Kept
  <2>1. PICK s \in Statuses : log' = Append(log, [call |-> c, status |-> s])
    BY <1>3, AuditAssumption DEF Insert, Statuses
  <2>2. [call |-> c, status |-> s] \in Row
    BY <2>1 DEF Row, Statuses
  <2>3. \A i \in 1..Len(log) : log'[i] = log[i]
    BY <1>0, <2>1, <2>2, AppendProperties
  <2>. QED
    BY <2>3
<1>4. ASSUME NEW c \in Calls, Finish(c) PROVE Kept
  <2>1. PICK s \in Outcomes : SetStatus(id[c], s)
    BY <1>4 DEF Finish
  <2>. QED
    BY <1>0, <1>4, <2>1, UpdateKeepsResolved DEF Finish, Resolvable, Statuses
<1>5. ASSUME NEW i \in 1..Len(log), Reconcile(i) PROVE Kept
  BY <1>0, <1>5, UpdateKeepsResolved, AuditAssumption DEF Reconcile, Resolvable, Statuses
<1>6. ASSUME NEW p \in Procs, Restart(p) PROVE Kept
  BY <1>6, <1>1 DEF Restart
<1>7. ASSUME NEW c \in Calls, Step(c) PROVE Kept
  <2>1. CASE \/ Request(c) \/ RefuseWrite(c) \/ DropRow(c) \/ Acquire(c)
             \/ Check(c) \/ Checkpoint(c) \/ InitDb(c)
             \/ InsertFails(c) \/ FinishFails(c)
    BY <2>1, <1>1 DEF Request, RefuseWrite, DropRow, Acquire, Check, Checkpoint,
                      InitDb, InsertFails, FinishFails
  <2>. QED
    BY <1>2, <1>3, <1>4, <1>7, <2>1 DEF Step
<1>. QED
  BY <1>5, <1>6, <1>7 DEF Next

\* A row with a final status is never changed, by whichever process, operator or
\* late finalization, on every platform.
THEOREM ResolutionIsFinal == Spec => ResolvedIsFinal
<1>1. TypeOK /\ [Next]_vars
        => [\A i \in 1..Len(log) :
              log[i].status # "pending" /\ i <= Len(log') => log'[i] = log[i]]_vars
  BY ResolvedStep
<1>. QED
  BY <1>1, TypeCorrect, PTL DEF Spec, ResolvedIsFinal

-----------------------------------------------------------------------------
(***************************************************************************)
(* A lost finalization stops the writes of its process.  The invariant:    *)
(* the flag is up as long as the call whose finalization was lost has not  *)
(* died with its process.                                                  *)
(***************************************************************************)
LossBlocks == \A c \in Calls : pc[c] = "unresolved" => blocked[ProcOf[c]]

LEMMA LossInit == Init => LossBlocks
  BY DEF Init, LossBlocks

LEMMA LossStep == TypeOK /\ LossBlocks /\ [Next]_vars => LossBlocks'
<1>. SUFFICES ASSUME TypeOK, LossBlocks, [Next]_vars PROVE LossBlocks'
  OBVIOUS
<1>0. /\ pc \in [Calls -> Phases]
      /\ blocked \in [Procs -> BOOLEAN]
      /\ ProcOf \in [Calls -> Procs]
  BY AuditAssumption DEF TypeOK
<1>1. ASSUME NEW c \in Calls, \/ blocked' = blocked
                              \/ blocked' = [blocked EXCEPT ![ProcOf[c]] = TRUE],
             \A d \in Calls : pc'[d] = "unresolved" =>
                                pc[d] = "unresolved" \/ blocked'[ProcOf[d]]
      PROVE  LossBlocks'
  BY <1>0, <1>1 DEF LossBlocks
<1>2. ASSUME NEW c \in Calls, Step(c) PROVE LossBlocks'
  <2>1. CASE FinishFails(c)
    BY <1>0, <1>1, <2>1 DEF FinishFails, Goto
  <2>2. CASE RefuseWrite(c)
    BY <1>0, <1>1, <2>2 DEF RefuseWrite
  <2>3. CASE InsertFails(c)
    BY <1>0, <1>1, <2>3 DEF InsertFails, Goto
  <2>4. CASE Request(c) \/ DropRow(c) \/ Acquire(c)
    BY <1>0, <1>1, <2>4 DEF Request, DropRow, Acquire, Goto
  <2>5. CASE Check(c) \/ Checkpoint(c) \/ Rename(c) \/ InitDb(c)
    BY <1>0, <1>1, <2>5 DEF Check, Checkpoint, Rename, InitDb, Goto
  <2>6. CASE Insert(c) \/ Finish(c)
    BY <1>0, <1>1, <2>6 DEF Insert, Finish, Goto
  <2>. QED
    BY <1>2, <2>1, <2>2, <2>3, <2>4, <2>5, <2>6 DEF Step
<1>3. ASSUME NEW i \in 1..Len(log), Reconcile(i) PROVE LossBlocks'
  BY <1>3 DEF Reconcile, LossBlocks
<1>4. ASSUME NEW p \in Procs, Restart(p) PROVE LossBlocks'
  <2>. SUFFICES ASSUME NEW c \in Calls, pc'[c] = "unresolved"
                PROVE  blocked'[ProcOf[c]]
    BY DEF LossBlocks
  <2>1. pc[c] = "unresolved" /\ ProcOf[c] # p
    BY <1>0, <1>4 DEF Restart, Untouched
  <2>2. blocked'[ProcOf[c]] = blocked[ProcOf[c]]
    BY <1>0, <1>4, <2>1 DEF Restart
  <2>. QED
    BY <2>1, <2>2 DEF LossBlocks
<1>5. CASE UNCHANGED vars
  BY <1>5 DEF vars, LossBlocks
<1>. QED
  BY <1>2, <1>3, <1>4, <1>5 DEF Next

LEMMA LossStops ==
    TypeOK /\ LossBlocks /\ [Next]_vars =>
        [\A c, d \in Calls :
           pc[d] = "unresolved" /\ ProcOf[c] = ProcOf[d] /\ strict[c]
             => ~(pc[c] = "ready" /\ pc'[c] = "waiting")]_vars
<1>. SUFFICES ASSUME TypeOK, LossBlocks, Next,
                     NEW c \in Calls, NEW d \in Calls,
                     pc[d] = "unresolved", ProcOf[c] = ProcOf[d], strict[c],
                     pc[c] = "ready", pc'[c] = "waiting"
              PROVE  FALSE
  BY DEF vars
<1>0. pc \in [Calls -> Phases]
  BY DEF TypeOK
<1>1. blocked[ProcOf[c]]
  BY DEF LossBlocks
<1>2. ASSUME NEW e \in Calls, Step(e) PROVE FALSE
  <2>1. CASE Request(e)
    BY <1>0, <1>1, <2>1 DEF Request, Goto
  <2>2. CASE RefuseWrite(e) \/ DropRow(e) \/ Acquire(e)
    BY <1>0, <2>2 DEF RefuseWrite, DropRow, Acquire, Goto
  <2>3. CASE Check(e) \/ Checkpoint(e) \/ Rename(e) \/ InitDb(e)
    BY <1>0, <2>3 DEF Check, Checkpoint, Rename, InitDb, Goto
  <2>4. CASE Insert(e) \/ InsertFails(e) \/ Finish(e) \/ FinishFails(e)
    BY <1>0, <2>4 DEF Insert, InsertFails, Finish, FinishFails, Goto
  <2>. QED
    BY <1>2, <2>1, <2>2, <2>3, <2>4 DEF Step
<1>3. ASSUME NEW i \in 1..Len(log), Reconcile(i) PROVE FALSE
  BY <1>3 DEF Reconcile
<1>4. ASSUME NEW p \in Procs, Restart(p) PROVE FALSE
  BY <1>0, <1>4 DEF Restart
<1>. QED
  BY <1>2, <1>3, <1>4 DEF Next

\* From a lost finalization on, no write of that process goes for the guard, for
\* any number of processes and calls and on every platform.
THEOREM LossStopsEveryWrite == Spec => LossStopsWrites
<1>1. TypeOK /\ LossBlocks /\ [Next]_vars
        => [\A c, d \in Calls :
              pc[d] = "unresolved" /\ ProcOf[c] = ProcOf[d] /\ strict[c]
                => ~(pc[c] = "ready" /\ pc'[c] = "waiting")]_vars
  BY LossStops
<1>2. Spec => []LossBlocks
  BY LossInit, LossStep, TypeCorrect, PTL DEF Spec
<1>. QED
  BY <1>1, <1>2, TypeCorrect, PTL DEF Spec, LossStopsWrites

-----------------------------------------------------------------------------
(***************************************************************************)
(* The engine keeps the promise of WriteLedger.  The ledger has one entry  *)
(* per write; the engine has rows, in the live file and in the archives.   *)
(* The mapping is a function of the state only because no call ever has    *)
(* two rows: that is the invariant RowInv below.  It rests on RotationInv  *)
(* (a rename moves exactly the live rows) and says moreover that a call    *)
(* with a row got past its append, so an append never adds a second one.   *)
(***************************************************************************)
InLive(r)    == \E i \in 1..Len(log) : log[i] = r
InArchive(r) == \E k \in 1..Len(archives) : \E i \in 1..Len(archives[k]) : archives[k][i] = r
Written(r)   == InLive(r) \/ InArchive(r)

\* Where a call can be once its row is in the trail.
Recorded == {"running", "done", "unresolved", "dead"}

LiveOnce     == \A i, j \in 1..Len(log) : log[i].call = log[j].call => i = j
ArchivedOnce == \A r, s : InArchive(r) /\ InArchive(s) /\ r.call = s.call => r = s
NotBoth      == \A r, s : InArchive(r) /\ InLive(s) => r.call # s.call
RowsRecorded == \A r : Written(r) => pc[r.call] \in Recorded
StrictKnown  == \A c \in Calls : /\ strict[c] => c \in Writes
                                 /\ pc[c] \in {"running", "unresolved"} => strict[c]

RowInv == LiveOnce /\ ArchivedOnce /\ NotBoth /\ RowsRecorded /\ StrictKnown

LEMMA RowInit == Init => RowInv
<1>. SUFFICES ASSUME Init PROVE RowInv
  OBVIOUS
<1>1. Len(log) = 0 /\ Len(archives) = 0
  BY EmptySeq DEF Init
<1>2. \A r : ~InLive(r) /\ ~InArchive(r)
  BY <1>1 DEF InLive, InArchive
<1>3. StrictKnown
  BY DEF Init, StrictKnown
<1>. QED
  BY <1>1, <1>2, <1>3 DEF RowInv, LiveOnce, ArchivedOnce, NotBoth, RowsRecorded, Written

\* Every row in the trail is a row.
LEMMA WrittenTyped == TypeOK => \A r : Written(r) => r \in Row /\ r.call \in Calls
<1>. SUFFICES ASSUME TypeOK, NEW r, Written(r) PROVE r \in Row /\ r.call \in Calls
  OBVIOUS
<1>1. log \in Seq(Row) /\ archives \in Seq(Seq(Row))
  BY DEF TypeOK
<1>2. CASE InLive(r)
  BY <1>1, <1>2, RowsTyped DEF InLive
<1>3. CASE InArchive(r)
  <2>1. PICK k \in 1..Len(archives) : \E i \in 1..Len(archives[k]) : archives[k][i] = r
    BY <1>3 DEF InArchive
  <2>2. archives[k] \in Seq(Row)
    BY <1>1, ElementOfSeq
  <2>3. r \in Row
    BY <2>1, <2>2, ElementOfSeq
  <2>. QED
    BY <2>3 DEF Row
<1>. QED
  BY <1>2, <1>3 DEF Written

\* A step that writes no row and forgets no call.
LEMMA RowFrame ==
    ASSUME RowInv, log' = log,
           \A r : InArchive(r)' => InArchive(r),
           \A c \in Calls : pc[c] \in Recorded => pc'[c] \in Recorded,
           TypeOK, StrictKnown'
    PROVE  RowInv'
<1>1. \A r : InLive(r)' <=> InLive(r)
  BY DEF InLive
<1>2. LiveOnce'
  BY DEF RowInv, LiveOnce
<1>3. ArchivedOnce'
  BY DEF RowInv, ArchivedOnce
<1>4. NotBoth'
  BY <1>1 DEF RowInv, NotBoth
<1>5. RowsRecorded'
  <2>. SUFFICES ASSUME NEW r, Written(r)' PROVE pc'[r.call] \in Recorded
    BY DEF RowsRecorded
  <2>1. Written(r)
    BY <1>1 DEF Written
  <2>. QED
    BY <2>1, WrittenTyped DEF RowInv, RowsRecorded
<1>. QED
  BY <1>2, <1>3, <1>4, <1>5 DEF RowInv

\* What an append, an update, a rename and the cleanup of archives do to it.
LEMMA AppendedRow ==
    ASSUME log \in Seq(Row), NEW x \in Row, log' = Append(log, x)
    PROVE  /\ Len(log') = Len(log) + 1
           /\ \A i \in 1..Len(log) : log'[i] = log[i]
           /\ log'[Len(log) + 1] = x
           /\ \A r : InLive(r)' <=> InLive(r) \/ r = x
<1>1. /\ Len(log) \in Nat
      /\ Len(log') = Len(log) + 1
      /\ \A i \in 1..Len(log) : log'[i] = log[i]
      /\ log'[Len(log) + 1] = x
  BY AppendProperties, LenProperties
<1>2. \A r : InLive(r)' => InLive(r) \/ r = x
  BY <1>1 DEF InLive
<1>3. \A r : InLive(r) => InLive(r)'
  BY <1>1 DEF InLive
<1>4. InLive(x)'
  BY <1>1 DEF InLive
<1>. QED
  BY <1>1, <1>2, <1>3, <1>4

LEMMA UpdatedRow ==
    ASSUME log \in Seq(Row), LiveOnce, NEW i \in 1..Len(log), NEW s \in Statuses, SetStatus(i, s),
           NEW c, log[i].call = c
    PROVE  /\ LiveOnce'
           /\ InLive([call |-> c, status |-> s])'
           /\ \A r : r.call # c => (InLive(r)' <=> InLive(r))
           /\ \A r : InLive(r)' => \E t : InLive(t) /\ t.call = r.call
<1>. DEFINE x == [call |-> c, status |-> s]
<1>1. /\ Len(log') = Len(log)
      /\ log'[i] = x
      /\ \A j \in 1..Len(log) : j # i => log'[j] = log[j]
  BY SetStatusEffect
<1>5. x.call = c
  OBVIOUS
<1>. HIDE DEF x
<1>2. \A j \in 1..Len(log) : log'[j].call = log[j].call
  BY <1>1, <1>5
<1>3. LiveOnce'
  BY <1>1, <1>2 DEF LiveOnce
<1>4. InLive(x)'
  BY <1>1 DEF InLive
<1>6. ASSUME NEW r, r.call # c PROVE InLive(r)' <=> InLive(r)
  BY <1>1, <1>5, <1>6 DEF InLive
<1>7. ASSUME NEW r, InLive(r)' PROVE \E t : InLive(t) /\ t.call = r.call
  <2>1. PICK j \in 1..Len(log) : log'[j] = r
    BY <1>1, <1>7 DEF InLive
  <2>2. InLive(log[j]) /\ log[j].call = r.call
    BY <1>2, <2>1 DEF InLive
  <2>. QED
    BY <2>2
<1>. QED
  BY <1>3, <1>4, <1>6, <1>7 DEF x

LEMMA RenamedFile ==
    ASSUME archives \in Seq(Seq(Row)), log \in Seq(Row),
           archives' = Append(archives, log), log' = <<>>
    PROVE  /\ LiveOnce'
           /\ \A r : ~InLive(r)'
           /\ \A r : InArchive(r)' <=> InArchive(r) \/ InLive(r)
<1>1. Len(log') = 0
  BY EmptySeq
<1>2. /\ Len(archives) \in Nat
      /\ Len(archives') = Len(archives) + 1
      /\ \A k \in 1..Len(archives) : archives'[k] = archives[k]
      /\ archives'[Len(archives) + 1] = log
  BY AppendProperties, LenProperties
<1>3. \A r : InArchive(r)' => InArchive(r) \/ InLive(r)
  BY <1>2 DEF InArchive, InLive
<1>4. ASSUME NEW r, InArchive(r) PROVE InArchive(r)'
  <2>1. PICK k \in 1..Len(archives) : \E i \in 1..Len(archives[k]) : archives[k][i] = r
    BY <1>4 DEF InArchive
  <2>2. k \in 1..Len(archives') /\ archives'[k] = archives[k]
    BY <1>2
  <2>. QED
    BY <2>1, <2>2 DEF InArchive
<1>5. \A r : InLive(r) => InArchive(r)'
  BY <1>2 DEF InArchive, InLive
<1>. QED
  BY <1>1, <1>3, <1>4, <1>5 DEF LiveOnce, InLive

LEMMA KeptArchives ==
    ASSUME archives \in Seq(Seq(Row)),
           archives' = archives \/ archives' = Newest(archives)
    PROVE  \A r : InArchive(r)' => InArchive(r)
<1>1. CASE archives' = archives
  BY <1>1 DEF InArchive
<1>2. CASE archives' = Newest(archives)
  <2>1. \A k \in 1..Len(archives') : \E j \in 1..Len(archives) : archives'[k] = archives[j]
    BY <1>2, NewestKeeps
  <2>. SUFFICES ASSUME NEW r, InArchive(r)' PROVE InArchive(r)
    OBVIOUS
  <2>2. PICK k \in 1..Len(archives') : \E i \in 1..Len(archives'[k]) : archives'[k][i] = r
    BY DEF InArchive
  <2>3. PICK j \in 1..Len(archives) : archives'[k] = archives[j]
    BY <2>1
  <2>. QED
    BY <2>2, <2>3 DEF InArchive
<1>. QED
  BY <1>1, <1>2

\* Reads never ask for an intent, and the body of a write runs under one.
LEMMA StrictStep == TypeOK /\ StrictKnown /\ [Next]_vars => StrictKnown'
<1>. SUFFICES ASSUME TypeOK, StrictKnown, [Next]_vars PROVE StrictKnown'
  OBVIOUS
<1>0. pc \in [Calls -> Phases] /\ strict \in [Calls -> BOOLEAN]
  BY DEF TypeOK
<1>1. ASSUME \A d \in Calls : strict'[d] => strict[d],
             \A d \in Calls : pc'[d] \in {"running", "unresolved"} =>
                \/ pc[d] \in {"running", "unresolved"} /\ strict'[d] = strict[d]
                \/ strict'[d]
      PROVE  StrictKnown'
  BY <1>1 DEF StrictKnown
<1>2. ASSUME NEW c \in Calls, Step(c) PROVE StrictKnown'
  <2>1. CASE Insert(c)
    <3>1. /\ strict' = strict
          /\ \/ strict[c] /\ pc' = [pc EXCEPT ![c] = "running"]
             \/ pc' = [pc EXCEPT ![c] = "done"]
      BY <2>1, Zenon DEF Insert, Goto
    <3>. QED
      BY <1>0, <1>1, <3>1
  <2>2. CASE InsertFails(c)
    <3>1. /\ pc' = [pc EXCEPT ![c] = pc'[c]] /\ pc'[c] \in {"ready", "unlogged"}
          /\ \A d \in Calls : d # c => strict'[d] = strict[d]
          /\ strict'[c] => strict[c]
      BY <1>0, <2>2 DEF InsertFails, Goto
    <3>. QED
      BY <1>0, <1>1, <3>1
  <2>3. CASE RefuseWrite(c)
    BY <1>0, <1>1, <2>3 DEF RefuseWrite
  <2>4. CASE FinishFails(c)
    BY <1>0, <1>1, <2>4 DEF FinishFails, Goto
  <2>5. CASE Finish(c)
    BY <1>0, <1>1, <2>5 DEF Finish, Goto
  <2>6. CASE \/ Request(c) \/ DropRow(c) \/ Acquire(c)
             \/ Check(c) \/ Checkpoint(c) \/ Rename(c) \/ InitDb(c)
    <3>1. strict' = strict /\ \A d \in Calls : pc'[d] # pc[d] => pc'[d] \notin {"running", "unresolved"}
      BY <1>0, <2>6 DEF Request, DropRow, Acquire, Check, Checkpoint, Rename, InitDb, Goto
    <3>. QED
      BY <1>1, <3>1
  <2>. QED
    BY <1>2, <2>1, <2>2, <2>3, <2>4, <2>5, <2>6 DEF Step
<1>3. ASSUME NEW i \in 1..Len(log), Reconcile(i) PROVE StrictKnown'
  BY <1>1, <1>3 DEF Reconcile
<1>4. ASSUME NEW p \in Procs, Restart(p) PROVE StrictKnown'
  <2>1. strict' = strict /\ \A d \in Calls : pc'[d] = pc[d] \/ pc'[d] = "dead"
    BY <1>4 DEF Restart
  <2>. QED
    BY <1>1, <2>1
<1>5. CASE UNCHANGED vars
  BY <1>1, <1>5 DEF vars
<1>. QED
  BY <1>2, <1>3, <1>4, <1>5 DEF Next

\* A row whose status alone changes: the call behind every row stays the same.
LEMMA UpdateKeepsRowInv ==
    ASSUME TypeOK, RowInv, NEW i \in 1..Len(log), NEW s \in Statuses, SetStatus(i, s),
           archives' = archives, StrictKnown',
           \A c \in Calls : pc[c] \in Recorded => pc'[c] \in Recorded
    PROVE  RowInv'
<1>1. log \in Seq(Row) /\ LiveOnce
  BY DEF TypeOK, RowInv
<1>2. /\ LiveOnce'
      /\ \A r : InLive(r)' => \E t : InLive(t) /\ t.call = r.call
  BY <1>1, UpdatedRow
<1>3. \A r : InArchive(r)' <=> InArchive(r)
  BY DEF InArchive
<1>4. ArchivedOnce'
  BY <1>3 DEF RowInv, ArchivedOnce
<1>5. NotBoth'
  BY <1>2, <1>3 DEF RowInv, NotBoth
<1>6. RowsRecorded'
  <2>. SUFFICES ASSUME NEW r, Written(r)' PROVE pc'[r.call] \in Recorded
    BY DEF RowsRecorded
  <2>1. PICK t : Written(t) /\ t.call = r.call
    BY <1>2, <1>3 DEF Written
  <2>. QED
    BY <2>1, WrittenTyped DEF RowInv, RowsRecorded
<1>. QED
  BY <1>2, <1>4, <1>5, <1>6 DEF RowInv

\* No call ever has two rows.
LEMMA RowStep ==
    Flock /\ TypeOK /\ RotationInv /\ RowInv /\ [Next]_vars => RowInv'
<1>. SUFFICES ASSUME Flock, TypeOK, RotationInv, RowInv, [Next]_vars PROVE RowInv'
  OBVIOUS
<1>t. pc \in [Calls -> Phases] /\ log \in Seq(Row) /\ archives \in Seq(Seq(Row))
  BY DEF TypeOK
<1>s. StrictKnown'
  BY StrictStep DEF RowInv
<1>a. archives' = archives => \A r : InArchive(r)' <=> InArchive(r)
  BY DEF InArchive
<1>0. ASSUME log' = log, \A r : InArchive(r)' => InArchive(r),
             NEW c \in Calls, NEW ph, pc' = [pc EXCEPT ![c] = ph],
             pc[c] \in Recorded => ph \in Recorded
      PROVE  RowInv'
  <2>1. \A d \in Calls : pc[d] \in Recorded => pc'[d] \in Recorded
    BY <1>0, <1>t
  <2>. QED
    BY <1>0, <1>s, <2>1, RowFrame
<1>1. ASSUME NEW c \in Calls,
             Request(c) \/ DropRow(c) \/ Acquire(c) \/ Check(c) \/ Checkpoint(c)
      PROVE  RowInv'
  <2>1. /\ log' = log /\ archives' = archives /\ pc[c] \notin Recorded
        /\ \E ph : pc' = [pc EXCEPT ![c] = ph]
    BY <1>1 DEF Request, DropRow, Acquire, Check, Checkpoint, Goto, Recorded
  <2>. QED
    BY <1>0, <1>a, <2>1
<1>2. ASSUME NEW c \in Calls, RefuseWrite(c) PROVE RowInv'
  <2>1. log' = log /\ archives' = archives /\ pc' = pc
    BY <1>2 DEF RefuseWrite
  <2>. QED
    BY <1>a, <1>s, <2>1, RowFrame
<1>3. ASSUME NEW c \in Calls, Rename(c) PROVE RowInv'
  <2>1. pc[c] = "rename" /\ main = log
    BY <1>3 DEF Rename, RotationInv, RotatorView
  <2>2. CASE archives' = Append(archives, main) /\ log' = <<>> /\ Goto(c, "init")
    <3>1. /\ LiveOnce'
          /\ \A r : ~InLive(r)'
          /\ \A r : InArchive(r)' <=> InArchive(r) \/ InLive(r)
      BY <1>t, <2>1, <2>2, RenamedFile
    <3>2. ArchivedOnce'
      <4>1. \A r, s : InLive(r) /\ InLive(s) /\ r.call = s.call => r = s
        BY DEF RowInv, LiveOnce, InLive
      <4>. QED
        BY <3>1, <4>1 DEF RowInv, ArchivedOnce, NotBoth
    <3>3. NotBoth'
      BY <3>1 DEF NotBoth
    <3>4. RowsRecorded'
      <4>. SUFFICES ASSUME NEW r, Written(r)' PROVE pc'[r.call] \in Recorded
        BY DEF RowsRecorded
      <4>1. pc[r.call] \in Recorded /\ r.call \in Calls
        BY <3>1, WrittenTyped DEF Written, RowInv, RowsRecorded
      <4>. QED
        BY <1>t, <2>1, <2>2, <4>1 DEF Goto, Recorded
    <3>. QED
      BY <1>s, <3>1, <3>2, <3>3, <3>4 DEF RowInv
  <2>3. CASE Goto(c, "insert") /\ UNCHANGED <<log, archives>>
    BY <1>0, <1>a, <2>1, <2>3 DEF Goto, Recorded
  <2>. QED
    BY <1>3, <2>2, <2>3 DEF Rename
<1>4. ASSUME NEW c \in Calls, InitDb(c) PROVE RowInv'
  <2>1. /\ log' = log /\ pc[c] = "init" /\ pc' = [pc EXCEPT ![c] = "insert"]
        /\ archives' = archives \/ archives' = Newest(archives)
    BY <1>4 DEF InitDb, Goto
  <2>2. \A r : InArchive(r)' => InArchive(r)
    BY <1>t, <2>1, KeptArchives
  <2>. QED
    BY <1>0, <2>1, <2>2 DEF Recorded
<1>5. ASSUME NEW c \in Calls, Insert(c) PROVE RowInv'
  <2>1. PICK s \in Statuses : log' = Append(log, [call |-> c, status |-> s])
    BY <1>5, AuditAssumption DEF Insert, Statuses
  <2>2. [call |-> c, status |-> s] \in Row
    BY DEF Row, Statuses
  <2>3. /\ pc[c] = "insert" /\ archives' = archives
        /\ pc' = [pc EXCEPT ![c] = "running"] \/ pc' = [pc EXCEPT ![c] = "done"]
    BY <1>5, Zenon DEF Insert, Goto
  <2>4. \A r : Written(r) => r.call # c
    BY <2>3 DEF RowInv, RowsRecorded, Recorded
  <2>. DEFINE x == [call |-> c, status |-> s]
  <2>5. x.call = c
    OBVIOUS
  <2>. HIDE DEF x
  <2>6. /\ Len(log') = Len(log) + 1
        /\ \A i \in 1..Len(log) : log'[i] = log[i]
        /\ log'[Len(log) + 1] = x
        /\ \A r : InLive(r)' <=> InLive(r) \/ r = x
    BY <1>t, <2>1, <2>2, AppendedRow DEF x
  <2>7. LiveOnce'
    <3>1. \A i \in 1..Len(log) : log[i].call # c
      BY <2>4 DEF Written, InLive
    <3>2. Len(log) \in Nat
      BY <1>t, LenProperties
    <3>. QED
      BY <2>5, <2>6, <3>1, <3>2 DEF RowInv, LiveOnce
  <2>8. ArchivedOnce'
    BY <1>a, <2>3 DEF RowInv, ArchivedOnce
  <2>9. NotBoth'
    BY <1>a, <2>3, <2>4, <2>5, <2>6 DEF RowInv, NotBoth, Written
  <2>10. RowsRecorded'
    <3>. SUFFICES ASSUME NEW r, Written(r)' PROVE pc'[r.call] \in Recorded
      BY DEF RowsRecorded
    <3>1. CASE r = x
      BY <1>t, <2>3, <2>5, <3>1 DEF Recorded
    <3>2. CASE Written(r)
      <4>1. pc[r.call] \in Recorded /\ r.call \in Calls /\ r.call # c
        BY <2>4, <3>2, WrittenTyped DEF RowInv, RowsRecorded
      <4>. QED
        BY <1>t, <2>3, <4>1
    <3>. QED
      BY <1>a, <2>3, <2>6, <3>1, <3>2 DEF Written
  <2>. QED
    BY <1>s, <2>7, <2>8, <2>9, <2>10 DEF RowInv
<1>6. ASSUME NEW c \in Calls, InsertFails(c) PROVE RowInv'
  <2>1. /\ log' = log /\ archives' = archives /\ pc[c] \notin Recorded
        /\ \E ph : pc' = [pc EXCEPT ![c] = ph]
    BY <1>6 DEF InsertFails, Goto, Recorded
  <2>. QED
    BY <1>0, <1>a, <2>1
<1>7. ASSUME NEW c \in Calls, Finish(c) PROVE RowInv'
  <2>1. PICK s \in Outcomes : SetStatus(id[c], s)
    BY <1>7 DEF Finish
  <2>2. /\ id[c] \in 1..Len(log) /\ s \in Statuses /\ archives' = archives
        /\ pc' = [pc EXCEPT ![c] = "done"]
    BY <1>7 DEF Finish, Resolvable, Goto, Statuses
  <2>3. \A d \in Calls : pc[d] \in Recorded => pc'[d] \in Recorded
    BY <1>t, <2>2 DEF Recorded
  <2>. QED
    BY <1>s, <2>1, <2>2, <2>3, UpdateKeepsRowInv
<1>8. ASSUME NEW c \in Calls, FinishFails(c) PROVE RowInv'
  BY <1>0, <1>a, <1>8 DEF FinishFails, Goto, Recorded
<1>9. ASSUME NEW i \in 1..Len(log), Reconcile(i) PROVE RowInv'
  <2>1. SetStatus(i, "unknown") /\ "unknown" \in Statuses /\ archives' = archives /\ pc' = pc
    BY <1>9, AuditAssumption DEF Reconcile, Statuses
  <2>. QED
    BY <1>s, <2>1, UpdateKeepsRowInv
<1>10. ASSUME NEW p \in Procs, Restart(p) PROVE RowInv'
  <2>1. log' = log /\ archives' = archives
        /\ \A d \in Calls : pc'[d] = pc[d] \/ pc'[d] = "dead"
    BY <1>10 DEF Restart
  <2>2. \A d \in Calls : pc[d] \in Recorded => pc'[d] \in Recorded
    BY <2>1 DEF Recorded
  <2>. QED
    BY <1>a, <1>s, <2>1, <2>2, RowFrame
<1>11. CASE UNCHANGED vars
  BY <1>a, <1>s, <1>11, RowFrame DEF vars
<1>. QED
  BY <1>1, <1>2, <1>3, <1>4, <1>5, <1>6, <1>7, <1>8, <1>9, <1>10, <1>11 DEF Next, Step

-----------------------------------------------------------------------------
(***************************************************************************)
(* The entry of a call, read off its row.                                  *)
(***************************************************************************)
LEMMA MembersOf == \A c \in Calls : \A r : r \in RowsOf(c) <=> Written(r) /\ r.call = c
<1>. SUFFICES ASSUME NEW c \in Calls, NEW r
              PROVE  r \in RowsOf(c) <=> Written(r) /\ r.call = c
  OBVIOUS
<1>1. r \in {log[i] : i \in {j \in 1..Len(log) : log[j].call = c}}
        <=> InLive(r) /\ r.call = c
  BY DEF InLive
<1>2. r \in UNION {{archives[k][i] : i \in {j \in 1..Len(archives[k]) : archives[k][j].call = c}}
                     : k \in 1..Len(archives)}
        <=> InArchive(r) /\ r.call = c
  BY DEF InArchive
<1>. QED
  BY <1>1, <1>2 DEF RowsOf, Written

LEMMA OneRowEach ==
    RowInv => \A r, s : Written(r) /\ Written(s) /\ r.call = s.call => r = s
  BY DEF RowInv, LiveOnce, ArchivedOnce, NotBoth, Written, InLive

LEMMA EntryOfRow ==
    RowInv => \A r : Written(r) /\ r.call \in Calls => LedgerEntry(r.call) = r.status
<1>. SUFFICES ASSUME RowInv, NEW r, Written(r), r.call \in Calls
              PROVE  LedgerEntry(r.call) = r.status
  OBVIOUS
<1>1. r \in RowsOf(r.call) /\ \A s \in RowsOf(r.call) : s = r
  BY MembersOf, OneRowEach
<1>2. RowsOf(r.call) = {r}
  BY <1>1
<1>. QED
  BY <1>2 DEF LedgerEntry

LEMMA EntryAbsent ==
    \A c \in Calls : (\A r : Written(r) => r.call # c) => LedgerEntry(c) = "absent"
  BY MembersOf DEF LedgerEntry

\* The same facts about the state after a step.
LEMMA MembersOfNext == \A c \in Calls : \A r : r \in RowsOf(c)' <=> Written(r)' /\ r.call = c
<1>1. (\A c \in Calls : \A r : r \in RowsOf(c) <=> Written(r) /\ r.call = c)'
  BY MembersOf, PTL
<1>. QED
  BY <1>1

LEMMA EntryOfRowNext ==
    RowInv' => \A r : Written(r)' /\ r.call \in Calls => LedgerEntry(r.call)' = r.status
<1>1. (RowInv => \A r : Written(r) /\ r.call \in Calls => LedgerEntry(r.call) = r.status)'
  BY EntryOfRow, PTL
<1>. QED
  BY <1>1

LEMMA EntryAbsentNext ==
    \A c \in Calls : (\A r : Written(r)' => r.call # c) => LedgerEntry(c)' = "absent"
<1>1. (\A c \in Calls : (\A r : Written(r) => r.call # c) => LedgerEntry(c) = "absent")'
  BY EntryAbsent, PTL
<1>. QED
  BY <1>1

\* A call whose rows a step neither adds to, changes nor forgets keeps its entry.
LEMMA EntryKept ==
    ASSUME NEW c \in Calls, \A r : r.call = c => (Written(r)' <=> Written(r))
    PROVE  LedgerEntry(c)' = LedgerEntry(c)
<1>1. \A r : r \in RowsOf(c)' <=> r \in RowsOf(c)
  BY MembersOf, MembersOfNext
<1>2. RowsOf(c)' = RowsOf(c)
  BY <1>1
<1>. QED
  BY <1>2 DEF LedgerEntry

(***************************************************************************)
(* The steps of the ledger, in the words of the engine.                    *)
(***************************************************************************)
Others(w) == \A v \in Writes \ {w} : /\ LedgerEntry(v)' = LedgerEntry(v)
                                     /\ LedgerBody(v)' = LedgerBody(v)

\* What a step of the engine has to be: one of the ledger, or none.
Promised == Ledger!Next \/ UNCHANGED Ledger!vars

LEMMA MapStutter ==
    ASSUME \A w \in Writes : /\ LedgerEntry(w)' = LedgerEntry(w)
                             /\ LedgerBody(w)' = LedgerBody(w)
    PROVE  Promised
  BY DEF Promised, Ledger!vars

LEMMA MapStart ==
    ASSUME NEW w \in Writes, Others(w),
           LedgerEntry(w) = "absent", LedgerEntry(w)' = "pending",
           LedgerBody(w) = "idle", LedgerBody(w)' = "running"
    PROVE  Promised
<1>1. Ledger!Start(w)
  BY DEF Ledger!Start, Others
<1>. QED
  BY <1>1 DEF Promised, Ledger!Next

LEMMA MapResolve ==
    ASSUME NEW w \in Writes, Others(w), NEW o \in Outcomes,
           LedgerEntry(w) = "pending", LedgerEntry(w)' = o,
           LedgerBody(w) = "running", LedgerBody(w)' = "over"
    PROVE  Promised
<1>1. Ledger!Resolve(w)
  BY DEF Ledger!Resolve, Others
<1>. QED
  BY <1>1 DEF Promised, Ledger!Next

LEMMA MapRefuse ==
    ASSUME NEW w \in Writes, Others(w), LedgerEntry(w)' = LedgerEntry(w),
           LedgerBody(w) = "idle", LedgerBody(w)' = "refused"
    PROVE  Promised
<1>1. Ledger!Refuse(w)
  BY DEF Ledger!Refuse, Others
<1>. QED
  BY <1>1 DEF Promised, Ledger!Next

LEMMA MapRecordRefusal ==
    ASSUME NEW w \in Writes, Others(w), LedgerBody(w) = "refused", LedgerBody(w)' = "refused",
           LedgerEntry(w) = "absent", LedgerEntry(w)' = "error"
    PROVE  Promised
<1>1. Ledger!RecordRefusal(w)
  BY DEF Ledger!RecordRefusal, Others
<1>. QED
  BY <1>1 DEF Promised, Ledger!Next

LEMMA MapReconcile ==
    ASSUME NEW w \in Writes, Others(w), LedgerBody(w) = "over", LedgerBody(w)' = "over",
           LedgerEntry(w) = "pending", LedgerEntry(w)' = "unknown"
    PROVE  Promised
<1>1. Ledger!Reconcile(w)
  BY DEF Ledger!Reconcile, Others
<1>. QED
  BY <1>1 DEF Promised, Ledger!Next

LEMMA MapAbandon ==
    ASSUME NEW W \in SUBSET Writes,
           \A w \in Writes : /\ LedgerEntry(w)' = LedgerEntry(w)
                             /\ LedgerBody(w)' = IF w \in W THEN "over" ELSE LedgerBody(w)
    PROVE  Promised
<1>1. CASE W = {}
  BY <1>1, MapStutter
<1>2. CASE W # {}
  <2>1. Ledger!Abandon(W)
    BY <1>2 DEF Ledger!Abandon
  <2>. QED
    BY <2>1 DEF Promised, Ledger!Next
<1>. QED
  BY <1>1, <1>2

LEMMA MapForget ==
    ASSUME \A w \in Writes :
               /\ LedgerBody(w)' = LedgerBody(w)
               /\ \/ LedgerEntry(w)' = LedgerEntry(w)
                  \/ LedgerEntry(w) \in Outcomes /\ LedgerEntry(w)' = "absent"
    PROVE  Promised
<1>. DEFINE W == {w \in Writes : LedgerEntry(w)' # LedgerEntry(w)}
<1>1. Ledger!Forget(W)
  BY DEF Ledger!Forget
<1>. QED
  BY <1>1 DEF Promised, Ledger!Next

\* A write without a row has the entry "absent".
LEMMA NoRowYet ==
    RowInv => \A c \in Calls : pc[c] \notin Recorded => LedgerEntry(c) = "absent"
  BY EntryAbsent DEF RowInv, RowsRecorded

LEMMA SameTrail ==
    ASSUME log' = log, archives' = archives
    PROVE  \A c \in Calls : LedgerEntry(c)' = LedgerEntry(c)
<1>1. \A r : Written(r)' <=> Written(r)
  BY DEF Written, InLive, InArchive
<1>. QED
  BY <1>1, EntryKept

\* The update of row i changes the entry of the call behind it, and no other.
LEMMA EntryUpdated ==
    ASSUME TypeOK, RowInv, RowInv', NEW i \in 1..Len(log), NEW s \in Statuses, SetStatus(i, s),
           NEW c \in Calls, log[i].call = c, archives' = archives
    PROVE  /\ LedgerEntry(c) = log[i].status
           /\ LedgerEntry(c)' = s
           /\ \A d \in Calls : d # c => LedgerEntry(d)' = LedgerEntry(d)
<1>1. log \in Seq(Row) /\ LiveOnce
  BY DEF TypeOK, RowInv
<1>2. /\ InLive([call |-> c, status |-> s])'
      /\ \A r : r.call # c => (InLive(r)' <=> InLive(r))
  BY <1>1, UpdatedRow
<1>3. \A r : InArchive(r)' <=> InArchive(r)
  BY DEF InArchive
<1>4. LedgerEntry(c) = log[i].status
  <2>1. Written(log[i])
    BY DEF Written, InLive
  <2>. QED
    BY <2>1, EntryOfRow
<1>5. LedgerEntry(c)' = s
  <2>. DEFINE x == [call |-> c, status |-> s]
  <2>1. x.call = c /\ x.status = s
    OBVIOUS
  <2>2. Written(x)'
    BY <1>2 DEF Written
  <2>. HIDE DEF x
  <2>. QED
    BY <2>1, <2>2, EntryOfRowNext
<1>6. ASSUME NEW d \in Calls, d # c PROVE LedgerEntry(d)' = LedgerEntry(d)
  <2>1. \A r : r.call = d => (Written(r)' <=> Written(r))
    BY <1>2, <1>3, <1>6 DEF Written
  <2>. QED
    BY <2>1, EntryKept
<1>. QED
  BY <1>4, <1>5, <1>6

\* Only a call that moves, or whose intent is given up, changes its body.
LEMMA BodyKept ==
    ASSUME NEW c \in Calls, pc'[c] = pc[c], strict'[c] = strict[c]
    PROVE  LedgerBody(c)' = LedgerBody(c)
  BY DEF LedgerBody

LedgerInv == RotationInv /\ RowInv /\ IntentInv

\* Every step of the engine is a step of the ledger, or changes nothing in it.
LEMMA LedgerStep ==
    Flock /\ OperatorChecksFirst /\ TypeOK /\ TypeOK' /\ LedgerInv /\ LedgerInv' /\ [Next]_vars
      => Promised
<1>. SUFFICES ASSUME Flock, OperatorChecksFirst, TypeOK, TypeOK', LedgerInv, LedgerInv', [Next]_vars
              PROVE  Promised
  OBVIOUS
<1>t. /\ pc \in [Calls -> Phases] /\ strict \in [Calls -> BOOLEAN]
      /\ log \in Seq(Row) /\ archives \in Seq(Seq(Row))
  BY DEF TypeOK
<1>w. Writes \subseteq Calls
  BY DEF Calls
<1>0. ASSUME log' = log, archives' = archives, strict' = strict,
             \A c \in Calls : LedgerBody(c)' = LedgerBody(c)
      PROVE  Promised
  BY <1>0, <1>w, SameTrail, MapStutter
<1>1. ASSUME NEW c \in Calls,
             Request(c) \/ Acquire(c) \/ Check(c) \/ Checkpoint(c) \/ DropRow(c)
      PROVE  Promised
  <2>1. log' = log /\ archives' = archives /\ strict' = strict
    BY <1>1 DEF Request, Acquire, Check, Checkpoint, DropRow
  <2>2. /\ \A d \in Calls : d # c => pc'[d] = pc[d]
        /\ pc[c] \notin Recorded /\ pc'[c] \notin Recorded
    BY <1>1, <1>t DEF Request, Acquire, Check, Checkpoint, DropRow, Goto, Recorded
  <2>3. LedgerBody(c)' = LedgerBody(c)
    BY <2>1, <2>2 DEF LedgerBody, Recorded
  <2>. QED
    BY <1>0, <2>1, <2>2, <2>3, BodyKept
<1>2. ASSUME NEW c \in Calls, RefuseWrite(c) PROVE Promised
  <2>1. /\ log' = log /\ archives' = archives /\ pc' = pc /\ pc[c] = "ready" /\ strict[c]
        /\ strict' = [strict EXCEPT ![c] = FALSE]
    BY <1>2 DEF RefuseWrite
  <2>2. c \in Writes
    BY <2>1 DEF LedgerInv, RowInv, StrictKnown
  <2>3. LedgerBody(c) = "idle" /\ LedgerBody(c)' = "refused"
    BY <1>t, <2>1 DEF LedgerBody
  <2>4. Others(c)
    BY <1>t, <1>w, <2>1, SameTrail, BodyKept DEF Others
  <2>. QED
    BY <2>1, <2>2, <2>3, <2>4, SameTrail, MapRefuse
<1>3. ASSUME NEW c \in Calls, Rename(c) PROVE Promised
  <2>1. /\ strict' = strict /\ pc[c] = "rename" /\ main = log
        /\ \A d \in Calls : d # c => pc'[d] = pc[d]
        /\ pc'[c] \in {"init", "insert"}
    BY <1>3, <1>t DEF Rename, Goto, LedgerInv, RotationInv, RotatorView
  <2>2. \A d \in Calls : LedgerBody(d)' = LedgerBody(d)
    BY <2>1, BodyKept DEF LedgerBody
  <2>3. CASE archives' = Append(archives, main) /\ log' = <<>>
    <3>1. \A r : Written(r)' <=> Written(r)
      BY <1>t, <2>1, <2>3, RenamedFile DEF Written
    <3>. QED
      BY <1>w, <2>2, <3>1, EntryKept, MapStutter
  <2>. QED
    BY <1>0, <1>3, <2>1, <2>2, <2>3 DEF Rename
<1>4. ASSUME NEW c \in Calls, InitDb(c) PROVE Promised
  <2>1. /\ log' = log /\ strict' = strict /\ pc[c] = "init"
        /\ pc' = [pc EXCEPT ![c] = "insert"]
        /\ archives' = archives \/ archives' = Newest(archives)
    BY <1>4 DEF InitDb, Goto
  <2>2. \A d \in Calls : LedgerBody(d)' = LedgerBody(d)
    BY <1>t, <2>1, BodyKept DEF LedgerBody
  <2>3. \A r : (InLive(r)' <=> InLive(r)) /\ (InArchive(r)' => InArchive(r))
    BY <1>t, <2>1, KeptArchives DEF InLive
  <2>4. ASSUME NEW w \in Writes
        PROVE  \/ LedgerEntry(w)' = LedgerEntry(w)
               \/ LedgerEntry(w) \in Outcomes /\ LedgerEntry(w)' = "absent"
    <3>1. CASE \A r : r.call = w => (Written(r)' <=> Written(r))
      BY <1>w, <3>1, EntryKept
    <3>2. CASE ~\A r : r.call = w => (Written(r)' <=> Written(r))
      <4>1. PICK r : r.call = w /\ Written(r) /\ InArchive(r) /\ ~Written(r)'
        BY <2>3, <3>2 DEF Written
      <4>2. r \in Row
        BY <4>1, WrittenTyped
      <4>3. r.status # "pending"
        BY <4>1 DEF InArchive, LedgerInv, RotationInv, NoPendingArchived, Pending
      <4>4. LedgerEntry(w) = r.status
        BY <1>w, <4>1, EntryOfRow DEF LedgerInv
      <4>5. \A s : Written(s)' => s.call # w
        <5>. SUFFICES ASSUME NEW s, Written(s)', s.call = w PROVE FALSE
          OBVIOUS
        <5>1. Written(s)
          BY <2>3 DEF Written
        <5>2. s = r
          BY <4>1, <5>1, OneRowEach DEF LedgerInv
        <5>. QED
          BY <4>1, <5>2
      <4>6. LedgerEntry(w)' = "absent"
        BY <1>w, <4>5, EntryAbsentNext
      <4>. QED
        BY <4>2, <4>3, <4>4, <4>6 DEF Row
    <3>. QED
      BY <3>1, <3>2
  <2>. QED
    BY <1>w, <2>2, <2>4, MapForget
<1>5. ASSUME NEW c \in Calls, Insert(c) PROVE Promised
  <2>1. PICK s \in Statuses :
           /\ log' = Append(log, [call |-> c, status |-> s])
           /\ strict[c] => s = "pending"
           /\ ~strict[c] /\ c \in Writes => s = "error"
    BY <1>5, AuditAssumption DEF Insert, Statuses
  <2>2. [call |-> c, status |-> s] \in Row
    BY DEF Row, Statuses
  <2>3. pc[c] = "insert" /\ archives' = archives /\ strict' = strict
    BY <1>5 DEF Insert
  <2>4. /\ \A d \in Calls : d # c => pc'[d] = pc[d]
        /\ strict[c] => pc'[c] = "running"
        /\ ~strict[c] => pc'[c] = "done"
    BY <1>5, <1>t DEF Insert, Goto
  <2>. DEFINE x == [call |-> c, status |-> s]
  <2>5. x.call = c /\ x.status = s
    OBVIOUS
  <2>. HIDE DEF x
  <2>6. \A r : Written(r)' <=> Written(r) \/ r = x
    <3>1. \A r : InLive(r)' <=> InLive(r) \/ r = x
      BY <1>t, <2>1, <2>2, AppendedRow DEF x
    <3>. QED
      BY <2>3, <3>1 DEF Written, InArchive
  <2>7. LedgerEntry(c) = "absent"
    BY <2>3, NoRowYet DEF LedgerInv, Recorded
  <2>8. LedgerEntry(c)' = s
    BY <2>5, <2>6, EntryOfRowNext DEF LedgerInv
  <2>9. \A d \in Calls : d # c => /\ LedgerEntry(d)' = LedgerEntry(d)
                                  /\ LedgerBody(d)' = LedgerBody(d)
    BY <2>3, <2>4, <2>5, <2>6, EntryKept, BodyKept
  <2>10. CASE strict[c]
    <3>1. c \in Writes
      BY <2>10 DEF LedgerInv, RowInv, StrictKnown
    <3>2. LedgerBody(c) = "idle" /\ LedgerBody(c)' = "running"
      BY <2>3, <2>4, <2>10 DEF LedgerBody
    <3>3. Others(c)
      BY <1>w, <2>9 DEF Others
    <3>. QED
      BY <2>1, <2>7, <2>8, <2>10, <3>1, <3>2, <3>3, MapStart
  <2>11. CASE ~strict[c] /\ c \in Writes
    <3>1. LedgerBody(c) = "refused" /\ LedgerBody(c)' = "refused"
      BY <2>3, <2>4, <2>11 DEF LedgerBody
    <3>2. Others(c)
      BY <1>w, <2>9 DEF Others
    <3>. QED
      BY <2>1, <2>7, <2>8, <2>11, <3>1, <3>2, MapRecordRefusal
  <2>12. CASE c \notin Writes
    BY <1>w, <2>9, <2>12, MapStutter
  <2>. QED
    BY <2>10, <2>11, <2>12
<1>6. ASSUME NEW c \in Calls, InsertFails(c) PROVE Promised
  <2>1. log' = log /\ archives' = archives /\ pc[c] = "insert"
    BY <1>6 DEF InsertFails
  <2>2. CASE strict[c]
    <3>1. /\ strict' = [strict EXCEPT ![c] = FALSE]
          /\ pc' = [pc EXCEPT ![c] = "ready"]
      BY <1>6, <2>2 DEF InsertFails, Goto
    <3>2. c \in Writes
      BY <2>2 DEF LedgerInv, RowInv, StrictKnown
    <3>3. LedgerBody(c) = "idle" /\ LedgerBody(c)' = "refused"
      BY <1>t, <2>1, <2>2, <3>1 DEF LedgerBody
    <3>4. Others(c)
      BY <1>t, <1>w, <2>1, <3>1, SameTrail, BodyKept DEF Others
    <3>. QED
      BY <2>1, <3>2, <3>3, <3>4, SameTrail, MapRefuse
  <2>3. CASE ~strict[c]
    <3>1. strict' = strict /\ pc' = [pc EXCEPT ![c] = "unlogged"]
      BY <1>6, <2>3 DEF InsertFails, Goto
    <3>2. \A d \in Calls : LedgerBody(d)' = LedgerBody(d)
      BY <1>t, <2>1, <2>3, <3>1, BodyKept DEF LedgerBody
    <3>. QED
      BY <1>0, <2>1, <3>1, <3>2
  <2>. QED
    BY <2>2, <2>3
<1>7. ASSUME NEW c \in Calls, Finish(c) PROVE Promised
  <2>1. PICK s \in Outcomes : SetStatus(id[c], s)
    BY <1>7 DEF Finish
  <2>2. /\ pc[c] = "running" /\ archives' = archives /\ strict' = strict
        /\ pc' = [pc EXCEPT ![c] = "done"]
    BY <1>7 DEF Finish, Goto
  <2>3. /\ id[c] \in 1..Len(log)
        /\ log[id[c]] = [call |-> c, status |-> "pending"]
    BY <2>2 DEF LedgerInv, IntentInv, IntentHeld
  <2>4. c \in Writes /\ strict[c]
    BY <2>2 DEF LedgerInv, RowInv, StrictKnown
  <2>5. LedgerBody(c) = "running" /\ LedgerBody(c)' = "over"
    BY <1>t, <2>2, <2>4 DEF LedgerBody
  <2>6. /\ LedgerEntry(c) = "pending"
        /\ LedgerEntry(c)' = s
        /\ \A d \in Calls : d # c => LedgerEntry(d)' = LedgerEntry(d)
    BY <2>1, <2>2, <2>3, EntryUpdated DEF LedgerInv, Statuses
  <2>7. Others(c)
    BY <1>t, <1>w, <2>2, <2>6, BodyKept DEF Others
  <2>. QED
    BY <2>1, <2>4, <2>5, <2>6, <2>7, MapResolve
<1>8. ASSUME NEW c \in Calls, FinishFails(c) PROVE Promised
  <2>1. /\ log' = log /\ archives' = archives /\ strict' = strict
        /\ pc[c] = "running" /\ pc' = [pc EXCEPT ![c] = "unresolved"]
    BY <1>8 DEF FinishFails, Goto
  <2>2. LedgerBody(c)' = "over"
    BY <1>t, <2>1 DEF LedgerBody
  <2>3. c \in Writes
    BY <2>1 DEF LedgerInv, RowInv, StrictKnown
  <2>4. \A d \in Calls : d # c => LedgerBody(d)' = LedgerBody(d)
    BY <1>t, <2>1, BodyKept
  <2>5. /\ {c} \in SUBSET Writes
        /\ \A w \in Writes : /\ LedgerEntry(w)' = LedgerEntry(w)
                             /\ LedgerBody(w)' = IF w \in {c} THEN "over" ELSE LedgerBody(w)
    BY <1>w, <2>1, <2>2, <2>3, <2>4, SameTrail
  <2>. QED
    BY <2>5, MapAbandon
<1>9. ASSUME NEW i \in 1..Len(log), Reconcile(i) PROVE Promised
  <2>1. /\ SetStatus(i, "unknown") /\ archives' = archives /\ strict' = strict /\ pc' = pc
        /\ log[i].status = "pending"
        /\ pc[log[i].call] \in {"unresolved", "dead"}
    BY <1>9 DEF Reconcile, Resolvable
  <2>2. PICK c \in Calls : c = log[i].call
    BY <1>t, RowsTyped
  <2>3. "unknown" \in Statuses
    BY AuditAssumption DEF Statuses
  <2>4. /\ LedgerEntry(c) = "pending"
        /\ LedgerEntry(c)' = "unknown"
        /\ \A d \in Calls : d # c => LedgerEntry(d)' = LedgerEntry(d)
    BY <2>1, <2>2, <2>3, EntryUpdated DEF LedgerInv
  <2>5. \A d \in Calls : LedgerBody(d)' = LedgerBody(d)
    BY <2>1, BodyKept
  <2>6. CASE c \in Writes
    <3>1. LedgerBody(c) = "over" /\ Others(c)
      BY <1>w, <2>1, <2>2, <2>4, <2>5 DEF LedgerBody, Others
    <3>. QED
      BY <2>4, <2>5, <2>6, <3>1, MapReconcile
  <2>7. CASE c \notin Writes
    BY <1>w, <2>4, <2>5, <2>7, MapStutter
  <2>. QED
    BY <2>6, <2>7
<1>10. ASSUME NEW p \in Procs, Restart(p) PROVE Promised
  <2>1. /\ log' = log /\ archives' = archives /\ strict' = strict
        /\ \A d \in Calls : pc'[d] = pc[d] \/ pc'[d] = "dead"
    BY <1>10 DEF Restart
  <2>2. PICK W : W = {w \in Writes : pc'[w] = "dead" /\ pc[w] # "dead"}
    OBVIOUS
  <2>3. W \in SUBSET Writes
    BY <2>2
  <2>4. ASSUME NEW w \in Writes
        PROVE  LedgerBody(w)' = IF w \in W THEN "over" ELSE LedgerBody(w)
    <3>1. CASE w \in W
      BY <2>2, <3>1 DEF LedgerBody
    <3>2. CASE w \notin W
      BY <1>w, <2>1, <2>2, <3>2, BodyKept
    <3>. QED
      BY <3>1, <3>2
  <2>. QED
    BY <1>w, <2>1, <2>3, <2>4, SameTrail, MapAbandon
<1>11. CASE UNCHANGED vars
  BY <1>0, <1>11, BodyKept DEF vars
<1>. QED
  BY <1>1, <1>2, <1>3, <1>4, <1>5, <1>6, <1>7, <1>8, <1>9, <1>10, <1>11 DEF Next, Step

LEMMA LedgerStart == Init => Ledger!Init
<1>. SUFFICES ASSUME Init PROVE Ledger!Init
  OBVIOUS
<1>1. \A r : ~Written(r)
  BY EmptySeq DEF Init, Written, InLive, InArchive
<1>2. \A w \in Writes : LedgerEntry(w) = "absent"
  BY <1>1, EntryAbsent DEF Calls
<1>3. \A w \in Writes : LedgerBody(w) = "idle"
  BY DEF Init, LedgerBody, Calls
<1>. QED
  BY <1>2, <1>3 DEF Ledger!Init

\* The engine, with its guard, its rotation, its failures and its crashes,
\* implements the promise of SECURITY.md:74-78, for every number of processes,
\* calls, rows, archives and restarts: the body of a write runs only under its
\* committed intent, the intent is resolved once, a lost finalization leaves it
\* to the operator, and retention forgets resolved entries only.
THEOREM KeepsThePromise == Flock /\ OperatorChecksFirst => (Spec => LedgerSpec)
<1>. SUFFICES ASSUME Flock, OperatorChecksFirst PROVE Spec => LedgerSpec
  OBVIOUS
<1>1. Init => Ledger!Init /\ RowInv
  BY LedgerStart, RowInit
<1>2. TypeOK /\ RotationInv /\ RowInv /\ [Next]_vars => RowInv'
  BY RowStep
<1>3. Spec => []RotationInv
  <2>1. TypeOK /\ RotationInv /\ [Next]_vars => RotationInv'
    BY RotationStep
  <2>. QED
    BY <2>1, RotationInit, TypeCorrect, PTL DEF Spec
<1>4. Spec => []RowInv
  BY <1>1, <1>2, <1>3, TypeCorrect, PTL DEF Spec
<1>5. Spec => []IntentInv
  BY IntentInvariant
<1>6. TypeOK /\ TypeOK' /\ LedgerInv /\ LedgerInv' /\ [Next]_vars => [Ledger!Next]_(Ledger!vars)
  BY LedgerStep DEF Promised
<1>7. RotationInv /\ RowInv /\ IntentInv => LedgerInv
  BY DEF LedgerInv
<1>. QED
  BY <1>1, <1>3, <1>4, <1>5, <1>6, <1>7, TypeCorrect, PTL DEF Spec, LedgerSpec, Ledger!Spec

=============================================================================
