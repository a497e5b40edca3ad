-------------------------- MODULE SecretStoreProofs --------------------------
(***************************************************************************)
(* Theorems about SecretStore, for every number of processes, targets,     *)
(* passwords and commands: type correctness; the store is exactly what the *)
(* commands made of it while they run one after the other, and whole while *)
(* no two have the temporary file in hand at once; a migration sets the    *)
(* .env aside only when its secrets are stored; and an ask that turns to   *)
(* the environment found none.                                             *)
(***************************************************************************)
EXTENDS SecretStore, TLAPS

\* The commands that write; the others ask for a secret.
Alters(p) == cmd[p].kind # "ask"

\* What p's command starts from: the ledger, or a new store under p's password.
Base(p) == IF ledger = Absent THEN [pw |-> key[p], data |-> Nothing] ELSE ledger

(***************************************************************************)
(* Blobs and commands.                                                     *)
(***************************************************************************)
Entries == Values \cup {Absent}

LEMMA WithTyped ==
    ASSUME NEW b \in Blobs, NEW n \in Names, NEW v \in Entries
    PROVE  /\ With(b, n, v) \in Blobs
           /\ With(b, n, v) = [pw |-> b.pw, data |-> [b.data EXCEPT ![n] = v]]
<1>1. b.pw \in Passwords /\ b.data \in Secrets
  BY DEF Blobs
<1>2. [b.data EXCEPT ![n] = v] \in Secrets
  BY <1>1 DEF Secrets, Entries
<1>3. With(b, n, v) = [pw |-> b.pw, data |-> [b.data EXCEPT ![n] = v]]
  BY DEF With, Blobs
<1>. QED
  BY <1>1, <1>2, <1>3 DEF Blobs

LEMMA RekeyedTyped ==
    ASSUME NEW b \in Blobs, NEW w \in Passwords
    PROVE  Rekeyed(b, w) \in Blobs /\ Rekeyed(b, w) = [pw |-> w, data |-> b.data]
  BY DEF Blobs, Rekeyed

LEMMA EmptyTyped ==
    ASSUME NEW w \in Passwords PROVE [pw |-> w, data |-> Nothing] \in Blobs
  BY DEF Blobs, Nothing, Secrets

LEMMA NotABlob ==
    /\ Absent \notin Blobs /\ Empty \notin Blobs /\ Garbled \notin Blobs
    /\ Absent \notin Secrets /\ Absent \notin Values
    /\ Absent # Empty /\ Absent # Garbled
  BY SecretAssumption

\* What a command has in hand.
LEMMA CommandTyped ==
    ASSUME TypeOK, NEW p \in Procs
    PROVE  /\ key[p] \in Passwords
           /\ cmd[p].kind \in {"set", "rm", "ask", "rotate", "migrate"}
           /\ cmd[p].kind \in {"set", "rm", "ask"} => cmd[p].name \in Names
           /\ cmd[p].kind = "set" => cmd[p].value \in Values
           /\ cmd[p].kind = "rotate" => cmd[p].to \in Passwords
<1>1. cmd[p] \in Commands /\ key[p] \in Passwords
  BY DEF TypeOK
<1>. QED
  BY <1>1, SecretAssumption DEF CommandOK

\* The .env has one name at a time.
OneName == env = Absent \/ backup = Absent

LEMMA NameStep == OneName /\ [Next]_vars => OneName'
<1>. SUFFICES ASSUME OneName, [Next]_vars PROVE OneName'
  OBVIOUS
<1>. USE DEF OneName, legacy
<1>1. ASSUME NEW p \in Procs, Retire(p) PROVE OneName'
  BY <1>1 DEF Retire
<1>2. ASSUME UNCHANGED legacy PROVE OneName'
  BY <1>2
<1>. QED
  BY <1>1, <1>2 DEF Next, vars, Begin, NoStore, Unlock, Get, Lines, Change, Open, Write, Replace, Die

\* What stands in the .env, under whichever of its names, never changes.
LEMMA TextFixed ==
    [Next]_vars => Text' = Text /\ cmd' = cmd /\ key' = key
<1>. SUFFICES ASSUME [Next]_vars PROVE Text' = Text /\ cmd' = cmd /\ key' = key
  OBVIOUS
<1>. USE DEF Text, files, legacy, history
<1>1. CASE UNCHANGED vars
  BY <1>1 DEF vars
<1>2. ASSUME NEW p \in Procs, Retire(p) PROVE Text' = Text /\ cmd' = cmd /\ key' = key
  BY <1>2 DEF Retire
<1>3. ASSUME NEW p \in Procs,
             \/ Begin(p) \/ Unlock(p) \/ Get(p) \/ Lines(p) \/ Change(p)
             \/ Open(p) \/ Write(p) \/ Replace(p) \/ Die(p)
      PROVE  Text' = Text /\ cmd' = cmd /\ key' = key
  BY <1>3 DEF Begin, NoStore, Unlock, Get, Lines, Change, Open, Write, Replace, Die
<1>. QED
  BY <1>1, <1>2, <1>3 DEF Next

(***************************************************************************)
(* Type correctness.  It needs to know where each command can be: only a   *)
(* busy process has a view, only commands that alter the store write, and  *)
(* a migration that goes on has seen a .env with the lines it imports.     *)
(***************************************************************************)
ShapeOf(p) ==
    /\ pc[p] \in Busy => view[p] \in Blobs
    /\ pc[p] \in Busy \ {"change"} => Alters(p)
    /\ pc[p] \in {"lines", "retire"} => cmd[p].kind = "migrate"
    /\ cmd[p].kind = "migrate" /\ pc[p] \in Busy \ {"lines"} => Text # Absent
    /\ \A n \in todo[p] : Text # Absent /\ Text[n] # Absent

Shape == \A p \in Procs : ShapeOf(p)

TypeInv == TypeOK /\ Shape /\ OneName

LEMMA TypeInit == Init => TypeInv
<1>. SUFFICES ASSUME Init PROVE TypeInv
  OBVIOUS
<1>1. TypeOK
  BY SecretAssumption DEF Init, TypeOK, Contents, Blobs, Ended, Busy, Writing
<1>2. Shape
  BY DEF Init, Shape, ShapeOf, Busy, Writing
<1>. QED
  BY <1>1, <1>2 DEF TypeInv, Init, OneName

LEMMA TextTyped ==
    ASSUME TypeOK, Text # Absent PROVE Text \in Secrets /\ \A n \in Names : Text[n] \in Entries
<1>1. Text \in Secrets
  BY DEF TypeOK, Text
<1>. QED
  BY <1>1 DEF Secrets, Entries

LEMMA MeantTyped ==
    ASSUME TypeOK, Shape, NEW p \in Procs, pc[p] \in {"open", "opened", "written"}
    PROVE  Meant(p) \in Blobs
<1>1. key[p] \in Passwords /\ Base(p) \in Blobs
  BY EmptyTyped DEF TypeOK, Base
<1>2. cmd[p].kind \in {"set", "rm", "rotate", "migrate"}
  BY CommandTyped DEF Shape, ShapeOf, Alters, Busy, Writing
<1>. DEFINE b == Base(p)
<1>3. CASE cmd[p].kind = "rotate"
  <2>1. Meant(p) = Rekeyed(b, cmd[p].to)
    BY <1>3 DEF Meant, Base, Rekeyed
  <2>. QED
    BY <1>1, <1>3, <2>1, CommandTyped, RekeyedTyped
<1>4. CASE cmd[p].kind = "set"
  <2>1. Meant(p) = With(b, cmd[p].name, cmd[p].value)
    BY <1>4 DEF Meant, Base, With
  <2>. QED
    BY <1>1, <1>4, <2>1, CommandTyped, WithTyped DEF Entries
<1>5. CASE cmd[p].kind = "rm"
  <2>1. Meant(p) = With(b, cmd[p].name, Absent)
    BY <1>5 DEF Meant, Base, With
  <2>. QED
    BY <1>1, <1>5, <2>1, CommandTyped, WithTyped DEF Entries
<1>6. CASE cmd[p].kind = "migrate"
  <2>1. Meant(p) = [b EXCEPT !.data = [n \in Names |->
                      IF Text[n] # Absent /\ n \notin todo[p] THEN Text[n] ELSE b.data[n]]]
    BY <1>6 DEF Meant, Base
  <2>2. Text # Absent
    BY <1>6 DEF Shape, ShapeOf, Busy, Writing
  <2>. QED
    BY <1>1, <2>1, <2>2, TextTyped DEF Blobs, Secrets, Entries
<1>. QED
  BY <1>2, <1>3, <1>4, <1>5, <1>6

LEMMA TypeStep == TypeInv /\ [Next]_vars => TypeOK'
<1>. SUFFICES ASSUME TypeOK, Shape, [Next]_vars PROVE TypeOK'
  BY DEF TypeInv
<1>. USE DEF files, legacy, history, Goto
<1>. DEFINE Phases == {"new", "unlock"} \cup Busy \cup Ended
<1>t. /\ pc \in [Procs -> Phases] /\ view \in [Procs -> Blobs \cup {Absent}]
      /\ todo \in [Procs -> SUBSET Names]
      /\ fd \in [Procs -> {"closed", "tmp", "store", "gone"}]
  BY DEF TypeOK
<1>0. ASSUME UNCHANGED <<cmd, key, legacy>>,
             pc' \in [Procs -> Phases], view' \in [Procs -> Blobs \cup {Absent}],
             todo' \in [Procs -> SUBSET Names], UNCHANGED <<files, history>>
      PROVE  TypeOK'
  BY <1>0 DEF TypeOK
<1>1. ASSUME NEW p \in Procs, Begin(p) PROVE TypeOK'
  <2>1. pc' \in [Procs -> Phases]
    BY <1>t, <1>1 DEF Begin, NoStore, Busy, Ended
  <2>. QED
    BY <1>0, <1>1, <1>t, <2>1 DEF Begin, NoStore
<1>2. ASSUME NEW p \in Procs, Unlock(p) PROVE TypeOK'
  <2>1. known' \in [Procs -> Contents]
    <3>1. known' = known \/ known' = [known EXCEPT ![p] = store]
      BY <1>2 DEF Unlock
    <3>. QED
      BY <3>1 DEF TypeOK
  <2>2. [pw |-> key[p], data |-> Nothing] \in Blobs
    BY CommandTyped, EmptyTyped
  <2>3. /\ pc' \in [Procs -> Phases] /\ view' \in [Procs -> Blobs \cup {Absent}]
        /\ overlap' \in BOOLEAN
    <3>1. CASE store = Absent \/ (store \in Blobs /\ store.pw = key[p])
      BY <1>t, <1>2, <2>2, <3>1, ZenonT(60) DEF Unlock, Busy, TypeOK
    <3>2. CASE ~(store = Absent \/ (store \in Blobs /\ store.pw = key[p]))
      BY <1>t, <1>2, <3>2 DEF Unlock, Refused, Ended, TypeOK
    <3>. QED
      BY <3>1, <3>2
  <2>. QED
    BY <1>2, <2>1, <2>3 DEF Unlock, TypeOK
<1>3. ASSUME NEW p \in Procs, Get(p) PROVE TypeOK'
  <2>1. pc' \in [Procs -> Phases]
    BY <1>t, <1>3 DEF Get, Ended
  <2>. QED
    BY <1>0, <1>3, <1>t, <2>1 DEF Get
<1>4. ASSUME NEW p \in Procs, Lines(p) PROVE TypeOK'
  <2>1. pc' \in [Procs -> Phases] /\ todo' \in [Procs -> SUBSET Names]
    <3>1. CASE env = Absent
      BY <1>t, <1>4, <3>1 DEF Lines, Ended
    <3>2. CASE env # Absent
      BY <1>t, <1>4, <3>2 DEF Lines, Ended, Busy
    <3>. QED
      BY <3>1, <3>2
  <2>. QED
    BY <1>0, <1>4, <1>t, <2>1 DEF Lines
<1>5. ASSUME NEW p \in Procs, Change(p) PROVE TypeOK'
  <2>1. view[p] \in Blobs /\ pc[p] = "change"
    BY <1>5 DEF Change, Shape, ShapeOf, Busy
  <2>2. CASE cmd[p].kind = "set"
    <3>1. /\ view' = [view EXCEPT ![p] = With(view[p], cmd[p].name, cmd[p].value)]
          /\ pc' = [pc EXCEPT ![p] = "open"] /\ todo' = todo
      BY <1>5, <2>2 DEF Change
    <3>2. With(view[p], cmd[p].name, cmd[p].value) \in Blobs
      BY <2>1, <2>2, CommandTyped, WithTyped DEF Entries
    <3>. QED
      BY <1>0, <1>5, <1>t, <3>1, <3>2 DEF Change, Busy
  <2>3. CASE cmd[p].kind = "rm"
    <3>1. /\ view' = [view EXCEPT ![p] = With(view[p], cmd[p].name, Absent)]
          /\ pc' = [pc EXCEPT ![p] = pc'[p]] /\ pc'[p] \in {"failed", "open"}
          /\ todo' = todo
      BY <1>5, <1>t, <2>3 DEF Change
    <3>2. With(view[p], cmd[p].name, Absent) \in Blobs
      BY <2>1, <2>3, CommandTyped, WithTyped DEF Entries
    <3>3. pc' \in [Procs -> Phases]
      BY <1>t, <3>1 DEF Busy, Ended
    <3>. QED
      BY <1>0, <1>5, <1>t, <3>1, <3>2, <3>3 DEF Change
  <2>4. CASE cmd[p].kind = "rotate"
    <3>1. /\ view' = [view EXCEPT ![p] = Rekeyed(view[p], cmd[p].to)]
          /\ pc' = [pc EXCEPT ![p] = "open"] /\ todo' = todo
      BY <1>5, <2>4 DEF Change
    <3>2. Rekeyed(view[p], cmd[p].to) \in Blobs
      BY <2>1, <2>4, CommandTyped, RekeyedTyped
    <3>. QED
      BY <1>0, <1>5, <1>t, <3>1, <3>2 DEF Change, Busy
  <2>5. CASE cmd[p].kind = "migrate"
    <3>1. PICK n \in todo[p] : /\ view' = [view EXCEPT ![p] = With(view[p], n, Text[n])]
                               /\ todo' = [todo EXCEPT ![p] = todo[p] \ {n}]
      BY <1>5, <2>5 DEF Change
    <3>2. pc' = [pc EXCEPT ![p] = "open"]
      BY <1>5, <2>5 DEF Change
    <3>3. n \in Names /\ Text[n] \in Entries
      BY <1>t, TextTyped DEF Shape, ShapeOf
    <3>4. With(view[p], n, Text[n]) \in Blobs
      BY <2>1, <3>3, WithTyped
    <3>. QED
      BY <1>0, <1>5, <1>t, <3>1, <3>2, <3>4 DEF Change, Busy
  <2>. QED
    BY <1>5, <2>2, <2>3, <2>4, <2>5 DEF Change
<1>6. ASSUME NEW p \in Procs, Open(p) PROVE TypeOK'
  <2>1. pc' \in [Procs -> Phases] /\ fd' \in [Procs -> {"closed", "tmp", "store", "gone"}]
    BY <1>t, <1>6 DEF Open, Busy, Writing
  <2>2. tmp' \in Contents /\ collided' \in BOOLEAN
    BY <1>6 DEF Open, Contents, TypeOK
  <2>. QED
    BY <1>6, <2>1, <2>2 DEF Open, TypeOK
<1>7. ASSUME NEW p \in Procs, Write(p) PROVE TypeOK'
  <2>1. view[p] \in Blobs
    BY <1>7 DEF Write, Shape, ShapeOf, Busy, Writing
  <2>2. PICK ok \in BOOLEAN :
          LET outcome(file) == IF ok THEN After(file, view[p]) ELSE {Garbled}
          IN  /\ store' \in IF fd[p] = "store" THEN outcome(store) ELSE {store}
              /\ tmp' \in IF fd[p] = "tmp" THEN outcome(tmp) ELSE {tmp}
              /\ Goto(p, IF ok THEN "written" ELSE "failed")
    BY <1>7 DEF Write
  <2>3. /\ store' \in {store, view[p], Garbled}
        /\ tmp' \in {tmp, view[p], Garbled}
    BY <2>2 DEF After
  <2>4. store' \in Contents /\ tmp' \in Contents
    BY <2>1, <2>3 DEF Contents, TypeOK
  <2>5. pc' \in [Procs -> Phases]
    BY <1>t, <2>2 DEF Busy, Ended, Writing
  <2>6. fd' \in [Procs -> {"closed", "tmp", "store", "gone"}]
    BY <1>t, <1>7 DEF Write
  <2>. QED
    BY <1>7, <2>4, <2>5, <2>6 DEF Write, TypeOK
<1>8. ASSUME NEW p \in Procs, Replace(p) PROVE TypeOK'
  <2>1. Meant(p) \in Blobs
    BY <1>8, MeantTyped DEF Replace
  <2>2. CASE tmp = Absent
    <3>1. pc' \in [Procs -> Phases]
      BY <1>8, <1>t, <2>2 DEF Replace, Ended
    <3>. QED
      BY <1>8, <2>2, <3>1 DEF Replace, TypeOK
  <2>3. CASE tmp # Absent
    <3>1. /\ store' = tmp /\ tmp' = Absent /\ ledger' = Meant(p)
          /\ fd' = [q \in Procs |-> Moved(fd[q])]
          /\ pc' = [pc EXCEPT ![p] = Onward(p)]
      BY <1>8, <2>3 DEF Replace
    <3>2. pc' \in [Procs -> Phases]
      BY <1>t, <3>1 DEF Onward, Busy, Ended
    <3>3. fd' \in [Procs -> {"closed", "tmp", "store", "gone"}]
      BY <1>t, <3>1 DEF Moved
    <3>. QED
      BY <1>8, <2>1, <3>1, <3>2, <3>3 DEF Replace, TypeOK, Contents
  <2>. QED
    BY <2>2, <2>3
<1>9. ASSUME NEW p \in Procs, Retire(p) PROVE TypeOK'
  <2>1. pc' \in [Procs -> Phases]
    BY <1>9, <1>t DEF Retire, Ended
  <2>2. env' \in Secrets \cup {Absent} /\ backup' \in Secrets \cup {Absent}
    BY <1>9 DEF Retire, TypeOK
  <2>. QED
    BY <1>9, <2>1, <2>2 DEF Retire, TypeOK
<1>10. ASSUME NEW p \in Procs, Die(p) PROVE TypeOK'
  <2>1. /\ pc' \in [Procs -> Phases] /\ view' \in [Procs -> Blobs \cup {Absent}]
        /\ todo' \in [Procs -> SUBSET Names]
        /\ fd' \in [Procs -> {"closed", "tmp", "store", "gone"}]
    BY <1>10, <1>t DEF Die, Ended
  <2>. QED
    BY <1>10, <2>1 DEF Die, TypeOK
<1>11. CASE UNCHANGED vars
  BY <1>11 DEF vars, TypeOK
<1>. QED
  BY <1>1, <1>2, <1>3, <1>4, <1>5, <1>6, <1>7, <1>8, <1>9, <1>10, <1>11 DEF Next

StepOf(p) ==
    \/ Begin(p) \/ Unlock(p) \/ Get(p) \/ Lines(p) \/ Change(p)
    \/ Open(p) \/ Write(p) \/ Replace(p) \/ Retire(p) \/ Die(p)

Stays(q) == pc'[q] = pc[q] /\ view'[q] = view[q] /\ todo'[q] = todo[q] /\ known'[q] = known[q]

\* A process moves alone.
LEMMA OthersStay ==
    ASSUME TypeOK, NEW p \in Procs, StepOf(p), NEW q \in Procs, q # p
    PROVE  Stays(q)
<1>. USE DEF Stays, Goto, files, legacy, history
<1>t. /\ DOMAIN pc = Procs /\ DOMAIN view = Procs /\ DOMAIN todo = Procs /\ DOMAIN known = Procs
  BY DEF TypeOK
<1>1. CASE Begin(p) \/ Get(p) \/ Open(p) \/ Write(p) \/ Retire(p)
  BY <1>t, <1>1 DEF Begin, NoStore, Get, Open, Write, Retire
<1>2. CASE Unlock(p)
  BY <1>t, <1>2 DEF Unlock
<1>3. CASE Lines(p)
  BY <1>t, <1>3 DEF Lines
<1>4. CASE Change(p)
  BY <1>t, <1>4 DEF Change
<1>5. CASE Replace(p)
  BY <1>t, <1>5 DEF Replace
<1>6. CASE Die(p)
  BY <1>t, <1>6 DEF Die
<1>. QED
  BY <1>1, <1>2, <1>3, <1>4, <1>5, <1>6 DEF StepOf

\* Each command is where its kind allows.
LEMMA ShapeStep == TypeInv /\ [Next]_vars => Shape'
<1>. SUFFICES ASSUME TypeOK, Shape, [Next]_vars, NEW q \in Procs PROVE ShapeOf(q)'
  BY DEF TypeInv, Shape
<1>. USE DEF files, legacy, history, Goto
<1>t. /\ DOMAIN pc = Procs /\ DOMAIN view = Procs /\ DOMAIN todo = Procs
      /\ todo \in [Procs -> SUBSET Names]
  BY DEF TypeOK
<1>f. Text' = Text /\ cmd' = cmd
  BY TextFixed
<1>s. ShapeOf(q)
  BY DEF Shape
<1>k. cmd[q].kind \in {"set", "rm", "ask", "rotate", "migrate"} /\ key[q] \in Passwords
  BY CommandTyped
<1>0. ASSUME Stays(q) PROVE ShapeOf(q)'
  BY <1>0, <1>f, <1>s DEF Stays, ShapeOf, Alters
<1>1. CASE Begin(q)
  BY <1>1, <1>f, <1>s, <1>t DEF Begin, NoStore, ShapeOf, Busy, Writing
<1>2. CASE Unlock(q)
  <2>1. CASE store = Absent \/ (store \in Blobs /\ store.pw = key[q])
    <3>1. /\ view'[q] = IF store = Absent THEN [pw |-> key[q], data |-> Nothing] ELSE store
          /\ pc'[q] = IF cmd[q].kind = "migrate" THEN "lines" ELSE "change"
          /\ todo' = todo
      BY <1>2, <1>t, <2>1 DEF Unlock
    <3>2. view'[q] \in Blobs
      BY <1>k, <2>1, <3>1, EmptyTyped
    <3>. QED
      BY <1>f, <1>s, <3>1, <3>2 DEF ShapeOf, Busy, Writing, Alters
  <2>2. CASE ~(store = Absent \/ (store \in Blobs /\ store.pw = key[q]))
    <3>1. pc'[q] \in {"missing", "failed"} /\ todo' = todo
      BY <1>2, <1>t, <2>2 DEF Unlock, Refused
    <3>. QED
      BY <1>f, <1>s, <3>1 DEF ShapeOf, Busy, Writing
  <2>. QED
    BY <2>1, <2>2
<1>3. CASE Get(q)
  BY <1>3, <1>f, <1>s, <1>t DEF Get, ShapeOf, Busy, Writing
<1>4. CASE Lines(q)
  <2>0. cmd[q].kind = "migrate" /\ view'[q] = view[q] /\ view[q] \in Blobs
    BY <1>4, <1>s DEF Lines, ShapeOf, Busy
  <2>1. CASE env = Absent
    BY <1>4, <1>f, <1>s, <1>t, <2>1 DEF Lines, ShapeOf, Busy, Writing
  <2>2. CASE env # Absent
    <3>1. Text = env
      BY <2>2 DEF Text
    <3>2. /\ todo'[q] = {n \in Names : env[n] # Absent}
          /\ pc'[q] \in {"done", "change"}
      BY <1>4, <1>t, <2>2 DEF Lines
    <3>. QED
      BY <1>f, <2>0, <2>2, <3>1, <3>2 DEF ShapeOf, Busy, Writing, Alters
  <2>. QED
    BY <2>1, <2>2
<1>5. CASE Change(q)
  <2>1. /\ pc[q] = "change" /\ pc'[q] \in {"open", "failed"} /\ todo'[q] \subseteq todo[q]
        /\ cmd[q].kind \in {"set", "rm", "rotate", "migrate"}
    BY <1>5, <1>t DEF Change
  <2>2. view'[q] \in Blobs
    <3>1. view[q] \in Blobs
      BY <1>s, <2>1 DEF ShapeOf, Busy
    <3>2. \A n \in todo[q] : n \in Names /\ Text[n] \in Entries
      BY <1>s, <1>t, TextTyped DEF ShapeOf
    <3>3. \/ cmd[q].kind = "set" /\ view'[q] = With(view[q], cmd[q].name, cmd[q].value)
          \/ cmd[q].kind = "rm" /\ view'[q] = With(view[q], cmd[q].name, Absent)
          \/ cmd[q].kind = "rotate" /\ view'[q] = Rekeyed(view[q], cmd[q].to)
          \/ \E n \in todo[q] : view'[q] = With(view[q], n, Text[n])
      BY <1>5, <1>t DEF Change
    <3>4. CASE cmd[q].kind = "set" /\ view'[q] = With(view[q], cmd[q].name, cmd[q].value)
      BY <3>1, <3>4, WithTyped, CommandTyped DEF Entries
    <3>5. CASE cmd[q].kind = "rm" /\ view'[q] = With(view[q], cmd[q].name, Absent)
      BY <3>1, <3>5, WithTyped, CommandTyped DEF Entries
    <3>6. CASE cmd[q].kind = "rotate" /\ view'[q] = Rekeyed(view[q], cmd[q].to)
      BY <3>1, <3>6, RekeyedTyped, CommandTyped
    <3>7. CASE \E n \in todo[q] : view'[q] = With(view[q], n, Text[n])
      BY <3>1, <3>2, <3>7, WithTyped
    <3>. QED
      BY <3>3, <3>4, <3>5, <3>6, <3>7
  <2>. QED
    BY <1>f, <1>s, <2>1, <2>2 DEF ShapeOf, Busy, Writing, Alters
<1>6. CASE Open(q)
  BY <1>6, <1>f, <1>s, <1>t DEF Open, ShapeOf, Busy, Writing, Alters
<1>7. CASE Write(q)
  <2>1. pc[q] = "opened" /\ pc'[q] \in {"written", "failed"} /\ view' = view /\ todo' = todo
    BY <1>7, <1>t DEF Write
  <2>. QED
    BY <1>f, <1>s, <2>1 DEF ShapeOf, Busy, Writing, Alters
<1>8. CASE Replace(q)
  <2>1. /\ pc[q] = "written" /\ view' = view /\ todo' = todo
        /\ \/ pc'[q] \in {"failed", "done"}
           \/ pc'[q] \in {"change", "retire"} /\ cmd[q].kind = "migrate"
    BY <1>8, <1>t DEF Replace, Onward
  <2>. QED
    BY <1>f, <1>s, <2>1 DEF ShapeOf, Busy, Writing, Alters
<1>9. CASE Retire(q)
  <2>1. pc'[q] \in {"failed", "done"} /\ view' = view /\ todo' = todo
    BY <1>9, <1>t DEF Retire
  <2>. QED
    BY <1>f, <1>s, <2>1 DEF ShapeOf, Busy, Writing
<1>10. CASE Die(q)
  BY <1>10, <1>f, <1>t DEF Die, ShapeOf, Busy, Writing
<1>11. CASE UNCHANGED vars
  BY <1>0, <1>11 DEF vars, Stays
<1>. QED
  <2>1. ASSUME NEW p \in Procs, StepOf(p), p # q PROVE Stays(q)
    BY <2>1, OthersStay
  <2>. QED
    BY <1>0, <1>1, <1>2, <1>3, <1>4, <1>5, <1>6, <1>7, <1>8, <1>9, <1>10, <1>11, <2>1
       DEF Next, StepOf

\* Every variable of the store and of its commands keeps its type.
THEOREM TypeCorrect == Spec => []TypeOK
<1>1. TypeInv /\ [Next]_vars => TypeInv'
  BY TypeStep, ShapeStep, NameStep DEF TypeInv
<1>2. TypeInv => TypeOK
  BY DEF TypeInv
<1>. QED
  BY <1>1, <1>2, TypeInit, PTL DEF Spec

LEMMA TypeInvariant == Spec => []TypeInv
<1>1. TypeInv /\ [Next]_vars => TypeInv'
  BY TypeStep, ShapeStep, NameStep DEF TypeInv
<1>. QED
  BY <1>1, TypeInit, PTL DEF Spec

-----------------------------------------------------------------------------
(***************************************************************************)
(* The temporary file.  While no two processes have it in hand at once, it *)
(* holds what the one that has it is writing, and the store, which is      *)
(* always an earlier temporary file, is whole.                             *)
(***************************************************************************)
FileOf(p) == /\ pc[p] = "opened" => fd[p] = "tmp" /\ tmp = Empty
             /\ pc[p] = "written" => tmp = view[p]

OneWriter == \A p, q \in Procs : pc[p] \in Writing /\ pc[q] \in Writing => p = q

FileInv ==
    ~collided => /\ store \notin {Empty, Garbled}
                 /\ OneWriter
                 /\ \A p \in Procs : FileOf(p)

LEMMA FileInit == Init => FileInv
  BY NotABlob, SecretAssumption DEF Init, FileInv, OneWriter, FileOf, Writing

LEMMA FileStep == TypeInv /\ FileInv /\ [Next]_vars => FileInv'
<1>. SUFFICES ASSUME TypeOK, Shape, FileInv, [Next]_vars, ~collided' PROVE FileInv'
  BY DEF FileInv, TypeInv
<1>. USE DEF files, legacy, history, Goto
<1>t. /\ DOMAIN pc = Procs /\ DOMAIN view = Procs /\ DOMAIN fd = Procs
  BY DEF TypeOK
<1>c. ~collided
  BY DEF Next, vars, Begin, NoStore, Unlock, Get, Lines, Change, Open, Write, Replace, Retire, Die
<1>i. /\ store \notin {Empty, Garbled} /\ OneWriter
      /\ \A p \in Procs : FileOf(p)
  BY <1>c DEF FileInv
<1>0. ASSUME NEW p \in Procs, StepOf(p), UNCHANGED <<store, tmp>>, \A q \in Procs : q # p => fd'[q] = fd[q],
             pc'[p] \notin Writing
      PROVE  FileInv'
  <2>1. \A q \in Procs : q # p => Stays(q)
    BY <1>0, OthersStay
  <2>2. OneWriter'
    BY <1>0, <1>i, <2>1 DEF OneWriter, Stays
  <2>3. \A q \in Procs : FileOf(q)'
    BY <1>0, <1>i, <2>1 DEF FileOf, Stays, Writing
  <2>. QED
    BY <1>0, <1>i, <2>2, <2>3 DEF FileInv
<1>1. ASSUME NEW p \in Procs, Begin(p) PROVE FileInv'
  <2>1. pc'[p] \notin Writing
    BY <1>1, <1>t DEF Begin, NoStore, Writing
  <2>. QED
    BY <1>0, <1>1, <2>1 DEF Begin, NoStore, StepOf
<1>2. ASSUME NEW p \in Procs, Unlock(p) PROVE FileInv'
  <2>1. pc'[p] \notin Writing
    BY <1>2, <1>t DEF Unlock, Refused, Writing
  <2>. QED
    BY <1>0, <1>2, <2>1 DEF Unlock, StepOf
<1>3. ASSUME NEW p \in Procs, Get(p) PROVE FileInv'
  <2>1. pc'[p] \notin Writing
    BY <1>3, <1>t DEF Get, Writing
  <2>. QED
    BY <1>0, <1>3, <2>1 DEF Get, StepOf
<1>4. ASSUME NEW p \in Procs, Lines(p) PROVE FileInv'
  <2>1. pc'[p] \notin Writing
    BY <1>4, <1>t DEF Lines, Writing
  <2>. QED
    BY <1>0, <1>4, <2>1 DEF Lines, StepOf
<1>5. ASSUME NEW p \in Procs, Change(p) PROVE FileInv'
  <2>1. pc'[p] \notin Writing
    BY <1>5, <1>t DEF Change, Writing
  <2>. QED
    BY <1>0, <1>5, <2>1 DEF Change, StepOf
<1>6. ASSUME NEW p \in Procs, Open(p) PROVE FileInv'
  <2>1. /\ pc' = [pc EXCEPT ![p] = "opened"] /\ fd' = [fd EXCEPT ![p] = "tmp"]
        /\ tmp' = Empty /\ store' = store
        /\ \A q \in Procs : pc[q] \notin Writing
    BY <1>6 DEF Open
  <2>2. \A q \in Procs : q # p => pc'[q] \notin Writing
    BY <1>t, <2>1
  <2>3. pc'[p] = "opened" /\ fd'[p] = "tmp"
    BY <1>t, <2>1
  <2>. QED
    BY <1>i, <2>1, <2>2, <2>3 DEF FileInv, OneWriter, FileOf, Writing
<1>7. ASSUME NEW p \in Procs, Write(p) PROVE FileInv'
  <2>0. pc[p] = "opened" /\ fd[p] = "tmp" /\ tmp = Empty
    BY <1>7, <1>i DEF Write, FileOf
  <2>1. /\ store' = store /\ view' = view
        /\ \/ tmp' = view[p] /\ pc' = [pc EXCEPT ![p] = "written"]
           \/ pc' = [pc EXCEPT ![p] = "failed"]
    BY <1>7, <2>0 DEF Write, After
  <2>2. \A q \in Procs : q # p => pc[q] \notin Writing /\ pc'[q] \notin Writing
    BY <1>i, <1>t, <2>0, <2>1 DEF OneWriter, Writing
  <2>3. FileOf(p)'
    BY <1>t, <2>1 DEF FileOf
  <2>. QED
    BY <1>i, <2>1, <2>2, <2>3 DEF FileInv, OneWriter, FileOf, Writing
<1>8. ASSUME NEW p \in Procs, Replace(p) PROVE FileInv'
  <2>0. pc[p] = "written" /\ tmp = view[p] /\ tmp \in Blobs
    BY <1>8, <1>i DEF Replace, FileOf, Shape, ShapeOf, Busy, Writing
  <2>1. store' = tmp /\ pc' = [pc EXCEPT ![p] = Onward(p)]
    BY <1>8, <2>0, NotABlob DEF Replace
  <2>2. \A q \in Procs : pc'[q] \notin Writing
    BY <1>i, <1>t, <2>0, <2>1 DEF OneWriter, Writing, Onward
  <2>. QED
    BY <2>0, <2>1, <2>2, NotABlob DEF FileInv, OneWriter, FileOf, Writing
<1>9. ASSUME NEW p \in Procs, Retire(p) PROVE FileInv'
  <2>1. pc'[p] \notin Writing
    BY <1>9, <1>t DEF Retire, Writing
  <2>. QED
    BY <1>0, <1>9, <2>1 DEF Retire, StepOf
<1>10. ASSUME NEW p \in Procs, Die(p) PROVE FileInv'
  <2>1. pc'[p] \notin Writing /\ \A q \in Procs : q # p => fd'[q] = fd[q]
    BY <1>10, <1>t DEF Die, Writing
  <2>. QED
    BY <1>0, <1>10, <2>1 DEF Die, StepOf
<1>11. CASE UNCHANGED vars
  BY <1>11, <1>i DEF vars, FileInv, OneWriter, FileOf
<1>. QED
  BY <1>1, <1>2, <1>3, <1>4, <1>5, <1>6, <1>7, <1>8, <1>9, <1>10, <1>11 DEF Next

(***************************************************************************)
(* Who asks.  What an ask has in its view is what it unlocked.             *)
(***************************************************************************)
AskOf(p) ==
    cmd[p].kind = "ask" =>
        /\ pc[p] \in {"new", "unlock"} => known[p] = Absent
        /\ pc[p] = "change" =>
              \/ known[p] = Absent /\ view[p] = [pw |-> key[p], data |-> Nothing]
              \/ known[p] \in Blobs /\ known[p].pw = key[p] /\ view[p] = known[p]

AskInv == (\A p \in Procs : AskOf(p)) /\ AbsenceIsReal

LEMMA AskInit == Init => AskInv
  BY DEF Init, AskInv, AskOf, AbsenceIsReal

\* AbsenceIsReal, for one process.
AnswerOf(p) ==
    cmd[p].kind = "ask" =>
        /\ pc[p] = "missing" => \/ known[p] = Absent
                                \/ known[p] \in Blobs /\ known[p].data[cmd[p].name] = Absent
        /\ pc[p] = "found" => /\ known[p].pw = key[p]
                              /\ known[p].data[cmd[p].name] = view[p].data[cmd[p].name]

LEMMA AskStep == TypeInv /\ FileInv /\ AskInv /\ [Next]_vars => AskInv'
<1>. SUFFICES ASSUME TypeOK, Shape, FileInv, AskInv, [Next]_vars, NEW q \in Procs
              PROVE  AskOf(q)' /\ (~collided' => AnswerOf(q)')
  BY DEF TypeInv, AskInv, AbsenceIsReal, AnswerOf
<1>. USE DEF files, legacy, history, Goto
<1>t. /\ DOMAIN pc = Procs /\ DOMAIN view = Procs /\ DOMAIN known = Procs
  BY DEF TypeOK
<1>f. cmd' = cmd /\ key' = key
  BY TextFixed
<1>c. ~collided' => ~collided
  BY DEF Next, vars, Begin, NoStore, Unlock, Get, Lines, Change, Open, Write, Replace, Retire, Die
<1>i. AskOf(q) /\ (~collided => AnswerOf(q) /\ store \notin {Empty, Garbled})
  BY DEF AskInv, AbsenceIsReal, AnswerOf, FileInv
<1>. DEFINE Goal == AskOf(q)' /\ (~collided' => AnswerOf(q)')
<1>0. ASSUME Stays(q) PROVE Goal
  BY <1>0, <1>c, <1>f, <1>i DEF Stays, AskOf, AnswerOf
<1>a. ASSUME cmd[q].kind # "ask" PROVE Goal
  BY <1>a, <1>f DEF AskOf, AnswerOf
<1>1. CASE Begin(q)
  <2>1. known' = known /\ pc[q] = "new" /\ pc'[q] \in {"done", "missing", "unlock"}
    BY <1>1, <1>t DEF Begin, NoStore
  <2>. QED
    BY <1>f, <1>i, <2>1 DEF AskOf, AnswerOf
<1>2. CASE Unlock(q) /\ cmd[q].kind = "ask"
  <2>1. known'[q] = store
    BY <1>2, <1>t DEF Unlock
  <2>2. CASE store = Absent \/ (store \in Blobs /\ store.pw = key[q])
    <3>1. /\ view'[q] = IF store = Absent THEN [pw |-> key[q], data |-> Nothing] ELSE store
          /\ pc'[q] = "change"
      BY <1>2, <1>t, <2>2 DEF Unlock
    <3>. QED
      BY <1>f, <2>1, <2>2, <3>1 DEF AskOf, AnswerOf
  <2>3. CASE ~(store = Absent \/ (store \in Blobs /\ store.pw = key[q]))
    <3>1. pc'[q] = Refused(q)
      BY <1>2, <1>t, <2>3 DEF Unlock
    <3>2. ~collided' => pc'[q] = "failed"
      BY <1>c, <1>i, <3>1 DEF Refused
    <3>3. pc'[q] \in {"missing", "failed"}
      BY <3>1 DEF Refused
    <3>. QED
      BY <1>f, <3>2, <3>3 DEF AskOf, AnswerOf
  <2>. QED
    BY <2>2, <2>3
<1>3. CASE Get(q)
  <2>1. /\ pc[q] = "change" /\ cmd[q].kind = "ask" /\ known' = known /\ view' = view
        /\ pc'[q] = IF view[q].data[cmd[q].name] = Absent THEN "missing" ELSE "found"
    BY <1>3, <1>t DEF Get
  <2>2. cmd[q].name \in Names
    BY <2>1, CommandTyped
  <2>3. view[q] = [pw |-> key[q], data |-> Nothing] => view[q].data[cmd[q].name] = Absent
    BY <2>2 DEF Nothing
  <2>. QED
    BY <1>f, <1>i, <2>1, <2>3 DEF AskOf, AnswerOf
<1>4. CASE Lines(q) \/ Retire(q)
  BY <1>4, <1>a DEF Lines, Retire, Shape, ShapeOf
<1>5. CASE Change(q)
  BY <1>5, <1>a DEF Change
<1>6. CASE Open(q) \/ Write(q) \/ Replace(q)
  BY <1>6, <1>a DEF Open, Write, Replace, Shape, ShapeOf, Alters, Busy, Writing
<1>7. CASE Die(q)
  <2>1. pc'[q] = "failed"
    BY <1>7, <1>t DEF Die
  <2>. QED
    BY <2>1 DEF AskOf, AnswerOf
<1>8. CASE UNCHANGED vars
  BY <1>0, <1>8 DEF vars, Stays
<1>. QED
  <2>1. ASSUME NEW p \in Procs, StepOf(p), p # q PROVE Stays(q)
    BY <2>1, OthersStay
  <2>. QED
    BY <1>0, <1>1, <1>2, <1>3, <1>4, <1>5, <1>6, <1>7, <1>8, <1>a, <2>1 DEF Next, StepOf

-----------------------------------------------------------------------------
(***************************************************************************)
(* Commands one after the other.  The one that is under way has in its     *)
(* view what it started from, then what the ledger is to become; the store *)
(* is the ledger, for the rename that puts the view in place is the moment *)
(* at which the change takes effect.  A migration that is to retire the    *)
(* .env finds every line of it in the store.                               *)
(***************************************************************************)
Imported == store # Absent /\ \A n \in Names : Text[n] # Absent => store.data[n] = Text[n]

SerialOf(p) ==
    Alters(p) =>
        /\ pc[p] = "lines" \/ (pc[p] = "change" /\ cmd[p].kind # "migrate")
             => view[p] = Base(p)
        /\ pc[p] \in {"open", "opened", "written"} \/ (pc[p] = "change" /\ cmd[p].kind = "migrate")
             => view[p] = Meant(p)
        /\ pc[p] = "retire" => Imported

Sole ==
    \A p, q \in Procs :
        pc[p] \in Busy /\ pc[q] \in Busy /\ Alters(p) /\ Alters(q) => p = q

SerialInv ==
    ~overlap => /\ ~collided
                /\ Sole
                /\ store = ledger
                /\ \A p \in Procs : SerialOf(p)
                /\ backup # Absent => store # Absent

\* MigrationKeeps, for one name.
Accepted(n) ==
    \/ store.data[n] = backup[n]
    \/ \E p \in Procs : pc[p] = "done" /\ cmd[p].kind \in {"set", "rm"} /\ cmd[p].name = n

LEMMA SerialInit == Init => SerialInv /\ MigrationKeeps
  BY DEF Init, SerialInv, Sole, SerialOf, MigrationKeeps, Busy, Writing

LEMMA BaseTyped ==
    ASSUME TypeOK, NEW p \in Procs PROVE Base(p) \in Blobs
  BY CommandTyped, EmptyTyped DEF TypeOK, Base

\* The import of the lines a migration has done, as one blob.
LEMMA MeantMigration ==
    ASSUME TypeOK, NEW p \in Procs, cmd[p].kind = "migrate"
    PROVE  Meant(p) = [pw |-> Base(p).pw,
                       data |-> [n \in Names |-> IF Text[n] # Absent /\ n \notin todo[p]
                                                 THEN Text[n] ELSE Base(p).data[n]]]
<1>. DEFINE b == Base(p)
<1>1. b \in Blobs
  BY BaseTyped
<1>2. Meant(p) = [b EXCEPT !.data = [n \in Names |->
                    IF Text[n] # Absent /\ n \notin todo[p] THEN Text[n] ELSE b.data[n]]]
  BY DEF Meant, Base
<1>. HIDE DEF b
<1>3. Meant(p) = [pw |-> b.pw, data |-> [n \in Names |->
                    IF Text[n] # Absent /\ n \notin todo[p] THEN Text[n] ELSE b.data[n]]]
  BY <1>1, <1>2 DEF Blobs
<1>. QED
  BY <1>3 DEF b

\* The same fact about the state after a step.
LEMMA MeantMigrationNext ==
    ASSUME TypeOK', NEW p \in Procs, cmd'[p].kind = "migrate"
    PROVE  Meant(p)' = [pw |-> Base(p)'.pw,
                        data |-> [n \in Names |-> IF Text'[n] # Absent /\ n \notin todo'[p]
                                                  THEN Text'[n] ELSE Base(p)'.data[n]]]
<1>1. (TypeOK /\ cmd[p].kind = "migrate" =>
         Meant(p) = [pw |-> Base(p).pw,
                     data |-> [n \in Names |-> IF Text[n] # Absent /\ n \notin todo[p]
                                               THEN Text[n] ELSE Base(p).data[n]]])'
  BY MeantMigration, PTL
<1>. QED
  BY <1>1

LEMMA MeantOther ==
    ASSUME TypeOK, NEW p \in Procs
    PROVE  /\ cmd[p].kind = "set"    => Meant(p) = With(Base(p), cmd[p].name, cmd[p].value)
           /\ cmd[p].kind = "rm"     => Meant(p) = With(Base(p), cmd[p].name, Absent)
           /\ cmd[p].kind = "rotate" => Meant(p) = Rekeyed(Base(p), cmd[p].to)
<1>1. ASSUME cmd[p].kind = "set" PROVE Meant(p) = With(Base(p), cmd[p].name, cmd[p].value)
  BY <1>1 DEF Meant, Base, With
<1>2. ASSUME cmd[p].kind = "rm" PROVE Meant(p) = With(Base(p), cmd[p].name, Absent)
  BY <1>2 DEF Meant, Base, With
<1>3. ASSUME cmd[p].kind = "rotate" PROVE Meant(p) = Rekeyed(Base(p), cmd[p].to)
  BY <1>3 DEF Meant, Base, Rekeyed
<1>. QED
  BY <1>1, <1>2, <1>3

\* What a command is about changes with its own lines and with the ledger alone.
LEMMA MeantFixed ==
    ASSUME [Next]_vars, ledger' = ledger, NEW q \in Procs
    PROVE  /\ Base(q)' = Base(q)
           /\ todo'[q] = todo[q] => Meant(q)' = Meant(q)
<1>1. Text' = Text /\ cmd' = cmd /\ key' = key
  BY TextFixed
<1>2. Base(q)' = Base(q)
  BY <1>1 DEF Base
<1>3. ASSUME todo'[q] = todo[q] PROVE Meant(q)' = Meant(q)
  BY <1>1, <1>3 DEF Meant
<1>. QED
  BY <1>2, <1>3

\* A step that leaves the store, the ledger and the set-aside file alone.
LEMMA SerialQuiet ==
    ASSUME TypeOK, [Next]_vars, ~overlap, SerialInv, MigrationKeeps,
           NEW p \in Procs, StepOf(p),
           UNCHANGED <<store, ledger, backup>>, ~collided',
           pc'[p] \in Busy /\ Alters(p) => pc[p] \in Busy,
           SerialOf(p)', pc[p] # "done"
    PROVE  SerialInv' /\ MigrationKeeps'
<1>f. Text' = Text /\ cmd' = cmd /\ key' = key
  BY TextFixed
<1>1. \A q \in Procs : q # p => Stays(q)
  BY OthersStay
<1>2. Sole'
  BY <1>1, <1>f DEF Sole, SerialInv, Stays, Alters
<1>3. ASSUME NEW q \in Procs, q # p PROVE SerialOf(q)'
  <2>1. Stays(q) /\ SerialOf(q)
    BY <1>1, <1>3 DEF SerialInv
  <2>2. Base(q)' = Base(q) /\ Meant(q)' = Meant(q)
    BY <2>1, MeantFixed DEF Stays
  <2>3. Imported' <=> Imported
    BY <1>f DEF Imported
  <2>. QED
    BY <1>f, <2>1, <2>2, <2>3 DEF SerialOf, Stays, Alters
<1>4. MigrationKeeps'
  <2>. SUFFICES ASSUME backup # Absent, NEW n \in Names, backup[n] # Absent PROVE Accepted(n)'
    BY DEF MigrationKeeps, Accepted
  <2>1. Accepted(n)
    BY DEF MigrationKeeps, Accepted
  <2>. QED
    BY <1>1, <1>f, <2>1 DEF Accepted, Stays
<1>. QED
  BY <1>2, <1>3, <1>4 DEF SerialInv

LEMMA SerialStep ==
    TypeInv /\ FileInv /\ SerialInv /\ MigrationKeeps /\ [Next]_vars
      => (SerialInv /\ MigrationKeeps)'
<1>. SUFFICES ASSUME TypeOK, Shape, OneName, FileInv, SerialInv, MigrationKeeps,
                     [Next]_vars, ~overlap'
              PROVE  SerialInv' /\ MigrationKeeps'
  BY DEF TypeInv, SerialInv, MigrationKeeps
<1>. USE DEF files, legacy, history, Goto
<1>t. /\ DOMAIN pc = Procs /\ DOMAIN view = Procs /\ DOMAIN todo = Procs
      /\ todo \in [Procs -> SUBSET Names]
  BY DEF TypeOK
<1>f. Text' = Text /\ cmd' = cmd /\ key' = key
  BY TextFixed
<1>c. ~overlap
  BY DEF Next, vars, Begin, NoStore, Unlock, Get, Lines, Change, Open, Write, Replace, Retire, Die
<1>i. /\ ~collided /\ Sole /\ store = ledger
      /\ \A p \in Procs : SerialOf(p)
      /\ backup # Absent => store # Absent
  BY <1>c DEF SerialInv
<1>0. ASSUME NEW p \in Procs, StepOf(p), UNCHANGED <<store, ledger, backup>>, ~collided',
             pc'[p] \in Busy /\ Alters(p) => pc[p] \in Busy,
             SerialOf(p)', pc[p] # "done"
      PROVE  SerialInv' /\ MigrationKeeps'
  BY <1>0, <1>c, SerialQuiet
<1>1. ASSUME NEW p \in Procs, Begin(p) \/ Get(p) \/ Die(p) PROVE SerialInv' /\ MigrationKeeps'
  <2>1. pc'[p] \notin Busy /\ pc[p] # "done"
    BY <1>1, <1>t DEF Begin, NoStore, Get, Die, Busy, Writing, Ended
  <2>2. SerialOf(p)'
    BY <2>1 DEF SerialOf, Busy, Writing
  <2>. QED
    BY <1>0, <1>1, <1>i, <2>1, <2>2 DEF Begin, NoStore, Get, Die, StepOf
<1>2. ASSUME NEW p \in Procs, Unlock(p) PROVE SerialInv' /\ MigrationKeeps'
  <2>0. pc[p] = "unlock" /\ UNCHANGED <<store, ledger, backup, collided>>
    BY <1>2 DEF Unlock
  <2>1. CASE store = Absent \/ (store \in Blobs /\ store.pw = key[p])
    <3>1. /\ view'[p] = IF store = Absent THEN [pw |-> key[p], data |-> Nothing] ELSE store
          /\ pc'[p] = IF cmd[p].kind = "migrate" THEN "lines" ELSE "change"
          /\ Alters(p) => \A q \in Procs : pc[q] \notin Busy
      BY <1>2, <1>t, <2>1 DEF Unlock, Alters
    <3>2. view'[p] = Base(p)' /\ pc'[p] \in {"lines", "change"}
      BY <1>f, <1>i, <2>0, <3>1 DEF Base
    <3>3. SerialOf(p)'
      BY <1>f, <3>1, <3>2 DEF SerialOf
    <3>4. CASE ~Alters(p)
      BY <1>0, <1>2, <1>i, <2>0, <3>3, <3>4 DEF StepOf
    <3>5. CASE Alters(p)
      <4>1. \A q \in Procs : q # p => Stays(q) /\ pc[q] \notin Busy
        BY <1>2, <3>1, <3>5, OthersStay DEF StepOf
      <4>2. Sole' /\ \A q \in Procs : SerialOf(q)'
        BY <3>3, <4>1 DEF Sole, SerialOf, Stays, Busy, Writing
      <4>3. MigrationKeeps'
        <5>. SUFFICES ASSUME backup # Absent, NEW n \in Names, backup[n] # Absent PROVE Accepted(n)'
          BY <2>0, <1>2 DEF MigrationKeeps, Accepted, Unlock
        <5>1. Accepted(n)
          BY <1>c DEF MigrationKeeps, Accepted
        <5>. QED
          BY <1>2, <1>f, <2>0, <4>1, <5>1 DEF Accepted, Stays
      <4>. QED
        BY <1>2, <1>i, <2>0, <4>2, <4>3 DEF SerialInv
    <3>. QED
      BY <3>4, <3>5
  <2>2. CASE ~(store = Absent \/ (store \in Blobs /\ store.pw = key[p]))
    <3>1. pc'[p] \in {"missing", "failed"}
      BY <1>2, <1>t, <2>2 DEF Unlock, Refused
    <3>2. SerialOf(p)' /\ pc'[p] \notin Busy
      BY <3>1 DEF SerialOf, Busy, Writing
    <3>. QED
      BY <1>0, <1>2, <1>i, <2>0, <3>2 DEF StepOf
  <2>. QED
    BY <2>1, <2>2
<1>3. ASSUME NEW p \in Procs, Lines(p) PROVE SerialInv' /\ MigrationKeeps'
  <2>0. /\ pc[p] = "lines" /\ UNCHANGED <<view, store, ledger, backup, collided>>
        /\ cmd[p].kind = "migrate" /\ Alters(p) /\ pc[p] \in Busy
    BY <1>3 DEF Lines, Shape, ShapeOf, Alters, Busy
  <2>1. view[p] = Base(p) /\ Base(p) \in Blobs
    BY <1>i, <2>0, BaseTyped DEF SerialOf
  <2>2. SerialOf(p)'
    <3>1. CASE env = Absent
      <4>1. pc'[p] = "failed"
        BY <1>3, <1>t, <3>1 DEF Lines
      <4>. QED
        BY <4>1 DEF SerialOf
    <3>2. CASE env # Absent
      <4>1. /\ todo'[p] = {n \in Names : env[n] # Absent}
            /\ pc'[p] \in {"done", "change"}
        BY <1>3, <1>t, <3>2 DEF Lines
      <4>2. \A n \in Names : ~(Text[n] # Absent /\ n \notin todo'[p])
        BY <3>2, <4>1 DEF Text
      <4>3. Meant(p)' = [pw |-> Base(p).pw, data |-> [n \in Names |-> Base(p).data[n]]]
        <5>1. TypeOK'
          BY TypeStep DEF TypeInv
        <5>2. Base(p)' = Base(p)
          BY <2>0, MeantFixed
        <5>. QED
          BY <1>f, <2>0, <4>2, <5>1, <5>2, MeantMigrationNext
      <4>4. Meant(p)' = Base(p)
        BY <2>1, <4>3 DEF Blobs, Secrets
      <4>. QED
        BY <1>f, <2>0, <2>1, <4>1, <4>4 DEF SerialOf
    <3>. QED
      BY <3>1, <3>2
  <2>. QED
    BY <1>0, <1>3, <1>i, <2>0, <2>2 DEF StepOf
<1>4. ASSUME NEW p \in Procs, Change(p) PROVE SerialInv' /\ MigrationKeeps'
  <2>0. /\ pc[p] = "change" /\ UNCHANGED <<store, ledger, backup, collided>>
        /\ cmd[p].kind \in {"set", "rm", "rotate", "migrate"} /\ Alters(p)
    BY <1>4 DEF Change, Alters
  <2>1. view[p] \in Blobs /\ pc[p] \in Busy
    BY <2>0 DEF Shape, ShapeOf, Busy
  <2>2. Base(p)' = Base(p) /\ Base(p) \in Blobs /\ TypeOK'
    BY <2>0, MeantFixed, BaseTyped, TypeStep DEF TypeInv
  <2>3. pc'[p] \in {"open", "failed"}
    BY <1>4, <1>t DEF Change
  <2>4. pc'[p] = "open" => view'[p] = Meant(p)'
    <3>1. CASE cmd[p].kind # "migrate"
      <4>1. view[p] = Base(p) /\ todo'[p] = todo[p]
        BY <1>4, <1>i, <2>0, <3>1 DEF SerialOf, Change
      <4>2. Meant(p)' = Meant(p)
        BY <2>0, <4>1, MeantFixed
      <4>3. \/ cmd[p].kind = "set" /\ view'[p] = With(view[p], cmd[p].name, cmd[p].value)
            \/ cmd[p].kind = "rm" /\ view'[p] = With(view[p], cmd[p].name, Absent)
            \/ cmd[p].kind = "rotate" /\ view'[p] = Rekeyed(view[p], cmd[p].to)
        BY <1>4, <1>t, <3>1 DEF Change
      <4>. QED
        BY <4>1, <4>2, <4>3, MeantOther
    <3>2. CASE cmd[p].kind = "migrate"
      <4>1. PICK n \in todo[p] : /\ view' = [view EXCEPT ![p] = With(view[p], n, Text[n])]
                                 /\ todo' = [todo EXCEPT ![p] = todo[p] \ {n}]
        BY <1>4, <3>2 DEF Change
      <4>2. n \in Names /\ Text[n] \in Entries /\ Text[n] # Absent
        BY <1>t, TextTyped DEF Shape, ShapeOf
      <4>3. view[p] = Meant(p)
        BY <1>i, <2>0, <3>2 DEF SerialOf
      <4>4. /\ view'[p] = [pw |-> view[p].pw, data |-> [view[p].data EXCEPT ![n] = Text[n]]]
            /\ todo'[p] = todo[p] \ {n}
        BY <1>t, <2>1, <4>1, <4>2, WithTyped
      <4>5. Meant(p) = [pw |-> Base(p).pw,
                        data |-> [m \in Names |-> IF Text[m] # Absent /\ m \notin todo[p]
                                                  THEN Text[m] ELSE Base(p).data[m]]]
        BY <3>2, MeantMigration
      <4>6. Meant(p)' = [pw |-> Base(p).pw,
                         data |-> [m \in Names |-> IF Text[m] # Absent /\ m \notin todo'[p]
                                                   THEN Text[m] ELSE Base(p).data[m]]]
        BY <1>f, <2>2, <3>2, MeantMigrationNext
      <4>7. [m \in Names |-> IF Text[m] # Absent /\ m \notin todo'[p]
                             THEN Text[m] ELSE Base(p).data[m]]
              = [[m \in Names |-> IF Text[m] # Absent /\ m \notin todo[p]
                                  THEN Text[m] ELSE Base(p).data[m]] EXCEPT ![n] = Text[n]]
        BY <4>2, <4>4
      <4>. QED
        BY <4>3, <4>4, <4>5, <4>6, <4>7
    <3>. QED
      BY <3>1, <3>2
  <2>5. SerialOf(p)'
    BY <2>3, <2>4 DEF SerialOf
  <2>. QED
    BY <1>0, <1>4, <1>i, <2>0, <2>1, <2>5 DEF StepOf
<1>5. ASSUME NEW p \in Procs, Open(p) PROVE SerialInv' /\ MigrationKeeps'
  <2>0. /\ pc[p] = "open" /\ UNCHANGED <<view, todo, store, ledger, backup>>
        /\ pc[p] \in Busy /\ Alters(p) /\ pc'[p] = "opened"
        /\ collided' = (collided \/ \E q \in Procs : pc[q] \in Writing)
    BY <1>5, <1>t DEF Open, Shape, ShapeOf, Busy
  <2>1. \A q \in Procs : pc[q] \notin Writing
    <3>. SUFFICES ASSUME NEW q \in Procs, pc[q] \in Writing PROVE FALSE
      OBVIOUS
    <3>1. pc[q] \in Busy /\ Alters(q)
      BY DEF Shape, ShapeOf, Busy, Writing
    <3>. QED
      BY <1>i, <2>0, <3>1 DEF Sole, Writing
  <2>2. Meant(p)' = Meant(p) /\ view[p] = Meant(p)
    BY <1>i, <2>0, MeantFixed DEF SerialOf
  <2>3. SerialOf(p)'
    BY <2>0, <2>2 DEF SerialOf
  <2>. QED
    BY <1>0, <1>5, <1>i, <2>0, <2>1, <2>3 DEF StepOf
<1>6. ASSUME NEW p \in Procs, Write(p) PROVE SerialInv' /\ MigrationKeeps'
  <2>0. /\ pc[p] = "opened" /\ UNCHANGED <<view, todo, ledger, backup, collided>>
        /\ pc[p] \in Busy /\ pc'[p] \in {"written", "failed"}
    BY <1>6, <1>t DEF Write, Busy, Writing
  <2>1. store' = store
    BY <1>6, <1>i, <2>0 DEF Write, FileInv, FileOf
  <2>2. Meant(p)' = Meant(p)
    BY <2>0, MeantFixed
  <2>3. SerialOf(p)'
    BY <1>f, <1>i, <2>0, <2>2 DEF SerialOf, Alters
  <2>. QED
    BY <1>0, <1>6, <1>i, <2>0, <2>1, <2>3 DEF StepOf
<1>7. ASSUME NEW p \in Procs, Replace(p) PROVE SerialInv' /\ MigrationKeeps'
  <2>0. /\ pc[p] = "written" /\ UNCHANGED <<view, todo, env, backup, collided>>
        /\ pc[p] \in Busy /\ Alters(p)
    BY <1>7 DEF Replace, Shape, ShapeOf, Busy, Writing
  <2>1. tmp = view[p] /\ view[p] = Meant(p) /\ view[p] \in Blobs
    BY <1>i, <2>0 DEF FileInv, FileOf, SerialOf, Shape, ShapeOf
  <2>2. /\ store' = Meant(p) /\ ledger' = Meant(p)
        /\ pc' = [pc EXCEPT ![p] = Onward(p)]
    BY <1>7, <2>1, NotABlob DEF Replace
  <2>3. pc'[p] = Onward(p)
    BY <1>t, <2>2
  <2>4. \A q \in Procs : q # p => Stays(q) /\ (pc[q] \in Busy => ~Alters(q))
    BY <1>7, <1>i, <2>0, OthersStay DEF StepOf, Sole
  <2>5. cmd[p].kind \in {"set", "rm", "rotate", "migrate"} /\ Base(p) \in Blobs
    BY <2>0, CommandTyped, BaseTyped DEF Alters
  <2>6. cmd[p].kind = "migrate" =>
          /\ Meant(p).data = [n \in Names |-> IF Text[n] # Absent /\ n \notin todo[p]
                                              THEN Text[n] ELSE Base(p).data[n]]
          /\ Meant(p)' = Meant(p)
    <3>. SUFFICES ASSUME cmd[p].kind = "migrate"
                  PROVE  /\ Meant(p).data = [n \in Names |-> IF Text[n] # Absent /\ n \notin todo[p]
                                              THEN Text[n] ELSE Base(p).data[n]]
                         /\ Meant(p)' = Meant(p)
      OBVIOUS
    <3>. DEFINE d == [n \in Names |-> IF Text[n] # Absent /\ n \notin todo[p]
                                      THEN Text[n] ELSE Base(p).data[n]]
    <3>1. Meant(p) = [pw |-> Base(p).pw, data |-> d]
      BY MeantMigration
    <3>2. Base(p)' = Meant(p)
      BY <2>1, <2>2, NotABlob DEF Base
    <3>3. TypeOK'
      BY TypeStep DEF TypeInv
    <3>4. Meant(p)' = [pw |-> Base(p)'.pw,
                       data |-> [n \in Names |-> IF Text[n] # Absent /\ n \notin todo[p]
                                                 THEN Text[n] ELSE Base(p)'.data[n]]]
      BY <1>f, <2>0, <3>3, MeantMigrationNext
    <3>5. [n \in Names |-> IF Text[n] # Absent /\ n \notin todo[p] THEN Text[n] ELSE d[n]] = d
      OBVIOUS
    <3>. HIDE DEF d
    <3>6. Meant(p)' = [pw |-> Base(p).pw, data |-> d]
      BY <3>1, <3>2, <3>4, <3>5
    <3>. QED
      BY <3>1, <3>6 DEF d
  <2>7. SerialOf(p)'
    <3>1. CASE cmd[p].kind # "migrate"
      BY <2>3, <3>1 DEF SerialOf, Onward
    <3>2. CASE cmd[p].kind = "migrate" /\ todo[p] # {}
      BY <1>f, <2>0, <2>1, <2>3, <2>6, <3>2 DEF SerialOf, Onward
    <3>3. CASE cmd[p].kind = "migrate" /\ todo[p] = {}
      <4>1. pc'[p] = "retire"
        BY <2>3, <3>3 DEF Onward
      <4>2. \A n \in Names : Text[n] # Absent => store'.data[n] = Text[n]
        BY <2>2, <2>6, <3>3
      <4>3. store' # Absent
        BY <2>1, <2>2, NotABlob
      <4>. QED
        BY <1>f, <4>1, <4>2, <4>3 DEF SerialOf, Imported
    <3>. QED
      BY <3>1, <3>2, <3>3
  <2>8. SerialInv'
    <3>1. Sole'
      BY <1>f, <2>0, <2>4 DEF Sole, Stays, Alters
    <3>2. \A q \in Procs : q # p => SerialOf(q)'
      BY <1>f, <2>4 DEF SerialOf, Stays, Alters, Busy, Writing
    <3>3. store' # Absent
      BY <2>1, <2>2, NotABlob
    <3>. QED
      BY <1>i, <2>0, <2>2, <2>7, <3>1, <3>2, <3>3 DEF SerialInv
  <2>9. MigrationKeeps'
    <3>. SUFFICES ASSUME backup # Absent, NEW n \in Names, backup[n] # Absent PROVE Accepted(n)'
      BY <2>0 DEF MigrationKeeps, Accepted
    <3>1. Accepted(n)
      BY <1>c DEF MigrationKeeps, Accepted
    <3>2. CASE \E q \in Procs : pc[q] = "done" /\ cmd[q].kind \in {"set", "rm"} /\ cmd[q].name = n
      BY <1>f, <2>0, <2>4, <3>2 DEF Accepted, Stays
    <3>3. CASE store.data[n] = backup[n]
      <4>1. Base(p) = store
        BY <1>i DEF Base
      <4>2. CASE cmd[p].kind = "migrate"
        <5>1. Text[n] = backup[n]
          BY DEF Text, OneName
        <5>. QED
          BY <2>0, <2>2, <2>6, <3>3, <4>1, <4>2, <5>1 DEF Accepted
      <4>3. CASE cmd[p].kind = "rotate"
        <5>1. store'.data[n] = store.data[n]
          BY <2>2, <2>5, <4>1, <4>3, CommandTyped, MeantOther, RekeyedTyped
        <5>. QED
          BY <2>0, <3>3, <5>1 DEF Accepted
      <4>4. CASE cmd[p].kind \in {"set", "rm"}
        <5>1. pc'[p] = "done"
          BY <2>3, <4>4 DEF Onward
        <5>2. CASE cmd[p].name = n
          BY <1>f, <4>4, <5>1, <5>2 DEF Accepted
        <5>3. CASE cmd[p].name # n
          <6>1. store'.data[n] = store.data[n]
            <7>1. PICK v \in Entries : Meant(p) = With(Base(p), cmd[p].name, v)
              BY <4>4, CommandTyped, MeantOther DEF Entries
            <7>2. With(Base(p), cmd[p].name, v).data = [Base(p).data EXCEPT ![cmd[p].name] = v]
              BY <2>5, <4>4, CommandTyped, WithTyped
            <7>3. Base(p).data \in Secrets
              BY <2>5 DEF Blobs
            <7>. QED
              BY <2>2, <4>1, <5>3, <7>1, <7>2, <7>3 DEF Secrets
          <6>. QED
            BY <2>0, <3>3, <6>1 DEF Accepted
        <5>. QED
          BY <5>2, <5>3
      <4>. QED
        BY <2>5, <4>2, <4>3, <4>4
    <3>. QED
      BY <3>1, <3>2, <3>3 DEF Accepted
  <2>. QED
    BY <2>8, <2>9
<1>8. ASSUME NEW p \in Procs, Retire(p) PROVE SerialInv' /\ MigrationKeeps'
  <2>0. /\ pc[p] = "retire" /\ UNCHANGED <<view, todo, store, ledger, collided>>
        /\ pc'[p] \in {"failed", "done"} /\ pc[p] \in Busy /\ Alters(p)
    BY <1>8, <1>t DEF Retire, Busy, Shape, ShapeOf
  <2>1. SerialOf(p)'
    BY <2>0 DEF SerialOf
  <2>2. CASE env = Absent
    BY <1>0, <1>8, <1>i, <2>0, <2>1, <2>2 DEF Retire, StepOf
  <2>3. CASE env # Absent
    <3>1. backup' = Text /\ Imported
      BY <1>8, <1>i, <2>0, <2>3 DEF Retire, Text, SerialOf
    <3>2. MigrationKeeps'
      BY <2>0, <3>1 DEF MigrationKeeps, Imported
    <3>3. \A q \in Procs : q # p => Stays(q) /\ (pc[q] \in Busy => ~Alters(q))
      BY <1>8, <1>i, <2>0, OthersStay DEF StepOf, Sole
    <3>4. Sole' /\ \A q \in Procs : SerialOf(q)'
      BY <1>f, <2>0, <2>1, <3>3 DEF Sole, SerialOf, Stays, Alters, Busy, Writing
    <3>. QED
      BY <1>i, <2>0, <3>1, <3>2, <3>4 DEF SerialInv, Imported
  <2>. QED
    BY <2>2, <2>3
<1>9. CASE UNCHANGED vars
  <2>1. SerialInv'
    <3>1. \A q \in Procs : Base(q)' = Base(q) /\ Meant(q)' = Meant(q)
      BY <1>9, MeantFixed DEF vars
    <3>. QED
      BY <1>9, <1>f, <1>i, <3>1 DEF vars, SerialInv, Sole, SerialOf, Imported, Alters
  <2>2. MigrationKeeps'
    BY <1>9 DEF vars, MigrationKeeps
  <2>. QED
    BY <2>1, <2>2
<1>. QED
  BY <1>1, <1>2, <1>3, <1>4, <1>5, <1>6, <1>7, <1>8, <1>9 DEF Next

(***************************************************************************)
(* The theorems.                                                           *)
(***************************************************************************)
StoreInv == FileInv /\ SerialInv /\ MigrationKeeps /\ AskInv

LEMMA StoreInvariant == Spec => []StoreInv
<1>1. Init => StoreInv
  BY FileInit, SerialInit, AskInit DEF StoreInv
<1>2. TypeInv /\ StoreInv /\ [Next]_vars => StoreInv'
  BY FileStep, SerialStep, AskStep DEF StoreInv
<1>. QED
  BY <1>1, <1>2, TypeInvariant, PTL DEF Spec

\* Every change is in the store in full or not at all, under the latest master
\* password, for every number of processes, names and commands, as long as the
\* commands run one after the other; and the store is whole as long as no two have
\* the temporary file in hand at once (secretstore.py:191-240).
THEOREM StoreExact == Spec => []StoreIsLedger
<1>1. StoreInv => StoreIsLedger
  BY DEF StoreInv, FileInv, SerialInv, StoreIsLedger
<1>. QED
  BY <1>1, StoreInvariant, PTL

\* The .env is set aside only when each of its secrets is in the store, wherever a
\* migration was cut short before (secretstore.py:277-307).
THEOREM MigrationLosesNothing == Spec => []MigrationKeeps
<1>1. StoreInv => MigrationKeeps
  BY DEF StoreInv
<1>. QED
  BY <1>1, StoreInvariant, PTL

\* Neither a wrong master password nor a store being written passes for a missing
\* secret (config.py:46-58).
THEOREM AnswersReal == Spec => []AbsenceIsReal
<1>1. StoreInv => AbsenceIsReal
  BY DEF StoreInv, AskInv
<1>. QED
  BY <1>1, StoreInvariant, PTL

==============================================================================
