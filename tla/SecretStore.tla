----------------------------- MODULE SecretStore -----------------------------
(***************************************************************************)
(* The encrypted secret store of veeam_aiops/secretstore.py and the        *)
(* commands of cli/secret.py, each run once by a process of its own, next  *)
(* to processes that ask for a secret (config.py, _resolve_secret).        *)
(*                                                                         *)
(* A command unlocks the store into a view of its own, changes the view    *)
(* and writes the whole of it back: the temporary file, one for all        *)
(* processes, is opened (and emptied), written and renamed over the store. *)
(* As on POSIX an open file stays the same file whatever becomes of its    *)
(* name: fd[p] says where the file is that p has open.                     *)
(*                                                                         *)
(* A blob is a record [pw, data] that opens with pw; salt and cipher are   *)
(* left out.  A process may die before any step.                           *)
(***************************************************************************)
EXTENDS Naturals

CONSTANTS
    Procs,
    Names,        \* targets a password is stored for
    Values,
    Passwords,    \* master passwords
    Commands,     \* the commands the processes may run
    Initially,    \* the stores there may be at the start
    Legacies,     \* the plaintext .env files there may be at the start
    Absent,       \* no such value, no such file
    Empty,        \* a file just opened for writing
    Garbled       \* a file with part of a blob, or with parts of two

Secrets == [Names -> Values \cup {Absent}]
Blobs   == [pw : Passwords, data : Secrets]
Nothing == [n \in Names |-> Absent]
Contents == Blobs \cup {Absent, Empty, Garbled}

CommandOK(c) ==
    \/ c.kind = "set" /\ c.name \in Names /\ c.value \in Values
    \/ c.kind \in {"rm", "ask"} /\ c.name \in Names
    \/ c.kind = "rotate" /\ c.to \in Passwords
    \/ c.kind = "migrate"

ASSUME SecretAssumption ==
    /\ \A c \in Commands : CommandOK(c)
    /\ Initially \subseteq Blobs \cup {Absent}
    /\ Legacies \subseteq Secrets \cup {Absent}
    /\ {Absent, Empty, Garbled} \cap (Values \cup Blobs \cup Secrets) = {}
    /\ Absent # Empty /\ Absent # Garbled /\ Empty # Garbled

VARIABLES
    cmd,       \* cmd[p]: the command p runs
    key,       \* key[p]: the master password p was given
    pc,
    view,      \* view[p]: what p unlocked, then what it is to write
    todo,      \* todo[p]: names a migration still has to import
    fd,        \* fd[p]: "closed", or the place of the file p is writing
    store,     \* secrets.enc
    tmp,       \* secrets.enc.tmp
    env,       \* .env
    backup,    \* .env.migrated
    ledger,    \* history: the store if every command had changed it at once
    known,     \* history: known[p]: the store file when an ask p unlocked it
    overlap,   \* history: were two commands ever under way at once?
    collided   \* history: did two ever have the temporary file in hand at once?

vars == <<cmd, key, pc, view, todo, fd, store, tmp, env, backup, ledger, known,
          overlap, collided>>
files   == <<fd, store, tmp>>
legacy  == <<env, backup>>
history == <<ledger, known, overlap, collided>>

Writing == {"opened", "written"}
Busy    == {"lines", "change", "open", "retire"} \cup Writing
Ended   == {"done", "failed", "found", "missing"}

Init ==
    /\ cmd \in [Procs -> Commands]
    /\ key \in [Procs -> Passwords]
    /\ pc = [p \in Procs |-> "new"]
    /\ view = [p \in Procs |-> Absent]
    /\ todo = [p \in Procs |-> {}]
    /\ fd = [p \in Procs |-> "closed"]
    /\ store \in Initially
    /\ tmp = Absent
    /\ env \in Legacies
    /\ backup = Absent
    /\ ledger = store
    /\ known = [p \in Procs |-> Absent]
    /\ overlap = FALSE
    /\ collided = FALSE

Goto(p, phase) == pc' = [pc EXCEPT ![p] = phase]

-----------------------------------------------------------------------------
(* Unlocking                                                               *)

\* has_store(), with which an ask begins.
NoStore(p) == cmd[p].kind = "ask" /\ store = Absent

\* The first look at the files: a migration without a .env is over, and so is the
\* use of the store by an ask where there is none.
Begin(p) ==
    /\ pc[p] = "new"
    /\ Goto(p, CASE cmd[p].kind = "migrate" /\ env = Absent -> "done"
                 [] NoStore(p)                              -> "missing"
                 [] OTHER -> "unlock")
    /\ UNCHANGED <<cmd, key, view, todo, files, legacy, history>>

\* Fault: a wrong master password is caught with the other failures.
RefusedCaught(p) == IF cmd[p].kind = "ask" THEN "missing" ELSE "failed"

\* What a failed unlock() ends in.  To an ask a wrong master password is raised;
\* after any other failure it turns to the environment, as if nothing were stored.
Refused(p) ==
    IF cmd[p].kind = "ask" /\ store \in {Empty, Garbled} THEN "missing" ELSE "failed"

\* SecretStore.unlock(): the store as it is now, or an empty one under p's password.
Unlock(p) ==
    /\ pc[p] = "unlock"
    /\ known' = IF cmd[p].kind = "ask" THEN [known EXCEPT ![p] = store] ELSE known
    /\ IF store = Absent \/ (store \in Blobs /\ store.pw = key[p])
         THEN /\ view' = [view EXCEPT ![p] =
                            IF store = Absent THEN [pw |-> key[p], data |-> Nothing] ELSE store]
              /\ Goto(p, IF cmd[p].kind = "migrate" THEN "lines" ELSE "change")
              /\ overlap' = (overlap \/ (cmd[p].kind # "ask" /\ \E q \in Procs : pc[q] \in Busy))
         ELSE Goto(p, Refused(p)) /\ UNCHANGED <<view, overlap>>
    /\ UNCHANGED <<cmd, key, todo, files, legacy, ledger, collided>>

\* get().  The view is cached for the life of the process: one answer stands for all
\* the later ones.
Get(p) ==
    /\ pc[p] = "change" /\ cmd[p].kind = "ask"
    /\ Goto(p, IF view[p].data[cmd[p].name] = Absent THEN "missing" ELSE "found")
    /\ UNCHANGED <<cmd, key, view, todo, files, legacy, history>>

\* The lines of the .env: a migration has them in memory when another one has set
\* the file aside.
Text == IF env # Absent THEN env ELSE backup

\* migrate_legacy_env() reads the lines, unless the file has gone meanwhile.
Lines(p) ==
    /\ pc[p] = "lines"
    /\ IF env = Absent
         THEN Goto(p, "failed") /\ UNCHANGED todo
         ELSE /\ todo' = [todo EXCEPT ![p] = {n \in Names : env[n] # Absent}]
              /\ Goto(p, IF todo'[p] = {} THEN "done" ELSE "change")
    /\ UNCHANGED <<cmd, key, view, files, legacy, history>>

-----------------------------------------------------------------------------
(* Changing the view and writing it back                                   *)

With(blob, n, v) == [blob EXCEPT !.data[n] = v]

\* Fault: a rotation writes back an empty map under the new password.
RekeyedBare(blob, pw) == [pw |-> pw, data |-> Nothing]

Rekeyed(blob, pw) == [blob EXCEPT !.pw = pw]

\* set(), delete() or with_password() on the view.  rm of a name that is not there
\* fails; a migration goes through the lines one by one.
Change(p) ==
    /\ pc[p] = "change"
    /\ LET c == cmd[p] IN
       \/ /\ c.kind = "set"
          /\ view' = [view EXCEPT ![p] = With(@, c.name, c.value)]
          /\ Goto(p, "open") /\ UNCHANGED todo
       \/ /\ c.kind = "rm"
          /\ view' = [view EXCEPT ![p] = With(@, c.name, Absent)]
          /\ Goto(p, IF view[p].data[c.name] = Absent THEN "failed" ELSE "open")
          /\ UNCHANGED todo
       \/ /\ c.kind = "rotate"
          /\ view' = [view EXCEPT ![p] = Rekeyed(@, c.to)]
          /\ Goto(p, "open") /\ UNCHANGED todo
       \/ /\ c.kind = "migrate"
          /\ \E n \in todo[p] :
                /\ view' = [view EXCEPT ![p] = With(@, n, Text[n])]
                /\ todo' = [todo EXCEPT ![p] = @ \ {n}]
          /\ Goto(p, "open")
    /\ UNCHANGED <<cmd, key, files, legacy, history>>

\* Fault: the store itself is opened for writing.
OpenInPlace(p) ==
    /\ pc[p] = "open"
    /\ store' = Empty
    /\ fd' = [fd EXCEPT ![p] = "store"]
    /\ Goto(p, "opened")
    /\ UNCHANGED <<cmd, key, view, todo, tmp, legacy, history>>

\* _persist() opens the temporary file, which empties it.
Open(p) ==
    /\ pc[p] = "open"
    /\ tmp' = Empty
    /\ fd' = [fd EXCEPT ![p] = "tmp"]
    /\ collided' = (collided \/ \E q \in Procs : pc[q] \in Writing)
    /\ Goto(p, "opened")
    /\ UNCHANGED <<cmd, key, view, todo, store, legacy, ledger, known, overlap>>

\* What a file may hold after blob is written to it: of a longer blob that another
\* process wrote meanwhile the end remains.
After(file, blob) == IF file = Empty THEN {blob} ELSE {blob, Garbled}

\* The text is in the file and the file closed; or the disk is full, part of the
\* text is there and the command fails.
Write(p) ==
    /\ pc[p] = "opened"
    /\ \E ok \in BOOLEAN :
        LET outcome(file) == IF ok THEN After(file, view[p]) ELSE {Garbled}
        IN  /\ store' \in IF fd[p] = "store" THEN outcome(store) ELSE {store}
            /\ tmp' \in IF fd[p] = "tmp" THEN outcome(tmp) ELSE {tmp}
            /\ Goto(p, IF ok THEN "written" ELSE "failed")
    /\ fd' = [fd EXCEPT ![p] = "closed"]
    /\ UNCHANGED <<cmd, key, view, todo, legacy, history>>

\* History: what the ledger becomes when p's change takes effect.
Meant(p) ==
    LET base == IF ledger = Absent THEN [pw |-> key[p], data |-> Nothing] ELSE ledger
        c    == cmd[p]
    IN  CASE c.kind = "rotate"  -> [base EXCEPT !.pw = c.to]
          [] c.kind = "set"     -> [base EXCEPT !.data[c.name] = c.value]
          [] c.kind = "rm"      -> [base EXCEPT !.data[c.name] = Absent]
          [] c.kind = "migrate" -> [base EXCEPT !.data = [n \in Names |->
                                      IF Text[n] # Absent /\ n \notin todo[p] THEN Text[n] ELSE @[n]]]

\* Where an open file is once the temporary file has the name of the store.
Moved(place) ==
    CASE place = "tmp"   -> "store"
      [] place = "store" -> "gone"
      [] OTHER           -> place

\* Where a command goes after its change is in the store.
\* Fault: a migration is over after its first secret.
OnwardOnce(p) == IF cmd[p].kind = "migrate" THEN "retire" ELSE "done"

Onward(p) ==
    IF cmd[p].kind # "migrate" THEN "done"
    ELSE IF todo[p] # {} THEN "change" ELSE "retire"

\* tmp.replace(SECRETS_FILE): the temporary file, whoever wrote it, is the store; if
\* it is there no more, the command fails.
Replace(p) ==
    /\ pc[p] = "written"
    /\ IF tmp = Absent
         THEN Goto(p, "failed") /\ UNCHANGED <<store, tmp, fd, ledger>>
         ELSE /\ store' = tmp
              /\ tmp' = Absent
              /\ fd' = [q \in Procs |-> Moved(fd[q])]
              /\ ledger' = Meant(p)
              /\ Goto(p, Onward(p))
    /\ UNCHANGED <<cmd, key, view, todo, legacy, known, overlap, collided>>

\* The .env gets its new name, if it still has the old one.
Retire(p) ==
    /\ pc[p] = "retire"
    /\ IF env = Absent
         THEN Goto(p, "failed") /\ UNCHANGED legacy
         ELSE env' = Absent /\ backup' = env /\ Goto(p, "done")
    /\ UNCHANGED <<cmd, key, view, todo, files, history>>

\* The process is killed, gets no password at the prompt, or two that differ.
Die(p) ==
    /\ pc[p] \notin Ended
    /\ Goto(p, "failed")
    /\ view' = [view EXCEPT ![p] = Absent]
    /\ todo' = [todo EXCEPT ![p] = {}]
    /\ fd' = [fd EXCEPT ![p] = "closed"]
    /\ UNCHANGED <<cmd, key, store, tmp, legacy, history>>

-----------------------------------------------------------------------------

Next ==
    \E p \in Procs :
        \/ Begin(p) \/ Unlock(p) \/ Get(p) \/ Lines(p) \/ Change(p)
        \/ Open(p) \/ Write(p) \/ Replace(p) \/ Retire(p) \/ Die(p)

Spec == Init /\ [][Next]_vars

-----------------------------------------------------------------------------
(* Properties                                                              *)

TypeOK ==
    /\ cmd \in [Procs -> Commands]
    /\ key \in [Procs -> Passwords]
    /\ pc \in [Procs -> {"new", "unlock"} \cup Busy \cup Ended]
    /\ view \in [Procs -> Blobs \cup {Absent}]
    /\ todo \in [Procs -> SUBSET Names]
    /\ fd \in [Procs -> {"closed", "tmp", "store", "gone"}]
    /\ store \in Contents /\ tmp \in Contents
    /\ env \in Secrets \cup {Absent} /\ backup \in Secrets \cup {Absent}
    /\ ledger \in Blobs \cup {Absent}
    /\ known \in [Procs -> Contents]
    /\ overlap \in BOOLEAN /\ collided \in BOOLEAN

\* As long as commands run one after the other, the store is at every moment exactly
\* what they made of it, under the latest master password: each change is there in
\* full or not at all, however its command ended (secretstore.py:194-235).  Even where
\* they overlap the store is whole, unless two had the temporary file in hand at once.
StoreIsLedger ==
    /\ ~overlap => store = ledger
    /\ ~collided => store \notin {Empty, Garbled}

\* "so nothing is silently lost" (secretstore.py:284): the .env is set aside only
\* when each of its secrets is in the store, and none is missing there but by a set or rm
\* of the name, whenever it ran.
MigrationKeeps ==
    backup # Absent /\ ~overlap =>
        \A n \in Names : backup[n] # Absent =>
            \/ store.data[n] = backup[n]
            \/ \E p \in Procs : pc[p] = "done" /\ cmd[p].kind \in {"set", "rm"} /\ cmd[p].name = n

\* An ask turns to the environment only if the store that it unlocked had no secret of
\* the name, and otherwise gets that one: neither a wrong master password nor a store
\* being written passes for a missing secret (config.py:46-58).
AbsenceIsReal ==
    ~collided => \A p \in Procs : cmd[p].kind = "ask" =>
        /\ pc[p] = "missing" => \/ known[p] = Absent
                                \/ known[p] \in Blobs /\ known[p].data[cmd[p].name] = Absent
        /\ pc[p] = "found" => /\ known[p].pw = key[p]
                              /\ known[p].data[cmd[p].name] = view[p].data[cmd[p].name]

=============================================================================
