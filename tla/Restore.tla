-------------------------------- MODULE Restore --------------------------------
(***************************************************************************)
(* VM restores of veeam_aiops/ops/restore.py next to the session reads of  *)
(* Sessions: the dry run, the confirmations of the command and the start,  *)
(* which reads the point again and posts.  The restore then runs as a      *)
(* session.                                                                *)
(*                                                                         *)
(* Between any two steps the machine of a point may get another display    *)
(* name.  Names are compared without case and blanks around them.          *)
(***************************************************************************)
EXTENDS Sessions

CONSTANTS
    Names,        \* display names
    Host, Short,  \* the configured host, and its first label
    Blank,        \* no name
    Unread        \* a point that could not be read

ASSUME RestoreAssumption ==
    /\ Host \in Names /\ Short \in Names
    /\ Blank \notin Names /\ Unread \notin Names \cup {Blank}

VARIABLES
    name,        \* the display name of the machine of the restore point
    stage,       \* where the restore is
    preview,     \* [read, ack, verdict] of the last dry run
    start,       \* [read, ack, verdict] of the start
    named        \* history: names that the machine had since the start was called

restoreVars == <<name, stage, preview, start, named>>
vars        == <<sessionVars, restoreVars>>

NoCall == [read |-> Unread, ack |-> FALSE, verdict |-> "none"]

RestoreInit ==
    /\ name \in Names \cup {Blank}
    /\ stage = "idle"
    /\ preview = NoCall /\ start = NoCall
    /\ named = {}

-----------------------------------------------------------------------------
(* The guard                                                               *)

\* _self_host_names()
\* Fault: only the host as it is configured.
HostOnly == {Host}

SelfHostNames == {Host, Short}

\* _resolve_restore_point(): the name, or Unread.
Resolved == {name, Unread}

\* _refuse_if_unresolved(), then _refuse_if_self_restore().
Verdict(read, ack) ==
    CASE read = Unread /\ ~ack   -> "unresolved"
      [] read \in SelfHostNames -> "self"
      [] OTHER                  -> "go"

Judgement(read, ack) == [read |-> read, ack |-> ack, verdict |-> Verdict(read, ack)]

\* Fault: the dry run shows the name and leaves it to the reader.
PreviewShown(read, ack) ==
    [read |-> read, ack |-> ack, verdict |-> IF read = Unread /\ ~ack THEN "unresolved" ELSE "go"]

\* preview_vm_restore()
Previewed(read, ack) == Judgement(read, ack)

Preview ==
    /\ stage = "idle"
    /\ \E read \in Resolved, ack \in BOOLEAN : preview' = Previewed(read, ack)
    /\ UNCHANGED <<sessionVars, name, stage, start, named>>

\* The command asks twice before it calls the tool.
Ask ==
    /\ \/ stage = "idle" /\ stage' \in {"asked once", "declined"}
       \/ stage = "asked once" /\ stage' \in {"asked twice", "declined"}
    /\ UNCHANGED <<sessionVars, name, preview, start, named>>

\* The tool itself does not ask.
Call ==
    /\ stage \in {"idle", "asked twice"}
    /\ stage' = "called"
    /\ named' = {name}
    /\ UNCHANGED <<sessionVars, name, preview, start>>

\* start_vm_restore() up to the request.
Judged ==
    /\ stage = "called"
    /\ \E read \in Resolved, ack \in BOOLEAN :
        /\ start' = Judgement(read, ack)
        /\ stage' = IF Verdict(read, ack) = "go" THEN "judged" ELSE "refused"
    /\ UNCHANGED <<sessionVars, name, preview, named>>

\* The request: a session begins, or the server refuses; or a session begins and the
\* response is lost.
Post ==
    /\ stage = "judged"
    /\ \/ /\ Tick
          /\ \E s \in Ids : Begin(s)
          /\ stage' \in {"posted", "failed"}
          /\ UNCHANGED <<vbr, callVars>>
       \/ stage' = "failed" /\ UNCHANGED sessionVars
    /\ UNCHANGED <<name, preview, start, named>>

\* The call is over and what it knew is forgotten.
Return ==
    /\ stage \in {"declined", "refused", "posted", "failed"}
    /\ stage' = "over"
    /\ name' = Blank /\ preview' = NoCall /\ start' = NoCall /\ named' = {}
    /\ UNCHANGED sessionVars

\* The machine gets another name.
Rename ==
    /\ Tick
    /\ stage # "over"
    /\ name' \in Names \ {name}
    /\ named' = IF stage \in {"called", "judged"} THEN named \cup {name'} ELSE named
    /\ UNCHANGED <<vbr, at, result, created, callVars, slipped, stage, preview, start>>

-----------------------------------------------------------------------------

RestoreNext == Preview \/ Ask \/ Call \/ Judged \/ Post \/ Return \/ Rename

\* A caller makes one call after the other: the sessions are read when the restore,
\* if there was one, is over.
Init == SessionsInit /\ RestoreInit
Next ==
    \/ SessionsChange /\ UNCHANGED restoreVars
    \/ SessionsRead /\ stage = "over" /\ UNCHANGED restoreVars
    \/ RestoreNext

Spec == Init /\ [][Next]_vars

-----------------------------------------------------------------------------
(* Properties                                                              *)

States == Active \cup {"absent", "Stopped"}
Results == {"None", "Success", "Failed"}
SessionRows == [id : Ids, state : States, result : Results]
Findings == [id : Ids, cause : Causes \cup {"unclassified"}, log : SUBSET Causes]
Calls == [read : Names \cup {Blank, Unread}, ack : BOOLEAN, verdict : {"none", "unresolved", "self", "go"}]

ServerTypes ==
    /\ vbr \in [filters : BOOLEAN, totals : BOOLEAN, fits : BOOLEAN]
    /\ at \in [Ids -> States] /\ result \in [Ids -> Results]
    /\ created \in Seq(Ids) /\ moves \in 0..MaxMoves
    /\ slipped \subseteq Ids

ReadTypes ==
    /\ task \in {"none", "overview", "rca"}
    /\ step \in {"idle", "active", "logs", "done", "failed"}
    /\ window \in Seq(SessionRows) /\ truncated \in BOOLEAN
    /\ asked \in 0..Len(ActiveStates) /\ (step \in {"idle", "active"} => asked < Len(ActiveStates))
    /\ found \subseteq Ids /\ errors \subseteq Active /\ ignored \in BOOLEAN
    /\ index \subseteq Findings
    /\ unreadable \subseteq Ids /\ incomplete \subseteq Ids
    /\ hidden \subseteq Ids

RestoreTypes ==
    /\ name \in Names \cup {Blank} /\ named \subseteq Names \cup {Blank}
    /\ stage \in {"idle", "asked once", "asked twice", "declined", "called", "judged",
                  "refused", "posted", "failed", "over"}
    /\ preview \in Calls /\ start \in Calls

TypeOK == ServerTypes /\ ReadTypes /\ RestoreTypes

\* No restore is asked for, whatever becomes of the answer, over a machine that had one of
\* the names of the VBR server all the while from the call to the request, unless its name
\* could not be read and the operator accepted that (restore.py:233-248).
NeverOverItself ==
    stage \in {"posted", "failed"} /\ named \subseteq {Host, Short} => start.read = Unread /\ start.ack

\* "a dry-run never green-lights a restore the real call will reject"
\* (restore.py:22-23): the start refuses after a dry run that did not only if the name
\* has changed, the point cannot be read now, or the risk is not accepted any more.
PreviewAgrees ==
    preview.verdict = "go" /\ stage = "refused" =>
        \/ preview.read # start.read
        \/ preview.ack /\ ~start.ack

=============================================================================
