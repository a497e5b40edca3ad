------------------------------ MODULE UndoTokens ------------------------------
(***************************************************************************)
(* Undo tokens: the store of governance/undo.py and the executor           *)
(* undo_apply of mcp_server/tools/undo.py, run by several callers at once  *)
(* (MCP server threads, and CLI processes that share undo.db), together    *)
(* with the exit status cli/undo.py gives an apply.                        *)
(*                                                                         *)
(* An apply reads the token's row, decides, calls the inverse tool, and    *)
(* only then marks the row.  Nothing ties the read to the mark.            *)
(* The inverse tool is itself governed; here it is one step with the       *)
(* outcomes GovernedCall gives it.  The token the inverse records in its   *)
(* turn is one more Record.                                                *)
(***************************************************************************)
EXTENDS Naturals

CONSTANTS
    Tokens,
    Applies,        \* calls of undo_apply
    Targets,        \* VBR servers in config.yaml
    Replayable,     \* tokens with readable parameters and a registered tool
    ConfigChanges,  \* may the default target change between calls?
    None

ASSUME UndoAssumption ==
    /\ Replayable \subseteq Tokens
    /\ ConfigChanges \in BOOLEAN
    /\ Targets # {}
    /\ None \notin Targets \cup Tokens

VARIABLES
    status,   \* status[k]: the row's status, "absent" before the token exists
    orig,     \* orig[k]: the target in orig_params, None if the write named none
    ran,      \* ran[k]: the server the original write changed
    default,  \* the first target of the configuration
    pc,       \* where apply a is
    tok,      \* tok[a]: the token a applies
    asked,    \* asked[a]: the target the caller of a names for the inverse, or None
    ended,    \* how a ended
    exit,     \* the exit status a CLI command gives for it
    landings, \* inverses that took effect: [by, on]
    seen      \* seen[a]: the applies that were over when a read its row

vars == <<status, orig, ran, default, pc, tok, asked, ended, exit, landings, seen>>

Optional(S) == S \cup {None}

Landed(k) == {l \in landings : tok[l.by] = k}

Init ==
    /\ status = [k \in Tokens |-> "absent"]
    /\ orig = [k \in Tokens |-> None]
    /\ ran = [k \in Tokens |-> None]
    /\ default \in Targets
    /\ pc = [a \in Applies |-> "new"]
    /\ tok = [a \in Applies |-> None]
    /\ asked = [a \in Applies |-> None]
    /\ ended = [a \in Applies |-> "no"]
    /\ exit = [a \in Applies |-> None]
    /\ landings = {}
    /\ seen = [a \in Applies |-> {}]

-----------------------------------------------------------------------------
(* The store                                                               *)

\* record(): a write ran on the target it named or on the default one, and its
\* parameters are stored with the inverse.
Record(k) ==
    /\ status[k] = "absent"
    /\ status' = [status EXCEPT ![k] = "recorded"]
    /\ \E named \in Optional(Targets) :
          /\ orig' = [orig EXCEPT ![k] = named]
          /\ ran' = [ran EXCEPT ![k] = IF named = None THEN default ELSE named]
    /\ UNCHANGED <<default, pc, tok, asked, ended, exit, landings, seen>>

\* The operator edits config.yaml, and the next process reads it.
Reconfigure ==
    /\ ConfigChanges
    /\ default' \in Targets
    /\ UNCHANGED <<status, orig, ran, pc, tok, asked, ended, exit, landings, seen>>

-----------------------------------------------------------------------------
(* undo_apply                                                              *)

\* Apply a ends in the given way, with the given CLI exit status.
End(a, how, code) ==
    /\ pc' = [pc EXCEPT ![a] = "done"]
    /\ ended' = [ended EXCEPT ![a] = how]
    /\ exit' = [exit EXCEPT ![a] = code]

\* Fault: the row's status is not looked at.
AppliesToAnyStatus(k) == status[k] # "absent" /\ k \in Replayable

\* The checks between store.get() and the call of the inverse.
MayApply(k) == status[k] = "recorded" /\ k \in Replayable

\* The row is read and every check made on what was read: the apply is
\* refused, previewed, or goes on to call the inverse.
Fetch(a) ==
    /\ pc[a] = "new"
    /\ \E k \in Tokens :
          /\ tok' = [tok EXCEPT ![a] = k]
          /\ \/ ~MayApply(k) /\ End(a, "refused", 1) /\ UNCHANGED asked
             \/ MayApply(k) /\ End(a, "previewed", 0) /\ UNCHANGED asked
             \/ /\ MayApply(k)
                /\ \E t \in Optional(Targets) : asked' = [asked EXCEPT ![a] = t]
                /\ pc' = [pc EXCEPT ![a] = "dispatch"]
                /\ UNCHANGED <<ended, exit>>
    /\ seen' = [seen EXCEPT ![a] = {b \in Applies : pc[b] = "done"}]
    /\ UNCHANGED <<status, orig, ran, default, landings>>

\* The server the inverse runs on: the caller's target, else the original
\* write's, else whatever is the default now.
Destination(a) ==
    IF asked[a] # None THEN asked[a]
    ELSE IF orig[tok[a]] # None THEN orig[tok[a]]
    ELSE default

Lands(a) == landings' = landings \cup {[by |-> a, on |-> Destination(a)]}

\* The inverse tool returns normally: its change is live.
InverseOk(a) ==
    /\ pc[a] = "dispatch"
    /\ Lands(a)
    /\ pc' = [pc EXCEPT ![a] = "mark"]
    /\ UNCHANGED <<status, orig, ran, default, tok, asked, ended, exit, seen>>

\* Fault: the token is marked whatever the inverse answered.
InverseErrorMarks(a) ==
    /\ pc[a] = "dispatch"
    /\ \/ UNCHANGED landings
       \/ Lands(a)
    /\ pc' = [pc EXCEPT ![a] = "mark"]
    /\ UNCHANGED <<status, orig, ran, default, tok, asked, ended, exit, seen>>

\* The inverse tool returns an error payload, because it was refused or because
\* its response was lost.  undo_apply answers {"applied": False} without an
\* error of its own, and the command prints it and exits 0.
InverseError(a) ==
    /\ pc[a] = "dispatch"
    /\ \/ UNCHANGED landings
       \/ Lands(a)
    /\ End(a, "failed", 0)
    /\ UNCHANGED <<status, orig, ran, default, tok, asked, seen>>

\* The inverse tool raises out of its own wrapper: its budget stopped it or its
\* intent could not be committed, or, after the change, its finalization was
\* lost.  tool_errors of undo_apply makes an error payload of the exception.
InverseRaises(a) ==
    /\ pc[a] = "dispatch"
    /\ \/ UNCHANGED landings
       \/ Lands(a)
    /\ End(a, "failed", 1)
    /\ UNCHANGED <<status, orig, ran, default, tok, asked, seen>>

\* mark(): an unconditional UPDATE, and the apply reports success.
Mark(a) ==
    /\ pc[a] = "mark"
    /\ status' = [status EXCEPT ![tok[a]] = "applied"]
    /\ End(a, "applied", 0)
    /\ UNCHANGED <<orig, ran, default, tok, asked, landings, seen>>

\* The store is locked or gone: the exception is flattened, the row unchanged.
MarkFails(a) ==
    /\ pc[a] = "mark"
    /\ End(a, "failed", 1)
    /\ UNCHANGED <<status, orig, ran, default, tok, asked, landings, seen>>

\* The process dies inside the inverse, its change made or not, or before the
\* mark.
Crash(a) ==
    /\ pc[a] \in {"dispatch", "mark"}
    /\ \/ UNCHANGED landings
       \/ pc[a] = "dispatch" /\ Lands(a)
    /\ End(a, "died", None)
    /\ UNCHANGED <<status, orig, ran, default, tok, asked, seen>>

-----------------------------------------------------------------------------

Apply(a) ==
    \/ Fetch(a) \/ InverseOk(a) \/ InverseError(a) \/ InverseRaises(a)
    \/ Mark(a) \/ MarkFails(a) \/ Crash(a)

Next ==
    \/ \E k \in Tokens : Record(k)
    \/ Reconfigure
    \/ \E a \in Applies : Apply(a)

Spec == Init /\ [][Next]_vars

-----------------------------------------------------------------------------
(* Properties                                                              *)

Ways == {"no", "refused", "previewed", "failed", "applied", "died"}

TypeOK ==
    /\ status \in [Tokens -> {"absent", "recorded", "applied"}]
    /\ orig \in [Tokens -> Optional(Targets)]
    /\ ran \in [Tokens -> Optional(Targets)]
    /\ default \in Targets
    /\ pc \in [Applies -> {"new", "dispatch", "mark", "done"}]
    /\ tok \in [Applies -> Optional(Tokens)]
    /\ asked \in [Applies -> Optional(Targets)]
    /\ ended \in [Applies -> Ways]
    /\ exit \in [Applies -> {0, 1, None}]
    /\ landings \subseteq [by : Applies, on : Targets]
    /\ seen \in [Applies -> SUBSET Applies]

\* Whether an inverse whose caller named no target ran on the server that the original
\* write named.
OnNamed(l) == asked[l.by] = None /\ orig[tok[l.by]] # None => l.on = ran[tok[l.by]]

\* A token is used up only by an inverse that took effect, and on the server that its
\* write changed, whatever the default has become by then: a change that was not
\* reversed stays reversible (tools/undo.py:94-107, 182-194).
AppliedMeansLanded ==
    \A k \in Tokens : status[k] = "applied" => \E l \in Landed(k) : OnNamed(l)

\* A token applied twice is explained by two applies that overlapped or by one
\* whose landing was never marked: an apply that reads its row after another one
\* reported success changes nothing (tools/undo.py:139-142, undo.py:196-208).
LateApplyRefused ==
    \A l, m \in landings :
        /\ tok[l.by] = tok[m.by]
        /\ l.by \in seen[m.by]
        => ended[l.by] # "applied"

\* "A token can only be applied once" (tools/undo.py:128): no two applies of a
\* token both report success.
AppliedOnce ==
    \A a, b \in Applies :
        ended[a] = "applied" /\ ended[b] = "applied" /\ tok[a] = tok[b] => a = b

\* "CLI writes now exit non-zero on a governed error" (CHANGELOG.md:374): an
\* apply that exits 0 and was no preview applied its inverse.
ExitTruth ==
    \A a \in Applies : exit[a] = 0 => ended[a] \in {"applied", "previewed"}

=============================================================================
