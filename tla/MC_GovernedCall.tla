---------------------------- MODULE MC_GovernedCall ----------------------------
(* Small instances of GovernedCall.                                        *)
EXTENDS GovernedCall, TLC

CONSTANTS t1, t2, c1, c2

OneThread  == {t1}
TwoThreads == {t1, t2}
TwoCalls   == {c1, c2}
Sequential == c1 :> t1 @@ c2 :> t1
Parallel   == c1 :> t1 @@ c2 :> t2

Kind(w, d, u, l) == [writes |-> w, dry |-> d, undo |-> u, list |-> l]

ListTool     == Kind(FALSE, FALSE, FALSE, TRUE)   \* job_list
GetTool      == Kind(FALSE, FALSE, FALSE, FALSE)  \* job_get
PreviewTool  == Kind(TRUE, TRUE, TRUE, FALSE)     \* job_stop(dry_run=True)
UndoableTool == Kind(TRUE, FALSE, TRUE, FALSE)    \* job_stop
StopTool     == Kind(TRUE, FALSE, FALSE, FALSE)   \* session_stop, which has no undo

MixedTools == {UndoableTool, StopTool, PreviewTool, GetTool, ListTool}
ListOnly   == {ListTool}
Undoables  == {UndoableTool}

=============================================================================
