----------------------------- MODULE MC_UndoTokens -----------------------------
(* Small instances of UndoTokens and of JobUndo.                           *)
EXTENDS JobUndo, TLC

CONSTANTS k1, k2, a1, a2, v1, v2

RunTools    == {"job_retry", "job_stop"}
EnableTools == {"job_enable", "job_disable"}
RunJobs     == [running : BOOLEAN, enabled : {TRUE}]
EnableJobs  == [running : {FALSE}, enabled : BOOLEAN]
Symmetry    == Permutations(Tokens) \cup Permutations(Applies) \cup Permutations(Targets)
OneToken    == {k1}
TwoTokens   == {k1, k2}
TwoApplies  == {a1, a2}
TwoTargets  == {v1, v2}
OneTarget   == {v1}

=============================================================================
