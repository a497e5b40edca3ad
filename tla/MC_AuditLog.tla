----------------------------- MODULE MC_AuditLog -----------------------------
(* A small instance of AuditLog: two writing threads in one process beside *)
(* a writer in another.  A refused write appends the plain row of a read.  *)
EXTENDS AuditLog, TLC

CONSTANTS p1, p2, w1, w2, w3

TwoProcs    == {p1, p2}
NoCalls     == {}
ThreeWrites == {w1, w2, w3}
Threads     == w1 :> p1 @@ w2 :> p1 @@ w3 :> p2
AllOutcomes == {"ok", "error", "unknown"}

=============================================================================
