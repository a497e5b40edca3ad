------------------------------- MODULE MC_Budget -------------------------------
(* A small instance of Budget.                                             *)
EXTENDS Budget, TLC

CONSTANTS t1, t2, f1, f2

TwoThreads == {t1, t2}
TwoCalls   == {f1, f2}
Ceilings   == {2, 3}
Symmetry   == Permutations(TwoThreads) \cup Permutations(TwoCalls)

=============================================================================
