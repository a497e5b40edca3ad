---------------------------- MODULE MC_TokenRenewal ----------------------------
(* A small instance of TokenRenewal.                                       *)
EXTENDS TokenRenewal

CONSTANTS t1, t2, t3

ThreeThreads == {t1, t2, t3}
Sometimes    == BOOLEAN

=============================================================================
