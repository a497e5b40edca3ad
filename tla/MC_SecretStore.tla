---------------------------- MODULE MC_SecretStore ----------------------------
(* A small instance of SecretStore.                                        *)
EXTENDS SecretStore, TLC

CONSTANTS p1, p2, p3, vbr1, vbr2, old, new, k1, k2, NoFile

ThreeProcs   == {p1, p2, p3}
TwoNames     == {vbr1, vbr2}
OldAndNew    == {old, new}
TwoPasswords == {k1, k2}

AllCommands ==
    {[kind |-> "set", name |-> vbr1, value |-> new],
     [kind |-> "rm", name |-> vbr1],
     [kind |-> "ask", name |-> vbr1],
     [kind |-> "rotate", to |-> k2],
     [kind |-> "migrate"]}

\* No store yet, or one that holds the older password of one server.
NoneOrOne == {NoFile, [pw |-> k1, data |-> (vbr1 :> old @@ vbr2 :> NoFile)]}

\* A .env with the passwords of both.
Both == {[n \in TwoNames |-> old]}

Symmetry == Permutations(ThreeProcs)

=============================================================================
